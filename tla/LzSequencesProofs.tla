------------------------- MODULE LzSequencesProofs -------------------------
(***************************************************************************)
(* Proofs about LzSequences, for all calls, tokens and bounds: copying a   *)
(* match in doubling pieces repeats it element by element, and no match    *)
(* reaches what was decoded before the node or past what was reserved.     *)
(*                                                                         *)
(* The inductive invariant is LzInv.  While a match longer than its offset *)
(* is copied, it keeps Periodic: the last `offset` elements equal those    *)
(* before the match.  That is what makes the next doubling continue the    *)
(* repetition, whatever the offset is.                                     *)
(*                                                                         *)
(* The second part shows that a call decodes what its tokens define.       *)
(* Meant relates every state to DefinedBy: between tokens the output is    *)
(* what the tokens read so far define, in a token what those before it do, *)
(* with its literals and a part of its match.  Repeat and DefinedBy are    *)
(* folds; RepeatFolds and ReadingFolds turn them into folds by a function, *)
(* so that the lemmas of DataInduction apply.                              *)
(***************************************************************************)
EXTENDS LzSequences, DataInduction

-----------------------------------------------------------------------------
(* Facts about sequences.                                                  *)

(* Appending a sequence leaves what was there in its place.                *)
LEMMA Appended ==
  ASSUME NEW S, NEW s \in Seq(S), NEW t \in Seq(S)
  PROVE  /\ s \o t \in Seq(S) /\ Len(s \o t) = Len(s) + Len(t)
         /\ \A i \in 1 .. Len(s) : (s \o t)[i] = s[i]
         /\ \A i \in 1 .. Len(t) : (s \o t)[Len(s) + i] = t[i]
<1>1. /\ s \o t \in Seq(S) /\ Len(s \o t) = Len(s) + Len(t)
      /\ \A i \in 1 .. Len(s) + Len(t) : (s \o t)[i] =
           IF i <= Len(s) THEN s[i] ELSE t[i - Len(s)]
  BY ConcatProperties
<1>2. Len(s) \in Nat /\ Len(t) \in Nat
  BY LenProperties
<1> QED
  BY <1>1, <1>2

(* Larger and Smaller pick one of two numbers, in order.                   *)
LEMMA Ordered ==
  ASSUME NEW a \in Nat, NEW b \in Nat
  PROVE  /\ Larger(a, b) \in Nat /\ Larger(a, b) >= a /\ Larger(a, b) >= b
         /\ b <= a => Larger(a, b) = a
         /\ Smaller(a, b) \in Nat /\ Smaller(a, b) <= a /\ Smaller(a, b) <= b
         /\ Smaller(a, b) \in {a, b}
BY DEF Larger, Smaller
-----------------------------------------------------------------------------
(* The inductive invariant.                                                *)

(* While a match is copied: it does not reach before the node, fits the    *)
(* declared size, and repeats so far with a whole offset at its end.       *)
Periodic ==
  phase = "copy" =>
    /\ cur.off >= 1 /\ cur.off <= start - job.base /\ cur.off <= copied
    /\ start + cur.mat <= Limit
    /\ \A j \in 1 .. cur.off : out[start + copied - cur.off + j] = out[start - cur.off + j]

(* The reserve holds from the beginning to the end.                        *)
Reserved ==
  /\ phase = "begin" => start = Len(out) /\ cap = job.cap
  /\ phase # "done" => result = "none"
  /\ job.kind # "field" /\ phase \notin {"begin", "done"} => cap = Larger(job.cap, Limit)

LzInv ==
  /\ TypeOK /\ NothingFromBefore /\ MatchRepeats /\ ReservesOnce
  /\ Periodic /\ Reserved

(* The fields of the call and of a token.                                  *)
LEMMA JobFacts ==
  ASSUME job \in Jobs
  PROVE  /\ job \in Job /\ job.kind \in Kinds /\ job.base \in Nat /\ job.cap \in Nat
         /\ job.size \in Nat /\ job.lits \in Nat /\ job.base <= job.cap
         /\ Limit \in Nat /\ Tokens[job.kind] \subseteq Token
BY JobAssumption DEF Job, Limit

(* An output is a sequence whose length is a natural number.               *)
LEMMA OutFacts ==
  ASSUME TypeOK
  PROVE  /\ out \in Seq(Nat) /\ Len(out) \in Nat
         /\ \A i \in 1 .. Len(out) : out[i] \in Nat
BY ElementOfSeq DEF TypeOK

(* What a token says is a sequence of natural numbers, and repeat offsets  *)
(* stay natural numbers.                                                   *)
LEMMA TokenFacts ==
  ASSUME TypeOK, NEW t \in Token
  PROVE  /\ LitLen(t) \in Nat /\ MatLen(t) \in Nat /\ OffsetOf(t) \in Nat
         /\ RepsAfter(t) \in Nat \X Nat \X Nat
<1>1. /\ t.code \in 0 .. 3 /\ t.lit \in Nat /\ t.mat \in Nat /\ t.raw \in Nat
      /\ t.xlit \in Nat /\ t.xmat \in Nat
  BY DEF Token
<1>2. job.kind \in Kinds /\ Escape \in Nat
  BY JobFacts, BoundAssumption DEF TypeOK
<1>3. /\ reps \in Nat \X Nat \X Nat
      /\ reps[1] \in Nat /\ reps[2] \in Nat /\ reps[3] \in Nat
  BY DEF TypeOK
<1>4. LitLen(t) \in Nat
  BY <1>1, <1>2 DEF LitLen
<1>5. MinMatch \in Nat
  BY DEF MinMatch
<1>6. MatLen(t) \in Nat
  BY <1>1, <1>2, <1>5 DEF MatLen
<1>7. OffsetOf(t) \in Nat
  <2>1. CASE Raw(t)
    BY <2>1, <1>1 DEF OffsetOf
  <2>2. CASE ~Raw(t) /\ job.kind = "field"
    <3>1. t.code \in 0 .. 2
      BY <2>2, <1>1 DEF Raw
    <3> QED
      BY <2>2, <3>1, <1>3 DEF OffsetOf
  <2>3. CASE ~Raw(t) /\ job.kind # "field"
    BY <2>3, <1>3 DEF OffsetOf
  <2> QED
    BY <2>1, <2>2, <2>3
<1>8. RepsAfter(t) \in Nat \X Nat \X Nat
  BY <1>1, <1>3, <1>7 DEF RepsAfter
<1> QED
  BY <1>4, <1>6, <1>7, <1>8
-----------------------------------------------------------------------------
(* What the actions append.                                                *)

(* The next literals are literals of the call.                             *)
LEMMA LiteralsAreNew ==
  ASSUME LzInv, NEW n \in Nat, litPos + n <= job.lits
  PROVE  LiteralsFrom(n) \in Seq(1 .. job.lits) /\ Len(LiteralsFrom(n)) = n
<1>1. litPos \in Nat /\ job.lits \in Nat
  BY JobFacts DEF LzInv, TypeOK
<1>2. \A i \in 1 .. n : litPos + i \in 1 .. job.lits
  BY <1>1
<1> QED
  BY <1>2 DEF LiteralsFrom

(* Elements decoded by this node are literals of the call.                 *)
LEMMA WithinIsNew ==
  ASSUME LzInv, NEW from \in Nat, NEW n \in Nat,
         job.base <= from, from + n <= Len(out)
  PROVE  /\ Within(from, n) \in Seq(1 .. job.lits) /\ Len(Within(from, n)) = n
         /\ \A i \in 1 .. n : Within(from, n)[i] = out[from + i]
<1>1. job.base \in Nat /\ Len(out) \in Nat
  BY JobFacts, OutFacts DEF LzInv, TypeOK
<1>2. \A i \in 1 .. n : from + i \in 1 .. Len(out) /\ from + i > job.base
  BY <1>1
<1>3. \A i \in 1 .. n : out[from + i] \in 1 .. job.lits
  BY <1>1, <1>2 DEF LzInv, NothingFromBefore
<1> QED
  BY <1>3 DEF Within

(* Appending literals of the call leaves what was there, and keeps within  *)
(* the capacity if it held no more than that.                              *)
LEMMA ExtendKeeps ==
  ASSUME LzInv, NEW s \in Seq(1 .. job.lits), NEW held \in Nat,
         Extend(s, held), job' = job
  PROVE  /\ out' \in Seq(Nat) /\ Len(out') = Len(out) + Len(s)
         /\ \A i \in 1 .. Len(out) : out'[i] = out[i]
         /\ \A i \in 1 .. Len(s) : out'[Len(out) + i] = s[i]
         /\ NothingFromBefore'
         /\ peak' \in Nat /\ cap' \in Nat /\ peak' <= cap'
         /\ held <= cap => cap' = cap
<1>1. /\ job.base \in Nat /\ job.lits \in Nat /\ Len(out) \in Nat /\ out \in Seq(Nat)
      /\ peak \in Nat /\ cap \in Nat /\ peak <= cap /\ Len(s) \in Nat
  BY JobFacts, OutFacts, LenProperties DEF LzInv, TypeOK, ReservesOnce
<1>2. s \in Seq(Nat) /\ \A i \in 1 .. Len(s) : s[i] \in 1 .. job.lits
  BY <1>1
<1>3. out' = out \o s
  BY DEF Extend
<1>4. /\ out' \in Seq(Nat) /\ Len(out') = Len(out) + Len(s)
      /\ \A i \in 1 .. Len(out) : out'[i] = out[i]
      /\ \A i \in 1 .. Len(s) : out'[Len(out) + i] = s[i]
  BY <1>1, <1>2, <1>3, Appended
<1>5. /\ job.base <= Len(out)
      /\ \A i \in 1 .. Len(out) :
           IF i <= job.base THEN out[i] = Old ELSE out[i] \in 1 .. job.lits
  BY DEF LzInv, NothingFromBefore
<1>6. job'.base <= Len(out')
  BY <1>1, <1>4, <1>5
<1>7. ASSUME NEW i \in 1 .. Len(out')
      PROVE  IF i <= job.base THEN out'[i] = Old ELSE out'[i] \in 1 .. job.lits
  <2>1. CASE i <= Len(out)
    <3>1. i \in 1 .. Len(out)
      BY <2>1, <1>1, <1>4
    <3>2. out'[i] = out[i]
      BY <3>1, <1>4
    <3> QED
      BY <3>1, <3>2, <1>5
  <2>2. CASE i > Len(out)
    <3>1. PICK k \in 1 .. Len(s) : i = Len(out) + k
      <4>1. i - Len(out) \in 1 .. Len(s) /\ i = Len(out) + (i - Len(out))
        BY <2>2, <1>1, <1>4
      <4> QED
        BY <4>1
    <3>2. out'[i] \in 1 .. job.lits
      BY <3>1, <1>2, <1>4
    <3>3. ~(i <= job.base)
      BY <2>2, <1>1, <1>4, <1>5
    <3> QED
      BY <3>2, <3>3
  <2>3. i \in Int /\ Len(out) \in Int
    BY <1>1, <1>4
  <2> QED
    BY <2>1, <2>2, <2>3
<1>8. NothingFromBefore'
  BY <1>6, <1>7 DEF NothingFromBefore
<1>9. peak' = Larger(peak, held) /\ cap' = Larger(cap, held)
  BY DEF Extend
<1>10. /\ peak' \in Nat /\ cap' \in Nat /\ peak' <= cap'
       /\ held <= cap => cap' = cap
  BY <1>1, <1>9 DEF Larger
<1> QED
  BY <1>4, <1>8, <1>10
-----------------------------------------------------------------------------
(* Every action keeps the invariant.                                       *)

(* A call starts with nothing but what was decoded before it.              *)
LEMMA InitLz == Init => LzInv
<1> SUFFICES ASSUME Init PROVE LzInv
  OBVIOUS
<1>1. /\ job \in Jobs /\ job.base \in Nat /\ job.cap \in Nat /\ job.lits \in Nat
      /\ job.base <= job.cap
  BY JobFacts DEF Init
<1>2. out = [i \in 1 .. job.base |-> Old]
  BY DEF Init
<1>3. /\ out \in Seq(Nat) /\ Len(out) = job.base
      /\ \A i \in 1 .. Len(out) : out[i] = Old
  BY <1>1, <1>2 DEF Old
<1>4. reps \in Nat \X Nat \X Nat
  BY BoundAssumption DEF Init
<1>5. read \in Seq(Token) /\ cur \in [lit : Nat, off : Nat, mat : Nat]
  BY EmptySeq DEF Init, NoSequence
<1>6. TypeOK
  BY <1>1, <1>3, <1>4, <1>5 DEF Init, TypeOK, Results
<1>7. NothingFromBefore
  BY <1>1, <1>3 DEF NothingFromBefore
<1>8. MatchRepeats /\ ReservesOnce /\ Periodic /\ Reserved
  BY <1>1, <1>3 DEF Init, MatchRepeats, ReservesOnce, Periodic, Reserved
<1> QED
  BY <1>6, <1>7, <1>8 DEF LzInv

(* An error leaves the output as it is.                                    *)
LEMMA FailKeeps ==
  ASSUME LzInv, NEW kind \in Results \ {"Ok"}, Fail(kind), read' = read
  PROVE  LzInv'
<1>1. /\ phase' = "done" /\ result' = kind /\ job' = job /\ out' = out /\ cap' = cap
      /\ peak' = peak /\ litPos' = litPos /\ cur' = cur /\ reps' = reps
      /\ start' = start /\ copied' = copied
  BY DEF Fail
<1>2. TypeOK'
  BY <1>1 DEF LzInv, TypeOK
<1>3. NothingFromBefore'
  BY <1>1 DEF LzInv, NothingFromBefore
<1>4. MatchRepeats' /\ Periodic' /\ Reserved'
  BY <1>1 DEF MatchRepeats, Periodic, Reserved
<1>5. ReservesOnce'
  BY <1>1 DEF LzInv, ReservesOnce, Limit
<1> QED
  BY <1>2, <1>3, <1>4, <1>5 DEF LzInv

(* The reserve covers the declared size.                                   *)
LEMMA BeginKeeps == LzInv /\ Begin => LzInv'
<1> SUFFICES ASSUME LzInv, Begin PROVE LzInv'
  OBVIOUS
<1>1. CASE \E kind \in {"LimitExceeded", "AllocationFailed"} : Fail(kind)
  BY <1>1, FailKeeps DEF Begin, Results
<1>2. CASE /\ cap' = Larger(cap, Limit) /\ phase' = "token"
           /\ UNCHANGED <<job, out, peak, litPos, cur, reps, start, copied, result>>
  <2>1. /\ phase = "begin" /\ read' = read /\ job' = job /\ out' = out /\ peak' = peak
        /\ litPos' = litPos /\ cur' = cur /\ reps' = reps /\ start' = start
        /\ copied' = copied /\ result' = result
    BY <1>2 DEF Begin
  <2>2. cap \in Nat /\ peak \in Nat /\ peak <= cap /\ Limit \in Nat /\ Limit' = Limit
    BY <2>1, JobFacts DEF LzInv, TypeOK, ReservesOnce, Limit
  <2>3. cap' \in Nat /\ cap' >= cap
    BY <1>2, <2>2, Ordered
  <2>4. cap = job.cap /\ start = Len(out) /\ result = "none"
    BY <2>1 DEF LzInv, Reserved
  <2>5. TypeOK'
    BY <1>2, <2>1, <2>3 DEF LzInv, TypeOK
  <2>6. NothingFromBefore'
    BY <2>1 DEF LzInv, NothingFromBefore
  <2>7. MatchRepeats'
    <3>1. Len(out) \in Nat
      BY OutFacts DEF LzInv
    <3> QED
      BY <1>2, <2>1, <2>4, <3>1 DEF MatchRepeats
  <2>8. ReservesOnce'
    BY <1>2, <2>1, <2>2, <2>3, <2>4 DEF ReservesOnce
  <2>9. Periodic' /\ Reserved'
    BY <1>2, <2>1, <2>2, <2>4 DEF Periodic, Reserved
  <2> QED
    BY <2>5, <2>6, <2>7, <2>8, <2>9 DEF LzInv
<1> QED
  BY <1>1, <1>2 DEF Begin

(* Reading a token touches no output.                                      *)
LEMMA ReadTokenKeeps == LzInv /\ ReadToken => LzInv'
<1> SUFFICES ASSUME LzInv, ReadToken PROVE LzInv'
  OBVIOUS
<1>1. /\ phase = "token" /\ job' = job /\ out' = out /\ cap' = cap /\ peak' = peak
      /\ litPos' = litPos /\ start' = start /\ copied' = copied /\ result' = result
      /\ phase' \in {"literals", "lead"}
  BY DEF ReadToken
<1>2. PICK t \in Tokens[job.kind] :
        /\ read' = Append(read, t)
        /\ cur' = [lit |-> LitLen(t), off |-> OffsetOf(t), mat |-> MatLen(t)]
        /\ reps' \in {reps, RepsAfter(t)}
  BY DEF ReadToken
<1>3. t \in Token
  BY JobFacts DEF LzInv, TypeOK
<1>4. /\ cur' \in [lit : Nat, off : Nat, mat : Nat]
      /\ reps' \in Nat \X Nat \X Nat
  BY <1>2, <1>3, TokenFacts DEF LzInv, TypeOK
<1>5. read' \in Seq(Token)
  BY <1>2, <1>3, AppendProperties DEF LzInv, TypeOK
<1>6. TypeOK'
  BY <1>1, <1>4, <1>5 DEF LzInv, TypeOK
<1>7. NothingFromBefore'
  BY <1>1 DEF LzInv, NothingFromBefore
<1>8. MatchRepeats' /\ Periodic'
  BY <1>1 DEF MatchRepeats, Periodic
<1>9. ReservesOnce'
  BY <1>1 DEF LzInv, ReservesOnce, Limit
<1>10. Reserved'
  BY <1>1 DEF LzInv, Reserved, Limit
<1> QED
  BY <1>6, <1>7, <1>8, <1>9, <1>10 DEF LzInv

(* Literals that fit stay within the reserve, whole chunks included.       *)
LEMMA AppendLiteralsKeeps == LzInv /\ AppendLiterals => LzInv'
<1> SUFFICES ASSUME LzInv, AppendLiterals PROVE LzInv'
  OBVIOUS
<1>1. CASE ~LiteralsFit
  BY <1>1, FailKeeps DEF AppendLiterals, Results
<1>2. CASE LiteralsFit
  <2> DEFINE held == Len(out) + IF ChunkRoom(cur.lit) /\ job.lits - litPos >= CopyChunk
                                THEN CopyChunk ELSE cur.lit
             new  == LiteralsFrom(cur.lit)
  <2>1. /\ phase \in {"literals", "lead"} /\ Extend(new, held) /\ litPos' = litPos + cur.lit
        /\ start' = Len(out) + cur.lit /\ copied' = 0 /\ phase' \in {"token", "match"}
        /\ job' = job /\ cur' = cur /\ reps' = reps /\ result' = result /\ read' = read
    BY <1>2 DEF AppendLiterals
  <2>2. /\ Len(out) \in Nat /\ cap \in Nat /\ cur.lit \in Nat /\ litPos \in Nat
        /\ job.lits \in Nat /\ CopyChunk \in Nat /\ Limit \in Nat /\ Limit' = Limit
        /\ job.cap \in Nat
    BY <2>1, OutFacts, JobFacts, BoundAssumption DEF LzInv, TypeOK, Limit
  <2>3. litPos + cur.lit <= job.lits
    BY <1>2 DEF LiteralsFit
  <2>4. new \in Seq(1 .. job.lits) /\ Len(new) = cur.lit
    BY <2>2, <2>3, LiteralsAreNew
  <2>5. held \in Nat
    BY <2>2
  <2>6. job.kind # "field" => held <= cap
    <3>1. SUFFICES ASSUME job.kind # "field" PROVE held <= cap
      OBVIOUS
    <3>2. cap >= Limit
      <4>1. cap = Larger(job.cap, Limit)
        BY <2>1, <3>1 DEF LzInv, Reserved
      <4> QED
        BY <4>1, <2>2, Ordered
    <3>3. Len(out) + cur.lit <= Limit
      BY <1>2, <3>1 DEF LiteralsFit
    <3> QED
      BY <2>2, <3>2, <3>3 DEF ChunkRoom
  <2> HIDE DEF held, new
  <2>7. /\ out' \in Seq(Nat) /\ Len(out') = Len(out) + Len(new) /\ NothingFromBefore'
        /\ peak' \in Nat /\ cap' \in Nat /\ peak' <= cap'
        /\ held <= cap => cap' = cap
    BY <2>1, <2>4, <2>5, ExtendKeeps
  <2>8. TypeOK'
    <3>1. start' = Len(out') /\ start' \in Nat /\ litPos' \in 0 .. job.lits /\ copied' \in Nat
      BY <2>1, <2>2, <2>3, <2>4, <2>7
    <3> QED
      BY <2>1, <2>7, <3>1 DEF LzInv, TypeOK
  <2>9. MatchRepeats'
    <3>1. start' = Len(out') /\ Len(out') \in Nat
      BY <2>1, <2>2, <2>4, <2>7
    <3>2. \A i \in start' + 1 .. Len(out') : FALSE
      BY <3>1
    <3> QED
      BY <2>1, <3>1, <3>2 DEF MatchRepeats
  <2>10. result = "none"
    BY <2>1 DEF LzInv, Reserved
  <2>11. ReservesOnce'
    BY <2>1, <2>2, <2>6, <2>7, <2>10 DEF LzInv, ReservesOnce
  <2>12. Periodic'
    BY <2>1 DEF Periodic
  <2>13. Reserved'
    BY <2>1, <2>2, <2>6, <2>7, <2>10 DEF LzInv, Reserved
  <2> QED
    BY <2>7, <2>8, <2>9, <2>11, <2>12, <2>13 DEF LzInv
<1> QED
  BY <1>1, <1>2

(* The first piece of a match is the one before it: as much of it as the   *)
(* match needs, or all of it, and then a whole offset is repeated.         *)
LEMMA StartMatchKeeps == LzInv /\ StartMatch => LzInv'
<1> SUFFICES ASSUME LzInv, StartMatch PROVE LzInv'
  OBVIOUS
<1>1. CASE ~OffsetFits \/ Len(out) + cur.mat > Limit
  BY <1>1, FailKeeps DEF StartMatch, Results
<1>2. CASE OffsetFits /\ ~(Len(out) + cur.mat > Limit)
  <2> DEFINE len  == Smaller(cur.mat, cur.off)
             held == Len(out) + IF ChunkRoom(cur.mat) /\ cur.off >= CopyChunk
                                THEN CopyChunk ELSE len
             new  == Within(start - cur.off, len)
  <2>1. /\ phase = "match" /\ Extend(new, held) /\ copied' = len
        /\ phase' = IF cur.mat <= cur.off THEN "token" ELSE "copy"
        /\ job' = job /\ litPos' = litPos /\ cur' = cur /\ reps' = reps
        /\ start' = start /\ result' = result /\ read' = read
    BY <1>2 DEF StartMatch
  <2>2. /\ Len(out) \in Nat /\ cap \in Nat /\ cur.mat \in Nat /\ cur.off \in Nat
        /\ job.base \in Nat /\ job.cap \in Nat /\ CopyChunk \in Nat /\ Limit \in Nat
        /\ Limit' = Limit /\ start = Len(out) /\ result = "none"
    BY <2>1, OutFacts, JobFacts, BoundAssumption DEF LzInv, TypeOK, Limit, Reserved
  <2>3. len \in Nat /\ len <= cur.mat /\ len <= cur.off /\ len \in {cur.mat, cur.off}
    BY <2>2, Ordered
  <2>4. cur.off >= 1 /\ cur.off <= start - job.base
    BY <1>2, <2>2, BoundAssumption DEF OffsetFits
  <2>5. Len(out) + cur.mat <= Limit
    BY <1>2, <2>2
  <2>6. /\ start - cur.off \in Nat /\ job.base <= start - cur.off
        /\ (start - cur.off) + len <= Len(out)
    BY <2>2, <2>3, <2>4
  <2> HIDE DEF len
  <2>7. /\ new \in Seq(1 .. job.lits) /\ Len(new) = len
        /\ \A i \in 1 .. len : new[i] = out[(start - cur.off) + i]
    BY <2>3, <2>6, WithinIsNew
  <2>8. held \in Nat
    BY <2>2, <2>3
  <2>9. job.kind # "field" => held <= cap
    <3>1. SUFFICES ASSUME job.kind # "field" PROVE held <= cap
      OBVIOUS
    <3>2. cap = Larger(job.cap, Limit)
      BY <2>1, <3>1 DEF LzInv, Reserved
    <3>3. cap >= Limit
      BY <3>2, <2>2, Ordered
    <3> QED
      BY <2>2, <2>3, <2>5, <3>3 DEF ChunkRoom
  <2> HIDE DEF held, new
  <2>10. /\ out' \in Seq(Nat) /\ Len(out') = Len(out) + len /\ NothingFromBefore'
         /\ \A i \in 1 .. Len(out) : out'[i] = out[i]
         /\ \A i \in 1 .. len : out'[Len(out) + i] = new[i]
         /\ peak' \in Nat /\ cap' \in Nat /\ peak' <= cap'
         /\ held <= cap => cap' = cap
    BY <2>1, <2>7, <2>8, ExtendKeeps
  <2>11. \A i \in 1 .. len : out'[start + i] = out'[(start - cur.off) + i]
    <3> TAKE i \in 1 .. len
    <3>1. out'[start + i] = out[(start - cur.off) + i]
      BY <2>2, <2>7, <2>10
    <3>2. (start - cur.off) + i \in 1 .. Len(out)
      <4>1. /\ start - cur.off \in Nat /\ i \in Nat /\ i >= 1 /\ i <= len
            /\ len \in Nat /\ Len(out) \in Nat /\ (start - cur.off) + len <= Len(out)
        BY <2>2, <2>3, <2>6
      <4> QED
        BY <4>1
    <3> QED
      BY <3>1, <3>2, <2>10
  <2>12. TypeOK'
    BY <2>1, <2>2, <2>3, <2>10 DEF LzInv, TypeOK
  <2>13. \A i \in start + 1 .. Len(out') : out'[i] = out'[i - cur.off]
    <3> TAKE i \in start + 1 .. Len(out')
    <3>1. i - start \in 1 .. len /\ start + (i - start) = i
      <4>1. Len(out') = start + len /\ start \in Nat /\ len \in Nat
        BY <2>2, <2>3, <2>10
      <4>2. i \in start + 1 .. start + len
        BY <4>1
      <4> QED
        BY <4>1, <4>2
    <3>2. (start - cur.off) + (i - start) = i - cur.off
      <4>1. start \in Nat /\ cur.off \in Nat /\ i \in Int
        BY <2>2, <2>3, <2>10
      <4> QED
        BY <4>1
    <3> QED
      BY <2>11, <3>1, <3>2
  <2>14. MatchRepeats'
    <3>1. phase' = "copy" => Len(out') = start + len /\ len < cur.mat
      BY <2>1, <2>2, <2>3, <2>10
    <3>2. phase' = "token" => Len(out') = start + cur.mat
      BY <2>1, <2>2, <2>3, <2>10 DEF len, Smaller
    <3> QED
      BY <3>1, <3>2, <2>1, <2>13 DEF MatchRepeats
  <2>15. ReservesOnce'
    BY <2>1, <2>2, <2>9, <2>10 DEF LzInv, ReservesOnce
  <2>16. Periodic'
    <3>1. SUFFICES ASSUME phase' = "copy" PROVE Periodic'
      BY DEF Periodic
    <3>2. len = cur.off
      BY <3>1, <2>1, <2>2, <2>3
    <3>3. ASSUME NEW j \in 1 .. cur.off
          PROVE  out'[start + len - cur.off + j] = out'[start - cur.off + j]
      <4>1. start + len - cur.off + j = start + j /\ j \in 1 .. len
        BY <3>2, <2>2
      <4> QED
        BY <4>1, <2>11
    <3> QED
      BY <2>1, <2>2, <2>4, <2>5, <3>2, <3>3 DEF Periodic
  <2>17. Reserved'
    BY <2>1, <2>2, <2>9, <2>10 DEF LzInv, Reserved
  <2> QED
    BY <2>10, <2>12, <2>14, <2>15, <2>16, <2>17 DEF LzInv
<1> QED
  BY <1>1, <1>2

(* Copying everything the match has so far, or the part it still needs,    *)
(* goes on with the same repetition: the piece starts where the last whole *)
(* offset ends.                                                            *)
LEMMA CopyMoreKeeps == LzInv /\ CopyMore => LzInv'
<1> SUFFICES ASSUME LzInv, CopyMore PROVE LzInv'
  OBVIOUS
<1> DEFINE len == Smaller(copied, cur.mat - copied)
<1>1. /\ phase = "copy" /\ Doubled = Within(start, len)
      /\ Extend(Doubled, Len(out) + Len(Doubled)) /\ copied' = copied + Len(Doubled)
      /\ phase' = IF copied' = cur.mat THEN "token" ELSE "copy"
      /\ job' = job /\ litPos' = litPos /\ cur' = cur /\ reps' = reps
      /\ start' = start /\ result' = result /\ read' = read
  BY DEF CopyMore, Doubled
<1>2. /\ Len(out) \in Nat /\ cap \in Nat /\ cur.mat \in Nat /\ cur.off \in Nat
      /\ start \in Nat /\ copied \in Nat /\ job.base \in Nat /\ job.cap \in Nat
      /\ Limit \in Nat /\ Limit' = Limit /\ result = "none"
  BY <1>1, OutFacts, JobFacts DEF LzInv, TypeOK, Limit, Reserved
<1>3. /\ Len(out) = start + copied /\ copied < cur.mat
      /\ \A i \in start + 1 .. Len(out) : out[i] = out[i - cur.off]
  BY <1>1 DEF LzInv, MatchRepeats
<1>4. /\ cur.off >= 1 /\ cur.off <= start - job.base /\ cur.off <= copied
      /\ start + cur.mat <= Limit
      /\ \A j \in 1 .. cur.off : out[start + copied - cur.off + j] = out[start - cur.off + j]
  BY <1>1 DEF LzInv, Periodic
<1>5. /\ len \in Nat /\ len <= copied /\ len <= cur.mat - copied
      /\ len \in {copied, cur.mat - copied}
  <2>1. cur.mat - copied \in Nat
    BY <1>2, <1>3
  <2> QED
    BY <2>1, <1>2, <1>3 DEF Smaller
<1> HIDE DEF len
<1>6. /\ Doubled \in Seq(1 .. job.lits) /\ Len(Doubled) = len
      /\ \A i \in 1 .. len : Doubled[i] = out[start + i]
  <2>1. job.base <= start /\ start + len <= Len(out)
    BY <1>2, <1>3, <1>4, <1>5
  <2> QED
    BY <1>1, <1>2, <1>5, <2>1, WithinIsNew
<1>7. /\ out' \in Seq(Nat) /\ Len(out') = Len(out) + len /\ NothingFromBefore'
      /\ \A i \in 1 .. Len(out) : out'[i] = out[i]
      /\ \A i \in 1 .. len : out'[Len(out) + i] = out[start + i]
      /\ peak' \in Nat /\ cap' \in Nat /\ peak' <= cap'
      /\ Len(out) + len <= cap => cap' = cap
  <2>1. Len(out) + len \in Nat /\ Extend(Doubled, Len(out) + len)
    BY <1>1, <1>2, <1>5, <1>6
  <2>2. job' = job /\ Doubled \in Seq(1 .. job.lits) /\ Len(Doubled) = len
    BY <1>1, <1>6
  <2>3. /\ out' \in Seq(Nat) /\ Len(out') = Len(out) + len /\ NothingFromBefore'
        /\ \A i \in 1 .. Len(out) : out'[i] = out[i]
        /\ \A i \in 1 .. len : out'[Len(out) + i] = Doubled[i]
        /\ peak' \in Nat /\ cap' \in Nat /\ peak' <= cap'
        /\ Len(out) + len <= cap => cap' = cap
    BY <2>1, <2>2, ExtendKeeps
  <2> QED
    BY <2>3, <1>6
<1>lens. /\ Len(out') = Len(out) + len /\ Len(out) = start + copied /\ copied < cur.mat
         /\ cur.off >= 1 /\ cur.off <= start - job.base /\ cur.off <= copied
  BY <1>3, <1>4, <1>7
<1>8. job.kind # "field" => Len(out) + len <= cap
  <2>1. SUFFICES ASSUME job.kind # "field" PROVE Len(out) + len <= cap
    OBVIOUS
  <2>2. cap = Larger(job.cap, Limit)
    BY <1>1, <2>1 DEF LzInv, Reserved
  <2>3. cap >= Limit
    BY <2>2, <1>2, Ordered
  <2> QED
    BY <1>2, <1>3, <1>4, <1>5, <2>3
<1>9. \A i \in start + 1 .. Len(out') : out'[i] = out'[i - cur.off]
  <2> TAKE i \in start + 1 .. Len(out')
  <2>1. CASE i <= Len(out)
    <3>1. i \in start + 1 .. Len(out) /\ i \in 1 .. Len(out) /\ i - cur.off \in 1 .. Len(out)
      BY <2>1, <1>2, <1>lens
    <3> QED
      BY <3>1, <1>3, <1>7
  <2>2. CASE i > Len(out)
    <3>1. PICK k \in 1 .. len : i = Len(out) + k
      <4>1. i - Len(out) \in 1 .. len /\ i = Len(out) + (i - Len(out))
        BY <2>2, <1>2, <1>5, <1>lens
      <4> QED
        BY <4>1
    <3>2. out'[i] = out[start + k]
      BY <3>1, <1>7
    <3>3. out[start + k] = out[(start + k) - cur.off]
      <4>1. start + k \in start + 1 .. Len(out)
        BY <1>2, <1>5, <1>lens
      <4> QED
        BY <4>1, <1>3
    <3>4. CASE k <= cur.off
      <4>1. k \in 1 .. cur.off /\ (start + k) - cur.off = start - cur.off + k
        BY <3>4, <1>2
      <4>2. out[start + copied - cur.off + k] = out[start - cur.off + k]
        BY <4>1, <1>4
      <4>3. /\ i - cur.off = start + copied - cur.off + k
            /\ i - cur.off \in 1 .. Len(out)
        BY <3>1, <3>4, <1>2, <1>3, <1>4
      <4>4. out'[i - cur.off] = out[i - cur.off]
        BY <4>3, <1>7
      <4> QED
        BY <3>2, <3>3, <4>1, <4>2, <4>3, <4>4
    <3>5. CASE k > cur.off
      <4>1. /\ k - cur.off \in 1 .. len /\ i - cur.off = Len(out) + (k - cur.off)
            /\ start + (k - cur.off) = (start + k) - cur.off
        <5>1. k \in Nat /\ k <= len /\ cur.off \in Nat /\ cur.off >= 1 /\ len \in Nat
          BY <1>2, <1>5, <1>lens
        <5>2. k - cur.off \in 1 .. len
          BY <3>5, <5>1
        <5>3. (Len(out) + k) - cur.off = Len(out) + (k - cur.off)
          BY <1>2, <5>1
        <5>4. start + (k - cur.off) = (start + k) - cur.off
          BY <1>2, <5>1
        <5> QED
          BY <3>1, <5>2, <5>3, <5>4
      <4>2. out'[i - cur.off] = out[start + (k - cur.off)]
        BY <4>1, <1>7
      <4> QED
        BY <3>2, <3>3, <4>1, <4>2
    <3> QED
      BY <3>4, <3>5, <1>2
  <2> QED
    BY <2>1, <2>2, <1>2
<1>10. copied' = copied + len /\ copied' \in Nat
  BY <1>1, <1>2, <1>5, <1>6
<1>11. TypeOK'
  BY <1>1, <1>7, <1>10 DEF LzInv, TypeOK
<1>12. MatchRepeats'
  <2>1. Len(out') = start + copied' /\ (phase' = "copy" => copied' < cur.mat)
    <3>1. Len(out') = start + copied'
      BY <1>2, <1>5, <1>lens, <1>10
    <3>2. copied' <= cur.mat
      BY <1>2, <1>5, <1>10
    <3>3. phase' = "copy" => copied' # cur.mat
      BY <1>1
    <3> QED
      BY <1>2, <1>10, <3>1, <3>2, <3>3
  <2>2. phase' = "token" => Len(out') = start + cur.mat
    BY <1>1, <2>1
  <2>3. cur' = cur /\ start' = start
    BY <1>1
  <2>4. \A i \in start' + 1 .. Len(out') : out'[i] = out'[i - cur'.off]
    BY <1>9, <2>3
  <2>5. /\ phase' = "copy" => Len(out') = start' + copied' /\ copied' < cur'.mat
        /\ phase' = "token" => Len(out') = start' + cur'.mat
    BY <2>1, <2>2, <2>3
  <2> QED
    BY <2>4, <2>5 DEF MatchRepeats
<1>13. ReservesOnce'
  BY <1>1, <1>2, <1>7, <1>8 DEF LzInv, ReservesOnce
<1>14. Periodic'
  <2>1. SUFFICES ASSUME phase' = "copy" PROVE Periodic'
    BY DEF Periodic
  <2>2. len = copied
    BY <2>1, <1>1, <1>2, <1>3, <1>5, <1>10
  <2>3. ASSUME NEW j \in 1 .. cur.off
        PROVE  out'[start + copied' - cur.off + j] = out'[start - cur.off + j]
    <3>1. /\ copied - cur.off + j \in 1 .. len
          /\ start + copied' - cur.off + j = Len(out) + (copied - cur.off + j)
      <4>1. j \in Nat /\ j >= 1 /\ j <= cur.off /\ copied' = copied + copied
        BY <1>2, <1>10, <2>2
      <4>2. copied - cur.off + j \in 1 .. copied
        BY <4>1, <1>2, <1>lens
      <4>3. start + (copied + copied) - cur.off + j = (start + copied) + (copied - cur.off + j)
        BY <4>1, <1>2
      <4> QED
        BY <4>1, <4>2, <4>3, <1>lens, <2>2
    <3>2. out'[start + copied' - cur.off + j] = out[start + (copied - cur.off + j)]
      BY <3>1, <1>7
    <3>3. start + (copied - cur.off + j) = start + copied - cur.off + j
      BY <1>2
    <3>4. out[start + copied - cur.off + j] = out[start - cur.off + j]
      BY <1>4
    <3>5. start - cur.off + j \in 1 .. Len(out)
      <4>1. /\ start \in Nat /\ cur.off \in Nat /\ cur.off <= start /\ start <= Len(out)
            /\ j \in Nat /\ j >= 1 /\ j <= cur.off /\ Len(out) \in Nat
        BY <1>2, <1>3, <1>4
      <4> QED
        BY <4>1
    <3> QED
      BY <3>2, <3>3, <3>4, <3>5, <1>7
  <2>4. cur.off <= copied'
    BY <1>2, <1>4, <1>5, <1>10
  <2> QED
    BY <1>1, <1>2, <1>4, <2>3, <2>4 DEF Periodic
<1>15. Reserved'
  BY <1>1, <1>2, <1>7, <1>8 DEF LzInv, Reserved
<1> QED
  BY <1>7, <1>11, <1>12, <1>13, <1>14, <1>15 DEF LzInv

(* The last literals end the output at, or for field_lz within, the        *)
(* declared size.                                                          *)
LEMMA FinishKeeps == LzInv /\ Finish => LzInv'
<1> SUFFICES ASSUME LzInv, Finish PROVE LzInv'
  OBVIOUS
<1> DEFINE rest == LiteralsFrom(job.lits - litPos)
<1>1. phase = "token" /\ read' = read
  BY DEF Finish
<1>2. CASE Fail("Leftover") \/ Fail("Size")
  BY <1>1, <1>2, FailKeeps DEF Results
<1>3. CASE /\ EndFits(Len(out) + Len(rest)) /\ Extend(rest, Len(out) + Len(rest))
           /\ litPos' = job.lits /\ phase' = "done" /\ result' \in {"Leftover", "Ok"}
           /\ UNCHANGED <<job, cur, reps, start, copied>>
  <2>1. /\ Len(out) \in Nat /\ cap \in Nat /\ litPos \in 0 .. job.lits /\ job.lits \in Nat
        /\ job.cap \in Nat /\ Limit \in Nat /\ Limit' = Limit
    BY <1>3, OutFacts, JobFacts DEF LzInv, TypeOK, Limit
  <2>2. rest \in Seq(1 .. job.lits) /\ Len(rest) \in Nat
    <3>1. job.lits - litPos \in Nat /\ litPos + (job.lits - litPos) <= job.lits
      BY <2>1
    <3> QED
      BY <3>1, LiteralsAreNew
  <2> HIDE DEF rest
  <2>3. Len(out) + Len(rest) \in Nat /\ Len(out) + Len(rest) <= Limit
    BY <1>3, <2>1, <2>2 DEF EndFits
  <2>4. job.kind # "field" => Len(out) + Len(rest) <= cap
    <3>1. SUFFICES ASSUME job.kind # "field" PROVE Len(out) + Len(rest) <= cap
      OBVIOUS
    <3>2. cap = Larger(job.cap, Limit)
      BY <1>1, <3>1 DEF LzInv, Reserved
    <3>3. cap >= Limit
      BY <3>2, <2>1, Ordered
    <3> QED
      BY <2>1, <2>3, <3>3
  <2>5. /\ out' \in Seq(Nat) /\ Len(out') = Len(out) + Len(rest) /\ NothingFromBefore'
        /\ peak' \in Nat /\ cap' \in Nat /\ peak' <= cap'
        /\ Len(out) + Len(rest) <= cap => cap' = cap
    BY <1>3, <2>2, <2>3, ExtendKeeps
  <2>6. TypeOK'
    <3>1. litPos' \in 0 .. job.lits /\ result' \in Results
      BY <1>3, <2>1 DEF Results
    <3> QED
      BY <1>1, <1>3, <2>5, <3>1 DEF LzInv, TypeOK
  <2>7. ReservesOnce'
    BY <1>3, <2>1, <2>3, <2>4, <2>5 DEF LzInv, ReservesOnce
  <2>8. MatchRepeats' /\ Periodic' /\ Reserved'
    BY <1>3 DEF MatchRepeats, Periodic, Reserved
  <2> QED
    BY <2>5, <2>6, <2>7, <2>8 DEF LzInv
<1> QED
  BY <1>2, <1>3 DEF Finish

(* A step that changes nothing keeps the invariant.                        *)
LEMMA StutterKeeps == LzInv /\ UNCHANGED vars => LzInv'
<1> SUFFICES ASSUME LzInv, UNCHANGED vars PROVE LzInv'
  OBVIOUS
<1>1. /\ job' = job /\ phase' = phase /\ out' = out /\ cap' = cap /\ peak' = peak
      /\ litPos' = litPos /\ read' = read /\ cur' = cur /\ reps' = reps
      /\ start' = start /\ copied' = copied /\ result' = result
  BY DEF vars
<1>2. TypeOK' /\ NothingFromBefore'
  BY <1>1 DEF LzInv, TypeOK, NothingFromBefore
<1>3. MatchRepeats' /\ ReservesOnce'
  BY <1>1 DEF LzInv, MatchRepeats, ReservesOnce, Limit
<1>4. Periodic' /\ Reserved'
  BY <1>1 DEF LzInv, Periodic, Reserved, Limit
<1> QED
  BY <1>2, <1>3, <1>4 DEF LzInv
-----------------------------------------------------------------------------
(* The invariant holds throughout every call.                              *)
THEOREM LzInvariant == Spec => []LzInv
<1>1. Init => LzInv
  BY InitLz
<1>2. LzInv /\ [Next]_vars => LzInv'
  <2> SUFFICES ASSUME LzInv, [Next]_vars PROVE LzInv'
    OBVIOUS
  <2>1. CASE Begin
    BY <2>1, BeginKeeps
  <2>2. CASE ReadToken
    BY <2>2, ReadTokenKeeps
  <2>3. CASE Exhausted
    BY <2>3, FailKeeps DEF Exhausted, Results
  <2>4. CASE AppendLiterals
    BY <2>4, AppendLiteralsKeeps
  <2>5. CASE StartMatch
    BY <2>5, StartMatchKeeps
  <2>6. CASE CopyMore
    BY <2>6, CopyMoreKeeps
  <2>7. CASE Finish
    BY <2>7, FinishKeeps
  <2>8. CASE UNCHANGED vars
    BY <2>8, StutterKeeps
  <2> QED
    BY <2>1, <2>2, <2>3, <2>4, <2>5, <2>6, <2>7, <2>8 DEF Next
<1> QED
  BY <1>1, <1>2, PTL DEF Spec

(* Every variable keeps its type: no literal is taken twice or past the    *)
(* end of the literal stream.                                              *)
THEOREM TypeCorrect == Spec => []TypeOK
<1>1. LzInv => TypeOK
  BY DEF LzInv
<1> QED
  BY <1>1, LzInvariant, PTL

(* decode_lz_sequences, append_field_lz_match and                          *)
(* append_fastlz_deprecated_match never copy, or change, what was in the   *)
(* output before the node.                                                 *)
THEOREM NothingFromBeforeHolds == Spec => []NothingFromBefore
<1>1. LzInv => NothingFromBefore
  BY DEF LzInv
<1> QED
  BY <1>1, LzInvariant, PTL

(* append_lz_match, whatever its offset and length: doubling the copied    *)
(* part is the copy of one element at a time.                              *)
THEOREM MatchRepeatsHolds == Spec => []MatchRepeats
<1>1. LzInv => MatchRepeats
  BY DEF LzInv
<1> QED
  BY <1>1, LzInvariant, PTL

(* lz and fastlz write, whole chunks included, only what they reserved at  *)
(* the beginning, and no node ends past its declared size.                 *)
THEOREM ReservesOnceHolds == Spec => []ReservesOnce
<1>1. LzInv => ReservesOnce
  BY DEF LzInv
<1> QED
  BY <1>1, LzInvariant, PTL

-----------------------------------------------------------------------------
(* What the tokens define.                                                 *)

(* Repeat, which appends one element at a time, as a fold by a function.   *)
Numbers(n)   == [i \in 1 .. n |-> i]
LongSeqs(off) == {u \in Seq(Nat) : Len(u) >= off}
Again(off)   == [p \in LongSeqs(off) \X Nat |-> Append(p[1], p[1][Len(p[1]) + 1 - off])]

Repeats(g, s, off, n) ==
  g = [S \in SUBSET (1 .. n) |->
         IF S = {} THEN s
         ELSE Append(g[S \ {Max(S)}], g[S \ {Max(S)}][Len(g[S \ {Max(S)}]) + 1 - off])]

(* The step of Repeat, where the offset lies within the sequence.          *)
LEMMA AgainFacts ==
  ASSUME NEW off \in Nat \ {0}, NEW u \in Seq(Nat), Len(u) >= off, NEW i \in Nat
  PROVE  /\ Again(off)[<<u, i>>] = Append(u, u[Len(u) + 1 - off])
         /\ Append(u, u[Len(u) + 1 - off]) \in LongSeqs(off)
<1>1. u \in LongSeqs(off)
  BY DEF LongSeqs
<1>2. Again(off)[<<u, i>>] = Append(u, u[Len(u) + 1 - off])
  BY <1>1 DEF Again
<1>3. Len(u) \in Nat /\ Len(u) + 1 - off \in 1 .. Len(u)
  OBVIOUS
<1>4. u[Len(u) + 1 - off] \in Nat
  BY <1>3, ElementOfSeq
<1>5. PICK x \in Nat : x = u[Len(u) + 1 - off]
  BY <1>4
<1>6. Append(u, x) \in Seq(Nat) /\ Len(Append(u, x)) = Len(u) + 1
  BY AppendProperties
<1>7. Len(Append(u, x)) >= off
  BY <1>3, <1>6
<1>8. Append(u, x) \in LongSeqs(off)
  BY <1>6, <1>7 DEF LongSeqs
<1> QED
  BY <1>2, <1>5, <1>8

(* Repeat is the fold of that step.                                        *)
LEMMA RepeatFolds ==
  ASSUME NEW off \in Nat \ {0}, NEW s \in LongSeqs(off), NEW n \in Nat
  PROVE  /\ Repeat(s, off, n) = FoldBy(Again(off), s, Numbers(n))
         /\ Again(off) \in [LongSeqs(off) \X Nat -> LongSeqs(off)]
         /\ Numbers(n) \in Seq(Nat) /\ Len(Numbers(n)) = n
<1> DEFINE F == Again(off)
           A == LongSeqs(off)
           t == Numbers(n)
<1>1. \A u \in A, i \in Nat :
        F[<<u, i>>] = Append(u, u[Len(u) + 1 - off]) /\ F[<<u, i>>] \in A
  BY AgainFacts DEF LongSeqs
<1>2. F \in [A \X Nat -> A]
  <2>1. F = [p \in A \X Nat |-> F[p]]
    BY DEF Again
  <2>2. \A p \in A \X Nat : F[p] \in A
    BY <1>1
  <2> HIDE DEF F, A
  <2> QED
    BY <2>1, <2>2
<1>3. t \in Seq(Nat) /\ Len(t) = n /\ DOMAIN t = 1 .. n /\ \A i \in 1 .. n : t[i] \in Nat
  BY DEF Numbers
<1> HIDE DEF F, A, t
<1>4. PICK g : FoldsBy(g, F, s, t, n)
  BY FoldExists
<1>5. g = [S \in SUBSET (1 .. n) |->
             IF S = {} THEN s ELSE F[<<g[S \ {Max(S)}], t[Max(S)]>>]]
  BY <1>4 DEF FoldsBy
<1>6. Solves(g, F, s, t, n, A)
  BY <1>5 DEF Solves
<1>7. \A S \in SUBSET (1 .. n) : g[S] \in A
  BY <1>2, <1>3, <1>6, FoldSolves DEF A
<1>8. Repeats(g, s, off, n)
  <2>1. ASSUME NEW S \in SUBSET (1 .. n), S # {}
        PROVE  g[S] = Append(g[S \ {Max(S)}],
                             g[S \ {Max(S)}][Len(g[S \ {Max(S)}]) + 1 - off])
    <3>1. Max(S) \in 1 .. n /\ S \ {Max(S)} \in SUBSET (1 .. n)
      BY <2>1, MaxOfSome
    <3>2. g[S \ {Max(S)}] \in A /\ t[Max(S)] \in Nat
      BY <1>3, <1>7, <3>1
    <3>3. g[S] = F[<<g[S \ {Max(S)}], t[Max(S)]>>]
      BY <1>5, <2>1
    <3> QED
      BY <1>1, <3>2, <3>3
  <2> QED
    BY <1>5, <2>1 DEF Repeats
<1> DEFINE h == CHOOSE f : Repeats(f, s, off, n)
<1>9. Repeats(h, s, off, n)
  BY <1>8
<1>10. Repeat(s, off, n) = h[1 .. n]
  <2>1. DOMAIN Numbers(n) = 1 .. n
    BY DEF Numbers
  <2> QED
    BY <1>3, <2>1 DEF Repeat, FoldLeft, MapThenFoldSet, Numbers, Repeats
<1> HIDE DEF h
<1>11. Solves(h, F, s, t, n, A)
  <2>1. ASSUME NEW S \in SUBSET (1 .. n), S # {}, h[S \ {Max(S)}] \in A
        PROVE  h[S] = F[<<h[S \ {Max(S)}], t[Max(S)]>>]
    <3>1. t[Max(S)] \in Nat
      BY <1>3, <2>1, MaxOfSome
    <3>2. h[S] = Append(h[S \ {Max(S)}],
                        h[S \ {Max(S)}][Len(h[S \ {Max(S)}]) + 1 - off])
      BY <1>9, <2>1 DEF Repeats
    <3> QED
      BY <1>1, <2>1, <3>1, <3>2
  <2>2. h = [S \in SUBSET (1 .. n) |-> h[S]] /\ h[{}] = s
    BY <1>9 DEF Repeats
  <2> QED
    BY <2>1, <2>2 DEF Solves
<1>12. FoldsBy(h, F, s, t, n)
  BY <1>2, <1>3, <1>11, FoldSolves DEF A
<1>13. FoldBy(F, s, t) = h[1 .. n]
  BY <1>3, <1>12, FoldIsSolved
<1> QED
  BY <1>2, <1>3, <1>10, <1>13 DEF F, t, A

(* A repetition repeats: it continues what is given, each element the one  *)
(* off before it.                                                          *)
Repeated(u, s, off, n) ==
  /\ u \in Seq(Nat) /\ Len(u) = Len(s) + n
  /\ \A i \in 1 .. Len(s) : u[i] = s[i]
  /\ \A i \in Len(s) + 1 .. Len(s) + n : u[i] = u[i - off]

(* One more step repeats one more element.                                 *)
LEMMA OneMoreRepeated ==
  ASSUME NEW s \in Seq(Nat), NEW off \in 1 .. Len(s), NEW n \in Nat, NEW u,
         Repeated(u, s, off, n)
  PROVE  Repeated(Append(u, u[Len(u) + 1 - off]), s, off, n + 1)
<1>1. /\ u \in Seq(Nat) /\ Len(u) = Len(s) + n /\ Len(u) \in Nat /\ Len(s) \in Nat
      /\ off \in Nat /\ off >= 1 /\ off <= Len(s)
  BY DEF Repeated
<1>2. PICK m \in Nat : m = Len(u)
  BY <1>1
<1>3. PICK l \in Nat : l = Len(s)
  BY <1>1
<1>4. m = l + n /\ off >= 1 /\ off <= l /\ m + 1 - off \in 1 .. m
  BY <1>1, <1>2, <1>3
<1>5. u[m + 1 - off] \in Nat
  BY <1>1, <1>2, <1>4, ElementOfSeq
<1>6. PICK x \in Nat : x = u[m + 1 - off]
  BY <1>5
<1>7. PICK v : v = Append(u, x)
  OBVIOUS
<1>8. /\ v \in Seq(Nat) /\ Len(v) = m + 1 /\ v[m + 1] = x
      /\ \A i \in 1 .. m : v[i] = u[i]
  <2>1. /\ v \in Seq(Nat) /\ Len(v) = Len(u) + 1 /\ v[Len(u) + 1] = x
        /\ \A i \in 1 .. Len(u) : v[i] = u[i]
    <3>1. PICK S : S = Nat
      OBVIOUS
    <3>2. u \in Seq(S) /\ x \in S
      BY <1>1, <3>1
    <3>3. /\ Append(u, x) \in Seq(S) /\ Len(Append(u, x)) = Len(u) + 1
          /\ Append(u, x)[Len(u) + 1] = x
          /\ \A i \in 1 .. Len(u) : Append(u, x)[i] = u[i]
      BY <3>2, AppendProperties
    <3> QED
      BY <1>7, <3>1, <3>3
  <2> QED
    BY <1>2, <2>1
<1>9. \A i \in 1 .. l : v[i] = s[i]
  BY <1>3, <1>4, <1>8 DEF Repeated
<1>10. ASSUME NEW i \in l + 1 .. l + (n + 1) PROVE v[i] = v[i - off]
  <2>1. CASE i = m + 1
    BY <1>4, <1>6, <1>8, <2>1
  <2>2. CASE i # m + 1
    <3>1. i \in l + 1 .. l + n /\ i \in 1 .. m /\ i - off \in 1 .. m
      BY <1>4, <2>2
    <3>2. u[i] = u[i - off]
      BY <1>3, <3>1 DEF Repeated
    <3> QED
      BY <1>8, <3>1, <3>2
  <2> QED
    BY <2>1, <2>2
<1>11. m + 1 = l + (n + 1)
  BY <1>4
<1> QED
  BY <1>2, <1>3, <1>6, <1>7, <1>8, <1>9, <1>10, <1>11 DEF Repeated

(* Repeat is a repetition, of any length.                                  *)
LEMMA RepeatRepeats ==
  ASSUME NEW s \in Seq(Nat), NEW off \in 1 .. Len(s), NEW n \in Nat
  PROVE  Repeated(Repeat(s, off, n), s, off, n)
<1>1. off \in Nat \ {0} /\ s \in LongSeqs(off) /\ Len(s) \in Nat
  BY DEF LongSeqs
<1>2. /\ Repeat(s, off, 0) = FoldBy(Again(off), s, Numbers(0)) /\ Len(Numbers(0)) = 0
  BY <1>1, RepeatFolds
<1>3. Repeat(s, off, 0) = s
  BY <1>2, FoldEmpty
<1> DEFINE T == {k \in Nat : Repeated(Repeat(s, off, k), s, off, k)}
<1>4. 0 \in T
  BY <1>1, <1>3 DEF Repeated
<1>5. ASSUME NEW k \in Nat, Repeated(Repeat(s, off, k), s, off, k)
      PROVE  Repeated(Repeat(s, off, k + 1), s, off, k + 1)
  <2>1. PICK u : u = Repeat(s, off, k)
    OBVIOUS
  <2>2. u = FoldBy(Again(off), s, Numbers(k)) /\ Len(Numbers(k)) = k
    BY <1>1, <2>1, RepeatFolds
  <2>3. PICK m \in Nat : m = k + 1
    OBVIOUS
  <2>4. Repeat(s, off, m) = FoldBy(Again(off), s, Numbers(m)) /\ Len(Numbers(m)) = m
    BY <1>1, RepeatFolds
  <2>5. \A i \in 1 .. k : Numbers(m)[i] = Numbers(k)[i]
    BY <2>3 DEF Numbers
  <2>6. Numbers(m)[k + 1] = k + 1
    BY <2>3 DEF Numbers
  <2>7. Repeat(s, off, m) = Again(off)[<<u, m>>]
    <3>1. PICK F, p, q : F = Again(off) /\ p = Numbers(k) /\ q = Numbers(m)
      OBVIOUS
    <3>2. ExtendedBy(p, q, k, m)
      BY <2>2, <2>3, <2>4, <2>5, <2>6, <3>1 DEF ExtendedBy
    <3>3. FoldBy(F, s, q) = F[<<FoldBy(F, s, p), m>>]
      BY <3>2, FoldLast
    <3> QED
      BY <2>2, <2>4, <3>1, <3>3
  <2>8. u \in Seq(Nat) /\ Len(u) >= off
    BY <1>1, <1>5, <2>1 DEF Repeated
  <2>9. Again(off)[<<u, m>>] = Append(u, u[Len(u) + 1 - off])
    BY <1>1, <2>8, AgainFacts
  <2>10. Repeated(Append(u, u[Len(u) + 1 - off]), s, off, k + 1)
    BY <1>5, <2>1, OneMoreRepeated
  <2> QED
    BY <2>3, <2>7, <2>9, <2>10
<1>6. \A k \in Nat : k \in T => k + 1 \in T
  BY <1>5
<1> HIDE DEF T
<1>7. n \in T
  BY <1>4, <1>6, SetInduction
<1> QED
  BY <1>7 DEF T

(* Two repetitions of the same are the same.                               *)
LEMMA RepeatedAlike ==
  ASSUME NEW s \in Seq(Nat), NEW off \in 1 .. Len(s), NEW n \in Nat,
         NEW u, Repeated(u, s, off, n), NEW v, Repeated(v, s, off, n)
  PROVE  u = v
<1>1. /\ u \in Seq(Nat) /\ v \in Seq(Nat) /\ Len(s) \in Nat /\ off \in Nat /\ off >= 1
      /\ off <= Len(s) /\ Len(u) = Len(s) + n /\ Len(v) = Len(s) + n
  BY DEF Repeated
<1>2. PICK l \in Nat : l = Len(s)
  BY <1>1
<1>3. PICK m \in Nat : m = l + n
  OBVIOUS
<1> DEFINE T == {k \in Nat : \A i \in 1 .. k : u[i] = v[i]}
<1>4. 0 \in T
  OBVIOUS
<1>5. ASSUME NEW k \in Nat, k < m, \A i \in 1 .. k : u[i] = v[i]
      PROVE  \A i \in 1 .. (k + 1) : u[i] = v[i]
  <2>1. u[k + 1] = v[k + 1]
    <3>1. CASE k + 1 <= l
      <4>1. PICK i \in 1 .. Len(s) : i = k + 1
        BY <1>2, <3>1
      <4>2. u[i] = s[i] /\ v[i] = s[i]
        BY <4>1 DEF Repeated
      <4> QED
        BY <4>1, <4>2
    <3>2. CASE k + 1 > l
      <4>1. PICK i \in Len(s) + 1 .. Len(s) + n : i = k + 1 /\ i - off \in 1 .. k
        <5>1. k + 1 \in l + 1 .. l + n
          BY <1>3, <1>5, <3>2
        <5>2. (k + 1) - off \in 1 .. k
          BY <1>1, <1>2, <3>2
        <5> QED
          BY <1>2, <5>1, <5>2
      <4>2. u[i] = u[i - off] /\ v[i] = v[i - off]
        BY <4>1 DEF Repeated
      <4> QED
        BY <1>5, <4>1, <4>2
    <3> QED
      BY <3>1, <3>2
  <2> QED
    BY <1>5, <2>1
<1>6. \A k \in Nat : k < m /\ k \in T => k + 1 \in T
  <2>1. ASSUME NEW k \in Nat, k < m, k \in T PROVE k + 1 \in T
    <3>1. \A i \in 1 .. k : u[i] = v[i]
      BY <2>1
    <3>2. \A i \in 1 .. (k + 1) : u[i] = v[i]
      BY <1>5, <2>1, <3>1
    <3> QED
      BY <3>2
  <2> QED
    BY <2>1
<1>7. m <= m
  OBVIOUS
<1> HIDE DEF T
<1>8. m \in T
  BY <1>4, <1>6, <1>7, BoundedInduction
<1>9. \A i \in 1 .. m : u[i] = v[i]
  BY <1>8 DEF T
<1>10. Len(u) = m /\ Len(v) = m
  BY <1>1, <1>2, <1>3
<1> QED
  BY <1>1, <1>9, <1>10, SeqEqual

(* What the tokens so far mean, as a fold by a function.                   *)
Meaning == [ok : BOOLEAN, out : Seq(Nat), pos : Nat, first : BOOLEAN,
            recent : Nat \X Nat \X Nat]

NoMeaning ==
  [ok |-> TRUE, out |-> <<>>, pos |-> 0, first |-> TRUE,
   recent |-> IF job.kind = "field" THEN <<1, 2, 4>> ELSE <<MinOffset, 0, 0>>]

Reading == [p \in Meaning \X Token |-> Sequence(p[1], p[2])]

(* Appended, for sequences of numbers.                                     *)
LEMMA Joined ==
  ASSUME NEW s \in Seq(Nat), NEW t \in Seq(Nat)
  PROVE  /\ s \o t \in Seq(Nat) /\ Len(s \o t) = Len(s) + Len(t)
         /\ Len(s) \in Nat /\ Len(t) \in Nat
         /\ \A i \in 1 .. Len(s) : (s \o t)[i] = s[i]
         /\ \A i \in 1 .. Len(t) : (s \o t)[Len(s) + i] = t[i]
<1> PICK S : S = Nat
  OBVIOUS
<1>1. s \in Seq(S) /\ t \in Seq(S)
  OBVIOUS
<1>2. /\ s \o t \in Seq(S) /\ Len(s \o t) = Len(s) + Len(t)
      /\ \A i \in 1 .. Len(s) : (s \o t)[i] = s[i]
      /\ \A i \in 1 .. Len(t) : (s \o t)[Len(s) + i] = t[i]
  BY <1>1, Appended
<1> QED
  BY <1>2, LenProperties

(* Moving an element of three to the front.                                *)
HasInFront(p, s, k) ==
  /\ p \in Seq(Nat) /\ Len(p) = 3 /\ p[1] = s[k]
  /\ p[2] = IF k = 1 THEN s[2] ELSE s[1]
  /\ p[3] = IF k = 3 THEN s[2] ELSE s[3]

(* Such a list, made the way UsedLast makes it.                            *)
LEMMA MovedToFront ==
  ASSUME NEW s \in Seq(Nat), Len(s) = 3, NEW k \in {1, 2, 3}
  PROVE  HasInFront(<<s[k]>> \o RemoveAt(s, k), s, k)
<1> PICK p : p = <<s[k]>> \o RemoveAt(s, k)
  OBVIOUS
<1>0. \A i \in 1 .. 3 : s[i] \in Nat
  BY ElementOfSeq
<1>1. PICK q, r : q = SubSeq(s, 1, k - 1) /\ r = SubSeq(s, k + 1, 3)
  OBVIOUS
<1>2. RemoveAt(s, k) = q \o r
  BY <1>1 DEF RemoveAt
<1>3. /\ q \in Seq(Nat) /\ Len(q) = k - 1
      /\ \A i \in 1 .. Len(q) : q[i] = s[i]
  <2>1. k - 1 \in Int /\ \A i \in 1 .. k - 1 : s[i] \in Nat
    BY <1>0
  <2>2. /\ q \in Seq(Nat) /\ Len(q) = IF 1 <= k - 1 THEN (k - 1) - 1 + 1 ELSE 0
        /\ \A i \in 1 .. (k - 1) - 1 + 1 : q[i] = s[1 + i - 1]
    BY <1>1, <2>1, SubSeqProperties
  <2> QED
    BY <2>2
<1>4. /\ r \in Seq(Nat) /\ Len(r) = 3 - k
      /\ \A i \in 1 .. Len(r) : r[i] = s[k + i]
  <2>1. k + 1 \in Int /\ \A i \in k + 1 .. 3 : s[i] \in Nat
    BY <1>0
  <2>2. /\ r \in Seq(Nat) /\ Len(r) = IF k + 1 <= 3 THEN 3 - (k + 1) + 1 ELSE 0
        /\ \A i \in 1 .. 3 - (k + 1) + 1 : r[i] = s[(k + 1) + i - 1]
    BY <1>1, <2>1, SubSeqProperties
  <2> QED
    BY <2>2
<1>5. PICK u : u = q \o r
  OBVIOUS
<1>6. /\ u \in Seq(Nat) /\ Len(u) = Len(q) + Len(r)
      /\ \A i \in 1 .. Len(q) : u[i] = q[i]
      /\ \A i \in 1 .. Len(r) : u[Len(q) + i] = r[i]
  <2>1. /\ q \o r \in Seq(Nat) /\ Len(q \o r) = Len(q) + Len(r)
        /\ \A i \in 1 .. Len(q) : (q \o r)[i] = q[i]
        /\ \A i \in 1 .. Len(r) : (q \o r)[Len(q) + i] = r[i]
    BY <1>3, <1>4, Joined
  <2> QED
    BY <1>5, <2>1
<1>7. Len(u) = 2 /\ u[1] = (IF k = 1 THEN s[2] ELSE s[1])
      /\ u[2] = (IF k = 3 THEN s[2] ELSE s[3])
  BY <1>3, <1>4, <1>6
<1>8. PICK x \in Nat : x = s[k]
  <2>1. k \in 1 .. Len(s)
    OBVIOUS
  <2> QED
    BY <2>1, ElementOfSeq
<1>9. <<x>> \in Seq(Nat) /\ Len(<<x>>) = 1 /\ <<x>>[1] = x
  OBVIOUS
<1>10. PICK v : v = <<x>>
  OBVIOUS
<1>11. /\ p \in Seq(Nat) /\ Len(p) = Len(v) + Len(u)
       /\ \A i \in 1 .. Len(v) : p[i] = v[i]
       /\ \A i \in 1 .. Len(u) : p[Len(v) + i] = u[i]
  <2>1. p = v \o u /\ v \in Seq(Nat)
    BY <1>2, <1>5, <1>8, <1>9, <1>10
  <2>2. /\ v \o u \in Seq(Nat) /\ Len(v \o u) = Len(v) + Len(u)
        /\ \A i \in 1 .. Len(v) : (v \o u)[i] = v[i]
        /\ \A i \in 1 .. Len(u) : (v \o u)[Len(v) + i] = u[i]
    BY <1>6, <2>1, Joined
  <2> QED
    BY <2>1, <2>2
<1>12. Len(p) = 3 /\ p[1] = x /\ p[2] = u[1] /\ p[3] = u[2]
  BY <1>7, <1>9, <1>10, <1>11
<1>13. HasInFront(p, s, k)
  BY <1>7, <1>8, <1>11, <1>12 DEF HasInFront
<1> QED
  BY <1>13

(* The repeat offsets after a token, the one used in front.                *)
LEMMA UsedLastIs ==
  ASSUME job \in Jobs, NEW recent \in Nat \X Nat \X Nat, NEW t \in Token
  PROVE  UsedLast(recent, t) =
           IF Raw(t) THEN <<t.raw, recent[1], recent[2]>>
           ELSE IF t.code = 0 THEN recent
           ELSE IF t.code = 1 THEN <<recent[2], recent[1], recent[3]>>
           ELSE <<recent[3], recent[1], recent[2]>>
<1>1. PICK a \in Nat, b \in Nat, c \in Nat : recent = <<a, b, c>>
  OBVIOUS
<1>2. t.code \in 0 .. 3 /\ t.raw \in Nat /\ (~Raw(t) => t.code # 3)
  BY DEF Token, Raw
<1>3. CASE Raw(t)
  BY <1>3 DEF UsedLast
<1>4. CASE ~Raw(t)
  <2>1. UsedLast(recent, t) = <<recent[t.code + 1]>> \o RemoveAt(recent, t.code + 1)
    BY <1>4 DEF UsedLast
  <2>2. t.code \in {0, 1, 2}
    BY <1>2, <1>4
  <2>3. PICK k \in {1, 2, 3} : k = t.code + 1
    BY <2>2
  <2>4. recent \in Seq(Nat) /\ Len(recent) = 3
    BY <1>1
  <2>5. recent[1] = a /\ recent[2] = b /\ recent[3] = c
    BY <1>1
  <2>6. PICK p : p = <<recent[k]>> \o RemoveAt(recent, k)
    OBVIOUS
  <2>7. /\ p \in Seq(Nat) /\ Len(p) = 3 /\ p[1] = recent[k]
        /\ p[2] = (IF k = 1 THEN b ELSE a) /\ p[3] = (IF k = 3 THEN b ELSE c)
    <3>1. HasInFront(p, recent, k)
      BY <2>4, <2>6, MovedToFront
    <3> QED
      BY <2>5, <3>1 DEF HasInFront
  <2>8. p = <<p[1], p[2], p[3]>>
    <3>1. p = [i \in 1 .. 3 |-> p[i]]
      BY <2>7
    <3> QED
      BY <3>1
  <2>9. UsedLast(recent, t) = p
    BY <2>1, <2>3, <2>6
  <2>10. /\ k = 1 => p = <<a, b, c>>
         /\ k = 2 => p = <<b, a, c>>
         /\ k = 3 => p = <<c, a, b>>
    BY <2>5, <2>7, <2>8
  <2>11. /\ t.code = 0 => k = 1
         /\ t.code = 1 => k = 2
         /\ t.code # 0 /\ t.code # 1 => k = 3
    BY <2>2, <2>3
  <2> QED
    BY <1>1, <1>4, <2>5, <2>9, <2>10, <2>11
<1> QED
  BY <1>3, <1>4

(* The repeat offsets after a token are numbers.                           *)
LEMMA UsedLastTyped ==
  ASSUME job \in Jobs, NEW recent \in Nat \X Nat \X Nat, NEW t \in Token
  PROVE  UsedLast(recent, t) \in Nat \X Nat \X Nat
<1>1. t.raw \in Nat
  BY DEF Token
<1> QED
  BY <1>1, UsedLastIs

(* What a token says is a number, whatever came before it.                 *)
LEMMA LengthFacts ==
  ASSUME job \in Jobs, NEW t \in Token
  PROVE  LitLen(t) \in Nat /\ MatLen(t) \in Nat
<1>1. t.lit \in Nat /\ t.mat \in Nat /\ t.xlit \in Nat /\ t.xmat \in Nat
  BY DEF Token
<1>2. job.kind \in Kinds /\ Escape \in Nat /\ MinMatch \in Nat
  BY JobFacts, BoundAssumption DEF MinMatch
<1> QED
  BY <1>1, <1>2 DEF LitLen, MatLen

(* The literals of a token, after what its predecessors mean.              *)
Lits(r, n) == r.out \o [i \in 1 .. n |-> r.pos + i]

(* The literals come after what there was.                                 *)
LEMMA LitsFacts ==
  ASSUME NEW r \in Meaning, NEW n \in Nat
  PROVE  /\ Lits(r, n) \in Seq(Nat) /\ Len(Lits(r, n)) = Len(r.out) + n
         /\ Len(r.out) \in Nat /\ r.out \in Seq(Nat) /\ r.pos \in Nat
<1>1. r.out \in Seq(Nat) /\ r.pos \in Nat
  BY DEF Meaning
<1>2. PICK u : u = [i \in 1 .. n |-> r.pos + i]
  OBVIOUS
<1>3. u \in Seq(Nat) /\ Len(u) = n
  <2>1. u = [i \in 1 .. n |-> u[i]] /\ \A i \in 1 .. n : u[i] \in Nat
    BY <1>1, <1>2
  <2> QED
    BY <2>1, FunctionIsSeq
<1>4. Lits(r, n) = r.out \o u
  BY <1>2 DEF Lits
<1>5. /\ r.out \o u \in Seq(Nat) /\ Len(r.out \o u) = Len(r.out) + Len(u)
      /\ Len(r.out) \in Nat
  <2>1. PICK v : v = r.out
    OBVIOUS
  <2>2. v \o u \in Seq(Nat) /\ Len(v \o u) = Len(v) + Len(u) /\ Len(v) \in Nat
    BY <1>1, <1>3, <2>1, Joined
  <2> QED
    BY <2>1, <2>2
<1> QED
  BY <1>1, <1>3, <1>4, <1>5

(* One more token leaves a meaning a meaning.                              *)
LEMMA SequenceTyped ==
  ASSUME job \in Jobs, NEW r \in Meaning, NEW t \in Token
  PROVE  Sequence(r, t) \in Meaning
<1> DEFINE lead == Leading(t, r.first)
           off  == UsedLast(r.recent, t)[1]
           lits == Lits(r, LitLen(t))
           ok   == /\ r.ok /\ r.pos + LitLen(t) <= job.lits
                   /\ lead \/ off \in (IF job.kind = "fast" THEN MinOffset ELSE 1) .. Len(lits)
<1>1. Sequence(r, t) =
        [ok     |-> ok,
         out    |-> IF ok /\ ~lead THEN Repeat(lits, off, MatLen(t)) ELSE lits,
         pos    |-> r.pos + LitLen(t),
         recent |-> IF lead THEN r.recent ELSE UsedLast(r.recent, t),
         first  |-> FALSE]
  BY DEF Sequence, Lits
<1>2. /\ r.recent \in Nat \X Nat \X Nat /\ r.pos \in Nat /\ LitLen(t) \in Nat
      /\ MatLen(t) \in Nat /\ lits \in Seq(Nat) /\ UsedLast(r.recent, t) \in Nat \X Nat \X Nat
  BY LengthFacts, LitsFacts, UsedLastTyped DEF Meaning
<1>3. ok /\ ~lead => off \in 1 .. Len(lits)
  BY <1>2, BoundAssumption
<1> HIDE DEF lead, off, lits, ok
<1>4. ok /\ ~lead => Repeat(lits, off, MatLen(t)) \in Seq(Nat)
  BY <1>2, <1>3, RepeatRepeats DEF Repeated
<1>5. ok \in BOOLEAN
  BY DEF ok, Meaning
<1>6. r.pos + LitLen(t) \in Nat
  BY <1>2
<1> QED
  BY <1>1, <1>2, <1>4, <1>5, <1>6 DEF Meaning

Reads(g, tokens, n) ==
  g = [S \in SUBSET (1 .. n) |->
         IF S = {} THEN NoMeaning ELSE Sequence(g[S \ {Max(S)}], tokens[Max(S)])]

(* The meaning of no token is one.                                         *)
LEMMA NoMeaningTyped == ASSUME job \in Jobs PROVE NoMeaning \in Meaning
<1>1. MinOffset \in Nat
  BY BoundAssumption
<1>2. <<>> \in Seq(Nat)
  OBVIOUS
<1>3. (IF job.kind = "field" THEN <<1, 2, 4>> ELSE <<MinOffset, 0, 0>>) \in Nat \X Nat \X Nat
  BY <1>1
<1> QED
  BY <1>2, <1>3 DEF NoMeaning, Meaning

(* DefinedBy is the fold of the meaning of one token.                      *)
LEMMA ReadingFolds ==
  ASSUME job \in Jobs, NEW tokens \in Seq(Token)
  PROVE  /\ DefinedBy(tokens) = FoldBy(Reading, NoMeaning, tokens)
         /\ Reading \in [Meaning \X Token -> Meaning] /\ NoMeaning \in Meaning
<1> DEFINE F == Reading
           A == Meaning
           s == NoMeaning
<1>1. \A u \in A, t \in Token : F[<<u, t>>] = Sequence(u, t) /\ F[<<u, t>>] \in A
  BY SequenceTyped DEF Reading
<1>2. F \in [A \X Token -> A]
  <2>1. F = [p \in A \X Token |-> F[p]]
    BY DEF Reading
  <2>2. \A p \in A \X Token : F[p] \in A
    BY <1>1
  <2> HIDE DEF F, A
  <2> QED
    BY <2>1, <2>2
<1>3. PICK n \in Nat : n = Len(tokens) /\ DOMAIN tokens = 1 .. n
  OBVIOUS
<1>4. \A i \in 1 .. n : tokens[i] \in Token
  BY <1>3, ElementOfSeq
<1>5. s \in A
  BY NoMeaningTyped
<1> HIDE DEF F, A, s
<1>6. PICK g : FoldsBy(g, F, s, tokens, n)
  BY FoldExists
<1>7. g = [S \in SUBSET (1 .. n) |->
             IF S = {} THEN s ELSE F[<<g[S \ {Max(S)}], tokens[Max(S)]>>]]
  BY <1>6 DEF FoldsBy
<1>8. Solves(g, F, s, tokens, n, A)
  BY <1>7 DEF Solves
<1>9. \A S \in SUBSET (1 .. n) : g[S] \in A
  BY <1>2, <1>4, <1>5, <1>8, FoldSolves
<1>10. Reads(g, tokens, n)
  <2>1. ASSUME NEW S \in SUBSET (1 .. n), S # {}
        PROVE  g[S] = Sequence(g[S \ {Max(S)}], tokens[Max(S)])
    <3>1. Max(S) \in 1 .. n /\ S \ {Max(S)} \in SUBSET (1 .. n)
      BY <2>1, MaxOfSome
    <3>2. g[S \ {Max(S)}] \in A /\ tokens[Max(S)] \in Token
      BY <1>4, <1>9, <3>1
    <3>3. g[S] = F[<<g[S \ {Max(S)}], tokens[Max(S)]>>]
      BY <1>7, <2>1
    <3> QED
      BY <1>1, <3>2, <3>3
  <2> QED
    BY <1>7, <2>1 DEF Reads, s
<1> DEFINE h == CHOOSE f : Reads(f, tokens, n)
<1>11. Reads(h, tokens, n)
  BY <1>10
<1>12. DefinedBy(tokens) = h[1 .. n]
  BY <1>3 DEF DefinedBy, FoldLeft, MapThenFoldSet, Reads, NoMeaning
<1> HIDE DEF h
<1>13. Solves(h, F, s, tokens, n, A)
  <2>1. ASSUME NEW S \in SUBSET (1 .. n), S # {}, h[S \ {Max(S)}] \in A
        PROVE  h[S] = F[<<h[S \ {Max(S)}], tokens[Max(S)]>>]
    <3>1. tokens[Max(S)] \in Token
      BY <1>4, <2>1, MaxOfSome
    <3>2. h[S] = Sequence(h[S \ {Max(S)}], tokens[Max(S)])
      BY <1>11, <2>1 DEF Reads
    <3> QED
      BY <1>1, <2>1, <3>1, <3>2
  <2>2. h = [S \in SUBSET (1 .. n) |-> h[S]] /\ h[{}] = s
    BY <1>11 DEF Reads, s
  <2> QED
    BY <2>1, <2>2 DEF Solves
<1>14. FoldsBy(h, F, s, tokens, n)
  BY <1>2, <1>4, <1>5, <1>13, FoldSolves
<1>15. FoldBy(F, s, tokens) = h[1 .. n]
  BY <1>3, <1>14, FoldIsSolved
<1> QED
  BY <1>2, <1>5, <1>12, <1>15 DEF F, s, A

(* What no token, and one more token, defines.                             *)
LEMMA DefinedTyped ==
  ASSUME job \in Jobs, NEW tokens \in Seq(Token)
  PROVE  DefinedBy(tokens) \in Meaning
<1> PICK F, s, A : F = Reading /\ s = NoMeaning /\ A = Meaning
  OBVIOUS
<1>1. F \in [A \X Token -> A] /\ s \in A /\ DefinedBy(tokens) = FoldBy(F, s, tokens)
  BY ReadingFolds
<1>2. FoldBy(F, s, tokens) \in A
  BY <1>1, FoldTyped
<1> QED
  BY <1>1, <1>2

(* No token defines nothing.                                               *)
LEMMA DefinedEmpty == ASSUME job \in Jobs PROVE DefinedBy(<<>>) = NoMeaning
<1>1. <<>> \in Seq(Token) /\ Len(<<>>) = 0
  OBVIOUS
<1>2. DefinedBy(<<>>) = FoldBy(Reading, NoMeaning, <<>>)
  BY <1>1, ReadingFolds
<1> QED
  BY <1>1, <1>2, FoldEmpty

(* The last token adds to what those before it define.                     *)
LEMMA DefinedNext ==
  ASSUME job \in Jobs, NEW tokens \in Seq(Token), NEW t \in Token
  PROVE  /\ Append(tokens, t) \in Seq(Token)
         /\ DefinedBy(Append(tokens, t)) = Sequence(DefinedBy(tokens), t)
<1>1. PICK n \in Nat : n = Len(tokens)
  OBVIOUS
<1>2. PICK u : u = Append(tokens, t)
  OBVIOUS
<1>3. u \in Seq(Token) /\ Len(u) = n + 1 /\ u[n + 1] = t /\ \A i \in 1 .. n : u[i] = tokens[i]
  BY <1>1, <1>2
<1>4. ExtendedBy(tokens, u, n, t)
  BY <1>1, <1>3 DEF ExtendedBy
<1>5. FoldBy(Reading, NoMeaning, u) = Reading[<<FoldBy(Reading, NoMeaning, tokens), t>>]
  BY <1>4, FoldLast
<1>6. DefinedBy(u) = FoldBy(Reading, NoMeaning, u)
  BY <1>3, ReadingFolds
<1>7. DefinedBy(tokens) = FoldBy(Reading, NoMeaning, tokens)
  BY ReadingFolds
<1>8. DefinedBy(tokens) \in Meaning
  BY DefinedTyped
<1>9. Reading[<<DefinedBy(tokens), t>>] = Sequence(DefinedBy(tokens), t)
  BY <1>8 DEF Reading
<1> QED
  BY <1>2, <1>3, <1>5, <1>6, <1>7, <1>9

(* A step of the same call leaves what tokens mean.                        *)
LEMMA FoldsAsBefore ==
  job \in Jobs => \A tokens \in Seq(Token) :
                    DefinedBy(tokens) = FoldBy(Reading, NoMeaning, tokens)
BY ReadingFolds

(* A call does not change what its tokens define.                          *)
LEMMA DefinedStays ==
  ASSUME job \in Jobs, job' = job
  PROVE  \A tokens \in Seq(Token) : DefinedBy(tokens)' = DefinedBy(tokens)
<1>1. (job \in Jobs => \A tokens \in Seq(Token) :
                          DefinedBy(tokens) = FoldBy(Reading, NoMeaning, tokens))'
  BY FoldsAsBefore, PTL
<1>2. \A tokens \in Seq(Token) : DefinedBy(tokens)' = FoldBy(Reading', NoMeaning', tokens)
  BY <1>1
<1>3. Reading' = Reading
  BY DEF Reading, Sequence, Leading, Raw, UsedLast, LitLen, MatLen, MinMatch, Long
<1>4. NoMeaning' = NoMeaning
  BY DEF NoMeaning
<1> QED
  BY <1>2, <1>3, <1>4, FoldsAsBefore

(* What one token adds.                                                    *)
Least == IF job.kind = "fast" THEN MinOffset ELSE 1

(* The parts of what a token adds.                                         *)
LEMMA SequenceIs ==
  ASSUME job \in Jobs, NEW r \in Meaning, NEW t \in Token, NEW m, m = Sequence(r, t)
  PROVE  /\ m.ok <=> /\ r.ok /\ r.pos + LitLen(t) <= job.lits
                     /\ \/ Leading(t, r.first)
                        \/ UsedLast(r.recent, t)[1] \in Least .. Len(Lits(r, LitLen(t)))
         /\ m.out = IF m.ok /\ ~Leading(t, r.first)
                    THEN Repeat(Lits(r, LitLen(t)), UsedLast(r.recent, t)[1], MatLen(t))
                    ELSE Lits(r, LitLen(t))
         /\ m.pos = r.pos + LitLen(t) /\ m.first = FALSE
         /\ m.recent = IF Leading(t, r.first) THEN r.recent ELSE UsedLast(r.recent, t)
BY DEF Sequence, Lits, Least

(* No offset is zero.                                                      *)
LEMMA LeastFacts == ASSUME job \in Jobs PROVE Least \in Nat /\ Least >= 1
BY BoundAssumption DEF Least

(* A token that defines something defines no less than its literals, and   *)
(* with a match so much more.                                              *)
LEMMA SequenceLength ==
  ASSUME job \in Jobs, NEW r \in Meaning, NEW t \in Token, NEW m, m = Sequence(r, t), m.ok
  PROVE  /\ m.out \in Seq(Nat) /\ Len(m.out) \in Nat
         /\ Len(m.out) >= Len(r.out) + LitLen(t)
         /\ ~Leading(t, r.first) => Len(m.out) = Len(r.out) + LitLen(t) + MatLen(t)
<1>1. LitLen(t) \in Nat /\ MatLen(t) \in Nat
  BY LengthFacts
<1>2. PICK l : l = Lits(r, LitLen(t))
  OBVIOUS
<1>3. l \in Seq(Nat) /\ Len(l) = Len(r.out) + LitLen(t) /\ Len(r.out) \in Nat
  BY <1>1, <1>2, LitsFacts
<1>4. CASE Leading(t, r.first)
  <2>1. m.out = l
    BY <1>2, <1>4, SequenceIs
  <2> QED
    BY <1>1, <1>3, <1>4, <2>1
<1>5. CASE ~Leading(t, r.first)
  <2>1. PICK off : off = UsedLast(r.recent, t)[1]
    OBVIOUS
  <2>2. off \in Least .. Len(l) /\ m.out = Repeat(l, off, MatLen(t))
    BY <1>2, <1>5, <2>1, SequenceIs
  <2>3. off \in 1 .. Len(l)
    BY <1>3, <2>2, LeastFacts
  <2>4. Repeated(m.out, l, off, MatLen(t))
    BY <1>1, <1>3, <2>2, <2>3, RepeatRepeats
  <2>5. m.out \in Seq(Nat) /\ Len(m.out) = Len(l) + MatLen(t)
    BY <2>4 DEF Repeated
  <2>6. PICK a \in Nat, b \in Nat, c \in Nat :
          a = Len(r.out) /\ b = LitLen(t) /\ c = MatLen(t)
    BY <1>1, <1>3
  <2>7. Len(m.out) = a + b + c
    BY <1>3, <2>5, <2>6
  <2> QED
    BY <2>5, <2>6, <2>7
<1> QED
  BY <1>4, <1>5

(* The repeat offsets the node keeps, and those of the definition: all for *)
(* field_lz, the last for fastlz, none for lz.                             *)
Agree(recent) ==
  /\ job.kind = "field" => reps = recent
  /\ job.kind = "fast" => reps[1] = recent[1]

(* The node takes the offset that the definition takes.                    *)
LEMMA OffsetsAgree ==
  ASSUME TypeOK, NEW recent \in Nat \X Nat \X Nat, NEW t \in Token, Agree(recent)
  PROVE  /\ OffsetOf(t) = UsedLast(recent, t)[1]
         /\ job.kind = "field" => RepsAfter(t) = UsedLast(recent, t)
         /\ job.kind = "fast" => RepsAfter(t)[1] = UsedLast(recent, t)[1]
<1>1. job \in Jobs /\ job.kind \in Kinds
  BY JobFacts DEF TypeOK
<1>2. PICK a \in Nat, b \in Nat, c \in Nat : recent = <<a, b, c>>
  OBVIOUS
<1>3. PICK x \in Nat, y \in Nat, z \in Nat : reps = <<x, y, z>>
  BY DEF TypeOK
<1>4. t.code \in {0, 1, 2, 3} /\ t.raw \in Nat
  BY DEF Token
<1>5. UsedLast(recent, t) =
           IF Raw(t) THEN <<t.raw, a, b>>
           ELSE IF t.code = 0 THEN <<a, b, c>>
           ELSE IF t.code = 1 THEN <<b, a, c>>
           ELSE <<c, a, b>>
  <2>1. recent[1] = a /\ recent[2] = b /\ recent[3] = c
    BY <1>2
  <2> QED
    BY <1>1, <1>2, <2>1, UsedLastIs
<1>6. CASE job.kind = "lz"
  BY <1>5, <1>6 DEF Raw, OffsetOf
<1>7. CASE job.kind = "fast"
  <2>1. x = a
    BY <1>2, <1>3, <1>7 DEF Agree
  <2>2. Raw(t) <=> t.code # 0
    BY <1>4, <1>7 DEF Raw
  <2> QED
    BY <1>3, <1>5, <1>7, <2>1, <2>2 DEF OffsetOf, RepsAfter
<1>8. CASE job.kind = "field"
  <2>1. x = a /\ y = b /\ z = c
    BY <1>2, <1>3, <1>8 DEF Agree
  <2>2. Raw(t) <=> t.code = 3
    BY <1>4, <1>8 DEF Raw
  <2>3. reps[1] = x /\ reps[2] = y /\ reps[3] = z
    BY <1>3
  <2>4. OffsetOf(t) = IF t.code = 3 THEN t.raw ELSE reps[t.code + 1]
    BY <1>8, <2>2 DEF OffsetOf
  <2>5. CASE t.code = 0
    BY <1>3, <1>5, <1>8, <2>1, <2>2, <2>3, <2>4, <2>5 DEF RepsAfter
  <2>6. CASE t.code = 1
    BY <1>3, <1>5, <1>8, <2>1, <2>2, <2>3, <2>4, <2>6 DEF RepsAfter
  <2>7. CASE t.code = 2
    BY <1>3, <1>5, <1>8, <2>1, <2>2, <2>3, <2>4, <2>7 DEF RepsAfter
  <2>8. CASE t.code = 3
    BY <1>3, <1>5, <1>8, <2>1, <2>2, <2>3, <2>4, <2>8 DEF RepsAfter
  <2> QED
    BY <1>4, <2>5, <2>6, <2>7, <2>8
<1> QED
  BY <1>1, <1>6, <1>7, <1>8 DEF Kinds

(* The output as what was there before and what the tokens define; and     *)
(* what was there, as this node sees it.                                   *)
LEMMA BeforeFacts ==
  ASSUME job \in Jobs, NEW u \in Seq(Nat)
  PROVE  /\ Before \in Seq(Nat) /\ Len(Before) = job.base /\ job.base \in Nat
         /\ Before \o u \in Seq(Nat) /\ Len(Before \o u) = job.base + Len(u) /\ Len(u) \in Nat
         /\ \A i \in 1 .. job.base : (Before \o u)[i] = Old
         /\ \A i \in 1 .. Len(u) : (Before \o u)[job.base + i] = u[i]
<1>1. job.base \in Nat
  BY JobFacts
<1>2. PICK b : b = Before
  OBVIOUS
<1>3. b \in Seq(Nat) /\ Len(b) = job.base /\ \A i \in 1 .. job.base : b[i] = Old
  <2>1. /\ b = [i \in 1 .. job.base |-> b[i]]
        /\ \A i \in 1 .. job.base : b[i] = Old /\ b[i] \in Nat
    BY <1>2 DEF Before, Old
  <2> QED
    BY <1>1, <2>1, FunctionIsSeq
<1>4. /\ b \o u \in Seq(Nat) /\ Len(b \o u) = Len(b) + Len(u) /\ Len(u) \in Nat
      /\ \A i \in 1 .. Len(b) : (b \o u)[i] = b[i]
      /\ \A i \in 1 .. Len(u) : (b \o u)[Len(b) + i] = u[i]
  BY <1>3, Joined
<1> QED
  BY <1>1, <1>2, <1>3, <1>4

(* A match that repeats at an offset, after the literals, is the match.    *)
Matched(o, l, off, n) ==
  /\ o \in Seq(Nat) /\ Len(o) = job.base + Len(l) + n
  /\ \A i \in 1 .. job.base + Len(l) : o[i] = (Before \o l)[i]
  /\ \A i \in job.base + Len(l) + 1 .. Len(o) : o[i] = o[i - off]

(* Such an output is what was there before, and the repetition.            *)
LEMMA MatchIsRepeat ==
  ASSUME job \in Jobs, NEW l \in Seq(Nat), NEW off \in 1 .. Len(l), NEW n \in Nat,
         NEW o, Matched(o, l, off, n)
  PROVE  o = Before \o Repeat(l, off, n)
<1>0. o \in Seq(Nat)
  BY DEF Matched
<1>1. PICK b \in Nat : b = job.base
  BY JobFacts
<1>2. PICK k \in Nat : k = Len(l)
  OBVIOUS
<1>10. Len(o) = b + k + n /\ off \in 1 .. k
  BY <1>1, <1>2 DEF Matched
<1>11. \A i \in 1 .. b + k : o[i] = (Before \o l)[i]
  BY <1>1, <1>2 DEF Matched
<1>12. \A i \in b + k + 1 .. b + k + n : o[i] = o[i - off]
  BY <1>1, <1>2, <1>10 DEF Matched
<1>3. PICK u : u = [i \in 1 .. k + n |-> o[b + i]]
  OBVIOUS
<1>4. u \in Seq(Nat) /\ Len(u) = k + n /\ \A i \in 1 .. k + n : u[i] = o[b + i]
  <2>1. ASSUME NEW i \in 1 .. k + n PROVE o[b + i] \in Nat
    <3>1. PICK j \in 1 .. Len(o) : j = b + i
      <4>1. b + i \in 1 .. b + k + n
        OBVIOUS
      <4> QED
        BY <1>10, <4>1
    <3> QED
      BY <1>0, <3>1, ElementOfSeq
  <2>2. u = [i \in 1 .. k + n |-> u[i]] /\ \A i \in 1 .. k + n : u[i] \in Nat
    BY <1>3, <2>1
  <2>3. u \in Seq(Nat) /\ Len(u) = k + n
    <3>1. PICK c \in Nat : c = k + n
      OBVIOUS
    <3> QED
      BY <2>2, <3>1, FunctionIsSeq
  <2> QED
    BY <1>3, <2>3
<1>5. \A i \in 1 .. k : u[i] = l[i]
  <2> TAKE i \in 1 .. k
  <2>1. PICK j : j = b + i
    OBVIOUS
  <2>2. j \in 1 .. b + k /\ i \in 1 .. k + n
    BY <2>1
  <2>3. o[j] = (Before \o l)[j]
    BY <1>11, <2>2
  <2>4. (Before \o l)[j] = l[i]
    BY <1>1, <1>2, <2>1, BeforeFacts
  <2> QED
    BY <1>4, <2>1, <2>2, <2>3, <2>4
<1>6. \A i \in k + 1 .. k + n : u[i] = u[i - off]
  <2> TAKE i \in k + 1 .. k + n
  <2>1. PICK j : j = b + i
    OBVIOUS
  <2>2. /\ j \in b + k + 1 .. b + k + n /\ i \in 1 .. k + n
        /\ i - off \in 1 .. k + n /\ b + (i - off) = j - off
    BY <1>10, <2>1
  <2>3. o[j] = o[j - off]
    BY <1>12, <2>2
  <2>4. u[i] = o[j] /\ u[i - off] = o[j - off]
    BY <1>4, <2>1, <2>2
  <2> QED
    BY <2>3, <2>4
<1>7. Repeated(u, l, off, n)
  BY <1>2, <1>4, <1>5, <1>6 DEF Repeated
<1>8. u = Repeat(l, off, n)
  BY <1>7, RepeatRepeats, RepeatedAlike
<1>9. o = Before \o u
  <2>1. PICK v : v = Before \o u
    OBVIOUS
  <2>2. /\ v \in Seq(Nat) /\ Len(v) = b + (k + n)
        /\ \A i \in 1 .. b : v[i] = Old
        /\ \A i \in 1 .. k + n : v[b + i] = u[i]
    BY <1>1, <1>4, <2>1, BeforeFacts
  <2>3. Len(o) = Len(v)
    <3>1. b + k + n = b + (k + n)
      OBVIOUS
    <3> QED
      BY <1>10, <2>2, <3>1
  <2>4. ASSUME NEW i \in 1 .. Len(o) PROVE o[i] = v[i]
    <3>1. CASE i <= b
      <4>1. i \in 1 .. b + k /\ i \in 1 .. job.base /\ i \in 1 .. b
        BY <1>1, <3>1
      <4>2. o[i] = (Before \o l)[i]
        BY <1>11, <4>1
      <4>3. (Before \o l)[i] = Old
        BY <4>1, BeforeFacts
      <4> QED
        BY <2>2, <4>1, <4>2, <4>3
    <3>2. CASE i > b
      <4>1. PICK j \in 1 .. k + n : i = b + j
        <5>1. i - b \in 1 .. k + n /\ i = b + (i - b)
          BY <1>10, <3>2
        <5> QED
          BY <5>1
      <4> QED
        BY <1>4, <2>2, <4>1
    <3> QED
      BY <3>1, <3>2
  <2>5. o = v
    BY <1>0, <2>2, <2>3, <2>4, SeqEqual
  <2> QED
    BY <2>1, <2>5
<1> QED
  BY <1>8, <1>9

-----------------------------------------------------------------------------
(* The state of a call in what its tokens define.                          *)

(* Between tokens the node has what the tokens so far define.              *)
AtRest ==
  phase \in {"begin", "token"} =>
    /\ Defined.ok /\ (Defined.first <=> read = <<>>) /\ Agree(Defined.recent)
    /\ out = Before \o Defined.out /\ litPos = Defined.pos

(* In a token it has what those before define, then its literals, then     *)
(* those and a part of the match.                                          *)
InToken(r, t) ==
  /\ r.ok /\ cur = [lit |-> LitLen(t), off |-> UsedLast(r.recent, t)[1], mat |-> MatLen(t)]
  /\ Agree(IF Leading(t, r.first) THEN r.recent ELSE UsedLast(r.recent, t))
  /\ phase = "lead" <=> Leading(t, r.first)
  /\ phase \in {"literals", "lead"} => out = Before \o r.out /\ litPos = r.pos
  /\ phase \in {"match", "copy"} => litPos = r.pos + LitLen(t)
  /\ phase = "match" => out = Before \o Lits(r, LitLen(t))
  /\ phase = "copy" =>
       /\ start = job.base + Len(Lits(r, LitLen(t))) /\ cur.off >= Least
       /\ \A i \in 1 .. start : out[i] = (Before \o Lits(r, LitLen(t)))[i]

UnderWay ==
  phase \in {"literals", "lead", "match", "copy"} =>
    \E tokens \in Seq(Token), t \in Token :
      read = Append(tokens, t) /\ InToken(DefinedBy(tokens), t)

Ended == phase = "done" => DecodesAsDefined

Meant == AtRest /\ UnderWay /\ Ended

(* What depends on the call only, stays.                                   *)
LEMMA SameCall ==
  ASSUME job \in Jobs, job' = job
  PROVE  /\ Before' = Before /\ Limit' = Limit /\ Least' = Least
         /\ \A t \in Token : LitLen(t)' = LitLen(t) /\ MatLen(t)' = MatLen(t)
         /\ \A t \in Token, b \in BOOLEAN : Leading(t, b)' <=> Leading(t, b)
         /\ \A t \in Token : \A x : UsedLast(x, t)' = UsedLast(x, t)
BY DEF Before, Limit, Least, LitLen, MatLen, MinMatch, Long, Leading, UsedLast, Raw

(* An error that says nothing about the tokens, or one that they justify.  *)
LEMMA FailMeans ==
  ASSUME LzInv, NEW kind \in Results \ {"Ok"}, Fail(kind), read' = read,
         kind = "Malformed" => ~Defined.ok \/ job.base + Len(Defined.out) > Limit
  PROVE  Meant'
<1>1. phase' = "done" /\ result' = kind /\ job' = job /\ job \in Jobs /\ read \in Seq(Token)
  BY DEF Fail, LzInv, TypeOK
<1>2. Defined' = Defined /\ Limit' = Limit
  BY <1>1, DefinedStays, SameCall DEF Defined
<1>3. AtRest' /\ UnderWay'
  BY <1>1 DEF AtRest, UnderWay
<1>4. Ended'
  BY <1>1, <1>2 DEF Ended, DecodesAsDefined
<1> QED
  BY <1>3, <1>4 DEF Meant

(* No token, and nothing but what was there before.                        *)
LEMMA InitMeans == ASSUME Init PROVE Meant
<1>1. job \in Jobs /\ phase = "begin" /\ read = <<>> /\ litPos = 0
      /\ reps = IF job.kind = "field" THEN <<1, 2, 4>> ELSE <<MinOffset, 0, 0>>
  BY DEF Init
<1>2. Defined = NoMeaning
  BY <1>1, DefinedEmpty DEF Defined
<1>3. out = Before \o <<>>
  <2>1. <<>> \in Seq(Nat)
    OBVIOUS
  <2>2. out = Before /\ Before \in Seq(Nat)
    BY <1>1, <2>1, BeforeFacts DEF Init, Before
  <2>3. PICK b : b = Before
    OBVIOUS
  <2>4. b \o <<>> = b
    BY <2>2, <2>3
  <2> QED
    BY <2>2, <2>3, <2>4
<1>4. AtRest
  BY <1>1, <1>2, <1>3 DEF AtRest, NoMeaning, Agree
<1> QED
  BY <1>1, <1>4 DEF Meant, UnderWay, Ended

(* A call that goes on without a token.                                    *)
LEMMA RestStays ==
  ASSUME LzInv, AtRest, phase = "begin" \/ phase = "token", phase' \in {"begin", "token"},
         job' = job, read' = read, out' = out, litPos' = litPos, reps' = reps
  PROVE  Meant'
<1>1. job \in Jobs /\ read \in Seq(Token)
  BY DEF LzInv, TypeOK
<1>2. Defined' = Defined /\ Before' = Before
  BY <1>1, DefinedStays, SameCall DEF Defined
<1>3. AtRest'
  BY <1>2 DEF AtRest, Agree
<1> QED
  BY <1>3 DEF Meant, UnderWay, Ended

(* The reserve decodes nothing.                                            *)
LEMMA BeginMeans == ASSUME LzInv, Meant, Begin PROVE Meant'
<1>1. phase = "begin" /\ read' = read
  BY DEF Begin
<1>2. CASE \E kind \in {"LimitExceeded", "AllocationFailed"} : Fail(kind)
  BY <1>1, <1>2, FailMeans DEF Results
<1>3. CASE /\ phase' = "token"
           /\ UNCHANGED <<job, out, peak, litPos, cur, reps, start, copied, result>>
  BY <1>1, <1>3, RestStays DEF Meant
<1> QED
  BY <1>2, <1>3 DEF Begin

(* A token in full: its lengths, its offset and the repeat offsets.        *)
LEMMA ReadTokenMeans == ASSUME LzInv, Meant, ReadToken PROVE Meant'
<1>1. /\ phase = "token" /\ job' = job /\ out' = out /\ litPos' = litPos
      /\ job \in Jobs /\ TypeOK /\ Tokens[job.kind] \subseteq Token /\ read \in Seq(Token)
  BY JobFacts DEF ReadToken, LzInv, TypeOK
<1>2. PICK t \in Token :
        /\ read' = Append(read, t)
        /\ cur' = [lit |-> LitLen(t), off |-> OffsetOf(t), mat |-> MatLen(t)]
        /\ reps' = IF Leading(t, read = <<>>) THEN reps ELSE RepsAfter(t)
        /\ phase' = IF Leading(t, read = <<>>) THEN "lead" ELSE "literals"
  BY <1>1 DEF ReadToken
<1>3. PICK r : r = Defined
  OBVIOUS
<1>4. PICK tokens \in Seq(Token) : tokens = read
  BY <1>1
<1>5. /\ r = DefinedBy(tokens) /\ r \in Meaning
  BY <1>1, <1>3, <1>4, DefinedTyped DEF Defined
<1>6. /\ r.ok /\ (r.first <=> read = <<>>) /\ Agree(r.recent)
      /\ out = Before \o r.out /\ litPos = r.pos
  BY <1>1, <1>3 DEF Meant, AtRest
<1>7. r.recent \in Nat \X Nat \X Nat /\ r.first \in BOOLEAN
  BY <1>5 DEF Meaning
<1>8. DefinedBy(tokens)' = r
  BY <1>1, <1>5, DefinedStays
<1>9. Leading(t, r.first) <=> Leading(t, read = <<>>)
  BY <1>6 DEF Leading
<1>10. /\ LitLen(t)' = LitLen(t) /\ MatLen(t)' = MatLen(t) /\ Before' = Before
       /\ (Leading(t, r.first)' <=> Leading(t, r.first))
       /\ UsedLast(r.recent, t)' = UsedLast(r.recent, t)
  BY <1>1, <1>7, SameCall
<1>11. /\ OffsetOf(t) = UsedLast(r.recent, t)[1]
       /\ job.kind = "field" => RepsAfter(t) = UsedLast(r.recent, t)
       /\ job.kind = "fast" => RepsAfter(t)[1] = UsedLast(r.recent, t)[1]
  BY <1>1, <1>6, <1>7, OffsetsAgree
<1>12. Agree(IF Leading(t, r.first) THEN r.recent ELSE UsedLast(r.recent, t))'
  BY <1>1, <1>2, <1>6, <1>9, <1>10, <1>11 DEF Agree
<1>13. InToken(r, t)'
  BY <1>1, <1>2, <1>6, <1>9, <1>10, <1>11, <1>12 DEF InToken
<1>14. read' = Append(tokens, t) /\ InToken(DefinedBy(tokens), t)'
  BY <1>2, <1>4, <1>8, <1>13
<1>15. UnderWay'
  BY <1>14 DEF UnderWay
<1> QED
  BY <1>2, <1>15 DEF Meant, AtRest, Ended

(* A call between two steps of the same token, and after one.              *)
LEMMA TokenStays ==
  ASSUME LzInv, job' = job, read' = read, phase' \in {"literals", "lead", "match", "copy"},
         NEW tokens \in Seq(Token), NEW t \in Token, read = Append(tokens, t),
         NEW r, r = DefinedBy(tokens), InToken(r, t)'
  PROVE  Meant'
<1>1. job \in Jobs
  BY DEF LzInv, TypeOK
<1>2. DefinedBy(tokens)' = r
  BY <1>1, DefinedStays
<1>3. read' = Append(tokens, t) /\ InToken(DefinedBy(tokens), t)'
  BY <1>2
<1>4. UnderWay'
  BY <1>3 DEF UnderWay
<1> QED
  BY <1>4 DEF Meant, AtRest, Ended

(* After a token the node has what the token adds.                         *)
LEMMA RestFollows ==
  ASSUME LzInv, job' = job, read' = read, read # <<>>, reps' = reps, phase' = "token",
         NEW d, d = Defined, d.ok, d.first = FALSE, Agree(d.recent),
         out' = Before \o d.out, litPos' = d.pos
  PROVE  Meant'
<1>1. job \in Jobs /\ read \in Seq(Token)
  BY DEF LzInv, TypeOK
<1>2. Defined' = d /\ Before' = Before
  BY <1>1, DefinedStays, SameCall DEF Defined
<1>3. Agree(d.recent)'
  BY DEF Agree
<1>4. AtRest'
  BY <1>2, <1>3 DEF AtRest
<1> QED
  BY <1>4 DEF Meant, UnderWay, Ended

(* What a token in progress adds is the last of what is defined.           *)
LEMMA TokenIs ==
  ASSUME LzInv, Meant, phase \in {"literals", "lead", "match", "copy"}
  PROVE  \E tokens \in Seq(Token), t \in Token, r \in Meaning :
           /\ read = Append(tokens, t) /\ read # <<>> /\ r = DefinedBy(tokens)
           /\ InToken(r, t) /\ Defined = Sequence(r, t)
<1>1. job \in Jobs
  BY DEF LzInv, TypeOK
<1>2. PICK tokens \in Seq(Token), t \in Token :
        read = Append(tokens, t) /\ InToken(DefinedBy(tokens), t)
  BY DEF Meant, UnderWay
<1>3. DefinedBy(tokens) \in Meaning
  BY <1>1, DefinedTyped
<1>4. Defined = Sequence(DefinedBy(tokens), t)
  BY <1>1, <1>2, DefinedNext DEF Defined
<1>5. read # <<>>
  BY <1>2
<1> QED
  BY <1>2, <1>3, <1>4, <1>5

(* Appending to what follows is appending to all.                          *)
LEMMA JoinedTwice ==
  ASSUME NEW a \in Seq(Nat), NEW b \in Seq(Nat), NEW c \in Seq(Nat)
  PROVE  (a \o b) \o c = a \o (b \o c)
<1> PICK S : S = Nat
  OBVIOUS
<1>1. a \in Seq(S) /\ b \in Seq(S) /\ c \in Seq(S)
  OBVIOUS
<1> QED
  BY <1>1, ConcatAssociative

(* The literals of a token, or none left, or more than declared.           *)
LEMMA AppendLiteralsMeans == ASSUME LzInv, Meant, AppendLiterals PROVE Meant'
<1>1. /\ phase \in {"literals", "lead"} /\ read' = read /\ TypeOK /\ job \in Jobs
  BY DEF AppendLiterals, LzInv, TypeOK
<1>2. PICK tokens \in Seq(Token), t \in Token, r \in Meaning :
           /\ read = Append(tokens, t) /\ read # <<>> /\ r = DefinedBy(tokens)
           /\ InToken(r, t) /\ Defined = Sequence(r, t)
  BY <1>1, TokenIs
<1>3. PICK n \in Nat : n = LitLen(t)
  BY <1>1, LengthFacts
<1>4. PICK l : l = Lits(r, n)
  OBVIOUS
<1>5. /\ l \in Seq(Nat) /\ Len(l) = Len(r.out) + n /\ Len(r.out) \in Nat
      /\ r.out \in Seq(Nat) /\ r.pos \in Nat
  BY <1>4, LitsFacts
<1>6. /\ cur.lit = n /\ cur.mat = MatLen(t) /\ r.ok /\ out = Before \o r.out /\ litPos = r.pos
      /\ (phase = "lead" <=> Leading(t, r.first))
      /\ cur = [lit |-> LitLen(t), off |-> UsedLast(r.recent, t)[1], mat |-> MatLen(t)]
      /\ Agree(IF Leading(t, r.first) THEN r.recent ELSE UsedLast(r.recent, t))
  BY <1>1, <1>2, <1>3 DEF InToken
<1>7. Len(out) = job.base + Len(r.out) /\ job.base \in Nat /\ Len(out) \in Nat
  BY <1>1, <1>5, <1>6, BeforeFacts, OutFacts
<1>8. PICK d : d = Sequence(r, t)
  OBVIOUS
<1>9. /\ d.ok <=> /\ r.ok /\ r.pos + n <= job.lits
                  /\ \/ Leading(t, r.first)
                     \/ UsedLast(r.recent, t)[1] \in Least .. Len(l)
      /\ Leading(t, r.first) => d.out = l /\ d.recent = r.recent
      /\ d.pos = r.pos + n /\ d.first = FALSE
  BY <1>1, <1>3, <1>4, <1>8, SequenceIs
<1>10. CASE ~LiteralsFit
  <2>1. Fail("Malformed")
    BY <1>10 DEF AppendLiterals
  <2>2. CASE ~(litPos + cur.lit <= job.lits)
    <3>1. ~d.ok
      BY <1>6, <1>9, <2>2
    <3> QED
      BY <1>1, <1>2, <1>8, <2>1, <3>1, FailMeans DEF Results
  <2>3. CASE ~(Len(out) + cur.lit <= Limit)
    <3>1. d.ok => Len(d.out) \in Nat /\ Len(d.out) >= Len(r.out) + n
      BY <1>1, <1>3, <1>8, SequenceLength
    <3>2. Limit \in Nat
      BY <1>1, JobFacts
    <3>3. ASSUME d.ok PROVE job.base + Len(d.out) > Limit
      <4>1. PICK m \in Nat, k \in Nat, b \in Nat, e \in Nat :
              m = Len(d.out) /\ k = Len(r.out) /\ b = job.base /\ e = Limit
        BY <1>5, <1>7, <3>1, <3>2, <3>3
      <4>2. m >= k + n /\ ~(b + k + n <= e)
        BY <1>6, <1>7, <2>3, <3>1, <3>3, <4>1
      <4>3. b + m > e
        BY <4>2
      <4> QED
        BY <4>1, <4>3
    <3> QED
      BY <1>1, <1>2, <1>8, <2>1, <3>3, FailMeans DEF Results
  <2> QED
    BY <1>10, <2>2, <2>3 DEF LiteralsFit
<1>11. CASE LiteralsFit
  <2>1. /\ out' = out \o LiteralsFrom(n) /\ litPos' = litPos + n
        /\ phase' = (IF phase = "lead" THEN "token" ELSE "match")
        /\ job' = job /\ cur' = cur /\ reps' = reps /\ result' = result
    BY <1>6, <1>11 DEF AppendLiterals, Extend
  <2>2. litPos + n <= job.lits
    BY <1>6, <1>11 DEF LiteralsFit
  <2>3. out' = Before \o l
    <3>1. PICK u : u = [i \in 1 .. n |-> r.pos + i]
      OBVIOUS
    <3>2. u \in Seq(Nat)
      <4>1. u = [i \in 1 .. n |-> u[i]] /\ \A i \in 1 .. n : u[i] \in Nat
        BY <1>5, <3>1
      <4> QED
        BY <4>1, FunctionIsSeq
    <3>3. LiteralsFrom(n) = u
      BY <1>6, <3>1 DEF LiteralsFrom
    <3>4. Before \in Seq(Nat)
      BY <1>1, <1>5, BeforeFacts
    <3>5. PICK b, o : b = Before /\ o = r.out
      OBVIOUS
    <3>6. (b \o o) \o u = b \o (o \o u)
      BY <1>5, <3>2, <3>4, <3>5, JoinedTwice
    <3>7. l = o \o u
      BY <1>4, <3>1, <3>5 DEF Lits
    <3> QED
      BY <1>6, <2>1, <3>3, <3>5, <3>6, <3>7
  <2>4. CASE phase = "lead"
    <3>1. Leading(t, r.first) /\ phase' = "token"
      BY <1>6, <2>1, <2>4
    <3>2. d.ok /\ d.first = FALSE /\ d.out = l /\ d.recent = r.recent /\ litPos' = d.pos
      BY <1>6, <1>9, <2>1, <2>2, <3>1
    <3>3. Agree(d.recent)
      BY <1>6, <3>1, <3>2
    <3> QED
      BY <1>1, <1>2, <1>8, <2>1, <2>3, <3>1, <3>2, <3>3, RestFollows
  <2>5. CASE phase = "literals"
    <3>1. ~Leading(t, r.first) /\ phase' = "match"
      BY <1>1, <1>6, <2>1, <2>5
    <3>2. /\ LitLen(t)' = LitLen(t) /\ MatLen(t)' = MatLen(t) /\ Before' = Before
          /\ (Leading(t, r.first)' <=> Leading(t, r.first))
          /\ UsedLast(r.recent, t)' = UsedLast(r.recent, t)
      BY <1>1, <2>1, SameCall DEF Meaning
    <3>3. Agree(IF Leading(t, r.first) THEN r.recent ELSE UsedLast(r.recent, t))'
      BY <1>6, <2>1, <3>2 DEF Agree
    <3>4. InToken(r, t)'
      <4>1. litPos' = r.pos + LitLen(t)'
        BY <1>3, <1>6, <2>1, <3>2
      <4>2. out' = Before' \o Lits(r, LitLen(t)')
        BY <1>3, <1>4, <2>3, <3>2
      <4>3. Lits(r, LitLen(t))' = Lits(r, LitLen(t)')
        BY DEF Lits
      <4> QED
        BY <1>6, <2>1, <3>1, <3>2, <3>3, <4>1, <4>2, <4>3 DEF InToken
    <3> QED
      BY <1>1, <1>2, <2>1, <3>1, <3>4, TokenStays
  <2> QED
    BY <1>1, <2>4, <2>5
<1> QED
  BY <1>10, <1>11

(* A token that has no literals left to append, and its match.             *)
MatchOf(tokens, t, r, l) ==
  /\ read = Append(tokens, t) /\ read # <<>> /\ r = DefinedBy(tokens)
  /\ InToken(r, t) /\ l = Lits(r, LitLen(t))
  /\ litPos = r.pos + LitLen(t) /\ litPos = Defined.pos
  /\ start = job.base + Len(l) /\ cur.mat \in Nat /\ cur.off \in Nat
  /\ Defined.ok <=> cur.off \in Least .. Len(l)
  /\ Defined.ok => /\ Defined.out = Repeat(l, cur.off, cur.mat)
                   /\ Len(Defined.out) = Len(l) + cur.mat
  /\ Defined.first = FALSE /\ Agree(Defined.recent)
  /\ \A i \in 1 .. start : out[i] = (Before \o l)[i]

(* The state of a match, in what its token adds.                           *)
LEMMA MatchIs ==
  ASSUME LzInv, Meant, phase \in {"match", "copy"}
  PROVE  \E tokens \in Seq(Token), t \in Token, r \in Meaning, l \in Seq(Nat) :
           MatchOf(tokens, t, r, l)
<1>1. TypeOK /\ job \in Jobs
  BY DEF LzInv, TypeOK
<1>2. PICK tokens \in Seq(Token), t \in Token, r \in Meaning :
           /\ read = Append(tokens, t) /\ read # <<>> /\ r = DefinedBy(tokens)
           /\ InToken(r, t) /\ Defined = Sequence(r, t)
  BY TokenIs
<1>3. PICK n \in Nat : n = LitLen(t)
  BY <1>1, LengthFacts
<1>4. PICK l : l = Lits(r, n)
  OBVIOUS
<1>5. l \in Seq(Nat) /\ r.pos \in Nat /\ Len(l) = Len(r.out) + n /\ Len(r.out) \in Nat
  BY <1>4, LitsFacts
<1>6. /\ cur.mat = MatLen(t) /\ cur.off = UsedLast(r.recent, t)[1] /\ r.ok
      /\ litPos = r.pos + n /\ ~Leading(t, r.first) /\ Agree(UsedLast(r.recent, t))
  BY <1>2, <1>3 DEF InToken
<1>7. cur.mat \in Nat /\ cur.off \in Nat /\ litPos <= job.lits
  BY <1>1, JobFacts DEF TypeOK
<1>8. PICK d : d = Defined
  OBVIOUS
<1>9. /\ d.ok <=> /\ r.ok /\ r.pos + n <= job.lits
                  /\ \/ Leading(t, r.first)
                     \/ UsedLast(r.recent, t)[1] \in Least .. Len(l)
      /\ d.out = IF d.ok /\ ~Leading(t, r.first)
                 THEN Repeat(l, UsedLast(r.recent, t)[1], MatLen(t)) ELSE l
      /\ d.pos = r.pos + n /\ d.first = FALSE
      /\ d.recent = IF Leading(t, r.first) THEN r.recent ELSE UsedLast(r.recent, t)
  <2>1. d = Sequence(r, t)
    BY <1>2, <1>8
  <2>2. /\ d.ok <=> /\ r.ok /\ r.pos + LitLen(t) <= job.lits
                    /\ \/ Leading(t, r.first)
                       \/ UsedLast(r.recent, t)[1] \in Least .. Len(Lits(r, LitLen(t)))
        /\ d.out = IF d.ok /\ ~Leading(t, r.first)
                   THEN Repeat(Lits(r, LitLen(t)), UsedLast(r.recent, t)[1], MatLen(t))
                   ELSE Lits(r, LitLen(t))
        /\ d.pos = r.pos + LitLen(t) /\ d.first = FALSE
        /\ d.recent = IF Leading(t, r.first) THEN r.recent ELSE UsedLast(r.recent, t)
    BY <1>1, <2>1, SequenceIs
  <2> QED
    BY <1>3, <1>4, <2>2
<1>10. d.ok => Len(d.out) = Len(l) + cur.mat
  <2>1. d.ok => Len(d.out) = Len(r.out) + n + MatLen(t)
    BY <1>1, <1>2, <1>3, <1>6, <1>8, SequenceLength
  <2> QED
    BY <1>5, <1>6, <2>1
<1>11. /\ start = job.base + Len(l)
       /\ \A i \in 1 .. start : out[i] = (Before \o l)[i]
  <2>1. CASE phase = "match"
    <3>1. out = Before \o l /\ start = Len(out)
      BY <1>1, <1>2, <1>3, <1>4, <2>1 DEF InToken, TypeOK
    <3> QED
      BY <1>1, <1>5, <3>1, BeforeFacts
  <2>2. CASE phase = "copy"
    BY <1>2, <1>3, <1>4, <2>2 DEF InToken
  <2> QED
    BY <2>1, <2>2
<1>12. /\ d.ok <=> cur.off \in Least .. Len(l)
       /\ d.ok => d.out = Repeat(l, cur.off, cur.mat) /\ Len(d.out) = Len(l) + cur.mat
       /\ d.first = FALSE /\ Agree(d.recent) /\ litPos = d.pos
  <2>1. r.pos + n <= job.lits
    BY <1>6, <1>7
  <2> QED
    BY <1>6, <1>9, <1>10, <2>1
<1>13. /\ read = Append(tokens, t) /\ read # <<>> /\ r = DefinedBy(tokens)
       /\ InToken(r, t) /\ Defined = Sequence(r, t) /\ l = Lits(r, LitLen(t))
       /\ r.ok /\ litPos = r.pos + LitLen(t)
       /\ cur.mat = MatLen(t) /\ cur.mat \in Nat /\ cur.off \in Nat /\ l \in Seq(Nat)
  BY <1>2, <1>3, <1>4, <1>5, <1>6, <1>7
<1>14. MatchOf(tokens, t, r, l)
  BY <1>8, <1>11, <1>12, <1>13 DEF MatchOf
<1> QED
  BY <1>13, <1>14

(* A match that is complete is the one its token defines.                  *)
LEMMA MatchEnds ==
  ASSUME LzInv, Meant, phase \in {"match", "copy"}, LzInv', phase' = "token",
         cur.off \in Least .. start - job.base,
         job' = job, read' = read, cur' = cur, reps' = reps, start' = start, litPos' = litPos,
         Len(out') = start + cur.mat, \A i \in 1 .. start : out'[i] = out[i]
  PROVE  Meant'
<1>1. TypeOK /\ job \in Jobs /\ start \in Nat /\ job.base \in Nat
  BY JobFacts DEF LzInv, TypeOK
<1>2. PICK tokens \in Seq(Token), t \in Token, r \in Meaning, l \in Seq(Nat) :
        MatchOf(tokens, t, r, l)
  BY MatchIs
<1>m. /\ read # <<>> /\ litPos = Defined.pos
      /\ start = job.base + Len(l) /\ cur.mat \in Nat
      /\ Defined.ok <=> cur.off \in Least .. Len(l)
      /\ Defined.ok => Defined.out = Repeat(l, cur.off, cur.mat)
      /\ Defined.first = FALSE /\ Agree(Defined.recent)
      /\ \A i \in 1 .. start : out[i] = (Before \o l)[i]
  BY <1>2 DEF MatchOf
<1>3. PICK k \in Nat : k = Len(l) /\ start - job.base = k
  BY <1>1, <1>m
<1>4. Defined.ok /\ cur.off \in 1 .. Len(l)
  BY <1>1, <1>m, <1>3, LeastFacts
<1>5. out' \in Seq(Nat)
  BY DEF LzInv, TypeOK
<1>6. \A i \in start + 1 .. Len(out') : out'[i] = out'[i - cur.off]
  <2>1. phase' \in {"copy", "token"} =>
          \A i \in start' + 1 .. Len(out') : out'[i] = out'[i - cur'.off]
    BY DEF LzInv, MatchRepeats
  <2> QED
    BY <2>1
<1>7. PICK o, off, n : o = out' /\ off = cur.off /\ n = cur.mat /\ n \in Nat
  BY <1>m
<1>8. o = Before \o Repeat(l, off, n)
  <2>1. o \in Seq(Nat) /\ off \in 1 .. Len(l) /\ Len(o) = job.base + Len(l) + n
    BY <1>m, <1>4, <1>5, <1>7
  <2>2. \A i \in 1 .. job.base + Len(l) : o[i] = (Before \o l)[i]
    BY <1>m, <1>7
  <2>3. \A i \in job.base + Len(l) + 1 .. Len(o) : o[i] = o[i - off]
    BY <1>m, <1>6, <1>7
  <2>4. Matched(o, l, off, n)
    BY <2>1, <2>2, <2>3 DEF Matched
  <2> QED
    BY <1>1, <1>7, <2>1, <2>4, MatchIsRepeat
<1>9. out' = Before \o Defined.out
  BY <1>m, <1>4, <1>7, <1>8
<1> QED
  BY <1>m, <1>4, <1>9, RestFollows

(* A match that is not: the output goes on with it.                        *)
LEMMA MatchGoesOn ==
  ASSUME LzInv, Meant, phase \in {"match", "copy"}, phase' = "copy",
         cur.off >= Least,
         job' = job, read' = read, cur' = cur, reps' = reps, start' = start, litPos' = litPos,
         \A i \in 1 .. start : out'[i] = out[i]
  PROVE  Meant'
<1>1. TypeOK /\ job \in Jobs
  BY DEF LzInv, TypeOK
<1>2. PICK tokens \in Seq(Token), t \in Token, r \in Meaning, l \in Seq(Nat) :
           /\ read = Append(tokens, t) /\ r = DefinedBy(tokens)
           /\ InToken(r, t) /\ l = Lits(r, LitLen(t)) /\ litPos = r.pos + LitLen(t)
           /\ start = job.base + Len(l)
           /\ \A i \in 1 .. start : out[i] = (Before \o l)[i]
  BY MatchIs DEF MatchOf
<1>3. /\ LitLen(t)' = LitLen(t) /\ MatLen(t)' = MatLen(t) /\ Before' = Before /\ Least' = Least
      /\ (Leading(t, r.first)' <=> Leading(t, r.first))
      /\ UsedLast(r.recent, t)' = UsedLast(r.recent, t)
  BY <1>1, SameCall DEF Meaning
<1>4. /\ r.ok /\ cur = [lit |-> LitLen(t), off |-> UsedLast(r.recent, t)[1], mat |-> MatLen(t)]
      /\ Agree(IF Leading(t, r.first) THEN r.recent ELSE UsedLast(r.recent, t))
      /\ ~Leading(t, r.first)
  BY <1>2 DEF InToken
<1>5. Agree(IF Leading(t, r.first) THEN r.recent ELSE UsedLast(r.recent, t))'
  BY <1>3, <1>4 DEF Agree
<1>6. Lits(r, LitLen(t))' = l
  <2>1. Lits(r, LitLen(t))' = Lits(r, LitLen(t)')
    BY DEF Lits
  <2> QED
    BY <1>2, <1>3, <2>1
<1>7. /\ start' = job'.base + Len(l) /\ cur'.off >= Least'
      /\ \A i \in 1 .. start' : out'[i] = (Before' \o l)[i]
  BY <1>2, <1>3
<1>8. InToken(r, t)'
  BY <1>2, <1>3, <1>4, <1>5, <1>6, <1>7 DEF InToken
<1> QED
  BY <1>2, <1>8, TokenStays

(* Literals are numbers.                                                   *)
LEMMA LiteralsAreNumbers ==
  ASSUME NEW n \in Nat, NEW s \in Seq(1 .. n)
  PROVE  s \in Seq(Nat)
<1>1. PICK S : S = 1 .. n
  OBVIOUS
<1>2. Len(s) \in Nat /\ s = [i \in 1 .. Len(s) |-> s[i]] /\ \A i \in 1 .. Len(s) : s[i] \in S
  BY <1>1, LenProperties, ElementOfSeq
<1>3. \A i \in 1 .. Len(s) : s[i] \in Nat
  BY <1>1, <1>2
<1> QED
  BY <1>2, <1>3, FunctionIsSeq

(* The first piece of a match, or an offset that reaches too far.          *)
LEMMA StartMatchMeans == ASSUME LzInv, Meant, StartMatch PROVE Meant'
<1>1. /\ phase = "match" /\ read' = read /\ TypeOK /\ job \in Jobs /\ start = Len(out)
      /\ job.base \in Nat /\ Len(out) \in Nat /\ cur.mat \in Nat /\ cur.off \in Nat
      /\ Limit \in Nat
  BY JobFacts, OutFacts DEF StartMatch, LzInv, TypeOK
<1>2. Least \in Nat /\ Least >= 1 /\ (OffsetFits <=> cur.off \in Least .. start - job.base)
  <2>1. Least \in Nat /\ Least >= 1
    BY <1>1, LeastFacts
  <2>2. OffsetFits <=> cur.off >= Least /\ cur.off <= start - job.base
    BY <1>1 DEF OffsetFits, Least
  <2> QED
    BY <1>1, <2>1, <2>2
<1>3. CASE ~OffsetFits \/ Len(out) + cur.mat > Limit
  <2>1. Fail("Malformed")
    BY <1>3 DEF StartMatch
  <2>2. PICK l \in Seq(Nat) :
             /\ start = job.base + Len(l)
             /\ Defined.ok <=> cur.off \in Least .. Len(l)
             /\ Defined.ok => Len(Defined.out) = Len(l) + cur.mat
    BY <1>1, MatchIs DEF MatchOf
  <2>3. PICK k \in Nat : k = Len(l) /\ start - job.base = k
    BY <1>1, <2>2
  <2>4. ~Defined.ok \/ job.base + Len(Defined.out) > Limit
    <3>1. PICK b \in Nat, e \in Nat, m \in Nat, o \in Nat, f \in Nat :
            b = job.base /\ e = Limit /\ m = cur.mat /\ o = cur.off /\ f = Least
      BY <1>1, <1>2
    <3>2. start = b + k /\ Len(out) = b + k
      BY <1>1, <2>2, <2>3, <3>1
    <3>3. CASE ~OffsetFits
      BY <1>2, <2>2, <2>3, <3>3
    <3>4. CASE Len(out) + cur.mat > Limit /\ Defined.ok
      <4>1. Len(Defined.out) = k + m /\ b + k + m > e
        BY <2>2, <2>3, <3>1, <3>2, <3>4
      <4>2. b + (k + m) > e
        BY <4>1
      <4> QED
        BY <3>1, <4>1, <4>2
    <3> QED
      BY <1>3, <3>3, <3>4
  <2> QED
    BY <1>1, <2>1, <2>4, FailMeans DEF Results
<1>4. CASE OffsetFits /\ ~(Len(out) + cur.mat > Limit)
  <2> DEFINE len == Smaller(cur.mat, cur.off)
  <2>1. /\ out' = out \o Within(start - cur.off, len)
        /\ phase' = (IF cur.mat <= cur.off THEN "token" ELSE "copy")
        /\ job' = job /\ litPos' = litPos /\ cur' = cur /\ reps' = reps /\ start' = start
    BY <1>4 DEF StartMatch, Extend
  <2>2. /\ len \in Nat /\ len <= cur.off /\ (cur.mat <= cur.off => len = cur.mat)
        /\ cur.off \in Least .. start - job.base
    BY <1>1, <1>2, <1>4 DEF Smaller
  <2> HIDE DEF len
  <2>3. start - cur.off \in Nat /\ job.base <= start - cur.off /\ (start - cur.off) + len <= Len(out)
    BY <1>1, <1>2, <2>2
  <2>4. Within(start - cur.off, len) \in Seq(1 .. job.lits) /\ Len(Within(start - cur.off, len)) = len
    BY <2>2, <2>3, WithinIsNew
  <2>5. PICK w : w = Within(start - cur.off, len)
    OBVIOUS
  <2>6. w \in Seq(Nat) /\ Len(w) = len /\ out \in Seq(Nat)
    <3>1. w \in Seq(1 .. job.lits) /\ Len(w) = len
      BY <2>4, <2>5
    <3>2. w \in Seq(Nat)
      BY <1>1, <3>1, JobFacts, LiteralsAreNumbers
    <3> QED
      BY <1>1, <3>1, <3>2, OutFacts
  <2>7. Len(out') = start + len /\ \A i \in 1 .. start : out'[i] = out[i]
    <3>1. Len(out \o w) = Len(out) + Len(w) /\ \A i \in 1 .. Len(out) : (out \o w)[i] = out[i]
      BY <2>6, Joined
    <3> QED
      BY <1>1, <2>1, <2>5, <2>6, <3>1
  <2>8. CASE cur.mat <= cur.off
    <3>1. phase' = "token" /\ Len(out') = start + cur.mat
      BY <2>1, <2>2, <2>7, <2>8
    <3>2. LzInv'
      BY StartMatchKeeps
    <3> QED
      BY <1>1, <2>1, <2>2, <2>7, <3>1, <3>2, MatchEnds
  <2>9. CASE ~(cur.mat <= cur.off)
    <3>1. phase' = "copy" /\ cur.off >= Least
      BY <1>1, <1>2, <2>1, <2>2, <2>9
    <3> QED
      BY <1>1, <2>1, <2>7, <3>1, MatchGoesOn
  <2> QED
    BY <2>8, <2>9
<1> QED
  BY <1>3, <1>4

(* A further piece of a match.                                             *)
LEMMA CopyMoreMeans == ASSUME LzInv, Meant, CopyMore PROVE Meant'
<1>1. /\ phase = "copy" /\ out' = out \o Doubled /\ phase' \in {"token", "copy"}
      /\ job' = job /\ litPos' = litPos /\ cur' = cur /\ reps' = reps
      /\ start' = start /\ result' = result /\ read' = read
      /\ copied' = copied + Len(Doubled) /\ (phase' = "token" <=> copied' = cur.mat)
  BY DEF CopyMore, Extend
<1>2. /\ TypeOK /\ job \in Jobs /\ start \in Nat /\ job.base \in Nat /\ copied \in Nat
      /\ cur.mat \in Nat /\ cur.off \in Nat /\ out \in Seq(Nat)
      /\ Len(out) = start + copied /\ copied < cur.mat
      /\ cur.off <= start - job.base
  BY <1>1, JobFacts DEF LzInv, TypeOK, MatchRepeats, Periodic
<1>3. cur.off \in Least .. start - job.base
  <2>1. cur.off >= Least
    BY <1>1 DEF Meant, UnderWay, InToken
  <2> QED
    BY <1>2, <2>1, LeastFacts
<1>4. PICK len \in Nat : len = Smaller(copied, cur.mat - copied) /\ len <= copied
  <2>1. PICK c \in Nat : c = cur.mat - copied
    BY <1>2
  <2>2. Smaller(copied, c) \in Nat /\ Smaller(copied, c) <= copied
    BY <1>2, Ordered
  <2> QED
    BY <2>1, <2>2
<1>5. Doubled \in Seq(1 .. job.lits) /\ Len(Doubled) = len
  <2>1. Doubled = Within(start, len)
    BY <1>4 DEF Doubled
  <2>2. job.base <= start /\ start + len <= Len(out)
    BY <1>2, <1>4
  <2> QED
    BY <1>2, <2>1, <2>2, WithinIsNew
<1>6. PICK w : w = Doubled
  OBVIOUS
<1>7. w \in Seq(Nat) /\ Len(w) = len
  <2>1. w \in Seq(1 .. job.lits) /\ Len(w) = len
    BY <1>5, <1>6
  <2> QED
    BY <1>2, <2>1, JobFacts, LiteralsAreNumbers
<1>8. Len(out') = start + copied' /\ \A i \in 1 .. start : out'[i] = out[i]
  <2>1. /\ Len(out \o w) = Len(out) + Len(w)
        /\ \A i \in 1 .. Len(out) : (out \o w)[i] = out[i]
    BY <1>2, <1>7, Joined
  <2> QED
    BY <1>1, <1>2, <1>6, <1>7, <2>1
<1>9. CASE phase' = "token"
  <2>1. LzInv' /\ Len(out') = start + cur.mat
    BY <1>1, <1>8, <1>9, CopyMoreKeeps
  <2> QED
    BY <1>1, <1>3, <1>8, <1>9, <2>1, MatchEnds
<1>10. CASE phase' = "copy"
  <2>1. cur.off >= Least
    BY <1>2, <1>3, LeastFacts
  <2> QED
    BY <1>1, <1>8, <1>10, <2>1, MatchGoesOn
<1> QED
  BY <1>1, <1>9, <1>10

(* The last literals end what the tokens define.                           *)
LEMMA FinishMeans == ASSUME LzInv, Meant, Finish PROVE Meant'
<1> DEFINE rest == LiteralsFrom(job.lits - litPos)
<1>1. /\ phase = "token" /\ read' = read /\ job \in Jobs /\ read \in Seq(Token)
      /\ out \in Seq(Nat) /\ Len(out) \in Nat
  BY OutFacts DEF Finish, LzInv, TypeOK
<1>2. CASE Fail("Leftover") \/ Fail("Size")
  BY <1>1, <1>2, FailMeans DEF Results
<1>3. CASE /\ EndFits(Len(out) + Len(rest)) /\ Extend(rest, Len(out) + Len(rest))
           /\ litPos' = job.lits /\ phase' = "done" /\ result' \in {"Leftover", "Ok"}
           /\ UNCHANGED <<job, cur, reps, start, copied>>
  <2>1. litPos \in Nat /\ job.lits \in Nat /\ job.lits - litPos \in Nat
    <3>1. litPos \in 0 .. job.lits /\ job.lits \in Nat
      BY <1>1, JobFacts DEF LzInv, TypeOK
    <3> QED
      BY <3>1
  <2>2. rest \in Seq(1 .. job.lits)
    <3>1. litPos + (job.lits - litPos) <= job.lits
      BY <2>1
    <3> QED
      BY <2>1, <3>1, LiteralsAreNew
  <2>3. rest \in Seq(Nat)
    BY <2>1, <2>2, LiteralsAreNumbers
  <2>4. PICK w : w = rest
    OBVIOUS
  <2>5. out' = out \o w /\ Len(out \o w) = Len(out) + Len(w)
    <3>1. w \in Seq(Nat)
      BY <2>3, <2>4
    <3>2. out' = out \o w
      BY <1>3, <2>4 DEF Extend
    <3> QED
      BY <1>1, <3>1, <3>2, Joined
  <2>6. EndFits(Len(out))'
    <3>1. EndFits(Len(out'))
      BY <1>3, <2>4, <2>5
    <3>2. Limit' = Limit /\ job' = job
      BY <1>1, <1>3, SameCall
    <3>3. EndFits(Len(out))' <=> EndFits(Len(out'))
      BY <3>2 DEF EndFits
    <3> QED
      BY <3>1, <3>3
  <2>7. PICK d : d = Defined
    OBVIOUS
  <2>8. Defined' = d /\ Before' = Before
    BY <1>1, <1>3, <2>7, DefinedStays, SameCall DEF Defined
  <2>9. out = Before \o d.out /\ litPos = d.pos
    BY <1>1, <2>7 DEF Meant, AtRest
  <2>10. out' = (Before \o d.out) \o [i \in 1 .. job.lits - d.pos |-> d.pos + i]
    <3>1. w = [i \in 1 .. job.lits - d.pos |-> d.pos + i]
      BY <2>4, <2>9 DEF LiteralsFrom
    <3> QED
      BY <2>5, <2>9, <3>1
  <2>11. out' = Before' \o Defined.out'
                  \o [i \in 1 .. job'.lits - Defined.pos' |-> Defined.pos' + i]
    BY <1>3, <2>8, <2>10
  <2>12. DecodesAsDefined'
    BY <1>3, <2>6, <2>11 DEF DecodesAsDefined
  <2> QED
    BY <1>3, <2>12 DEF Meant, AtRest, UnderWay, Ended
<1> QED
  BY <1>2, <1>3 DEF Finish

(* A step that changes nothing.                                            *)
LEMMA StutterMeans == ASSUME LzInv, Meant, UNCHANGED vars PROVE Meant'
<1>1. /\ job' = job /\ phase' = phase /\ out' = out /\ litPos' = litPos /\ read' = read
      /\ cur' = cur /\ reps' = reps /\ start' = start /\ result' = result /\ job \in Jobs
      /\ phase \in {"begin", "token", "literals", "lead", "match", "copy", "done"}
      /\ read \in Seq(Token)
  BY DEF vars, LzInv, TypeOK
<1>2. CASE phase \in {"begin", "token"}
  BY <1>1, <1>2, RestStays DEF Meant
<1>3. CASE phase \in {"literals", "lead", "match", "copy"}
  <2>1. PICK tokens \in Seq(Token), t \in Token, r \in Meaning :
             /\ read = Append(tokens, t) /\ r = DefinedBy(tokens) /\ InToken(r, t)
    BY <1>3, TokenIs
  <2>2. InToken(r, t)'
    BY <1>1, <2>1 DEF InToken, Agree, Lits, Leading, UsedLast, Raw, LitLen, MatLen, MinMatch,
                      Long, Before, Least
  <2> QED
    BY <1>1, <1>3, <2>1, <2>2, TokenStays
<1>4. CASE phase = "done"
  <2>1. Defined' = Defined /\ Before' = Before /\ Limit' = Limit
    BY <1>1, DefinedStays, SameCall DEF Defined
  <2>2. DecodesAsDefined'
    BY <1>1, <1>4, <2>1 DEF Meant, Ended, DecodesAsDefined, EndFits
  <2> QED
    BY <1>1, <1>4, <2>2 DEF Meant, AtRest, UnderWay, Ended
<1> QED
  BY <1>1, <1>2, <1>3, <1>4

(* lz, field_lz and fastlz, whatever their tokens: a call appends exactly  *)
(* what its tokens define, one element at a time, and calls a token        *)
(* malformed only if it defines nothing or more than was declared.         *)
THEOREM DecodesAsDefinedHolds == Spec => []DecodesAsDefined
<1>1. Init => LzInv /\ Meant
  BY InitLz, InitMeans
<1>2. LzInv /\ Meant /\ LzInv' /\ [Next]_vars => Meant'
  <2> SUFFICES ASSUME LzInv, Meant, [Next]_vars PROVE Meant'
    OBVIOUS
  <2>1. CASE Begin
    BY <2>1, BeginMeans
  <2>2. CASE ReadToken
    BY <2>2, ReadTokenMeans
  <2>3. CASE Exhausted
    BY <2>3, FailMeans DEF Exhausted, Results
  <2>4. CASE AppendLiterals
    BY <2>4, AppendLiteralsMeans
  <2>5. CASE StartMatch
    BY <2>5, StartMatchMeans
  <2>6. CASE CopyMore
    BY <2>6, CopyMoreMeans
  <2>7. CASE Finish
    BY <2>7, FinishMeans
  <2>8. CASE UNCHANGED vars
    BY <2>8, StutterMeans
  <2> QED
    BY <2>1, <2>2, <2>3, <2>4, <2>5, <2>6, <2>7, <2>8 DEF Next
<1>3. LzInv /\ Meant => DecodesAsDefined
  <2> SUFFICES ASSUME LzInv, Meant PROVE DecodesAsDefined
    OBVIOUS
  <2>1. CASE phase = "done"
    BY <2>1 DEF Meant, Ended
  <2>2. CASE phase # "done"
    BY <2>2 DEF LzInv, Reserved, Meant, AtRest, DecodesAsDefined
  <2> QED
    BY <2>1, <2>2
<1> QED
  BY <1>1, <1>2, <1>3, LzInvariant, PTL DEF Spec
=============================================================================
