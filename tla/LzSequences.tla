---------------------------- MODULE LzSequences ----------------------------
(***************************************************************************)
(* The LZ nodes that copy matches out of what they have decoded: lz        *)
(* (lz/sequences.rs), field_lz (lz/field_lz.rs) and fastlz_deprecated      *)
(* (lz/fastlz.rs), with the copy loop they share.                          *)
(*                                                                         *)
(* A node appends to an output that already holds `base` elements, decoded *)
(* before it.  The unit is the byte, for field_lz its field.  Elements are *)
(* symbolic: the i-th literal is i, and an element from before the node is *)
(* Old.  The tokens are chosen while they are read, each with the values   *)
(* it takes from the offset and extra length streams.                      *)
(***************************************************************************)
EXTENDS Integers, Sequences, SequencesExt

CONSTANTS
  Jobs,        \* the calls, see Job
  Tokens,      \* Tokens[kind]: what a token may say, see Token
  MaxTokens,   \* model bound: tokens of a call
  MaxOutput,   \* min(Limits::max_decoded_bytes, max_buffer_bytes)
  CopyChunk,   \* COPY_CHUNK
  MinOffset,   \* FASTLZ_DEPRECATED_MIN_OFFSET
  Escape       \* the length code that stands for a longer one

Old == 0
Kinds == {"lz", "field", "fast"}

(* cap: the capacity of the output so far; size: what the header declares. *)
(* unit: the element width of field_lz.                                    *)
Job == [kind : Kinds, base : Nat, cap : Nat, size : Nat, lits : Nat, unit : Nat \ {0}]

(* lz: literal and match length, and the offset in `raw`; code is not used.*)
(* The others: an offset code, two length codes, and the values the token  *)
(* takes from the other streams when its codes say so.                     *)
Token == [code : 0 .. 3, lit : Nat, mat : Nat, raw : Nat, xlit : Nat, xmat : Nat]

ASSUME JobAssumption ==
  /\ Jobs \subseteq Job
  /\ \A j \in Jobs : j.kind = "fast" => j.base = 0 /\ j.cap = 0
  /\ \A j \in Jobs : j.base <= j.cap
  /\ \A k \in Kinds : Tokens[k] \subseteq Token

ASSUME BoundAssumption ==
  /\ {MaxTokens, MaxOutput, MinOffset, Escape} \subseteq Nat
  /\ CopyChunk \in Nat \ {0} /\ MinOffset > 0

VARIABLES
  job,
  phase,    \* begin, token, literals, lead, match, copy or done
  out, cap, \* the output vector: its elements and its capacity
  peak,     \* history: the most elements the vector has held
  litPos,   \* literals taken
  read,     \* the tokens read
  cur,      \* LzSequence of the token: literal length, offset, match length
  reps,     \* the repeat offsets
  start,    \* where the match of the token goes
  copied,   \* elements of it copied so far
  result

vars == <<job, phase, out, cap, peak, litPos, read, cur, reps, start, copied, result>>

Limit == job.base + job.size
NoSequence == [lit |-> 0, off |-> 0, mat |-> 0]

Init ==
  /\ job \in Jobs
  /\ phase = "begin" /\ out = [i \in 1 .. job.base |-> Old] /\ cap = job.cap
  /\ peak = job.base /\ litPos = 0 /\ read = <<>> /\ cur = NoSequence
  /\ reps = IF job.kind = "field" THEN <<1, 2, 4>> ELSE <<MinOffset, 0, 0>>
  /\ start = job.base /\ copied = 0 /\ result = "none"
-----------------------------------------------------------------------------
Larger(a, b)  == IF a >= b THEN a ELSE b
Smaller(a, b) == IF a <= b THEN a ELSE b

(* Exhausted, Leftover and Size are Malformed too, told apart here.        *)
Fail(kind) ==
  /\ phase' = "done" /\ result' = kind
  /\ UNCHANGED <<job, out, cap, peak, litPos, cur, reps, start, copied>>

(* The vector after appending s, having held `held` elements meanwhile.    *)
Extend(s, held) ==
  /\ out' = out \o s
  /\ peak' = Larger(peak, held)
  /\ cap' = Larger(cap, held)

(* validate_lz_node, field_lz_output_capacity,                             *)
(* parse_deprecated_lz_stored_stream; then the reserve.                    *)
Begin ==
  /\ phase = "begin"
  /\ IF job.size > MaxOutput THEN Fail("LimitExceeded")
     ELSE \/ Fail("AllocationFailed")
          \/ /\ cap' = Larger(cap, Limit) /\ phase' = "token"
             /\ UNCHANGED <<job, out, peak, litPos, cur, reps, start, copied, result>>
  /\ UNCHANGED read

MinMatch == IF job.unit = 1 THEN 4 ELSE IF job.unit = 2 THEN 2 ELSE 1

(* The first fastlz token may be literals without a match.                 *)
Leading(t, first) ==
  /\ job.kind = "fast" /\ first
  /\ t.code = 0 /\ t.lit = Escape /\ t.mat = 0

(* fastlz: both lengths are in the extras.                                 *)
Long(t) == t.lit = 0 /\ t.mat = 0

(* The offset is in the token or its stream, not a repeat offset.          *)
Raw(t) == job.kind = "lz" \/ t.code = 3 \/ (job.kind = "fast" /\ t.code # 0)

(* What a token takes from the offsets and from the extra lengths.         *)
TakesOffset(t) == job.kind # "lz" /\ Raw(t)
TakesLength(t) ==
  \/ job.kind = "field" /\ (t.lit = Escape \/ t.mat = Escape)
  \/ job.kind = "fast" /\ Long(t)

OffsetOf(t) ==
  IF Raw(t) THEN t.raw ELSE reps[IF job.kind = "field" THEN t.code + 1 ELSE 1]

(* FieldLzSequences::match_offset, read_fastlz_deprecated_offset.          *)
RepsMutant(t) ==
  IF job.kind = "field" /\ t.code # 0 THEN <<OffsetOf(t), reps[1], reps[3]>>
  ELSE IF job.kind = "fast" /\ t.code # 0 THEN <<t.raw, 0, 0>>
  ELSE reps
RepsAfter(t) ==
  IF job.kind = "field" /\ t.code # 0
  THEN <<OffsetOf(t), reps[1], IF t.code = 1 THEN reps[3] ELSE reps[2]>>
  ELSE IF job.kind = "fast" /\ t.code # 0 THEN <<t.raw, 0, 0>>
  ELSE reps

LitLen(t) ==
  IF job.kind = "field" /\ t.lit = Escape THEN Escape + t.xlit
  ELSE IF job.kind = "fast" /\ Long(t) THEN t.xlit
  ELSE t.lit
MatLen(t) ==
  IF job.kind = "field" THEN MinMatch + IF t.mat = Escape THEN Escape + t.xmat ELSE t.mat
  ELSE IF job.kind = "fast" /\ Long(t) THEN t.xmat
  ELSE t.mat

ReadToken ==
  /\ phase = "token" /\ Len(read) < MaxTokens
  /\ \E t \in Tokens[job.kind] :
       /\ read' = Append(read, t)
       /\ cur' = [lit |-> LitLen(t), off |-> OffsetOf(t), mat |-> MatLen(t)]
       /\ reps' = IF Leading(t, read = <<>>) THEN reps ELSE RepsAfter(t)
       /\ phase' = IF Leading(t, read = <<>>) THEN "lead" ELSE "literals"
  /\ UNCHANGED <<job, out, cap, peak, litPos, start, copied, result>>

(* A stream the token reads from has no value left.                        *)
Exhausted ==
  /\ phase = "token" /\ Len(read) < MaxTokens
  /\ \E t \in Tokens[job.kind] :
       /\ ~Leading(t, read = <<>>) /\ (TakesOffset(t) \/ TakesLength(t))
  /\ Fail("Exhausted") /\ UNCHANGED read
-----------------------------------------------------------------------------
LiteralsFrom(n) == [i \in 1 .. n |-> litPos + i]

(* field_lz leaves the limit to the match, or to the last literals.        *)
LiteralsFitMutant == job.kind # "field" => Len(out) + cur.lit <= Limit
LiteralsFit ==
  /\ litPos + cur.lit <= job.lits
  /\ job.kind # "field" => Len(out) + cur.lit <= Limit

(* lz copies a whole chunk and truncates it, when both sides have room.    *)
ChunkRoomMutant(len) == job.kind = "lz" /\ len <= CopyChunk
ChunkRoom(len) == job.kind = "lz" /\ len <= CopyChunk /\ cap - Len(out) >= CopyChunk

AppendLiterals ==
  /\ phase \in {"literals", "lead"}
  /\ IF ~LiteralsFit THEN Fail("Malformed")
     ELSE /\ Extend(LiteralsFrom(cur.lit),
                    Len(out) + IF ChunkRoom(cur.lit) /\ job.lits - litPos >= CopyChunk
                               THEN CopyChunk ELSE cur.lit)
          /\ litPos' = litPos + cur.lit /\ start' = Len(out) + cur.lit
          /\ copied' = 0 /\ phase' = IF phase = "lead" THEN "token" ELSE "match"
          /\ UNCHANGED <<job, cur, reps, result>>
  /\ UNCHANGED read

(* The offset stays within what this node has decoded.                     *)
OffsetFitsMutant == cur.off > 0 /\ cur.off <= Len(out)
OffsetOrZeroMutant ==
  /\ job.kind = "fast" => cur.off >= MinOffset
  /\ cur.off <= Len(out) - job.base
OffsetFits ==
  /\ cur.off >= IF job.kind = "fast" THEN MinOffset ELSE 1
  /\ cur.off <= Len(out) - job.base

(* Elements out[from + 1 .. from + n].                                     *)
Within(from, n) == [i \in 1 .. n |-> out[from + i]]

(* copy_lz_match and append_lz_match: a match no longer than its offset is *)
(* one copy; a longer one starts with what lies between its source and its *)
(* target.                                                                 *)
StartMatch ==
  /\ phase = "match"
  /\ IF ~OffsetFits \/ Len(out) + cur.mat > Limit THEN Fail("Malformed")
     ELSE LET chunk == ChunkRoom(cur.mat) /\ cur.off >= CopyChunk
              len   == Smaller(cur.mat, cur.off)
          IN  /\ Extend(Within(start - cur.off, len),
                        Len(out) + IF chunk THEN CopyChunk ELSE len)
              /\ copied' = len
              /\ phase' = IF cur.mat <= cur.off THEN "token" ELSE "copy"
              /\ UNCHANGED <<job, litPos, cur, reps, start, result>>
  /\ UNCHANGED read

(* The rest of a longer match copies what the match has so far, doubling   *)
(* it every time.                                                          *)
DoubledMutant == Within(start - 1, Smaller(copied, cur.mat - copied))
Doubled == Within(start, Smaller(copied, cur.mat - copied))

CopyMore ==
  /\ phase = "copy"
  /\ Extend(Doubled, Len(out) + Len(Doubled))
  /\ copied' = copied + Len(Doubled)
  /\ phase' = IF copied' = cur.mat THEN "token" ELSE "copy"
  /\ UNCHANGED <<job, litPos, read, cur, reps, start, result>>

(* The literals after the last token end the output, exactly or (field_lz) *)
(* at most where the header says; and no stream may have a value left.     *)
EndFits(end) == IF job.kind = "field" THEN end <= Limit ELSE end = Limit

Finish ==
  LET rest == LiteralsFrom(job.lits - litPos)
  IN  /\ phase = "token"
      /\ \E leftover \in IF job.kind = "lz" THEN {FALSE} ELSE BOOLEAN :
           IF job.kind = "fast" /\ leftover THEN Fail("Leftover")
           ELSE IF ~EndFits(Len(out) + Len(rest)) THEN Fail("Size")
           ELSE /\ Extend(rest, Len(out) + Len(rest))
                /\ litPos' = job.lits /\ phase' = "done"
                /\ result' = IF leftover THEN "Leftover" ELSE "Ok"
                /\ UNCHANGED <<job, cur, reps, start, copied>>
      /\ UNCHANGED read

Next ==
  \/ Begin \/ ReadToken \/ Exhausted \/ AppendLiterals \/ StartMatch \/ CopyMore
  \/ Finish

(* A call runs until it returns: nothing can stop it but its own loops.    *)
Spec == Init /\ [][Next]_vars /\ WF_vars(Next)
-----------------------------------------------------------------------------
Results == {"none", "Ok", "LimitExceeded", "AllocationFailed", "Malformed",
            "Exhausted", "Size", "Leftover"}

(* The types of every variable; no literal is taken twice or from nowhere, *)
(* and a sequence starts where its literals ended.                         *)
TypeOK ==
  /\ job \in Jobs
  /\ phase \in {"begin", "token", "literals", "lead", "match", "copy", "done"}
  /\ out \in Seq(Nat) /\ cap \in Nat /\ peak \in Nat /\ litPos \in 0 .. job.lits
  /\ read \in Seq(Token) /\ cur \in [lit : Nat, off : Nat, mat : Nat]
  /\ reps \in Nat \X Nat \X Nat /\ start \in Nat /\ copied \in Nat
  /\ result \in Results
  /\ phase = "match" => start = Len(out)

(* What an output should be, one element at a time, with the repeat        *)
(* offsets of field_lz as a list in order of their last use.               *)
Repeat(s, off, n) ==
  FoldLeft(LAMBDA acc, i : Append(acc, acc[Len(acc) + 1 - off]), s, [i \in 1 .. n |-> i])

UsedLast(recent, t) ==
  IF Raw(t) THEN <<t.raw, recent[1], recent[2]>>
  ELSE <<recent[t.code + 1]>> \o RemoveAt(recent, t.code + 1)

Sequence(r, t) ==
  LET lead == Leading(t, r.first)
      off  == UsedLast(r.recent, t)[1]
      lits == r.out \o [i \in 1 .. LitLen(t) |-> r.pos + i]
      ok   == /\ r.ok /\ r.pos + LitLen(t) <= job.lits
              /\ lead \/ off \in (IF job.kind = "fast" THEN MinOffset ELSE 1) .. Len(lits)
  IN  [ok     |-> ok,
       out    |-> IF ok /\ ~lead THEN Repeat(lits, off, MatLen(t)) ELSE lits,
       pos    |-> r.pos + LitLen(t),
       recent |-> IF lead THEN r.recent ELSE UsedLast(r.recent, t),
       first  |-> FALSE]

DefinedBy(tokens) ==
  FoldLeft(Sequence,
           [ok |-> TRUE, out |-> <<>>, pos |-> 0, first |-> TRUE,
            recent |-> IF job.kind = "field" THEN <<1, 2, 4>> ELSE <<MinOffset, 0, 0>>],
           tokens)

Defined == DefinedBy(read)

Before == [i \in 1 .. job.base |-> Old]

(* A node appends what its tokens define, however it copies, and refuses   *)
(* a token only when it defines nothing or more than the header says.      *)
DecodesAsDefined ==
  /\ phase = "token" => Defined.ok /\ out = Before \o Defined.out
  /\ result = "Ok" =>
       /\ out = Before \o Defined.out \o [i \in 1 .. job.lits - Defined.pos |-> Defined.pos + i]
       /\ EndFits(Len(out))
  /\ result = "Malformed" => ~Defined.ok \/ job.base + Len(Defined.out) > Limit

(* What was in the output before the node stays, and no match copies it:   *)
(* the chunks of a frame and the outputs of its nodes do not leak into     *)
(* each other.                                                             *)
NothingFromBefore ==
  /\ job.base <= Len(out)
  /\ \A i \in 1 .. Len(out) : IF i <= job.base THEN out[i] = Old ELSE out[i] \in 1 .. job.lits

(* After and during a match every element of it equals the one `offset`    *)
(* elements before: copying more than one offset at once, doubling it, is  *)
(* the copy of one element at a time.                                      *)
MatchRepeats ==
  /\ phase = "copy" => Len(out) = start + copied /\ copied < cur.mat
  /\ phase = "token" /\ start < Len(out) => Len(out) = start + cur.mat
  /\ phase \in {"copy", "token"} =>
       \A i \in start + 1 .. Len(out) : out[i] = out[i - cur.off]

(* The reserve made at the beginning is the last one of lz and fastlz,     *)
(* their chunk copies included; field_lz keeps to the declared size too,   *)
(* when it succeeds.                                                       *)
ReservesOnce ==
  /\ peak <= cap
  /\ job.kind # "field" => cap \in {job.cap, Larger(job.cap, Limit)}
  /\ result = "Ok" => Len(out) <= Limit

(* Every call comes to an end.  The copy loop ends for the match length it *)
(* adds up to: it must make progress in every round, whatever the token    *)
(* says.                                                                   *)
EveryCallEnds == <>(phase = "done")
=============================================================================
