------------------------- MODULE FrameDecodeProofs -------------------------
(***************************************************************************)
(* Proofs about FrameDecode for every set of frames, every limit and every *)
(* number of calls: failures restore the output, successes append exactly  *)
(* the content of the frame, the pool stays within its caps and counts     *)
(* itself exactly, and a decoder implements AtomicDecode.                  *)
(*                                                                         *)
(* The inductive invariant is DecodeInv.  Its first part, SizesInv, stands *)
(* alone: BudgetExact follows the size of the output through the budget,   *)
(* and Kept says the bytes that were there when the call began are still   *)
(* the first ones, so truncating to start_len gives them back.  On top of  *)
(* it ContentExact says which bytes they are, chunk by chunk.              *)
(***************************************************************************)
EXTENDS FrameDecode, DataInduction, TLAPS

Pool == [buffers : Seq(Buffer), pooled : Int]
-----------------------------------------------------------------------------
(* Every non-empty set of naturals has a least element.                    *)
LEMMA LeastNat ==
  ASSUME NEW T, T \subseteq Nat, T # {}
  PROVE  \E x \in T : \A y \in T : x <= y
<1>1. \E x \in T : \A y \in T : ~(<<y, x>> \in OpToRel(<, Nat))
  BY NatLessThanWellFounded, WFMin
<1>2. PICK x \in T : \A y \in T : ~(<<y, x>> \in OpToRel(<, Nat)) BY <1>1
<1>3. \A y \in T : ~(y < x) BY <1>2 DEF OpToRel
<1> QED BY <1>3

(* Some fitting buffer of a pool is the best fit (take_pooled_or_new).     *)
LEMMA BestFitFits ==
  ASSUME NEW pool \in Pool, NEW capacity \in Nat, Fitting(pool, capacity) # {}
  PROVE  BestFit(pool, capacity) \in Fitting(pool, capacity)
<1> DEFINE F == Fitting(pool, capacity)
           Cap(i) == pool.buffers[i].cap
<1>1. F \subseteq DOMAIN pool.buffers /\ DOMAIN pool.buffers = 1 .. Len(pool.buffers)
  BY DEF Fitting, Pool
<1>2. \A i \in F : i \in Nat /\ Cap(i) \in Nat
  <2>1. pool.buffers \in Seq(Buffer) BY DEF Pool
  <2>2. \A i \in 1 .. Len(pool.buffers) : pool.buffers[i] \in Buffer
    BY <2>1, ElementOfSeq
  <2> QED BY <1>1, <2>2 DEF Buffer
<1>3. PICK c \in {Cap(i) : i \in F} : \A d \in {Cap(i) : i \in F} : c <= d
  BY <1>2, LeastNat
<1> DEFINE G == {i \in F : Cap(i) = c}
<1>4. G # {} /\ G \subseteq Nat BY <1>2, <1>3
<1>5. PICK i \in G : \A j \in G : i <= j BY <1>4, LeastNat
<1>6. \A j \in F : Cap(i) < Cap(j) \/ (Cap(i) = Cap(j) /\ i <= j)
  <2> SUFFICES ASSUME NEW j \in F
               PROVE  Cap(i) < Cap(j) \/ (Cap(i) = Cap(j) /\ i <= j)
    OBVIOUS
  <2>1. Cap(i) = c /\ c <= Cap(j) /\ Cap(j) \in Nat /\ c \in Nat
    BY <1>2, <1>3, <1>5
  <2>2. CASE Cap(j) = c BY <2>1, <2>2, <1>5
  <2>3. CASE Cap(j) # c BY <2>1, <2>3
  <2> QED BY <2>2, <2>3
<1>7. \E k \in F : \A j \in F :
        LET a == pool.buffers[k].cap
            b == pool.buffers[j].cap
        IN  a < b \/ (a = b /\ k <= j)
  BY <1>5, <1>6
<1> QED BY <1>7 DEF BestFit

(* Vec::pop leaves the elements before the last.                           *)
LEMMA FrontFacts ==
  ASSUME NEW S, NEW s \in Seq(S), Len(s) >= 1
  PROVE  /\ Front(s) \in Seq(S) /\ Len(Front(s)) = Len(s) - 1
         /\ \A k \in 1 .. Len(s) - 1 : Front(s)[k] = s[k]
<1>0. Len(s) \in Nat OBVIOUS
<1>1. \A k \in 1 .. Len(s) - 1 : s[k] \in S BY <1>0, ElementOfSeq
<1> DEFINE n == Len(s) - 1
<1>2. n \in Nat BY <1>0
<1> HIDE DEF n
<1>3. /\ SubSeq(s, 1, n) \in Seq(S)
      /\ Len(SubSeq(s, 1, n)) = (IF 1 <= n THEN n - 1 + 1 ELSE 0)
      /\ \A k \in 1 .. n - 1 + 1 : SubSeq(s, 1, n)[k] = s[1 + k - 1]
  <2>1. \A k \in 1 .. n : s[k] \in S BY <1>1 DEF n
  <2> QED BY <1>2, <2>1, SubSeqProperties
<1>4. n \in Int /\ (IF 1 <= n THEN n - 1 + 1 ELSE 0) = n
  BY <1>2
<1>5. n - 1 + 1 = n /\ \A k \in 1 .. n : 1 + k - 1 = k BY <1>2
<1> QED BY <1>2, <1>3, <1>4, <1>5 DEF Front, n

(* swap_remove keeps the other elements, one fewer of them.                *)
LEMMA SwapRemoveKeeps ==
  ASSUME NEW S, NEW s \in Seq(S), NEW i \in DOMAIN s
  PROVE  /\ SwapRemove(s, i) \in Seq(S)
         /\ Len(SwapRemove(s, i)) = Len(s) - 1
         /\ \A k \in DOMAIN SwapRemove(s, i) :
              \E j \in DOMAIN s : SwapRemove(s, i)[k] = s[j]
<1>1. i \in 1 .. Len(s) /\ Len(s) \in Nat /\ Len(s) >= 1 OBVIOUS
<1>2. /\ Front(s) \in Seq(S) /\ Len(Front(s)) = Len(s) - 1
      /\ \A k \in 1 .. Len(s) - 1 : Front(s)[k] = s[k]
  BY <1>1, FrontFacts
<1>3. Last(s) \in S /\ Last(s) = s[Len(s)] BY <1>1, ElementOfSeq DEF Last
<1>4. CASE i = Len(s) BY <1>1, <1>2, <1>4 DEF SwapRemove
<1>5. CASE i # Len(s)
  <2>1. i \in 1 .. Len(Front(s)) BY <1>1, <1>2, <1>5
  <2>2. SwapRemove(s, i) = [Front(s) EXCEPT ![i] = Last(s)]
    BY <1>5 DEF SwapRemove
  <2>3. /\ SwapRemove(s, i) \in Seq(S)
        /\ Len(SwapRemove(s, i)) = Len(s) - 1
        /\ \A k \in 1 .. Len(s) - 1 :
             SwapRemove(s, i)[k] = IF k = i THEN Last(s) ELSE Front(s)[k]
    BY <1>2, <1>3, <2>1, <2>2, ExceptSeq
  <2>4. DOMAIN SwapRemove(s, i) = 1 .. Len(s) - 1 BY <2>3
  <2> QED BY <1>1, <1>2, <1>3, <2>3, <2>4
<1> QED BY <1>4, <1>5

(* Taking a buffer keeps the pool a pool within its caps.                  *)
LEMMA TakeStalePool ==
  ASSUME NEW pool \in Pool, WithinCaps(pool), NEW capacity \in Nat
  PROVE  /\ TakeStale(pool, capacity).scratch \in Pool
         /\ WithinCaps(TakeStale(pool, capacity).scratch)
         /\ TakeStale(pool, capacity).buffer \in Buffer
<1>1. CASE Fitting(pool, capacity) = {}
  <2>1. /\ TakeStale(pool, capacity).scratch = pool
        /\ TakeStale(pool, capacity).buffer = NewBuffer(capacity)
    BY <1>1 DEF TakeStale
  <2>2. NewBuffer(capacity) \in Buffer BY DEF NewBuffer, Buffer
  <2> QED BY <2>1, <2>2
<1>2. CASE Fitting(pool, capacity) # {}
  <2> DEFINE i == BestFit(pool, capacity)
             left == [buffers |-> SwapRemove(pool.buffers, i),
                      pooled  |-> pool.pooled - pool.buffers[i].cap]
  <2>1. /\ TakeStale(pool, capacity).scratch = left
        /\ TakeStale(pool, capacity).buffer = pool.buffers[i]
    BY <1>2 DEF TakeStale
  <2>2. i \in DOMAIN pool.buffers BY <1>2, BestFitFits DEF Fitting
  <2>3. pool.buffers \in Seq(Buffer) /\ pool.pooled \in Int BY DEF Pool
  <2>4. pool.buffers[i] \in Buffer BY <2>2, <2>3
  <2>5. pool.buffers[i].cap \in Nat BY <2>4 DEF Buffer
  <2> HIDE DEF i
  <2>6. /\ SwapRemove(pool.buffers, i) \in Seq(Buffer)
        /\ Len(SwapRemove(pool.buffers, i)) = Len(pool.buffers) - 1
        /\ \A k \in DOMAIN SwapRemove(pool.buffers, i) :
             \E j \in DOMAIN pool.buffers :
               SwapRemove(pool.buffers, i)[k] = pool.buffers[j]
    BY <2>2, <2>3, SwapRemoveKeeps
  <2>7. left \in Pool BY <2>3, <2>5, <2>6 DEF Pool
  <2>8. left.pooled <= MaxPooledBytes
    BY <2>3, <2>5, PoolAssumption DEF WithinCaps
  <2>9. Len(left.buffers) <= MaxPooledBuffers
    <3>1. Len(pool.buffers) \in Nat BY <2>3
    <3> QED BY <2>6, <3>1, PoolAssumption DEF WithinCaps
  <2>10. \A k \in DOMAIN left.buffers : left.buffers[k].cap > 0
    BY <2>6 DEF WithinCaps
  <2> QED BY <2>1, <2>4, <2>7, <2>8, <2>9, <2>10 DEF WithinCaps
<1> QED BY <1>1, <1>2

(* take_byte_buffer also empties the buffer.                               *)
LEMMA TakePool ==
  ASSUME NEW pool \in Pool, WithinCaps(pool), NEW capacity \in Nat
  PROVE  /\ Take(pool, capacity).scratch \in Pool
         /\ WithinCaps(Take(pool, capacity).scratch)
         /\ Take(pool, capacity).buffer \in Buffer
<1> DEFINE taken == TakeStale(pool, capacity)
<1>1. taken.scratch \in Pool /\ WithinCaps(taken.scratch) /\ taken.buffer \in Buffer
  BY TakeStalePool
<1>2. "scratch" \in DOMAIN taken /\ "buffer" \in DOMAIN taken
  BY DEF TakeStale
<1>3. /\ Take(pool, capacity).scratch = taken.scratch
      /\ Take(pool, capacity).buffer = [taken.buffer EXCEPT !.bytes = <<>>]
  BY <1>2 DEF Take
<1>4. [taken.buffer EXCEPT !.bytes = <<>>] \in Buffer BY <1>1, EmptySeq DEF Buffer
<1> QED BY <1>1, <1>3, <1>4

(* Recycling a buffer keeps the pool a pool within its caps.               *)
LEMMA RecyclePool ==
  ASSUME NEW pool \in Pool, WithinCaps(pool), NEW b \in Buffer
  PROVE  Recycle(pool, b) \in Pool /\ WithinCaps(Recycle(pool, b))
<1>1. pool.buffers \in Seq(Buffer) /\ pool.pooled \in Int BY DEF Pool
<1>2. b.cap \in Nat BY DEF Buffer
<1>3. CASE Keeps(pool, b)
  <2> DEFINE grown == [buffers |-> Append(pool.buffers, b),
                       pooled  |-> pool.pooled + b.cap]
  <2>1. Recycle(pool, b) = grown BY <1>3 DEF Recycle
  <2>2. /\ Append(pool.buffers, b) \in Seq(Buffer)
        /\ Len(Append(pool.buffers, b)) = Len(pool.buffers) + 1
        /\ \A k \in 1 .. Len(pool.buffers) :
             Append(pool.buffers, b)[k] = pool.buffers[k]
        /\ Append(pool.buffers, b)[Len(pool.buffers) + 1] = b
    BY <1>1, AppendProperties
  <2>3. grown \in Pool BY <1>1, <1>2, <2>2 DEF Pool
  <2>4. grown.pooled <= MaxPooledBytes
    BY <1>1, <1>2, <1>3, PoolAssumption DEF Keeps
  <2>5. Len(pool.buffers) \in Nat /\ Len(pool.buffers) <= MaxPooledBuffers
    BY <1>1 DEF WithinCaps
  <2>6. Len(grown.buffers) <= MaxPooledBuffers
    BY <1>3, <2>2, <2>5, PoolAssumption DEF Keeps
  <2>7. \A k \in DOMAIN grown.buffers : grown.buffers[k].cap > 0
    <3> SUFFICES ASSUME NEW k \in DOMAIN grown.buffers
                 PROVE  grown.buffers[k].cap > 0
      OBVIOUS
    <3>1. k \in 1 .. Len(pool.buffers) + 1 BY <2>2
    <3>2. CASE k = Len(pool.buffers) + 1 BY <1>2, <1>3, <2>2, <3>2 DEF Keeps
    <3>3. CASE k \in 1 .. Len(pool.buffers)
      BY <1>1, <2>2, <3>3 DEF WithinCaps
    <3> QED BY <2>5, <3>1, <3>2, <3>3
  <2> QED BY <2>1, <2>3, <2>4, <2>6, <2>7 DEF WithinCaps
<1>4. CASE ~Keeps(pool, b) BY <1>4 DEF Recycle
<1> QED BY <1>3, <1>4
-----------------------------------------------------------------------------
(* What reserving, appending and truncating do to a vector.                *)
LEMMA VecReserved ==
  ASSUME NEW b \in Buffer, NEW n \in Nat
  PROVE  Reserved(b, n) \in Buffer /\ Reserved(b, n).bytes = b.bytes
<1>1. Len(b.bytes) \in Nat BY DEF Buffer
<1> QED BY <1>1 DEF Reserved, Buffer

(* A vector after an append.                                               *)
LEMMA VecAppended ==
  ASSUME NEW b \in Buffer, NEW s \in Seq(Byte)
  PROVE  /\ Appended(b, s) \in Buffer
         /\ Appended(b, s).bytes = b.bytes \o s
         /\ Len(Appended(b, s).bytes) = Len(b.bytes) + Len(s)
<1>1. Len(s) \in Nat /\ b.bytes \in Seq(Byte) BY DEF Buffer
<1>2. Reserved(b, Len(s)) \in Buffer BY <1>1, VecReserved
<1>3. b.bytes \o s \in Seq(Byte) /\ Len(b.bytes \o s) = Len(b.bytes) + Len(s)
  BY <1>1, ConcatProperties
<1>4. /\ Appended(b, s) = [Reserved(b, Len(s)) EXCEPT !.bytes = b.bytes \o s]
      /\ [Reserved(b, Len(s)) EXCEPT !.bytes = b.bytes \o s] \in Buffer
      /\ [Reserved(b, Len(s)) EXCEPT !.bytes = b.bytes \o s].bytes = b.bytes \o s
  BY <1>2, <1>3 DEF Appended, Buffer
<1> QED BY <1>3, <1>4

(* A vector after a truncate.                                              *)
LEMMA VecTruncated ==
  ASSUME NEW b \in Buffer, NEW n \in 0 .. Len(b.bytes)
  PROVE  /\ Truncated(b, n) \in Buffer
         /\ Truncated(b, n).bytes = SubSeq(b.bytes, 1, n)
         /\ Len(Truncated(b, n).bytes) = n
<1>1. b.bytes \in Seq(Byte) /\ Len(b.bytes) \in Nat /\ n \in Nat BY DEF Buffer
<1>2. \A i \in 1 .. n : b.bytes[i] \in Byte BY <1>1, ElementOfSeq
<1>3. /\ SubSeq(b.bytes, 1, n) \in Seq(Byte)
      /\ Len(SubSeq(b.bytes, 1, n)) = IF 1 <= n THEN n - 1 + 1 ELSE 0
  BY <1>1, <1>2, SubSeqProperties
<1>4. (IF 1 <= n THEN n - 1 + 1 ELSE 0) = n BY <1>1
<1>5. Truncated(b, n) \in Buffer /\ Truncated(b, n).bytes = SubSeq(b.bytes, 1, n)
  BY <1>1, <1>3 DEF Truncated, Buffer
<1> QED BY <1>3, <1>4, <1>5

(* A vector that began with some bytes still does after an append.         *)
LEMMA PrefixKept ==
  ASSUME NEW s \in Seq(Byte), NEW t \in Seq(Byte), NEW p \in Seq(Byte),
         Len(p) <= Len(s), SubSeq(s, 1, Len(p)) = p
  PROVE  Len(p) <= Len(s \o t) /\ SubSeq(s \o t, 1, Len(p)) = p
<1>1. Len(s) \in Nat /\ Len(t) \in Nat /\ Len(p) \in Nat OBVIOUS
<1>2. Len(s \o t) = Len(s) + Len(t) BY ConcatProperties
<1>3. CASE Len(p) = 0
  <2>1. SubSeq(s, 1, 0) = <<>> /\ SubSeq(s \o t, 1, 0) = <<>> BY SubSeqEmpty
  <2> QED BY <1>1, <1>2, <1>3, <2>1
<1>4. CASE Len(p) # 0
  <2>1. 1 \in 1 .. Len(s) /\ Len(p) \in 1 .. Len(s) BY <1>1, <1>4
  <2>2. SubSeq(s \o t, 1, Len(p)) = SubSeq(s, 1, Len(p))
    BY <2>1, SubSeqOfConcat1
  <2> QED BY <1>1, <1>2, <2>2
<1> QED BY <1>3, <1>4
(* What an append put behind a vector's bytes.                             *)
LEMMA SuffixOfConcat ==
  ASSUME NEW s \in Seq(Byte), NEW t \in Seq(Byte)
  PROVE  SubSeq(s \o t, Len(s) + 1, Len(s \o t)) = t
<1>1. Len(s) \in Nat /\ Len(t) \in Nat /\ Len(s \o t) = Len(s) + Len(t)
  BY ConcatProperties
<1>2. CASE Len(t) = 0
  <2>1. t = <<>> BY <1>2, EmptySeq
  <2>2. Len(s \o t) < Len(s) + 1 BY <1>1, <1>2
  <2>3. SubSeq(s \o t, Len(s) + 1, Len(s \o t)) = <<>>
    BY <1>1, <2>2, SubSeqEmpty
  <2> QED BY <2>1, <2>3
<1>3. CASE Len(t) # 0
  <2> DEFINE m == Len(s) + 1
             n == Len(s) + Len(t)
  <2>1. /\ m \in Len(s) + 1 .. Len(s) + Len(t)
        /\ n \in Len(s) + 1 .. Len(s) + Len(t)
        /\ m - Len(s) = 1 /\ n - Len(s) = Len(t)
    BY <1>1, <1>3
  <2> HIDE DEF m, n
  <2>2. SubSeq(s \o t, m, n) = SubSeq(t, m - Len(s), n - Len(s))
    BY <2>1, SubSeqOfConcat2
  <2>3. SubSeq(t, 1, Len(t)) = t BY SubSeqFull
  <2> QED BY <1>1, <2>1, <2>2, <2>3 DEF m, n
<1> QED BY <1>2, <1>3
-----------------------------------------------------------------------------
(* The parts of a typed call.                                              *)
LEMMA CallTyped ==
  ASSUME TypeOK, phase # "idle"
  PROVE  /\ call.frame \in Frames /\ call.to \in {"into", "chunks", "outputs"}
         /\ Declared \in Int
         /\ call.frame.chunks \in Seq(Chunk)
         /\ Len(call.frame.chunks) \in Nat
<1>1. call.frame \in Frames /\ call.to \in {"into", "chunks", "outputs"}
  BY DEF TypeOK
<1>2. call.frame \in [serial : BOOLEAN, declared : Nat \cup {Unknown},
                      encoded : Nat, chunks : Seq(Chunk)]
  BY <1>1, FrameAssumption
<1>3. call.frame.declared \in Int BY <1>2 DEF Unknown
<1>4. call.frame.chunks \in Seq(Chunk) BY <1>2
<1> QED BY <1>1, <1>3, <1>4 DEF Declared

(* The chunk a decode has come to.                                         *)
LEMMA CurrentTyped ==
  ASSUME TypeOK, phase # "idle", next <= Len(call.frame.chunks)
  PROVE  /\ Current.bytes \in Seq(Byte) /\ Len(Current.bytes) \in Nat
         /\ Current.path \in Paths /\ Current.fails \in BOOLEAN
<1>1. call.frame.chunks \in Seq(Chunk) /\ next \in 1 .. Len(call.frame.chunks)
  BY CallTyped DEF TypeOK
<1>2. Current \in Chunk BY <1>1, ElementOfSeq DEF Current
<1>3. Current.bytes \in Seq(Byte) BY <1>2 DEF Chunk
<1> QED BY <1>2, <1>3 DEF Chunk

(* The vectors and sequences of a typed state.                             *)
LEMMA VectorsTyped ==
  ASSUME TypeOK
  PROVE  /\ dst \in Buffer /\ owned \in Buffer /\ buffer \in Buffer
         /\ dst.bytes \in Seq(Byte) /\ Len(dst.bytes) \in Nat
         /\ saved \in Seq(Byte) /\ Len(saved) \in Nat
         /\ decoded \in Seq(Byte) /\ Len(decoded) \in Nat
         /\ seen \in Seq(Byte) /\ Len(seen) \in Nat
         /\ budget.written \in Nat /\ scratch \in Pool
<1>1. dst \in Buffer /\ dst.bytes \in Seq(Byte) BY DEF TypeOK, Buffer
<1>2. saved \in Seq(Byte) /\ decoded \in Seq(Byte) /\ seen \in Seq(Byte)
  BY DEF TypeOK
<1>3. budget.written \in Nat BY FrameAssumption DEF TypeOK
<1>4. scratch \in Pool BY DEF TypeOK, Pool
<1>5. owned \in Buffer /\ buffer \in Buffer BY DEF TypeOK
<1> QED BY <1>1, <1>2, <1>3, <1>4, <1>5

(* While a frame decodes, its budget is not overdrawn.                     *)
LEMMA RemainingNat ==
  ASSUME SizesInv, phase \in {"chunk", "charge", "verify", "sink"}
  PROVE  /\ Remaining \in Nat /\ Declared \in Nat /\ Declared <= MaxDecoded
         /\ budget.written \in Nat /\ Declared = budget.written + Remaining
<1>1. WithinLimits(call.frame) /\ budget.written <= Declared
  BY DEF SizesInv, BudgetExact
<1>2. TypeOK BY DEF SizesInv
<1>3. budget.written \in Nat BY <1>2, VectorsTyped
<1>4. Declared \in 0 .. MaxDecoded BY <1>1 DEF WithinLimits, Declared
<1>5. Declared \in Nat /\ Declared <= MaxDecoded BY <1>4, FrameAssumption
<1> QED BY <1>1, <1>3, <1>5 DEF Remaining
-----------------------------------------------------------------------------
(* A budget without an error is within the limits (OutputBudget::new).     *)
LEMMA BudgetOk ==
  ASSUME NEW f \in Frames, BudgetError(f) = "none"
  PROVE  WithinLimits(f)
<1>1. f.declared \in Nat \cup {Unknown} /\ f.encoded \in Nat
  BY FrameAssumption
<1> QED BY <1>1, FrameAssumption DEF BudgetError, WithinLimits, Unknown

(* Truncating to start_len gives the bytes the call found.                 *)
LEMMA TruncationRestores ==
  ASSUME NEW b \in Buffer, NEW p \in Seq(Byte),
         Len(p) <= Len(b.bytes), SubSeq(b.bytes, 1, Len(p)) = p
  PROVE  Truncated(b, Len(p)) \in Buffer /\ Truncated(b, Len(p)).bytes = p
<1>1. Len(p) \in 0 .. Len(b.bytes) BY DEF Buffer
<1> QED BY <1>1, VecTruncated

(* A fresh decoder satisfies the invariant.                                *)
LEMMA InitInv == Init => SizesInv
<1> SUFFICES ASSUME Init PROVE SizesInv OBVIOUS
<1>1. PICK c \in 0 .. 1 : dst = NewBuffer(c) BY DEF Init
<1>2. dst \in Buffer /\ dst.bytes = <<>> BY <1>1, EmptySeq DEF NewBuffer, Buffer
<1>3. NoBuffer \in Buffer BY EmptySeq DEF NoBuffer, NewBuffer, Buffer
<1>4. NoBudget \in [written : 0 .. MaxDecoded, reserved : BOOLEAN]
  BY FrameAssumption DEF NoBudget
<1>5. NoScratch \in Pool /\ WithinCaps(NoScratch)
  BY EmptySeq, PoolAssumption DEF NoScratch, Pool, WithinCaps
<1>6. <<>> \in Seq(Byte) BY EmptySeq
<1>7. TypeOK
  BY <1>2, <1>3, <1>4, <1>5, <1>6, FrameAssumption
     DEF TypeOK, Init, Results, Pool
<1>8. Kept
  <2>1. SubSeq(<<>>, 1, 0) = <<>> BY SubSeqEmpty
  <2> QED BY <1>2, <2>1 DEF Kept, Init
<1>9. ~Streaming BY DEF Init, NoCall, Streaming
<1> QED BY <1>5, <1>7, <1>8, <1>9
        DEF SizesInv, BudgetExact, PoolWithinCaps, OutputRestoredOrComplete, Init

(* A call begins with everything still to decode.                          *)
LEMMA CallInv ==
  ASSUME SizesInv, NEW to \in {"into", "chunks", "outputs"},
         NEW f \in Frames, NEW v \in BOOLEAN, Call(to, f, v)
  PROVE  SizesInv'
<1>1. TypeOK /\ PoolWithinCaps BY DEF SizesInv
<1>2. /\ call' = [to |-> to, frame |-> f, verify |-> v]
      /\ dst' = (IF to = "outputs" THEN Truncated(dst, 0) ELSE dst)
      /\ saved' = dst'.bytes /\ phase' = "open" /\ result' = "none"
      /\ calls' = calls + 1 /\ calls < MaxCalls /\ budget' = NoBudget
      /\ next' = 1 /\ decoded' = <<>> /\ seen' = <<>>
      /\ owned' = owned /\ buffer' = buffer /\ scratch' = scratch
  BY DEF Call
<1>3. dst' \in Buffer
  <2>1. dst \in Buffer /\ 0 \in 0 .. Len(dst.bytes) BY <1>1, VectorsTyped
  <2> QED BY <1>2, <2>1, VecTruncated
<1>4. saved' \in Seq(Byte) BY <1>2, <1>3 DEF Buffer
<1>5. budget' \in [written : 0 .. MaxDecoded, reserved : BOOLEAN]
  BY <1>2, FrameAssumption DEF NoBudget
<1>6. decoded' \in Seq(Byte) /\ seen' \in Seq(Byte) BY <1>2, EmptySeq
<1>7. calls' \in 0 .. MaxCalls BY <1>1, <1>2, FrameAssumption DEF TypeOK
<1>8. call' \in [to : {"into", "chunks", "outputs"}, frame : Frames,
                 verify : BOOLEAN]
  BY <1>2
<1>9. TypeOK' BY <1>1, <1>2, <1>3, <1>4, <1>5, <1>6, <1>7, <1>8 DEF TypeOK, Results
<1>10. Kept' /\ Len(dst'.bytes) - Len(saved') = 0
  <2>1. SubSeq(saved', 1, Len(saved')) = saved' BY <1>4, SubSeqFull
  <2>2. Len(saved') \in Nat BY <1>4
  <2> QED BY <1>2, <2>1, <2>2 DEF Kept
<1>11. Len(seen') = 0 /\ budget'.written = 0 BY <1>2 DEF NoBudget
<1> QED BY <1>1, <1>2, <1>9, <1>10, <1>11
        DEF SizesInv, BudgetExact, Done, PoolWithinCaps,
            OutputRestoredOrComplete

(* The single-zstd path truncates on every failure after it wrote.         *)
LEMMA DecodeSingleZstdInv ==
  ASSUME SizesInv, DecodeSingleZstd
  PROVE  SizesInv'
<1> DEFINE chunk == call.frame.chunks[1]
           verdict == SingleZstdVerdict(chunk)
           b == Appended(dst, chunk.bytes)
<1>1. TypeOK /\ PoolWithinCaps /\ Kept /\ BudgetExact BY DEF SizesInv
<1>2. /\ phase = "open" /\ ~Streaming
      /\ Len(call.frame.chunks) = 1
      /\ result' = verdict /\ phase' = "idle"
      /\ dst' = IF verdict \in {"ok", "ChecksumMismatch"}
                THEN IF verdict = "ok" THEN b ELSE Truncated(b, Len(saved))
                ELSE dst
      /\ UNCHANGED <<call, saved, budget, next, decoded, owned, buffer,
                     scratch, seen, calls>>
  BY DEF DecodeSingleZstd, SingleZstd
<1>3. call.frame \in Frames /\ chunk.bytes \in Seq(Byte)
  <2>1. call.frame \in Frames /\ call.frame.chunks \in Seq(Chunk)
    BY <1>1, <1>2, CallTyped
  <2>2. chunk \in Chunk BY <1>2, <2>1, ElementOfSeq
  <2> QED BY <2>1, <2>2 DEF Chunk
<1>4. /\ dst \in Buffer /\ dst.bytes \in Seq(Byte) /\ saved \in Seq(Byte)
      /\ Len(dst.bytes) \in Nat /\ Len(saved) \in Nat
  BY <1>1, VectorsTyped
<1>5. Len(dst.bytes) = Len(saved) /\ dst.bytes = saved
  <2>1. Len(dst.bytes) - Len(saved) = 0 BY <1>1, <1>2 DEF BudgetExact, Done
  <2>2. SubSeq(dst.bytes, 1, Len(dst.bytes)) = dst.bytes BY <1>4, SubSeqFull
  <2>3. SubSeq(dst.bytes, 1, Len(saved)) = saved BY <1>1 DEF Kept
  <2>4. Len(dst.bytes) = Len(saved) BY <1>4, <2>1
  <2> QED BY <2>2, <2>3, <2>4
<1>6. /\ b \in Buffer /\ Len(b.bytes) = Len(dst.bytes) + Len(chunk.bytes)
      /\ Len(saved) <= Len(b.bytes) /\ SubSeq(b.bytes, 1, Len(saved)) = saved
  <2>1. b \in Buffer /\ b.bytes = dst.bytes \o chunk.bytes
        /\ Len(b.bytes) = Len(dst.bytes) + Len(chunk.bytes)
    BY <1>3, <1>4, VecAppended
  <2>2. Len(saved) <= Len(dst.bytes) /\ SubSeq(dst.bytes, 1, Len(saved)) = saved
    BY <1>1 DEF Kept
  <2>3. /\ Len(saved) <= Len(dst.bytes \o chunk.bytes)
        /\ SubSeq(dst.bytes \o chunk.bytes, 1, Len(saved)) = saved
    BY <1>3, <1>4, <2>2, PrefixKept
  <2> HIDE DEF b
  <2> QED BY <2>1, <2>3
<1>7. Truncated(b, Len(saved)) \in Buffer /\ Truncated(b, Len(saved)).bytes = saved
  BY <1>4, <1>6, TruncationRestores
<1>8. verdict \in Results /\ verdict # "none"
  BY DEF SingleZstdVerdict, BudgetError, Results
<1>9. verdict = "ok" =>
        WithinLimits(call.frame) /\ Len(chunk.bytes) = Declared
  <2>1. BudgetError(call.frame) # "ok" BY DEF BudgetError
  <2>2. verdict = "ok" =>
          BudgetError(call.frame) = "none" /\ Len(chunk.bytes) = Declared
    BY <2>1 DEF SingleZstdVerdict
  <2> QED BY <1>3, <2>2, BudgetOk
<1> HIDE DEF chunk, verdict, b
<1>10. dst' \in Buffer BY <1>2, <1>4, <1>6, <1>7
<1>11. Kept'
  <2>1. CASE verdict = "ok" BY <1>2, <1>6, <2>1 DEF Kept
  <2>2. CASE verdict = "ChecksumMismatch"
    BY <1>2, <1>4, <1>7, <2>2, SubSeqFull DEF Kept
  <2>3. CASE verdict \notin {"ok", "ChecksumMismatch"}
    BY <1>1, <1>2, <2>3 DEF Kept
  <2> QED BY <2>1, <2>2, <2>3
<1>12. Len(dst'.bytes) = Len(saved) + (IF verdict = "ok" THEN Declared ELSE 0)
  <2>1. CASE verdict = "ok" BY <1>2, <1>5, <1>6, <1>9, <2>1
  <2>2. CASE verdict = "ChecksumMismatch" BY <1>2, <1>4, <1>7, <2>2
  <2>3. CASE verdict \notin {"ok", "ChecksumMismatch"}
    BY <1>2, <1>4, <1>5, <2>3
  <2> QED BY <2>1, <2>2, <2>3
<1>13. TypeOK' BY <1>1, <1>2, <1>8, <1>10 DEF TypeOK
<1>14. OutputRestoredOrComplete'
  BY <1>2, <1>9, <1>11, <1>12
     DEF OutputRestoredOrComplete, Streaming, Declared
<1> QED BY <1>1, <1>2, <1>11, <1>13, <1>14
        DEF SizesInv, BudgetExact, PoolWithinCaps, Streaming

(* Opening a frame writes nothing.                                         *)
LEMMA OpenFrameInv ==
  ASSUME SizesInv, OpenFrame
  PROVE  SizesInv'
<1>1. /\ TypeOK /\ PoolWithinCaps /\ Kept /\ BudgetExact
      /\ (Streaming => dst.bytes = saved)
  BY DEF SizesInv
<1>2. /\ phase = "open"
      /\ UNCHANGED <<call, dst, saved, budget, next, decoded, owned, seen, calls>>
      /\ \/ /\ phase' = "idle" /\ result' = "Unsupported"
            /\ UNCHANGED <<buffer, scratch>>
         \/ /\ \/ /\ buffer' = Take(scratch, 0).buffer
                  /\ scratch' = Take(scratch, 0).scratch
               \/ UNCHANGED <<buffer, scratch>>
            /\ \/ /\ BudgetError(call.frame) # "none"
                  /\ phase' = "return" /\ result' = BudgetError(call.frame)
               \/ /\ BudgetError(call.frame) = "none"
                  /\ phase' = "chunk" /\ result' = result
  BY DEF OpenFrame, Leave
<1>3. scratch \in Pool /\ WithinCaps(scratch) /\ buffer \in Buffer
  BY <1>1, VectorsTyped DEF PoolWithinCaps
<1>4. /\ Take(scratch, 0).buffer \in Buffer
      /\ Take(scratch, 0).scratch \in Pool
      /\ WithinCaps(Take(scratch, 0).scratch)
  BY <1>3, TakePool
<1>5. buffer' \in Buffer /\ scratch' \in Pool /\ WithinCaps(scratch')
  BY <1>2, <1>3, <1>4
<1>6. BudgetError(call.frame) \in Results BY DEF BudgetError, Results
<1>7. TypeOK'
  <2>1. call' \in [to : {"into", "chunks", "outputs"}, frame : Frames,
                   verify : BOOLEAN]
    BY <1>1, <1>2 DEF TypeOK
  <2>2. phase' \in {"idle", "return", "chunk"} /\ result' \in Results
    BY <1>1, <1>2, <1>6 DEF TypeOK, Results
  <2> QED BY <1>1, <1>2, <1>5, <2>1, <2>2 DEF TypeOK, Pool
<1>8. Done = 0 /\ budget.written = 0 /\ result = "none" /\ Done' = Done
  BY <1>1, <1>2 DEF BudgetExact, Done, Streaming
<1>9. phase' = "chunk" =>
        /\ WithinLimits(call.frame) /\ budget.written <= Declared
        /\ result' = "none"
  <2>1. call.frame \in Frames BY <1>1, <1>2, CallTyped
  <2>2. WithinLimits(call.frame) => 0 <= Declared
    BY FrameAssumption DEF WithinLimits, Declared
  <2> QED BY <1>2, <1>8, <2>1, <2>2, BudgetOk
<1>10. BudgetExact'
  <2>1. phase' = "return" => result' # "none" /\ result' # "ok"
    BY <1>2 DEF BudgetError
  <2> QED BY <1>2, <1>8, <1>9, <2>1
          DEF BudgetExact, Done, Streaming, Declared
<1>11. Kept' BY <1>1, <1>2 DEF Kept
<1>12. OutputRestoredOrComplete'
  <2>1. Len(dst.bytes) \in Nat /\ Len(saved) \in Nat BY <1>1, VectorsTyped
  <2>2. ~Streaming => Len(dst.bytes) = Len(saved)
    BY <1>8, <2>1 DEF Done
  <2>3. phase' = "idle" => result' = "Unsupported" BY <1>2
  <2> QED BY <1>1, <1>2, <1>11, <2>1, <2>2, <2>3
          DEF OutputRestoredOrComplete, Streaming
<1> QED BY <1>1, <1>2, <1>5, <1>7, <1>10, <1>11, <1>12
        DEF SizesInv, PoolWithinCaps, Streaming
-----------------------------------------------------------------------------
Budgets == [written : 0 .. MaxDecoded, reserved : BOOLEAN]

(* Leaving a call with an error keeps the invariant if the step only       *)
(* appended to dst.                                                        *)
LEMMA LeaveInv ==
  ASSUME SizesInv, phase # "idle", phase' = "return",
         result' \in Results \ {"none", "ok"},
         UNCHANGED <<call, saved, calls>>, next' = next,
         dst' \in Buffer, Kept', Streaming => dst'.bytes = saved,
         budget' \in Budgets,
         decoded' \in Seq(Byte), seen' \in Seq(Byte),
         owned' \in Buffer, buffer' \in Buffer,
         scratch' \in Pool, WithinCaps(scratch')
  PROVE  SizesInv'
<1>1. TypeOK BY DEF SizesInv
<1>2. call' \in [to : {"into", "chunks", "outputs"}, frame : Frames,
                 verify : BOOLEAN]
  BY <1>1 DEF TypeOK
<1>3. TypeOK' BY <1>1, <1>2 DEF TypeOK, Pool, Budgets
<1> QED BY <1>3 DEF SizesInv, BudgetExact, PoolWithinCaps,
                    OutputRestoredOrComplete, Streaming

(* A step that decodes a chunk without an error leaves it to be charged.   *)
LEMMA DecodedInv ==
  ASSUME SizesInv, phase = "chunk", next <= Len(call.frame.chunks),
         phase' = "charge", result' = result,
         UNCHANGED <<call, saved, seen, calls>>, next' = next,
         dst' \in Buffer, Kept', decoded' \in Seq(Byte),
         IF Streaming THEN dst' = dst
         ELSE Len(dst'.bytes) = Len(dst.bytes) + Len(decoded'),
         budget' \in Budgets, budget'.written = budget.written,
         owned' \in Buffer, buffer' \in Buffer,
         scratch' \in Pool, WithinCaps(scratch')
  PROVE  SizesInv'
<1>1. TypeOK /\ BudgetExact /\ (Streaming => dst.bytes = saved) BY DEF SizesInv
<1>2. call' \in [to : {"into", "chunks", "outputs"}, frame : Frames,
                 verify : BOOLEAN]
  BY <1>1 DEF TypeOK
<1>3. TypeOK' BY <1>1, <1>2 DEF TypeOK, Pool, Budgets
<1>4. /\ WithinLimits(call.frame) /\ budget.written <= Declared
      /\ result = "none" /\ Done = budget.written
  BY <1>1 DEF BudgetExact
<1>5. Done' = budget.written + (IF Streaming THEN 0 ELSE Len(decoded'))
  <2>1. /\ Len(dst.bytes) \in Nat /\ Len(saved) \in Nat
        /\ budget.written \in Nat /\ Len(seen) \in Nat
    BY <1>1, VectorsTyped
  <2>2. Len(decoded') \in Nat OBVIOUS
  <2>3. CASE Streaming BY <1>4, <2>1, <2>3 DEF Done, Streaming
  <2>4. CASE ~Streaming
    <3>1. Done' = Len(dst'.bytes) - Len(saved) BY <2>4 DEF Done, Streaming
    <3>2. Len(dst.bytes) - Len(saved) = budget.written
      BY <1>4, <2>4 DEF Done
    <3>3. Len(dst'.bytes) = Len(dst.bytes) + Len(decoded') BY <2>4
    <3> QED BY <2>1, <2>2, <2>4, <3>1, <3>2, <3>3
  <2> QED BY <2>3, <2>4
<1>6. BudgetExact'
  BY <1>4, <1>5 DEF BudgetExact, Streaming, Declared
<1> QED BY <1>1, <1>3, <1>6 DEF SizesInv, PoolWithinCaps,
                                OutputRestoredOrComplete, Streaming

(* Appending to dst keeps the bytes the call found.                        *)
LEMMA AppendKept ==
  ASSUME SizesInv, saved' = saved, NEW s \in Seq(Byte),
         dst'.bytes = dst.bytes \o s
  PROVE  Kept' /\ Len(dst'.bytes) = Len(dst.bytes) + Len(s)
<1>1. /\ dst.bytes \in Seq(Byte) /\ saved \in Seq(Byte)
      /\ Len(saved) <= Len(dst.bytes)
      /\ SubSeq(dst.bytes, 1, Len(saved)) = saved
  BY VectorsTyped DEF SizesInv, Kept
<1>2. Len(saved) <= Len(dst.bytes \o s)
      /\ SubSeq(dst.bytes \o s, 1, Len(saved)) = saved
  BY <1>1, PrefixKept
<1>3. Len(dst.bytes \o s) = Len(dst.bytes) + Len(s) BY <1>1, ConcatProperties
<1> QED BY <1>2, <1>3 DEF Kept

(* A growing output may fail to grow; nothing was written.                 *)
LEMMA AllocationFailsInv ==
  ASSUME SizesInv, AllocationFails PROVE SizesInv'
<1>1. /\ phase = "chunk" /\ next <= Len(call.frame.chunks)
      /\ phase' = "return" /\ result' = "AllocationFailed"
      /\ UNCHANGED <<call, dst, saved, budget, next, decoded, owned, buffer,
                     seen, calls>>
  BY DEF AllocationFails, Ready, Leave
<1>2. TypeOK /\ Kept /\ PoolWithinCaps /\ (Streaming => dst.bytes = saved)
  BY DEF SizesInv
<1>3. scratch \in Pool /\ WithinCaps(scratch)
  BY <1>2, VectorsTyped DEF PoolWithinCaps
<1>4. Current.bytes \in Seq(Byte) /\ Len(Current.bytes) \in Nat
  BY <1>1, <1>2, CurrentTyped
<1>5. scratch' \in Pool /\ WithinCaps(scratch')
  <2> DEFINE taken == TakeStale(scratch, Len(Current.bytes))
             b == [taken.buffer EXCEPT !.bytes = Current.bytes]
  <2>1. taken.scratch \in Pool /\ WithinCaps(taken.scratch) /\ taken.buffer \in Buffer
    BY <1>3, <1>4, TakeStalePool
  <2>2. b \in Buffer BY <1>4, <2>1 DEF Buffer
  <2>3. Recycle(taken.scratch, b) \in Pool /\ WithinCaps(Recycle(taken.scratch, b))
    BY <2>1, <2>2, RecyclePool
  <2>4. scratch' = Recycle(taken.scratch, b) \/ scratch' = scratch
    BY DEF AllocationFails
  <2> HIDE DEF taken, b
  <2> QED BY <1>3, <2>3, <2>4
<1>6. Kept' BY <1>1, <1>2 DEF Kept
<1>7. "AllocationFailed" \in Results \ {"none", "ok"} BY DEF Results
<1> QED BY <1>1, <1>2, <1>5, <1>6, <1>7, LeaveInv DEF TypeOK, Budgets

(* A scratch buffer that cannot be had changes no size.                    *)
LEMMA TakeFailsInv ==
  ASSUME SizesInv, TakeFails PROVE SizesInv'
<1>1. /\ phase = "chunk" /\ phase' = "return" /\ result' = "AllocationFailed"
      /\ UNCHANGED <<call, dst, saved, budget, next, decoded, owned, buffer,
                     scratch, seen, calls>>
  BY DEF TakeFails, Ready, Leave
<1>2. TypeOK /\ Kept /\ PoolWithinCaps /\ (Streaming => dst.bytes = saved)
  BY DEF SizesInv
<1>3. scratch' \in Pool /\ WithinCaps(scratch')
  BY <1>1, <1>2, VectorsTyped DEF PoolWithinCaps
<1>4. Kept' BY <1>1, <1>2 DEF Kept
<1>5. "AllocationFailed" \in Results \ {"none", "ok"} BY DEF Results
<1> QED BY <1>1, <1>2, <1>3, <1>4, <1>5, LeaveInv DEF TypeOK, Budgets
-----------------------------------------------------------------------------
(* Reserving room in dst for the rest of the frame leaves its bytes.       *)
LEMMA ReserveKeeps ==
  ASSUME SizesInv, phase = "chunk"
  PROVE  Reserve(dst) \in Buffer /\ Reserve(dst).bytes = dst.bytes
<1>1. dst \in Buffer BY VectorsTyped DEF SizesInv
<1>2. Remaining \in Nat BY RemainingNat
<1> QED BY <1>1, <1>2, VecReserved DEF Reserve

(* Reserving and appending in one step.                                    *)
LEMMA ReserveAndAppend ==
  ASSUME SizesInv, phase = "chunk", NEW s \in Seq(Byte)
  PROVE  /\ Appended(Reserve(dst), s) \in Buffer
         /\ Appended(Reserve(dst), s).bytes = dst.bytes \o s
<1>1. Reserve(dst) \in Buffer /\ Reserve(dst).bytes = dst.bytes BY ReserveKeeps
<1>2. /\ Appended(Reserve(dst), s) \in Buffer
      /\ Appended(Reserve(dst), s).bytes = Reserve(dst).bytes \o s
  BY <1>1, VecAppended
<1> QED BY <1>1, <1>2

(* A tail appends the chunk to dst, or stops and leaves what it wrote.     *)
LEMMA AppendTailInv ==
  ASSUME SizesInv, AppendTail PROVE SizesInv'
<1>1. /\ phase = "chunk" /\ next <= Len(call.frame.chunks) /\ ~Streaming
      /\ budget' = [budget EXCEPT !.reserved = TRUE]
      /\ dst' = TailLeaves(Current, Reserve(dst))
      /\ decoded' = SubSeq(dst'.bytes, Len(dst.bytes) + 1, Len(dst'.bytes))
      /\ \/ phase' = "return" /\ result' = "Malformed"
         \/ phase' = "charge" /\ result' = result
      /\ UNCHANGED <<call, saved, next, owned, buffer, scratch, seen, calls>>
  BY DEF AppendTail, Ready, Leave
<1>2. TypeOK /\ PoolWithinCaps BY DEF SizesInv
<1>3. Current.bytes \in Seq(Byte) BY <1>1, <1>2, CurrentTyped
<1>4. PICK s \in Seq(Byte) : dst' \in Buffer /\ dst'.bytes = dst.bytes \o s
  <2>1. Reserve(dst) \in Buffer /\ Reserve(dst).bytes = dst.bytes
    BY <1>1, ReserveKeeps
  <2>2. /\ Appended(Reserve(dst), Current.bytes) \in Buffer
        /\ Appended(Reserve(dst), Current.bytes).bytes = dst.bytes \o Current.bytes
    BY <1>1, <1>3, ReserveAndAppend
  <2>3. dst.bytes \o <<>> = dst.bytes /\ <<>> \in Seq(Byte)
    BY <1>2, VectorsTyped, ConcatEmptySeq, EmptySeq
  <2>4. dst' = Reserve(dst) \/ dst' = Appended(Reserve(dst), Current.bytes)
    BY <1>1 DEF TailLeaves
  <2> QED BY <1>3, <2>1, <2>2, <2>3, <2>4
<1>5. Kept' /\ Len(dst'.bytes) = Len(dst.bytes) + Len(s)
  BY <1>1, <1>4, AppendKept
<1>6. decoded' \in Seq(Byte) /\ Len(dst'.bytes) = Len(dst.bytes) + Len(decoded')
  <2> DEFINE m == Len(dst.bytes) + 1
             n == Len(dst'.bytes)
  <2>1. dst'.bytes \in Seq(Byte) BY <1>4 DEF Buffer
  <2>2. /\ Len(dst.bytes) \in Nat /\ Len(s) \in Nat /\ n \in Nat
        /\ m \in Int /\ m >= 1
    BY <1>2, <2>1, VectorsTyped
  <2>3. \A i \in m .. n : dst'.bytes[i] \in Byte
    <3>1. \A i \in m .. n : i \in 1 .. Len(dst'.bytes) BY <2>2
    <3> QED BY <2>1, <3>1, ElementOfSeq
  <2>4. /\ SubSeq(dst'.bytes, m, n) \in Seq(Byte)
        /\ Len(SubSeq(dst'.bytes, m, n)) = IF m <= n THEN n - m + 1 ELSE 0
    <3> HIDE DEF m, n
    <3> QED BY <2>2, <2>3, SubSeqProperties
  <2>5. (IF m <= n THEN n - m + 1 ELSE 0) = n - Len(dst.bytes)
    BY <1>5, <2>2
  <2>6. decoded' = SubSeq(dst'.bytes, m, n) BY <1>1
  <2> HIDE DEF m, n
  <2>7. decoded' \in Seq(Byte) /\ Len(decoded') = n - Len(dst.bytes)
    BY <2>4, <2>5, <2>6, Zenon
  <2>8. Len(dst.bytes) + (n - Len(dst.bytes)) = n BY <2>2
  <2> QED BY <2>7, <2>8 DEF n
<1>7. budget' \in Budgets /\ budget'.written = budget.written
  BY <1>1, <1>2 DEF TypeOK, Budgets
<1>8. /\ scratch' \in Pool /\ WithinCaps(scratch') /\ owned' \in Buffer
      /\ buffer' \in Buffer /\ seen' \in Seq(Byte)
  BY <1>1, <1>2, VectorsTyped DEF PoolWithinCaps
<1>9. CASE phase' = "return" /\ result' = "Malformed"
  <2>1. "Malformed" \in Results \ {"none", "ok"} BY DEF Results
  <2> QED BY <1>1, <1>4, <1>5, <1>6, <1>7, <1>8, <1>9, <2>1, LeaveInv
<1>10. CASE phase' = "charge" /\ result' = result
  BY <1>1, <1>4, <1>5, <1>6, <1>7, <1>8, <1>10, DecodedInv
<1> QED BY <1>1, <1>9, <1>10

(* decode_chunks appends a tail to its own buffer, emptied first.          *)
LEMMA AppendTailToBufferInv ==
  ASSUME SizesInv, AppendTailToBuffer PROVE SizesInv'
<1>1. /\ phase = "chunk" /\ next <= Len(call.frame.chunks) /\ Streaming
      /\ buffer' = TailLeaves(Current, Truncated(buffer, 0))
      /\ decoded' = buffer'.bytes
      /\ \/ phase' = "return" /\ result' = "Malformed"
         \/ phase' = "charge" /\ result' = result
      /\ UNCHANGED <<call, dst, saved, budget, next, owned, scratch, seen, calls>>
  BY DEF AppendTailToBuffer, Ready, Leave
<1>2. TypeOK /\ PoolWithinCaps /\ Kept /\ dst.bytes = saved
  BY <1>1 DEF SizesInv
<1>3. Current.bytes \in Seq(Byte) BY <1>1, <1>2, CurrentTyped
<1>4. buffer' \in Buffer
  <2>1. buffer \in Buffer /\ 0 \in 0 .. Len(buffer.bytes)
    BY <1>2, VectorsTyped DEF Buffer
  <2>2. Truncated(buffer, 0) \in Buffer BY <2>1, VecTruncated
  <2>3. Appended(Truncated(buffer, 0), Current.bytes) \in Buffer
    BY <1>3, <2>2, VecAppended
  <2> QED BY <1>1, <2>2, <2>3 DEF TailLeaves
<1>5. decoded' \in Seq(Byte) BY <1>1, <1>4 DEF Buffer
<1>6. Kept' BY <1>1, <1>2 DEF Kept
<1>7. /\ scratch' \in Pool /\ WithinCaps(scratch') /\ owned' \in Buffer
      /\ dst' \in Buffer /\ seen' \in Seq(Byte)
  BY <1>1, <1>2, VectorsTyped DEF PoolWithinCaps
<1>8. budget' \in Budgets BY <1>1, <1>2 DEF TypeOK, Budgets
<1>9. CASE phase' = "return" /\ result' = "Malformed"
  <2>1. "Malformed" \in Results \ {"none", "ok"} BY DEF Results
  <2> QED BY <1>1, <1>2, <1>4, <1>5, <1>6, <1>7, <1>8, <1>9, <2>1, LeaveInv
<1>10. CASE phase' = "charge" /\ result' = result
  BY <1>1, <1>4, <1>5, <1>6, <1>7, <1>8, <1>10, DecodedInv
<1> QED BY <1>1, <1>9, <1>10

(* A borrowed chunk is copied to dst, or handed to the sink later.         *)
LEMMA AppendBorrowedInv ==
  ASSUME SizesInv, AppendBorrowed PROVE SizesInv'
<1>1. /\ phase = "chunk" /\ next <= Len(call.frame.chunks)
      /\ \/ /\ phase' = "return" /\ result' = "Malformed"
            /\ UNCHANGED <<dst, budget, decoded>>
         \/ /\ phase' = "charge" /\ result' = result
            /\ decoded' = Current.bytes
            /\ \/ Streaming /\ UNCHANGED <<dst, budget>>
               \/ /\ ~Streaming
                  /\ dst' = Appended(Reserve(dst), Current.bytes)
                  /\ budget' = [budget EXCEPT !.reserved = TRUE]
      /\ \/ buffer' = Truncated(buffer, 0)
         \/ buffer' = buffer
      /\ UNCHANGED <<call, saved, next, owned, scratch, seen, calls>>
  BY DEF AppendBorrowed, Ready, Leave
<1>2. TypeOK /\ PoolWithinCaps /\ Kept /\ (Streaming => dst.bytes = saved)
  BY DEF SizesInv
<1>3. Current.bytes \in Seq(Byte) BY <1>1, <1>2, CurrentTyped
<1>4. buffer' \in Buffer
  <2>1. buffer \in Buffer /\ 0 \in 0 .. Len(buffer.bytes)
    BY <1>2, VectorsTyped DEF Buffer
  <2> QED BY <1>1, <2>1, VecTruncated
<1>5. /\ scratch' \in Pool /\ WithinCaps(scratch') /\ owned' \in Buffer
      /\ dst \in Buffer /\ seen' \in Seq(Byte) /\ decoded \in Seq(Byte)
  BY <1>1, <1>2, VectorsTyped DEF PoolWithinCaps
<1>6. budget \in Budgets BY <1>2 DEF TypeOK, Budgets
<1>7. CASE phase' = "return"
  <2>1. "Malformed" \in Results \ {"none", "ok"} BY DEF Results
  <2>2. Kept' BY <1>1, <1>2, <1>7 DEF Kept
  <2> QED BY <1>1, <1>2, <1>4, <1>5, <1>6, <1>7, <2>1, <2>2, LeaveInv
<1>8. CASE phase' = "charge" /\ Streaming
  <2>1. Kept' BY <1>1, <1>2, <1>8 DEF Kept
  <2> QED BY <1>1, <1>3, <1>4, <1>5, <1>6, <1>8, <2>1, DecodedInv
<1>9. CASE phase' = "charge" /\ ~Streaming
  <2>1. dst' \in Buffer /\ dst'.bytes = dst.bytes \o Current.bytes
    BY <1>1, <1>3, <1>9, ReserveAndAppend
  <2>2. Kept' /\ Len(dst'.bytes) = Len(dst.bytes) + Len(Current.bytes)
    BY <1>1, <1>3, <2>1, AppendKept
  <2>3. decoded' = Current.bytes BY <1>1, <1>9
  <2>4. budget' \in Budgets /\ budget'.written = budget.written
    BY <1>1, <1>6, <1>9 DEF Budgets
  <2>5. result' = result BY <1>1, <1>9
  <2> QED BY <1>1, <1>3, <1>4, <1>5, <1>9, <2>1, <2>2, <2>3, <2>4, <2>5,
             DecodedInv
<1> QED BY <1>1, <1>7, <1>8, <1>9

(* What a codec does to the pool: it takes a buffer and fills it.          *)
LEMMA FilledBuffer ==
  ASSUME SizesInv, NEW s \in Seq(Byte),
         NEW taken, taken = TakeStale(scratch, Len(s)),
         NEW b, b = [taken.buffer EXCEPT !.bytes = s]
  PROVE  /\ taken.scratch \in Pool /\ WithinCaps(taken.scratch)
         /\ b \in Buffer /\ b.bytes = s
         /\ Recycle(taken.scratch, b) \in Pool
         /\ WithinCaps(Recycle(taken.scratch, b))
<1>1. scratch \in Pool /\ WithinCaps(scratch)
  BY VectorsTyped DEF SizesInv, PoolWithinCaps
<1>2. Len(s) \in Nat OBVIOUS
<1>3. taken.scratch \in Pool /\ WithinCaps(taken.scratch) /\ taken.buffer \in Buffer
  BY <1>1, <1>2, TakeStalePool
<1>4. b \in Buffer /\ b.bytes = s BY <1>3 DEF Buffer
<1> QED BY <1>3, <1>4, RecyclePool

(* An owned chunk is moved into dst or copied to it.                       *)
LEMMA AppendOwnedInv ==
  ASSUME SizesInv, AppendOwned PROVE SizesInv'
<1> DEFINE taken == TakeStale(scratch, Len(Current.bytes))
           b == [taken.buffer EXCEPT !.bytes = Current.bytes]
<1>1. /\ phase = "chunk" /\ next <= Len(call.frame.chunks) /\ ~Streaming
      /\ \/ /\ scratch' \in {taken.scratch, Recycle(taken.scratch, b)}
            /\ phase' = "return" /\ result' = "Malformed"
            /\ UNCHANGED <<dst, budget, decoded>>
         \/ /\ phase' = "charge" /\ result' = result
            /\ decoded' = Current.bytes
            /\ \/ /\ dst.bytes = <<>>
                  /\ dst' = b /\ UNCHANGED budget
                  /\ scratch' = Recycle(taken.scratch, dst)
               \/ /\ dst' = Appended(Reserve(dst), Current.bytes)
                  /\ budget' = [budget EXCEPT !.reserved = TRUE]
                  /\ scratch' = Recycle(taken.scratch, b)
      /\ UNCHANGED <<call, saved, next, owned, buffer, seen, calls>>
  BY DEF AppendOwned, Ready, Leave, Moves
<1>2. TypeOK /\ PoolWithinCaps /\ Kept BY DEF SizesInv
<1>3. Current.bytes \in Seq(Byte) BY <1>1, <1>2, CurrentTyped
<1>4. /\ taken.scratch \in Pool /\ WithinCaps(taken.scratch)
      /\ b \in Buffer /\ b.bytes = Current.bytes
      /\ Recycle(taken.scratch, b) \in Pool
      /\ WithinCaps(Recycle(taken.scratch, b))
  BY <1>3, FilledBuffer
<1>5. /\ dst \in Buffer /\ owned' \in Buffer /\ buffer' \in Buffer
      /\ seen' \in Seq(Byte) /\ decoded \in Seq(Byte)
  BY <1>1, <1>2, VectorsTyped
<1>6. budget \in Budgets BY <1>2 DEF TypeOK, Budgets
<1>7. Recycle(taken.scratch, dst) \in Pool /\ WithinCaps(Recycle(taken.scratch, dst))
  BY <1>4, <1>5, RecyclePool
<1> HIDE DEF taken, b
<1>8. scratch' \in Pool /\ WithinCaps(scratch') BY <1>1, <1>4, <1>7
<1>9. CASE phase' = "return"
  <2>1. "Malformed" \in Results \ {"none", "ok"} BY DEF Results
  <2>2. Kept' BY <1>1, <1>2, <1>9 DEF Kept
  <2> QED BY <1>1, <1>5, <1>6, <1>8, <1>9, <2>1, <2>2, LeaveInv
<1>10. CASE phase' = "charge"
  <2>1. dst' \in Buffer /\ dst'.bytes = dst.bytes \o Current.bytes
    <3>1. CASE dst.bytes = <<>> /\ dst' = b
      <4>1. <<>> \o Current.bytes = Current.bytes BY <1>3, ConcatEmptySeq
      <4> QED BY <1>4, <3>1, <4>1
    <3>2. CASE dst' = Appended(Reserve(dst), Current.bytes)
      BY <1>1, <1>3, <3>2, ReserveAndAppend
    <3> QED BY <1>1, <1>10, <3>1, <3>2
  <2>2. Kept' /\ Len(dst'.bytes) = Len(dst.bytes) + Len(Current.bytes)
    BY <1>1, <1>3, <2>1, AppendKept
  <2>3. decoded' = Current.bytes /\ result' = result BY <1>1, <1>10
  <2>4. budget' \in Budgets /\ budget'.written = budget.written
    BY <1>1, <1>6, <1>10 DEF Budgets
  <2> QED BY <1>1, <1>3, <1>5, <1>8, <1>10, <2>1, <2>2, <2>3, <2>4, DecodedInv
<1> QED BY <1>1, <1>9, <1>10

(* decode_chunks holds an owned chunk for the sink.                        *)
LEMMA HoldOwnedInv ==
  ASSUME SizesInv, HoldOwned PROVE SizesInv'
<1> DEFINE taken == TakeStale(scratch, Len(Current.bytes))
           b == [taken.buffer EXCEPT !.bytes = Current.bytes]
<1>1. /\ phase = "chunk" /\ next <= Len(call.frame.chunks) /\ Streaming
      /\ buffer' = Truncated(buffer, 0)
      /\ \/ /\ scratch' \in {taken.scratch, Recycle(taken.scratch, b)}
            /\ phase' = "return" /\ result' = "Malformed"
            /\ UNCHANGED <<owned, decoded>>
         \/ /\ phase' = "charge" /\ result' = result
            /\ owned' = b /\ decoded' = b.bytes /\ scratch' = taken.scratch
      /\ UNCHANGED <<call, dst, saved, budget, next, seen, calls>>
  BY DEF HoldOwned, Ready, Leave
<1>2. TypeOK /\ PoolWithinCaps /\ Kept /\ dst.bytes = saved
  BY <1>1 DEF SizesInv
<1>3. Current.bytes \in Seq(Byte) BY <1>1, <1>2, CurrentTyped
<1>4. /\ taken.scratch \in Pool /\ WithinCaps(taken.scratch)
      /\ b \in Buffer /\ b.bytes = Current.bytes
      /\ Recycle(taken.scratch, b) \in Pool
      /\ WithinCaps(Recycle(taken.scratch, b))
  BY <1>3, FilledBuffer
<1>5. /\ dst' \in Buffer /\ owned \in Buffer /\ buffer' \in Buffer
      /\ seen' \in Seq(Byte) /\ decoded \in Seq(Byte)
  <2>1. buffer \in Buffer /\ 0 \in 0 .. Len(buffer.bytes)
    BY <1>2, VectorsTyped DEF Buffer
  <2> QED BY <1>1, <1>2, <2>1, VectorsTyped, VecTruncated
<1>6. budget' \in Budgets BY <1>1, <1>2 DEF TypeOK, Budgets
<1>7. Kept' BY <1>1, <1>2 DEF Kept
<1> HIDE DEF taken, b
<1>8. scratch' \in Pool /\ WithinCaps(scratch') BY <1>1, <1>4
<1>9. CASE phase' = "return"
  <2>1. "Malformed" \in Results \ {"none", "ok"} BY DEF Results
  <2> QED BY <1>1, <1>2, <1>5, <1>6, <1>7, <1>8, <1>9, <2>1, LeaveInv
<1>10. CASE phase' = "charge"
  <2>1. owned' \in Buffer /\ decoded' \in Seq(Byte) /\ result' = result
    BY <1>1, <1>3, <1>4, <1>10
  <2> QED BY <1>1, <1>5, <1>6, <1>7, <1>8, <1>10, <2>1, DecodedInv
<1> QED BY <1>1, <1>9, <1>10
-----------------------------------------------------------------------------
(* Charging a chunk refuses it, or moves its size into the budget.         *)
LEMMA ChargeInv ==
  ASSUME SizesInv, Charge PROVE SizesInv'
<1>1. /\ phase = "charge"
      /\ UNCHANGED <<call, dst, saved, next, decoded, owned, buffer, scratch,
                     seen, calls>>
      /\ \/ phase' = "return" /\ result' = "Malformed" /\ UNCHANGED budget
         \/ /\ ~(Len(decoded) > Remaining)
            /\ phase' = "verify" /\ result' = result
            /\ budget' = [budget EXCEPT !.written = @ + Len(decoded)]
  BY DEF Charge, Leave
<1>2. /\ TypeOK /\ PoolWithinCaps /\ Kept /\ BudgetExact
      /\ (Streaming => dst.bytes = saved)
  BY DEF SizesInv
<1>3. /\ dst' \in Buffer /\ owned' \in Buffer /\ buffer' \in Buffer
      /\ seen' \in Seq(Byte) /\ decoded' \in Seq(Byte)
      /\ scratch' \in Pool /\ WithinCaps(scratch')
  BY <1>1, <1>2, VectorsTyped DEF PoolWithinCaps
<1>4. Kept' BY <1>1, <1>2 DEF Kept
<1>5. CASE phase' = "return"
  <2>1. "Malformed" \in Results \ {"none", "ok"} BY DEF Results
  <2>2. budget' \in Budgets BY <1>1, <1>2, <1>5 DEF TypeOK, Budgets
  <2> QED BY <1>1, <1>2, <1>3, <1>4, <1>5, <2>1, <2>2, LeaveInv
<1>6. CASE phase' = "verify"
  <2>1. /\ Remaining \in Nat /\ Declared \in Nat /\ Declared <= MaxDecoded
        /\ budget.written \in Nat /\ Declared = budget.written + Remaining
    BY <1>1, RemainingNat
  <2>2. Len(decoded) \in Nat BY <1>2, VectorsTyped
  <2>3. budget \in Budgets BY <1>2 DEF TypeOK, Budgets
  <2>4. /\ budget' = [budget EXCEPT !.written = @ + Len(decoded)]
        /\ Len(decoded) <= Remaining /\ result' = result
    BY <1>1, <1>6, <2>1, <2>2
  <2>5. budget'.written = budget.written + Len(decoded)
    BY <2>3, <2>4 DEF Budgets
  <2>6. budget'.written \in 0 .. MaxDecoded /\ budget'.written <= Declared
    BY <2>1, <2>2, <2>4, <2>5, FrameAssumption
  <2>7. budget' \in Budgets BY <2>3, <2>4, <2>5, <2>6 DEF Budgets
  <2>8. TypeOK'
    <3>1. call' \in [to : {"into", "chunks", "outputs"}, frame : Frames,
                     verify : BOOLEAN]
      BY <1>1, <1>2 DEF TypeOK
    <3> QED BY <1>1, <1>2, <1>6, <2>4, <2>7, <3>1 DEF TypeOK, Budgets
  <2>9. /\ WithinLimits(call.frame) /\ result = "none"
        /\ next <= Len(call.frame.chunks)
        /\ Done = budget.written + (IF Streaming THEN 0 ELSE Len(decoded))
    BY <1>1, <1>2 DEF BudgetExact
  <2>10. Done' = Done BY <1>1 DEF Done, Streaming
  <2>11. Done' + (IF Streaming THEN Len(decoded) ELSE 0) = budget'.written
    <3>1. CASE Streaming BY <2>1, <2>2, <2>5, <2>9, <2>10, <3>1
    <3>2. CASE ~Streaming BY <2>1, <2>2, <2>5, <2>9, <2>10, <3>2
    <3> QED BY <3>1, <3>2
  <2>12. BudgetExact'
    BY <1>1, <1>6, <2>4, <2>6, <2>9, <2>11
       DEF BudgetExact, Streaming, Declared
  <2> QED BY <1>1, <1>2, <1>3, <1>4, <1>6, <2>8, <2>12
          DEF SizesInv, PoolWithinCaps, OutputRestoredOrComplete, Streaming
<1> QED BY <1>1, <1>5, <1>6

(* Verifying a chunk changes nothing but where the decode is.              *)
LEMMA VerifyInv ==
  ASSUME SizesInv, Verify PROVE SizesInv'
<1>1. /\ phase = "verify"
      /\ UNCHANGED <<call, dst, saved, budget, decoded, owned, buffer, scratch,
                     seen, calls>>
      /\ \/ /\ phase' = "return" /\ result' = "ChecksumMismatch"
            /\ next' = next
         \/ /\ result' = result /\ Streaming /\ phase' = "sink"
            /\ next' = next
         \/ /\ result' = result /\ ~Streaming /\ phase' = "chunk"
            /\ next' = next + 1
  BY DEF Verify, Leave
<1>2. /\ TypeOK /\ PoolWithinCaps /\ Kept /\ BudgetExact
      /\ (Streaming => dst.bytes = saved)
  BY DEF SizesInv
<1>3. /\ dst' \in Buffer /\ owned' \in Buffer /\ buffer' \in Buffer
      /\ seen' \in Seq(Byte) /\ decoded' \in Seq(Byte)
      /\ scratch' \in Pool /\ WithinCaps(scratch')
  BY <1>1, <1>2, VectorsTyped DEF PoolWithinCaps
<1>4. Kept' BY <1>1, <1>2 DEF Kept
<1>5. budget' \in Budgets BY <1>1, <1>2 DEF TypeOK, Budgets
<1>6. CASE phase' = "return"
  <2>1. "ChecksumMismatch" \in Results \ {"none", "ok"} BY DEF Results
  <2> QED BY <1>1, <1>2, <1>3, <1>4, <1>5, <1>6, <2>1, LeaveInv
<1>7. CASE phase' # "return"
  <2>1. TypeOK'
    <3>1. call' \in [to : {"into", "chunks", "outputs"}, frame : Frames,
                     verify : BOOLEAN]
      BY <1>1, <1>2 DEF TypeOK
    <3>2. next' \in Nat \ {0} BY <1>1, <1>2 DEF TypeOK
    <3>3. phase' \in {"sink", "chunk"} /\ result' = result BY <1>1, <1>7
    <3> QED BY <1>1, <1>2, <3>1, <3>2, <3>3 DEF TypeOK
  <2>2. /\ WithinLimits(call.frame) /\ budget.written <= Declared
        /\ result = "none" /\ next <= Len(call.frame.chunks)
        /\ Done + (IF Streaming THEN Len(decoded) ELSE 0) = budget.written
    BY <1>1, <1>2 DEF BudgetExact
  <2>3. Done' = Done BY <1>1 DEF Done, Streaming
  <2>4. ~Streaming => Done = budget.written
    <3>1. Len(dst.bytes) \in Nat /\ Len(saved) \in Nat BY <1>2, VectorsTyped
    <3>2. ~Streaming => Done \in Int BY <3>1 DEF Done
    <3> QED BY <2>2, <3>2
  <2>5. BudgetExact'
    BY <1>1, <1>7, <2>2, <2>3, <2>4 DEF BudgetExact, Streaming, Declared
  <2> QED BY <1>1, <1>2, <1>3, <1>4, <1>7, <2>1, <2>5
          DEF SizesInv, PoolWithinCaps, OutputRestoredOrComplete, Streaming
<1> QED BY <1>6, <1>7

(* The sink sees the chunk the budget already counts.                      *)
LEMMA SinkInv ==
  ASSUME SizesInv, Sink PROVE SizesInv'
<1>1. /\ phase = "sink" /\ seen' = seen \o decoded /\ owned' = NoBuffer
      /\ UNCHANGED <<call, dst, saved, budget, decoded, buffer, calls>>
      /\ \/ /\ scratch' = Recycle(scratch, owned) /\ phase' = "chunk"
            /\ next' = next + 1 /\ result' = result
         \/ /\ phase' = "return" /\ result' = "Sink"
            /\ scratch' = scratch /\ next' = next
  BY DEF Sink, Leave
<1>2. /\ TypeOK /\ PoolWithinCaps /\ Kept /\ BudgetExact
      /\ (Streaming => dst.bytes = saved)
  BY DEF SizesInv
<1>3. /\ seen \in Seq(Byte) /\ decoded \in Seq(Byte)
      /\ Len(seen) \in Nat /\ Len(decoded) \in Nat
      /\ scratch \in Pool /\ WithinCaps(scratch) /\ owned \in Buffer
      /\ dst' \in Buffer /\ buffer' \in Buffer
  BY <1>1, <1>2, VectorsTyped DEF PoolWithinCaps
<1>4. seen' \in Seq(Byte) /\ Len(seen') = Len(seen) + Len(decoded)
  BY <1>1, <1>3, ConcatProperties
<1>5. NoBuffer \in Buffer BY EmptySeq DEF NoBuffer, NewBuffer, Buffer
<1>6. Recycle(scratch, owned) \in Pool /\ WithinCaps(Recycle(scratch, owned))
  BY <1>3, RecyclePool
<1>7. scratch' \in Pool /\ WithinCaps(scratch') BY <1>1, <1>3, <1>6
<1>8. Kept' BY <1>1, <1>2 DEF Kept
<1>9. budget' \in Budgets BY <1>1, <1>2 DEF TypeOK, Budgets
<1>10. CASE phase' = "return"
  <2>1. "Sink" \in Results \ {"none", "ok"} BY DEF Results
  <2> QED BY <1>1, <1>2, <1>3, <1>4, <1>5, <1>7, <1>8, <1>9, <1>10, <2>1,
             LeaveInv
<1>11. CASE phase' = "chunk"
  <2>1. /\ WithinLimits(call.frame) /\ budget.written <= Declared
        /\ result = "none" /\ Streaming
        /\ Done + Len(decoded) = budget.written
    BY <1>1, <1>2 DEF BudgetExact
  <2>2. Done' = budget.written
    BY <1>1, <1>4, <2>1 DEF Done, Streaming
  <2>3. TypeOK'
    <3>1. call' \in [to : {"into", "chunks", "outputs"}, frame : Frames,
                     verify : BOOLEAN]
      BY <1>1, <1>2 DEF TypeOK
    <3>2. next' \in Nat \ {0} /\ result' = result
      BY <1>1, <1>2, <1>11 DEF TypeOK
    <3> QED BY <1>1, <1>2, <1>3, <1>4, <1>5, <1>7, <1>11, <3>1, <3>2
            DEF TypeOK, Pool
  <2>4. BudgetExact'
    BY <1>1, <1>11, <2>1, <2>2 DEF BudgetExact, Streaming, Declared
  <2> QED BY <1>1, <1>2, <1>7, <1>8, <1>11, <2>3, <2>4
          DEF SizesInv, PoolWithinCaps, OutputRestoredOrComplete, Streaming
<1> QED BY <1>1, <1>10, <1>11

(* Finishing accepts exactly the declared size.                            *)
LEMMA FinishInv ==
  ASSUME SizesInv, Finish PROVE SizesInv'
<1>1. /\ phase = "chunk" /\ phase' = "return"
      /\ result' = (IF Remaining = 0 THEN "ok" ELSE "Malformed")
      /\ UNCHANGED <<call, dst, saved, budget, next, decoded, owned, buffer,
                     scratch, seen, calls>>
  BY DEF Finish, Leave
<1>2. /\ TypeOK /\ PoolWithinCaps /\ Kept /\ BudgetExact
      /\ (Streaming => dst.bytes = saved)
  BY DEF SizesInv
<1>3. TypeOK'
  <2>1. call' \in [to : {"into", "chunks", "outputs"}, frame : Frames,
                   verify : BOOLEAN]
    BY <1>1, <1>2 DEF TypeOK
  <2> QED BY <1>1, <1>2, <2>1 DEF TypeOK, Results
<1>4. WithinLimits(call.frame) /\ Done = budget.written
  BY <1>1, <1>2 DEF BudgetExact
<1>5. Remaining = 0 => Done = Declared
  BY <1>1, <1>4, RemainingNat
<1>6. Done' = Done BY <1>1 DEF Done, Streaming
<1>7. BudgetExact'
  BY <1>1, <1>4, <1>5, <1>6 DEF BudgetExact, Declared, Streaming
<1>8. Kept' BY <1>1, <1>2 DEF Kept
<1> QED BY <1>1, <1>2, <1>3, <1>7, <1>8
        DEF SizesInv, PoolWithinCaps, OutputRestoredOrComplete, Streaming

(* Returning truncates what a failed call appended.                        *)
LEMMA ReturnInv ==
  ASSUME SizesInv, Return PROVE SizesInv'
<1>1. /\ phase = "return" /\ phase' = "idle"
      /\ \/ /\ Streaming /\ scratch' = Recycle(scratch, buffer)
            /\ dst' = dst
         \/ /\ ~Streaming /\ scratch' = scratch
            /\ dst' = IF result = "ok" THEN dst ELSE Truncated(dst, Len(saved))
      /\ buffer' = NoBuffer /\ owned' = NoBuffer
      /\ UNCHANGED <<call, saved, budget, next, decoded, seen, result, calls>>
  BY DEF Return
<1>2. /\ TypeOK /\ PoolWithinCaps /\ Kept /\ BudgetExact
      /\ (Streaming => dst.bytes = saved)
  BY DEF SizesInv
<1>3. /\ dst \in Buffer /\ saved \in Seq(Byte) /\ buffer \in Buffer
      /\ Len(dst.bytes) \in Nat /\ Len(saved) \in Nat
      /\ scratch \in Pool /\ WithinCaps(scratch)
  BY <1>2, VectorsTyped DEF PoolWithinCaps
<1>4. Truncated(dst, Len(saved)) \in Buffer /\ Truncated(dst, Len(saved)).bytes = saved
  BY <1>2, <1>3, TruncationRestores DEF Kept
<1>5. scratch' \in Pool /\ WithinCaps(scratch') BY <1>1, <1>3, RecyclePool
<1>6. NoBuffer \in Buffer BY EmptySeq DEF NoBuffer, NewBuffer, Buffer
<1>7. dst' \in Buffer BY <1>1, <1>3, <1>4
<1>8. TypeOK'
  <2>1. call' \in [to : {"into", "chunks", "outputs"}, frame : Frames,
                   verify : BOOLEAN]
    BY <1>1, <1>2 DEF TypeOK
  <2> QED BY <1>1, <1>2, <1>5, <1>6, <1>7, <2>1 DEF TypeOK, Pool
<1>9. result = "ok" => Done = Declared /\ WithinLimits(call.frame)
  BY <1>1, <1>2 DEF BudgetExact
<1>10. Kept'
  <2>1. CASE dst' = dst BY <1>1, <1>2, <2>1 DEF Kept
  <2>2. CASE dst' = Truncated(dst, Len(saved))
    BY <1>1, <1>3, <1>4, <2>2, SubSeqFull DEF Kept
  <2> QED BY <1>1, <2>1, <2>2
<1>11. OutputRestoredOrComplete'
  <2>1. CASE Streaming
    <3>1. dst' = dst /\ dst.bytes = saved BY <1>1, <1>2, <2>1
    <3>2. result = "ok" => Len(seen) = Declared BY <1>9, <2>1 DEF Done
    <3> QED BY <1>1, <1>9, <1>10, <2>1, <3>1, <3>2
            DEF OutputRestoredOrComplete, Streaming, Declared
  <2>2. CASE ~Streaming
    <3>1. Len(dst'.bytes) = Len(saved) + (IF result = "ok" THEN Declared ELSE 0)
      <4>1. CASE result = "ok"
        <5>1. Len(dst.bytes) - Len(saved) = Declared
          BY <1>9, <2>2, <4>1 DEF Done
        <5>2. Declared \in Int BY <1>1, <1>2, CallTyped
        <5> QED BY <1>1, <1>3, <2>2, <4>1, <5>1, <5>2
      <4>2. CASE result # "ok"
        BY <1>1, <1>3, <1>4, <2>2, <4>2
      <4> QED BY <4>1, <4>2
    <3> QED BY <1>1, <1>9, <1>10, <2>2, <3>1
            DEF OutputRestoredOrComplete, Streaming, Declared
  <2> QED BY <2>1, <2>2
<1> QED BY <1>1, <1>2, <1>5, <1>8, <1>10, <1>11
        DEF SizesInv, BudgetExact, PoolWithinCaps, Streaming

(* Freeing the pool.                                                       *)
LEMMA ShrinkToFitInv ==
  ASSUME SizesInv, ShrinkToFit PROVE SizesInv'
<1>1. /\ phase = "idle" /\ scratch' = NoScratch
      /\ UNCHANGED <<phase, call, dst, saved, budget, next, decoded, owned,
                     buffer, seen, result, calls>>
  BY DEF ShrinkToFit
<1>2. NoScratch \in Pool /\ WithinCaps(NoScratch)
  BY EmptySeq, PoolAssumption DEF NoScratch, Pool, WithinCaps
<1>3. /\ TypeOK /\ Kept /\ BudgetExact /\ (Streaming => dst.bytes = saved)
      /\ OutputRestoredOrComplete
  BY DEF SizesInv
<1>4. TypeOK' BY <1>1, <1>2, <1>3 DEF TypeOK, Pool
<1>5. Kept' BY <1>1, <1>3 DEF Kept
<1> QED BY <1>1, <1>2, <1>3, <1>4, <1>5
        DEF SizesInv, BudgetExact, PoolWithinCaps, OutputRestoredOrComplete,
            Streaming, Declared
-----------------------------------------------------------------------------
(* A step that changes nothing keeps the invariant.                        *)
LEMMA StutterInv ==
  ASSUME SizesInv, UNCHANGED vars PROVE SizesInv'
BY DEF SizesInv, vars, TypeOK, Kept, BudgetExact, PoolWithinCaps,
       OutputRestoredOrComplete, Streaming, Declared, Done

(* Sizes never go wrong, whatever the bytes are.                           *)
LEMMA SizesStep ==
  ASSUME SizesInv, [Next]_vars PROVE SizesInv'
<1>1. CASE UNCHANGED vars BY <1>1, StutterInv
<1>2. ASSUME NEW to \in {"into", "chunks", "outputs"}, NEW f \in Frames,
             NEW v \in BOOLEAN, Call(to, f, v)
      PROVE  SizesInv'
  BY <1>2, CallInv
<1>3. CASE DecodeSingleZstd BY <1>3, DecodeSingleZstdInv
<1>4. CASE OpenFrame BY <1>4, OpenFrameInv
<1>5. CASE AllocationFails BY <1>5, AllocationFailsInv
<1>6. CASE TakeFails BY <1>6, TakeFailsInv
<1>7. CASE AppendTail BY <1>7, AppendTailInv
<1>8. CASE AppendTailToBuffer BY <1>8, AppendTailToBufferInv
<1>9. CASE AppendBorrowed BY <1>9, AppendBorrowedInv
<1>10. CASE AppendOwned BY <1>10, AppendOwnedInv
<1>11. CASE HoldOwned BY <1>11, HoldOwnedInv
<1>12. CASE Charge BY <1>12, ChargeInv
<1>13. CASE Verify BY <1>13, VerifyInv
<1>14. CASE Sink BY <1>14, SinkInv
<1>15. CASE Finish BY <1>15, FinishInv
<1>16. CASE Return BY <1>16, ReturnInv
<1>17. CASE ShrinkToFit BY <1>17, ShrinkToFitInv
<1> QED BY <1>1, <1>2, <1>3, <1>4, <1>5, <1>6, <1>7, <1>8, <1>9, <1>10,
           <1>11, <1>12, <1>13, <1>14, <1>15, <1>16, <1>17 DEF Next
-----------------------------------------------------------------------------
(* The content of a frame.                                                 *)
LEMMA FrameTyped ==
  ASSUME NEW f \in Frames
  PROVE  /\ f.chunks \in Seq(Chunk) /\ Len(f.chunks) \in Nat
         /\ DOMAIN f.chunks = 1 .. Len(f.chunks)
         /\ f.declared \in Nat \cup {Unknown} /\ f.declared \in Int
         /\ f.encoded \in Nat
         /\ \A k \in 1 .. Len(f.chunks) :
              f.chunks[k] \in Chunk /\ f.chunks[k].bytes \in Seq(Byte)
<1>1. f \in [serial : BOOLEAN, declared : Nat \cup {Unknown},
             encoded : Nat, chunks : Seq(Chunk)]
  BY FrameAssumption
<1>2. f.chunks \in Seq(Chunk) BY <1>1
<1>3. \A k \in 1 .. Len(f.chunks) : f.chunks[k] \in Chunk
  BY <1>2, ElementOfSeq
<1>4. \A k \in 1 .. Len(f.chunks) : f.chunks[k].bytes \in Seq(Byte)
  BY <1>3 DEF Chunk
<1> QED BY <1>1, <1>2, <1>3, <1>4 DEF Unknown

Pieces(f) == [k \in 1 .. Len(f.chunks) |-> f.chunks[k].bytes]

(* The content of a frame is its chunks, flattened.                        *)
LEMMA PiecesFacts ==
  ASSUME NEW f \in Frames
  PROVE  /\ Pieces(f) \in Seq(Seq(Byte)) /\ Len(Pieces(f)) = Len(f.chunks)
         /\ \A n \in Nat : n <= Len(f.chunks) =>
              Content(f, n) = FlattenSeq(Firsts(Pieces(f), n))
<1>1. /\ Len(f.chunks) \in Nat
      /\ \A k \in 1 .. Len(f.chunks) : f.chunks[k].bytes \in Seq(Byte)
  BY FrameTyped
<1>2. Pieces(f) \in Seq(Seq(Byte)) /\ Len(Pieces(f)) = Len(f.chunks)
  <2>1. Pieces(f) \in [1 .. Len(f.chunks) -> Seq(Byte)] BY <1>1 DEF Pieces
  <2> QED BY <1>1, <2>1, IsASeq, LenProperties DEF Pieces
<1>3. ASSUME NEW n \in Nat, n <= Len(f.chunks)
      PROVE  Content(f, n) = FlattenSeq(Firsts(Pieces(f), n))
  <2>1. \A k \in 1 .. n : f.chunks[k].bytes = Pieces(f)[k]
    BY <1>1, <1>3 DEF Pieces
  <2>2. [k \in 1 .. n |-> f.chunks[k].bytes] = Firsts(Pieces(f), n)
    BY <2>1 DEF Firsts
  <2> QED BY <2>2 DEF Content
<1> QED BY <1>2, <1>3

(* One more chunk goes behind the ones before it.                          *)
LEMMA ContentGrows ==
  ASSUME NEW f \in Frames, NEW n \in Nat, n < Len(f.chunks)
  PROVE  Content(f, n + 1) = Content(f, n) \o f.chunks[n + 1].bytes
<1>1. /\ Pieces(f) \in Seq(Seq(Byte)) /\ Len(Pieces(f)) = Len(f.chunks)
      /\ Len(f.chunks) \in Nat
  BY PiecesFacts, FrameTyped
<1>2. FlattenSeq(Firsts(Pieces(f), n + 1))
        = FlattenSeq(Firsts(Pieces(f), n)) \o Pieces(f)[n + 1]
  BY <1>1, FlattenFirsts
<1>3. Pieces(f)[n + 1] = f.chunks[n + 1].bytes BY <1>1 DEF Pieces
<1>4. n <= Len(f.chunks) /\ n + 1 <= Len(f.chunks) /\ n + 1 \in Nat BY <1>1
<1> QED BY <1>2, <1>3, <1>4, PiecesFacts

(* The first chunks hold no more than the frame.                           *)
LEMMA ContentTyped ==
  ASSUME NEW f \in Frames, NEW n \in Nat, n <= Len(f.chunks)
  PROVE  /\ Content(f, n) \in Seq(Byte) /\ Len(Content(f, n)) \in Nat
         /\ Len(Content(f, n)) <= Len(Content(f, Len(f.chunks)))
         /\ n = 0 => Content(f, n) = <<>>
<1> DEFINE N == Len(f.chunks)
<1>1. Pieces(f) \in Seq(Seq(Byte)) /\ Len(Pieces(f)) = N /\ N \in Nat /\ n <= N
  BY PiecesFacts, FrameTyped
<1>2. /\ Content(f, n) = FlattenSeq(Firsts(Pieces(f), n))
      /\ Content(f, N) = FlattenSeq(Firsts(Pieces(f), N))
  BY <1>1, PiecesFacts
<1>3. Firsts(Pieces(f), n) \in Seq(Seq(Byte)) /\ Len(Firsts(Pieces(f), n)) = n
  BY <1>1, FirstsFacts
<1>4. Content(f, n) \in Seq(Byte) BY <1>2, <1>3, FlattenType
<1>5. Len(Content(f, n)) <= Len(Content(f, N))
  <2> HIDE DEF N
  <2> QED BY <1>1, <1>2, FlattenGrows
<1>6. n = 0 => Content(f, n) = <<>>
  <2> SUFFICES ASSUME n = 0 PROVE Content(f, n) = <<>> OBVIOUS
  <2>1. Content(f, n) = Firsts(Pieces(f), n) BY <1>2, <1>3, FlattenEmpty
  <2> QED BY <1>3, <2>1, EmptySeq
<1> QED BY <1>4, <1>5, <1>6
-----------------------------------------------------------------------------
(* A frame the budget refuses is not sound (OutputBudget::new).            *)
LEMMA BudgetErrorRefuses ==
  ASSUME NEW f \in Frames, NEW v, BudgetError(f) # "none"
  PROVE  ~Sound(f, v)
<1>1. f.declared \in Nat \cup {Unknown} /\ f.encoded \in Nat BY FrameTyped
<1>2. f.encoded * MaxRatio \in Nat BY <1>1, FrameAssumption
<1> DEFINE most == f.encoded * MaxRatio
<1>3. ~WithinLimits(f)
  <2>1. /\ BudgetError(f) =
             IF f.declared = Unknown THEN "Unsupported"
             ELSE IF f.declared > MaxDecoded THEN "LimitExceeded"
             ELSE IF f.declared <= ExemptBytes THEN "none"
             ELSE IF most > MaxUsize THEN "IntegerOverflow"
             ELSE IF f.declared > most THEN "LimitExceeded"
             ELSE "none"
        /\ WithinLimits(f) <=> /\ f.declared \in 0 .. MaxDecoded
                               /\ \/ f.declared <= ExemptBytes
                                  \/ most <= MaxUsize /\ f.declared <= most
    BY DEF BudgetError, WithinLimits
  <2>2. most \in Nat BY <1>2
  <2> HIDE DEF most
  <2> QED BY <1>1, <2>1, <2>2, FrameAssumption DEF Unknown
<1> QED BY <1>3 DEF Sound

(* Where the content of the chunks before the current one ends.            *)
LEMMA Progress ==
  ASSUME SizesInv, ContentExact, phase \in {"chunk", "charge", "verify", "sink"}
  PROVE  /\ call.frame \in Frames /\ next \in Nat /\ next - 1 \in Nat
         /\ Len(call.frame.chunks) \in Nat
         /\ next - 1 <= Len(call.frame.chunks)
         /\ Content(call.frame, next - 1) \in Seq(Byte)
         /\ phase \in {"chunk", "charge"} =>
              budget.written = Len(Content(call.frame, next - 1))
         /\ next <= Len(call.frame.chunks) =>
              /\ Current.bytes \in Seq(Byte)
              /\ Content(call.frame, next)
                   = Content(call.frame, next - 1) \o Current.bytes
              /\ Content(call.frame, next) \in Seq(Byte)
              /\ Len(Content(call.frame, next))
                   = Len(Content(call.frame, next - 1)) + Len(Current.bytes)
              /\ Len(Content(call.frame, next))
                   <= Len(Content(call.frame, Len(call.frame.chunks)))
<1> DEFINE f == call.frame
           N == Len(f.chunks)
           m == next - 1
<1>1. TypeOK /\ BudgetExact BY DEF SizesInv
<1>2. /\ f \in Frames /\ N \in Nat /\ next \in Nat /\ m \in Nat /\ m + 1 = next
      /\ m <= N
  <2>1. next \in Nat \ {0} BY <1>1 DEF TypeOK
  <2>2. m <= N BY DEF ContentExact
  <2> QED BY <1>1, <2>1, <2>2, CallTyped
<1>3. /\ saved \in Seq(Byte) /\ Len(saved) \in Nat /\ budget.written \in Nat
      /\ decoded \in Seq(Byte) /\ Len(decoded) \in Nat /\ Len(dst.bytes) \in Nat
  BY <1>1, VectorsTyped
<1>4. Content(f, m) \in Seq(Byte) /\ Len(Content(f, m)) \in Nat
  <2> HIDE DEF f, m
  <2> QED BY <1>2, ContentTyped DEF f
<1>5. ASSUME next <= N
      PROVE  /\ Current.bytes \in Seq(Byte)
             /\ Content(f, next) = Content(f, m) \o Current.bytes
             /\ Content(f, next) \in Seq(Byte)
             /\ Len(Content(f, next)) = Len(Content(f, m)) + Len(Current.bytes)
             /\ Len(Content(f, next)) <= Len(Content(f, N))
  <2>1. Current.bytes \in Seq(Byte) BY <1>1, <1>5, CurrentTyped
  <2>2. m < N BY <1>2, <1>5
  <2>3. Content(f, m + 1) = Content(f, m) \o f.chunks[m + 1].bytes
    <3> HIDE DEF f, m
    <3> QED BY <1>2, <2>2, ContentGrows DEF f
  <2>4. Content(f, next) = Content(f, m) \o Current.bytes
    <3> HIDE DEF m
    <3> QED BY <1>2, <2>3 DEF Current
  <2>5. Len(Content(f, next)) <= Len(Content(f, N))
    <3> HIDE DEF f
    <3> QED BY <1>2, <1>5, ContentTyped DEF f
  <2> HIDE DEF f, m, N
  <2> QED BY <1>4, <2>1, <2>4, <2>5, ConcatProperties
<1>6. phase = "chunk" => budget.written = Len(Content(f, m))
  <2> SUFFICES ASSUME phase = "chunk" PROVE budget.written = Len(Content(f, m))
    OBVIOUS
  <2>1. Given(m) /\ Done = budget.written BY <1>1 DEF ContentExact, BudgetExact
  <2>2. CASE Streaming BY <2>1, <2>2 DEF Given, Done
  <2>3. CASE ~Streaming
    <3>1. dst.bytes = saved \o Content(f, m) BY <2>1, <2>3 DEF Given
    <3>2. Len(dst.bytes) = Len(saved) + Len(Content(f, m))
      <4> HIDE DEF f, m
      <4> QED BY <1>3, <1>4, <3>1, ConcatProperties
    <3>3. Len(dst.bytes) - Len(saved) = budget.written BY <2>1, <2>3 DEF Done
    <3> HIDE DEF f, m
    <3> QED BY <1>3, <1>4, <3>2, <3>3
  <2> QED BY <2>2, <2>3
<1>7. phase = "charge" => budget.written = Len(Content(f, m))
  <2> SUFFICES ASSUME phase = "charge" PROVE budget.written = Len(Content(f, m))
    OBVIOUS
  <2>1. /\ next <= N /\ decoded = Current.bytes
        /\ Given(IF Streaming THEN m ELSE next)
        /\ Done = budget.written + (IF Streaming THEN 0 ELSE Len(decoded))
    BY <1>1 DEF ContentExact, BudgetExact
  <2>2. CASE Streaming
    <3>1. Given(m) /\ Done = budget.written + 0 BY <2>1, <2>2
    <3>2. Len(Content(f, m)) = budget.written + 0 BY <2>2, <3>1 DEF Given, Done
    <3> HIDE DEF f, m
    <3> QED BY <1>3, <3>2
  <2>3. CASE ~Streaming
    <3>1. Given(next) /\ Done = budget.written + Len(decoded) BY <2>1, <2>3
    <3>2. dst.bytes = saved \o Content(f, next) BY <2>3, <3>1 DEF Given
    <3>3. /\ Content(f, next) \in Seq(Byte)
          /\ Len(Content(f, next)) = Len(Content(f, m)) + Len(decoded)
      BY <1>5, <2>1
    <3>4. Len(dst.bytes) = Len(saved) + Len(Content(f, next))
      <4>1. saved \in Seq(Byte) /\ Content(f, next) \in Seq(Byte)
        BY <1>3, <3>3
      <4> HIDE DEF f
      <4> QED BY <3>2, <4>1, ConcatProperties
    <3>5. Len(dst.bytes) - Len(saved) = budget.written + Len(decoded)
      BY <2>3, <3>1 DEF Done
    <3> HIDE DEF f, m
    <3> QED BY <1>3, <1>4, <3>3, <3>4, <3>5
  <2> QED BY <2>2, <2>3
<1> QED BY <1>2, <1>4, <1>5, <1>6, <1>7

(* A chunk that does not fit in what is left of the declared size.         *)
LEMMA TooLong ==
  ASSUME SizesInv, ContentExact, phase \in {"chunk", "charge"},
         next <= Len(call.frame.chunks), Len(Current.bytes) > Remaining
  PROVE  ~Sound(call.frame, call.verify)
<1> DEFINE size(n) == Len(Content(call.frame, n))
<1>1. /\ budget.written = size(next - 1)
      /\ size(next) = size(next - 1) + Len(Current.bytes)
      /\ size(next) <= size(Len(call.frame.chunks))
      /\ Current.bytes \in Seq(Byte)
  BY Progress
<1>2. /\ Remaining \in Nat /\ Declared \in Nat /\ budget.written \in Nat
      /\ Declared = budget.written + Remaining
  BY RemainingNat
<1>3. size(Len(call.frame.chunks)) \in Nat
  <2>1. call.frame \in Frames /\ Len(call.frame.chunks) \in Nat BY Progress
  <2> QED BY <2>1, ContentTyped
<1>4. Len(Current.bytes) \in Nat BY <1>1
<1> HIDE DEF size
<1>5. size(Len(call.frame.chunks)) # Declared BY <1>1, <1>2, <1>3, <1>4
<1> QED BY <1>5 DEF Sound, Declared, size

(* A chunk that fails makes its frame unsound.                             *)
LEMMA Failed ==
  ASSUME SizesInv, ContentExact, phase = "chunk",
         next <= Len(call.frame.chunks), Current.fails
  PROVE  ~Sound(call.frame, call.verify)
<1>1. next \in 1 .. Len(call.frame.chunks) BY Progress
<1>2. next \in DOMAIN call.frame.chunks BY <1>1, Progress, FrameTyped
<1> QED BY <1>2 DEF Sound, Current
-----------------------------------------------------------------------------
(* A decode that leaves with an error keeps what it has found out.         *)
LEMMA LeaveContent ==
  ASSUME ContentExact, phase' = "return", call' = call, seen' = seen,
         \/ result' \in {"AllocationFailed", "Sink"}
         \/ result' # "ok" /\ ~Sound(call.frame, call.verify)
  PROVE  ContentExact'
BY DEF ContentExact, Streaming, Sound

(* A chunk that decoded is the content up to and including it.             *)
LEMMA DecodedContent ==
  ASSUME SizesInv, ContentExact, phase = "chunk", phase' = "charge",
         next <= Len(call.frame.chunks), ~Current.fails,
         call' = call, next' = next, seen' = seen, saved' = saved,
         decoded' = Current.bytes,
         ~Streaming => dst'.bytes = dst.bytes \o Current.bytes
  PROVE  ContentExact'
<1> DEFINE f == call.frame
           m == next - 1
<1>1. /\ f.serial /\ m <= Len(f.chunks) /\ Passed(m) /\ Given(m)
      /\ (~Streaming => seen = <<>>)
  BY DEF ContentExact
<1>2. /\ Content(f, m) \in Seq(Byte) /\ Current.bytes \in Seq(Byte)
      /\ Content(f, next) = Content(f, m) \o Current.bytes
      /\ saved \in Seq(Byte)
  BY Progress, VectorsTyped DEF SizesInv
<1>3. Given(IF Streaming THEN m ELSE next)'
  <2>1. CASE Streaming
    <3>1. seen = Content(f, m) BY <1>1, <2>1 DEF Given
    <3>2. seen' = Content(call'.frame, next' - 1) BY <3>1
    <3> QED BY <2>1, <3>2 DEF Given, Streaming
  <2>2. CASE ~Streaming
    <3>1. dst.bytes = saved \o Content(f, m) BY <1>1, <2>2 DEF Given
    <3>2. dst'.bytes = (saved \o Content(f, m)) \o Current.bytes BY <2>2, <3>1
    <3>3. dst'.bytes = saved \o Content(f, next)
      <4> DEFINE p == Content(f, m)
                 c == Current.bytes
      <4>1. p \in Seq(Byte) /\ c \in Seq(Byte) /\ saved \in Seq(Byte) BY <1>2
      <4> HIDE DEF p, c
      <4>2. (saved \o p) \o c = saved \o (p \o c) BY <4>1, ConcatAssociative
      <4> QED BY <1>2, <3>2, <4>2 DEF p, c
    <3>4. dst'.bytes = saved' \o Content(call'.frame, next') BY <3>3
    <3> QED BY <2>2, <3>4 DEF Given, Streaming
  <2> QED BY <2>1, <2>2
<1>4. Passed(next - 1)' BY <1>1 DEF Passed
<1>5. decoded' = Current'.bytes /\ ~Current'.fails BY DEF Current
<1> QED BY <1>1, <1>3, <1>4, <1>5 DEF ContentExact, Streaming

(* A call starts with nothing decoded.                                     *)
LEMMA CallContent ==
  ASSUME NEW to, NEW f, NEW v, Call(to, f, v) PROVE ContentExact'
BY DEF Call, ContentExact

(* The frame header writes nothing.                                        *)
LEMMA OpenFrameContent ==
  ASSUME SizesInv, ContentExact, OpenFrame PROVE ContentExact'
<1>1. /\ phase = "open" /\ call' = call /\ dst' = dst /\ saved' = saved
      /\ next' = next /\ seen' = seen
  BY DEF OpenFrame
<1>2. seen = <<>> /\ dst.bytes = saved BY <1>1 DEF ContentExact
<1>3. call.frame \in Frames /\ Len(call.frame.chunks) \in Nat
  BY <1>1, CallTyped DEF SizesInv
<1>4. CASE ~call.frame.serial
  <2>1. phase' = "idle" BY <1>4 DEF OpenFrame
  <2> QED BY <1>1, <1>2, <2>1 DEF ContentExact, Streaming
<1>5. CASE call.frame.serial /\ BudgetError(call.frame) # "none"
  <2>1. phase' = "return" /\ result' = BudgetError(call.frame)
    BY <1>5 DEF OpenFrame, Leave
  <2>2. result' # "ok" BY <2>1 DEF BudgetError
  <2>3. ~Sound(call.frame, call.verify) BY <1>3, <1>5, BudgetErrorRefuses
  <2> QED BY <1>1, <2>1, <2>2, <2>3, LeaveContent
<1>6. CASE call.frame.serial /\ BudgetError(call.frame) = "none"
  <2>1. phase' = "chunk" BY <1>6 DEF OpenFrame
  <2> DEFINE f == call.frame
  <2>2. next = 1 BY <1>1 DEF ContentExact
  <2>3. 0 <= Len(f.chunks) /\ next - 1 = 0 BY <1>3, <2>2
  <2>4. Content(f, 0) = <<>>
    <3> HIDE DEF f
    <3> QED BY <1>3, <2>3, ContentTyped DEF f
  <2>5. Given(0)
    <3>1. saved \o <<>> = saved
      BY VectorsTyped, ConcatEmptySeq DEF SizesInv
    <3> QED BY <1>2, <2>4, <3>1 DEF Given
  <2>6. Given(0)' BY <1>1, <2>5 DEF Given, Streaming
  <2>7. Passed(0)' BY DEF Passed
  <2>8. next' - 1 = 0 BY <1>1, <2>3
  <2> QED BY <1>1, <1>2, <1>6, <2>1, <2>3, <2>6, <2>7, <2>8
          DEF ContentExact, Streaming
<1> QED BY <1>4, <1>5, <1>6

(* An allocation that fails writes nothing.                                *)
LEMMA AllocationContent ==
  ASSUME ContentExact, AllocationFails \/ TakeFails PROVE ContentExact'
<1>1. /\ phase' = "return" /\ result' = "AllocationFailed"
      /\ call' = call /\ seen' = seen
  BY DEF AllocationFails, TakeFails, Leave
<1> QED BY <1>1, LeaveContent

(* A tail that stops has decoded an error, or more than the frame has left *)
(* to decode.                                                              *)
LEMMA StopsUnsound ==
  ASSUME SizesInv, ContentExact, phase = "chunk",
         next <= Len(call.frame.chunks), TailStops(Current)
  PROVE  ~Sound(call.frame, call.verify)
<1>1. CASE Current.fails BY <1>1, Failed
<1>2. CASE ~Current.fails
  <2>1. Len(Current.bytes) > Remaining BY <1>2 DEF TailStops
  <2> QED BY <2>1, TooLong
<1> QED BY <1>1, <1>2

(* A tail decoded in place appends the chunk.                              *)
LEMMA AppendTailContent ==
  ASSUME SizesInv, ContentExact, AppendTail PROVE ContentExact'
<1>1. /\ phase = "chunk" /\ next <= Len(call.frame.chunks) /\ ~Streaming
      /\ dst' = TailLeaves(Current, Reserve(dst))
      /\ decoded' = SubSeq(dst'.bytes, Len(dst.bytes) + 1, Len(dst'.bytes))
      /\ call' = call /\ saved' = saved /\ next' = next /\ seen' = seen
  BY DEF AppendTail, Ready
<1>2. Current.bytes \in Seq(Byte) BY <1>1, CurrentTyped DEF SizesInv
<1>3. CASE TailStops(Current)
  <2>1. phase' = "return" /\ result' = "Malformed"
    BY <1>3 DEF AppendTail, Leave
  <2> QED BY <1>1, <1>3, <2>1, StopsUnsound, LeaveContent
<1>4. CASE ~TailStops(Current)
  <2>1. phase' = "charge" BY <1>4 DEF AppendTail
  <2>2. dst' = Appended(Reserve(dst), Current.bytes)
    BY <1>1, <1>4 DEF TailLeaves
  <2>3. dst'.bytes = dst.bytes \o Current.bytes
    BY <1>1, <1>2, <2>2, ReserveAndAppend
  <2>4. decoded' = Current.bytes
    <3> DEFINE s == dst.bytes
               t == Current.bytes
    <3>1. s \in Seq(Byte) /\ t \in Seq(Byte) /\ dst'.bytes = s \o t
      BY <1>2, <2>3, VectorsTyped DEF SizesInv
    <3>2. decoded' = SubSeq(s \o t, Len(s) + 1, Len(s \o t)) BY <1>1, <3>1
    <3> HIDE DEF s, t
    <3>3. SubSeq(s \o t, Len(s) + 1, Len(s \o t)) = t BY <3>1, SuffixOfConcat
    <3> QED BY <3>2, <3>3 DEF t
  <2>5. ~Current.fails BY <1>4 DEF TailStops
  <2> QED BY <1>1, <2>1, <2>3, <2>4, <2>5, DecodedContent
<1> QED BY <1>3, <1>4

(* A tail decoded into the buffer holds the chunk.                         *)
LEMMA AppendTailToBufferContent ==
  ASSUME SizesInv, ContentExact, AppendTailToBuffer PROVE ContentExact'
<1>1. /\ phase = "chunk" /\ next <= Len(call.frame.chunks) /\ Streaming
      /\ buffer' = TailLeaves(Current, Truncated(buffer, 0))
      /\ decoded' = buffer'.bytes
      /\ call' = call /\ saved' = saved /\ next' = next /\ seen' = seen
  BY DEF AppendTailToBuffer, Ready
<1>2. Current.bytes \in Seq(Byte) BY <1>1, CurrentTyped DEF SizesInv
<1>3. CASE TailStops(Current)
  <2>1. phase' = "return" /\ result' = "Malformed"
    BY <1>3 DEF AppendTailToBuffer, Leave
  <2> QED BY <1>1, <1>3, <2>1, StopsUnsound, LeaveContent
<1>4. CASE ~TailStops(Current)
  <2>1. phase' = "charge" BY <1>4 DEF AppendTailToBuffer
  <2>2. buffer' = Appended(Truncated(buffer, 0), Current.bytes)
    BY <1>1, <1>4 DEF TailLeaves
  <2>3. buffer \in Buffer /\ 0 \in 0 .. Len(buffer.bytes)
    BY VectorsTyped DEF SizesInv, Buffer
  <2>4. /\ Truncated(buffer, 0) \in Buffer
        /\ Truncated(buffer, 0).bytes = SubSeq(buffer.bytes, 1, 0)
    BY <2>3, VecTruncated
  <2>5. SubSeq(buffer.bytes, 1, 0) = <<>> BY SubSeqEmpty
  <2>6. buffer'.bytes = <<>> \o Current.bytes
    <3> DEFINE b == Truncated(buffer, 0)
    <3>1. b \in Buffer /\ b.bytes = <<>> BY <2>4, <2>5
    <3> HIDE DEF b
    <3>2. Appended(b, Current.bytes).bytes = b.bytes \o Current.bytes
      BY <1>2, <3>1, VecAppended
    <3> QED BY <2>2, <3>1, <3>2 DEF b
  <2>7. decoded' = Current.bytes BY <1>1, <1>2, <2>6, ConcatEmptySeq
  <2>8. ~Current.fails BY <1>4 DEF TailStops
  <2> QED BY <1>1, <2>1, <2>7, <2>8, DecodedContent
<1> QED BY <1>3, <1>4

(* A stored chunk is appended or held as it is.                            *)
LEMMA AppendBorrowedContent ==
  ASSUME SizesInv, ContentExact, AppendBorrowed PROVE ContentExact'
<1>1. /\ phase = "chunk" /\ next <= Len(call.frame.chunks)
      /\ call' = call /\ saved' = saved /\ next' = next /\ seen' = seen
  BY DEF AppendBorrowed, Ready
<1>2. CASE Current.fails
  <2>1. phase' = "return" /\ result' = "Malformed"
    BY <1>2 DEF AppendBorrowed, Leave
  <2> QED BY <1>1, <1>2, <2>1, Failed, LeaveContent
<1>3. CASE ~Current.fails
  <2>1. /\ phase' = "charge" /\ decoded' = Current.bytes
        /\ ~Streaming => dst' = Appended(Reserve(dst), Current.bytes)
    BY <1>3 DEF AppendBorrowed
  <2>2. Current.bytes \in Seq(Byte) BY <1>1, CurrentTyped DEF SizesInv
  <2>3. ~Streaming => dst'.bytes = dst.bytes \o Current.bytes
    BY <1>1, <2>1, <2>2, ReserveAndAppend
  <2> QED BY <1>1, <1>3, <2>1, <2>3, DecodedContent
<1> QED BY <1>2, <1>3

(* A decoded chunk is appended from its scratch buffer.                    *)
LEMMA AppendOwnedContent ==
  ASSUME SizesInv, ContentExact, AppendOwned PROVE ContentExact'
<1> DEFINE taken == TakeStale(scratch, Len(Current.bytes))
           b == [taken.buffer EXCEPT !.bytes = Current.bytes]
<1>1. /\ phase = "chunk" /\ next <= Len(call.frame.chunks) /\ ~Streaming
      /\ call' = call /\ saved' = saved /\ next' = next /\ seen' = seen
  BY DEF AppendOwned, Ready
<1>2. CASE Current.fails
  <2>1. phase' = "return" /\ result' = "Malformed"
    BY <1>2 DEF AppendOwned, Leave
  <2> QED BY <1>1, <1>2, <2>1, Failed, LeaveContent
<1>3. CASE ~Current.fails
  <2>1. /\ phase' = "charge" /\ decoded' = Current.bytes
        /\ \/ dst.bytes = <<>> /\ dst' = b
           \/ dst' = Appended(Reserve(dst), Current.bytes)
    BY <1>3 DEF AppendOwned, Moves
  <2>2. Current.bytes \in Seq(Byte) BY <1>1, CurrentTyped DEF SizesInv
  <2>3. b.bytes = Current.bytes BY <2>2, FilledBuffer
  <2> HIDE DEF taken, b
  <2>4. dst'.bytes = dst.bytes \o Current.bytes
    <3>1. CASE dst.bytes = <<>> /\ dst' = b
      <4>1. <<>> \o Current.bytes = Current.bytes BY <2>2, ConcatEmptySeq
      <4> QED BY <2>3, <3>1, <4>1
    <3>2. CASE dst' = Appended(Reserve(dst), Current.bytes)
      BY <1>1, <2>2, <3>2, ReserveAndAppend
    <3> QED BY <2>1, <3>1, <3>2
  <2> QED BY <1>1, <1>3, <2>1, <2>4, DecodedContent
<1> QED BY <1>2, <1>3

(* A decoded chunk is held in its scratch buffer.                          *)
LEMMA HoldOwnedContent ==
  ASSUME SizesInv, ContentExact, HoldOwned PROVE ContentExact'
<1> DEFINE taken == TakeStale(scratch, Len(Current.bytes))
           b == [taken.buffer EXCEPT !.bytes = Current.bytes]
<1>1. /\ phase = "chunk" /\ next <= Len(call.frame.chunks) /\ Streaming
      /\ call' = call /\ saved' = saved /\ next' = next /\ seen' = seen
  BY DEF HoldOwned, Ready
<1>2. CASE Current.fails
  <2>1. phase' = "return" /\ result' = "Malformed"
    BY <1>2 DEF HoldOwned, Leave
  <2> QED BY <1>1, <1>2, <2>1, Failed, LeaveContent
<1>3. CASE ~Current.fails
  <2>1. phase' = "charge" /\ decoded' = b.bytes BY <1>3 DEF HoldOwned
  <2>2. Current.bytes \in Seq(Byte) BY <1>1, CurrentTyped DEF SizesInv
  <2>3. b.bytes = Current.bytes BY <2>2, FilledBuffer
  <2> HIDE DEF taken, b
  <2>4. decoded' = Current.bytes BY <2>1, <2>3
  <2> QED BY <1>1, <1>3, <2>1, <2>4, DecodedContent
<1> QED BY <1>2, <1>3

(* Charging the budget leaves the chunk.                                   *)
LEMMA ChargeContent ==
  ASSUME SizesInv, ContentExact, Charge PROVE ContentExact'
<1>1. /\ phase = "charge" /\ next <= Len(call.frame.chunks)
      /\ decoded = Current.bytes
      /\ UNCHANGED <<call, dst, saved, next, decoded, seen>>
  BY DEF Charge, SizesInv, BudgetExact, ContentExact
<1>2. CASE Len(decoded) > Remaining
  <2>1. phase' = "return" /\ result' = "Malformed" BY <1>2 DEF Charge, Leave
  <2>2. ~Sound(call.frame, call.verify) BY <1>1, <1>2, TooLong
  <2> QED BY <1>1, <2>1, <2>2, LeaveContent
<1>3. CASE ~(Len(decoded) > Remaining)
  <2>1. phase' = "verify" BY <1>3 DEF Charge
  <2>2. Given(next)' = Given(next) /\ Given(next - 1)' = Given(next - 1)
    BY <1>1 DEF Given, Streaming
  <2>3. Passed(next - 1)' = Passed(next - 1) BY <1>1 DEF Passed
  <2>4. Current' = Current BY <1>1 DEF Current
  <2> QED BY <1>1, <2>1, <2>2, <2>3, <2>4 DEF ContentExact, Streaming
<1> QED BY <1>2, <1>3

(* A chunk that failed to match its checksum makes its frame unsound.      *)
LEMMA VerifyContent ==
  ASSUME SizesInv, ContentExact, Verify PROVE ContentExact'
<1>1. /\ phase = "verify" /\ next <= Len(call.frame.chunks)
      /\ decoded = Current.bytes /\ ~Current.fails /\ Passed(next - 1)
      /\ call.frame.serial /\ Given(IF Streaming THEN next - 1 ELSE next)
      /\ UNCHANGED <<call, dst, saved, decoded, seen>>
  BY DEF Verify, SizesInv, BudgetExact, ContentExact
<1>2. next \in Nat /\ next - 1 \in Nat /\ call.frame \in Frames
      /\ Len(call.frame.chunks) \in Nat
  BY <1>1, Progress
<1>3. CASE Mismatch(Current, decoded)
  <2>1. phase' = "return" /\ result' = "ChecksumMismatch"
    BY <1>3 DEF Verify, Leave
  <2>2. next \in DOMAIN call.frame.chunks BY <1>1, <1>2, FrameTyped, Progress
  <2>3. ~Sound(call.frame, call.verify)
    BY <1>1, <1>3, <2>2 DEF Sound, Mismatch, Current
  <2> QED BY <1>1, <2>1, <2>3, LeaveContent
<1>4. CASE ~Mismatch(Current, decoded)
  <2>1. Passed(next)
    <3>1. \A k \in 1 .. next : k = next \/ k \in 1 .. next - 1 BY <1>2
    <3>2. call.verify => Current.sum \subseteq {Current.bytes}
      BY <1>1, <1>4 DEF Mismatch
    <3> QED BY <1>1, <3>1, <3>2 DEF Passed, Current
  <2>2. CASE Streaming
    <3>1. phase' = "sink" /\ next' = next BY <1>4, <2>2 DEF Verify
    <3>2. Given(next - 1)' BY <1>1, <2>2, <3>1 DEF Given, Streaming
    <3>3. Passed(next - 1)' /\ Passed(next)'
      BY <1>1, <2>1, <3>1 DEF Passed
    <3>4. Current' = Current BY <1>1, <3>1 DEF Current
    <3>5. next - 1 <= Len(call.frame.chunks) BY <1>1, <1>2
    <3> QED BY <1>1, <2>2, <3>1, <3>2, <3>3, <3>4, <3>5
            DEF ContentExact, Streaming
  <2>3. CASE ~Streaming
    <3>1. phase' = "chunk" /\ next' = next + 1 BY <1>4, <2>3 DEF Verify
    <3>2. next' - 1 = next BY <1>2, <3>1
    <3>3. Given(next) /\ seen = <<>> BY <1>1, <2>3 DEF ContentExact
    <3>4. Given(next - 1)'
      <4>1. Given(next) = (dst.bytes = saved \o Content(call.frame, next))
        BY <2>3 DEF Given
      <4> QED BY <1>1, <2>3, <3>2, <3>3, <4>1 DEF Given, Streaming
    <3>5. Passed(next - 1)' BY <1>1, <2>1, <3>2 DEF Passed
    <3> QED BY <1>1, <2>3, <3>1, <3>2, <3>3, <3>4, <3>5
            DEF ContentExact, Streaming
  <2> QED BY <2>2, <2>3
<1> QED BY <1>3, <1>4

(* The sink is given the next chunk, which passed.                         *)
LEMMA SinkContent ==
  ASSUME SizesInv, ContentExact, Sink
  PROVE  ContentExact' /\ SinkSeesVerifiedPrefix'
<1>1. /\ phase = "sink" /\ Streaming /\ next <= Len(call.frame.chunks)
      /\ seen' = seen \o decoded /\ decoded = Current.bytes
      /\ Passed(next) /\ seen = Content(call.frame, next - 1)
      /\ call.frame.serial /\ call' = call /\ dst' = dst /\ saved' = saved
  BY DEF Sink, SizesInv, BudgetExact, ContentExact, Given
<1>2. /\ next \in Nat /\ next - 1 \in Nat /\ call.frame \in Frames
      /\ Len(call.frame.chunks) \in Nat
      /\ Content(call.frame, next)
           = Content(call.frame, next - 1) \o Current.bytes
      /\ Content(call.frame, next) \in Seq(Byte)
  BY <1>1, Progress
<1>3. seen' = Content(call.frame, next) BY <1>1, <1>2
<1>4. ContentExact'
  <2>1. CASE phase' = "chunk"
    <3>1. next' = next + 1 BY <2>1 DEF Sink, Leave
    <3>2. next' - 1 = next BY <1>2, <3>1
    <3>3. Given(next - 1)'
      BY <1>1, <1>3, <3>2 DEF Given, Streaming
    <3>4. Passed(next - 1)' BY <1>1, <3>2 DEF Passed
    <3> QED BY <1>1, <2>1, <3>2, <3>3, <3>4 DEF ContentExact, Streaming
  <2>2. CASE phase' = "return"
    <3>1. result' = "Sink" BY <2>2 DEF Sink, Leave
    <3> QED BY <1>1, <2>2, <3>1 DEF ContentExact, Streaming
  <2> QED BY <2>1, <2>2 DEF Sink, Leave
<1>5. SinkSeesVerifiedPrefix'
  <2>1. next \in DOMAIN call.frame.chunks
    <3>1. next \in 1 .. Len(call.frame.chunks)
      BY <1>1, <1>2
    <3> QED BY <1>2, <3>1, FrameTyped
  <2>2. call.verify =>
          \A k \in 1 .. next :
            call.frame.chunks[k].sum \subseteq {call.frame.chunks[k].bytes}
    BY <1>1 DEF Passed
  <2>3. Len(seen') <= Declared
    <3>1. /\ seen \in Seq(Byte) /\ decoded \in Seq(Byte)
          /\ Len(seen) + Len(decoded) = budget.written
          /\ budget.written <= Declared
      BY <1>1, VectorsTyped DEF SizesInv, BudgetExact, Done
    <3>2. Len(seen') = Len(seen) + Len(decoded)
      BY <1>1, <3>1, ConcatProperties
    <3> QED BY <3>1, <3>2
  <2> QED BY <1>1, <1>3, <2>1, <2>2, <2>3
          DEF SinkSeesVerifiedPrefix, Declared
<1> QED BY <1>4, <1>5

(* A decode that has used up its budget has decoded a sound frame, one     *)
(* that ends short of it an unsound one.                                   *)
LEMMA FinishContent ==
  ASSUME SizesInv, ContentExact, Finish PROVE ContentExact'
<1> DEFINE f == call.frame
           N == Len(f.chunks)
<1>1. /\ phase = "chunk" /\ next > N /\ phase' = "return"
      /\ result' = (IF Remaining = 0 THEN "ok" ELSE "Malformed")
      /\ UNCHANGED <<call, dst, saved, seen>>
      /\ Passed(next - 1) /\ Given(next - 1) /\ f.serial
      /\ WithinLimits(f)
  BY DEF Finish, Leave, SizesInv, BudgetExact, ContentExact
<1>2. /\ f \in Frames /\ N \in Nat /\ next - 1 = N
      /\ budget.written = Len(Content(f, next - 1))
  <2>1. next \in Nat /\ next - 1 <= N /\ N \in Nat BY <1>1, Progress
  <2>2. next - 1 = N BY <1>1, <2>1
  <2> QED BY <1>1, <2>2, Progress
<1>3. budget.written = Len(Content(f, N)) /\ Passed(N) /\ Given(N)
  BY <1>1, <1>2
<1>4. /\ Remaining \in Nat /\ Declared \in Nat /\ budget.written \in Nat
      /\ Declared = budget.written + Remaining
  BY <1>1, RemainingNat
<1>5. CASE Remaining = 0
  <2>1. Len(Content(f, N)) = Declared BY <1>3, <1>4, <1>5
  <2>2. DOMAIN f.chunks = 1 .. N BY <1>2, FrameTyped
  <2>3. Sound(f, call.verify)
    BY <1>1, <1>3, <2>1, <2>2 DEF Sound, Passed, Declared
  <2>4. Given(N)' BY <1>1, <1>3 DEF Given, Streaming
  <2>5. result' = "ok" BY <1>1, <1>5
  <2> QED BY <1>1, <2>3, <2>4, <2>5 DEF ContentExact, Streaming
<1>6. CASE Remaining # 0
  <2>1. Len(Content(f, N)) # Declared BY <1>3, <1>4, <1>6
  <2>2. ~Sound(f, call.verify) BY <2>1 DEF Sound, Declared
  <2>3. result' = "Malformed" BY <1>1, <1>6
  <2> QED BY <1>1, <2>2, <2>3, LeaveContent
<1> QED BY <1>5, <1>6

(* Nothing of it is left once the call is over.                            *)
LEMMA IdleContent ==
  ASSUME ContentExact, phase' = "idle", call' = call, seen' = seen
  PROVE  ContentExact'
BY DEF ContentExact, Streaming

(* Each step keeps what is known of the bytes.                             *)
LEMMA ContentStep ==
  ASSUME SizesInv, ContentExact, SinkSeesVerifiedPrefix, [Next]_vars
  PROVE  ContentExact' /\ SinkSeesVerifiedPrefix'
<1>1. ASSUME call' = call, seen' = seen PROVE SinkSeesVerifiedPrefix'
  BY <1>1 DEF SinkSeesVerifiedPrefix, Declared
<1>2. CASE UNCHANGED vars
  BY <1>2 DEF vars, ContentExact, SinkSeesVerifiedPrefix, Declared, Given,
              Passed, Streaming, Current
<1>3. ASSUME NEW to \in {"into", "chunks", "outputs"}, NEW f \in Frames,
             NEW v \in BOOLEAN, Call(to, f, v)
      PROVE  ContentExact' /\ SinkSeesVerifiedPrefix'
  BY <1>3, CallContent DEF Call, SinkSeesVerifiedPrefix
<1>4. CASE DecodeSingleZstd \/ Return \/ ShrinkToFit
  <2>1. phase' = "idle" /\ call' = call /\ seen' = seen
    BY <1>4 DEF DecodeSingleZstd, Return, ShrinkToFit
  <2> QED BY <1>1, <2>1, IdleContent
<1>5. CASE OpenFrame
  BY <1>1, <1>5, OpenFrameContent DEF OpenFrame
<1>6. CASE AllocationFails \/ TakeFails
  BY <1>1, <1>6, AllocationContent DEF AllocationFails, TakeFails
<1>7. CASE AppendTail BY <1>1, <1>7, AppendTailContent DEF AppendTail
<1>8. CASE AppendTailToBuffer
  BY <1>1, <1>8, AppendTailToBufferContent DEF AppendTailToBuffer
<1>9. CASE AppendBorrowed
  BY <1>1, <1>9, AppendBorrowedContent DEF AppendBorrowed
<1>10. CASE AppendOwned BY <1>1, <1>10, AppendOwnedContent DEF AppendOwned
<1>11. CASE HoldOwned BY <1>1, <1>11, HoldOwnedContent DEF HoldOwned
<1>12. CASE Charge BY <1>1, <1>12, ChargeContent DEF Charge
<1>13. CASE Verify BY <1>1, <1>13, VerifyContent DEF Verify
<1>14. CASE Sink BY <1>14, SinkContent
<1>15. CASE Finish BY <1>1, <1>15, FinishContent DEF Finish
<1> QED BY <1>2, <1>3, <1>4, <1>5, <1>6, <1>7, <1>8, <1>9, <1>10, <1>11,
           <1>12, <1>13, <1>14, <1>15 DEF Next
-----------------------------------------------------------------------------
(* The pool's count.  Removing a buffer takes its capacity from the sum,   *)
(* and keeping one adds it.                                                *)
Caps(s) == [i \in DOMAIN s |-> s[i].cap]

(* The pool counts the sum of its capacities.                              *)
LEMMA AccountedSum ==
  ASSUME NEW pool PROVE Accounted(pool) <=> pool.pooled = Sum(Caps(pool.buffers))
BY DEF Accounted, Sum, Caps

(* Capacities are numbers.                                                 *)
LEMMA CapsTyped ==
  ASSUME NEW s \in Seq(Buffer)
  PROVE  /\ Caps(s) \in Seq(Nat) /\ Caps(s) \in Seq(Int)
         /\ Len(Caps(s)) = Len(s) /\ Len(s) \in Nat
         /\ DOMAIN Caps(s) = 1 .. Len(s)
<1>1. DOMAIN s = 1 .. Len(s) /\ Len(s) \in Nat OBVIOUS
<1>2. \A i \in 1 .. Len(s) : s[i].cap \in Nat
  <2>1. \A i \in 1 .. Len(s) : s[i] \in Buffer BY ElementOfSeq
  <2> QED BY <2>1 DEF Buffer
<1>3. Caps(s) \in [1 .. Len(s) -> Nat] BY <1>1, <1>2 DEF Caps
<1>4. Caps(s) \in [1 .. Len(s) -> Int] BY <1>3
<1>5. Caps(s) \in Seq(Nat) /\ Caps(s) \in Seq(Int)
  BY <1>1, <1>3, <1>4, IsASeq
<1> QED BY <1>1, <1>3, <1>5, LenProperties

(* A buffer taken from the pool takes its capacity along.                  *)
LEMMA SumOfRemoved ==
  ASSUME NEW s \in Seq(Buffer), NEW i \in DOMAIN s
  PROVE  Sum(Caps(SwapRemove(s, i))) = Sum(Caps(s)) - s[i].cap
<1> DEFINE n == Len(s) - 1
           front == Front(s)
           c == Caps(s)
           d == Caps(front)
<1>1. i \in 1 .. Len(s) /\ Len(s) \in Nat /\ n \in Nat /\ Len(s) = n + 1
      /\ i \in 1 .. n + 1
  OBVIOUS
<1>2. front \in Seq(Buffer) /\ Len(front) = n /\ \A k \in 1 .. n : front[k] = s[k]
  BY FrontFacts
<1>3. /\ c \in Seq(Int) /\ DOMAIN c = 1 .. n + 1
      /\ d \in Seq(Int) /\ DOMAIN d = 1 .. n /\ Len(d) = n
      /\ \A k \in 1 .. n : c[k] = d[k]
      /\ c[i] = s[i].cap /\ c[n + 1] = s[n + 1].cap
      /\ c[i] \in Int /\ c[n + 1] \in Int
  <2>1. c \in Seq(Int) /\ DOMAIN c = 1 .. n + 1 BY <1>1, CapsTyped
  <2>2. d \in Seq(Int) /\ DOMAIN d = 1 .. n /\ Len(d) = n
    BY <1>2, CapsTyped
  <2>3. \A k \in 1 .. n + 1 : c[k] = s[k].cap BY <1>1 DEF Caps
  <2>4. \A k \in 1 .. n : d[k] = front[k].cap BY <1>2, <2>2 DEF Caps
  <2>5. \A k \in 1 .. n + 1 : c[k] \in Int
    <3>1. Len(c) = n + 1 BY <1>1, CapsTyped
    <3> HIDE DEF c, n
    <3> QED BY <2>1, <3>1, ElementOfSeq
  <2>6. n + 1 \in 1 .. n + 1 /\ \A k \in 1 .. n : k \in 1 .. n + 1 BY <1>1
  <2> HIDE DEF c, d, n, front
  <2> QED BY <1>1, <1>2, <2>1, <2>2, <2>3, <2>4, <2>5, <2>6
<1> HIDE DEF n, c, d
<1>4. Sum(c) = Sum(d) + c[n + 1] BY <1>1, <1>3, SumLast
<1>5. Sum(d) \in Int
  <2>1. n \in Nat /\ n <= Len(d) BY <1>1, <1>3
  <2>2. Sum(Firsts(d, n)) \in Int BY <1>3, <2>1, SumInt
  <2>3. Firsts(d, n) = d
    <3>1. Firsts(d, Len(d)) = d BY <1>1, <1>3, FirstsFacts
    <3> QED BY <1>3, <3>1
  <2> QED BY <2>2, <2>3
<1>6. CASE i = n + 1
  <2>1. SwapRemove(s, i) = front BY <1>1, <1>6 DEF SwapRemove
  <2>2. Sum(c) - c[i] = Sum(d) BY <1>3, <1>4, <1>5, <1>6
  <2> QED BY <1>3, <2>1, <2>2 DEF c, d
<1>7. CASE i # n + 1
  <2>1. i \in 1 .. n BY <1>1, <1>7
  <2>2. SwapRemove(s, i) = [front EXCEPT ![i] = s[n + 1]]
    BY <1>1, <1>7 DEF SwapRemove, Last
  <2>3. DOMAIN front = 1 .. n BY <1>1, <1>2
  <2> DEFINE t == [front EXCEPT ![i] = s[n + 1]]
             e == [d EXCEPT ![i] = c[n + 1]]
  <2>4. Caps(t) = e
    <3>1. DOMAIN t = 1 .. n /\ DOMAIN e = 1 .. n BY <1>3, <2>3
    <3>2. \A k \in 1 .. n : t[k].cap = e[k]
      <4>1. \A k \in 1 .. n : d[k] = front[k].cap BY <2>3 DEF d, Caps
      <4>2. \A k \in 1 .. n : t[k] = IF k = i THEN s[n + 1] ELSE front[k]
        BY <2>3
      <4>3. \A k \in 1 .. n : e[k] = IF k = i THEN c[n + 1] ELSE d[k]
        BY <1>3
      <4> QED BY SMTT(30), <1>3, <4>1, <4>2, <4>3
    <3>3. Caps(t) = [k \in 1 .. n |-> t[k].cap] BY <3>1 DEF Caps
    <3>4. e = [k \in 1 .. n |-> e[k]] BY <3>1
    <3> HIDE DEF t, e
    <3> QED BY <3>2, <3>3, <3>4
  <2>5. Sum(e) = (Sum(d) - d[i]) + c[n + 1]
    BY <1>3, <2>1, SumReplaced
  <2>6. d[i] = c[i] BY <1>3, <2>1
  <2>7. Sum(e) = Sum(c) - c[i]
    <3>1. PICK x, y, z : x = Sum(d) /\ y = c[i] /\ z = c[n + 1] OBVIOUS
    <3>2. x \in Int /\ y \in Int /\ z \in Int BY <3>1, <1>3, <1>5
    <3>3. Sum(e) = (x - y) + z BY <3>1, <2>5, <2>6
    <3>4. Sum(c) = x + z BY <3>1, <1>4
    <3>5. (x - y) + z = (x + z) - y BY <3>2
    <3> QED BY <3>1, <3>3, <3>4, <3>5, Zenon
  <2> QED BY <1>3, <2>2, <2>4, <2>7 DEF c
<1> QED BY <1>6, <1>7

(* A buffer kept in the pool adds its capacity.                            *)
LEMMA SumOfKept ==
  ASSUME NEW s \in Seq(Buffer), NEW b \in Buffer
  PROVE  Sum(Caps(Append(s, b))) = Sum(Caps(s)) + b.cap
<1> DEFINE n == Len(s)
           t == Append(s, b)
<1>1. /\ n \in Nat /\ t \in Seq(Buffer) /\ Len(t) = n + 1 /\ t[n + 1] = b
      /\ \A i \in 1 .. n : t[i] = s[i]
  BY AppendProperties
<1>2. DOMAIN Caps(s) = 1 .. n /\ DOMAIN Caps(t) = 1 .. (n + 1)
  BY <1>1, CapsTyped
<1>3. \A i \in 1 .. n : Caps(t)[i] = Caps(s)[i]
  <2>1. \A i \in 1 .. n : i \in DOMAIN s /\ i \in DOMAIN t BY <1>1
  <2> HIDE DEF t
  <2> QED BY <1>1, <2>1 DEF Caps
<1>4. Caps(t)[n + 1] = b.cap
  <2>1. n + 1 \in DOMAIN t BY <1>1
  <2> HIDE DEF t
  <2> QED BY <1>1, <2>1 DEF Caps
<1> HIDE DEF n, t
<1>5. Sum(Caps(t)) = Sum(Caps(s)) + Caps(t)[n + 1]
  BY <1>1, <1>2, <1>3, SumLast
<1> QED BY <1>4, <1>5 DEF t

(* take_pooled_or_new and recycle_byte_buffer keep the count exact.        *)
LEMMA TakeAccounted ==
  ASSUME NEW pool \in Pool, Accounted(pool), NEW capacity \in Nat
  PROVE  Accounted(TakeStale(pool, capacity).scratch)
<1>1. CASE Fitting(pool, capacity) = {} BY <1>1 DEF TakeStale
<1>2. CASE Fitting(pool, capacity) # {}
  <2> DEFINE i == BestFit(pool, capacity)
             left == [buffers |-> SwapRemove(pool.buffers, i),
                      pooled  |-> pool.pooled - pool.buffers[i].cap]
  <2>1. TakeStale(pool, capacity).scratch = left BY <1>2 DEF TakeStale
  <2>2. i \in DOMAIN pool.buffers BY <1>2, BestFitFits DEF Fitting
  <2>3. pool.buffers \in Seq(Buffer) BY DEF Pool
  <2> HIDE DEF i
  <2>4. Sum(Caps(left.buffers)) = Sum(Caps(pool.buffers)) - pool.buffers[i].cap
    BY <2>2, <2>3, SumOfRemoved
  <2>5. pool.pooled = Sum(Caps(pool.buffers)) BY AccountedSum
  <2>6. Accounted(left) BY <2>4, <2>5, AccountedSum
  <2> QED BY <2>1, <2>6
<1> QED BY <1>1, <1>2

(* Recycling keeps the count exact, whether it keeps the buffer or not.    *)
LEMMA RecycleAccounted ==
  ASSUME NEW pool \in Pool, Accounted(pool), NEW b \in Buffer
  PROVE  Accounted(Recycle(pool, b))
<1>1. CASE Keeps(pool, b)
  <2> DEFINE grown == [buffers |-> Append(pool.buffers, b),
                       pooled  |-> pool.pooled + b.cap]
  <2>1. Recycle(pool, b) = grown BY <1>1 DEF Recycle
  <2>2. pool.buffers \in Seq(Buffer) BY DEF Pool
  <2>3. Sum(Caps(grown.buffers)) = Sum(Caps(pool.buffers)) + b.cap
    BY <2>2, SumOfKept
  <2>4. pool.pooled = Sum(Caps(pool.buffers)) BY AccountedSum
  <2>5. Accounted(grown) BY <2>3, <2>4, AccountedSum
  <2> QED BY <2>1, <2>5
<1>2. CASE ~Keeps(pool, b) BY <1>2 DEF Recycle
<1> QED BY <1>1, <1>2

(* An empty pool counts nothing.                                           *)
LEMMA EmptyAccounted == Accounted(NoScratch)
<1>1. DOMAIN Caps(<<>>) = {} BY DEF Caps
<1>2. Sum(Caps(<<>>)) = 0 BY <1>1, SumEmpty
<1> QED BY <1>2, AccountedSum DEF NoScratch

(* A codec's buffer, taken and filled.                                     *)
LEMMA FilledAccounted ==
  ASSUME SizesInv, PoolAccounted, NEW s \in Seq(Byte),
         NEW taken, taken = TakeStale(scratch, Len(s)),
         NEW b, b = [taken.buffer EXCEPT !.bytes = s]
  PROVE  /\ Accounted(taken.scratch)
         /\ Accounted(Recycle(taken.scratch, b))
         /\ Accounted(Recycle(taken.scratch, dst))
<1>1. taken.scratch \in Pool /\ b \in Buffer BY FilledBuffer
<1>2. scratch \in Pool /\ dst \in Buffer /\ Len(s) \in Nat
  BY VectorsTyped DEF SizesInv
<1>3. Accounted(taken.scratch) BY <1>2, TakeAccounted DEF PoolAccounted
<1> QED BY <1>1, <1>2, <1>3, RecycleAccounted

(* Every step that changes the pool keeps its count exact.                 *)
LEMMA PoolStep ==
  ASSUME SizesInv, PoolAccounted, [Next]_vars PROVE PoolAccounted'
<1> DEFINE taken == TakeStale(scratch, Len(Current.bytes))
           b == [taken.buffer EXCEPT !.bytes = Current.bytes]
<1>1. CASE scratch' = scratch BY <1>1 DEF PoolAccounted
<1>2. CASE OpenFrame
  <2>1. scratch' = scratch \/ scratch' = Take(scratch, 0).scratch
    BY <1>2 DEF OpenFrame
  <2>2. Take(scratch, 0).scratch = TakeStale(scratch, 0).scratch
    BY DEF Take, TakeStale
  <2>3. scratch \in Pool BY VectorsTyped DEF SizesInv
  <2>4. Accounted(TakeStale(scratch, 0).scratch)
    BY <2>3, TakeAccounted DEF PoolAccounted
  <2> QED BY <2>1, <2>2, <2>4 DEF PoolAccounted
<1>3. CASE AllocationFails \/ AppendOwned \/ HoldOwned
  <2>1. phase = "chunk" /\ next <= Len(call.frame.chunks)
    BY <1>3 DEF AllocationFails, AppendOwned, HoldOwned, Ready
  <2>2. Current.bytes \in Seq(Byte) BY <2>1, CurrentTyped DEF SizesInv
  <2>3. /\ Accounted(taken.scratch) /\ Accounted(Recycle(taken.scratch, b))
        /\ Accounted(Recycle(taken.scratch, dst))
    BY <2>2, FilledAccounted
  <2>4. scratch' \in {scratch, taken.scratch, Recycle(taken.scratch, b),
                      Recycle(taken.scratch, dst)}
    BY <1>3 DEF AllocationFails, AppendOwned, HoldOwned
  <2> HIDE DEF taken, b
  <2> QED BY <2>3, <2>4 DEF PoolAccounted
<1>4. CASE Sink \/ Return
  <2>1. scratch' \in {scratch, Recycle(scratch, owned), Recycle(scratch, buffer)}
    BY <1>4 DEF Sink, Return
  <2>2. scratch \in Pool /\ owned \in Buffer /\ buffer \in Buffer
    BY VectorsTyped DEF SizesInv
  <2>3. /\ Accounted(Recycle(scratch, owned))
        /\ Accounted(Recycle(scratch, buffer))
    BY <2>2, RecycleAccounted DEF PoolAccounted
  <2> QED BY <2>1, <2>3 DEF PoolAccounted
<1>5. CASE ShrinkToFit
  BY <1>5, EmptyAccounted DEF ShrinkToFit, PoolAccounted
<1>6. scratch' = scratch \/ OpenFrame \/ AllocationFails \/ AppendOwned
      \/ HoldOwned \/ Sink \/ Return \/ ShrinkToFit
  BY DEF Next, vars, Call, DecodeSingleZstd, TakeFails, AppendTail,
         AppendTailToBuffer, AppendBorrowed, Charge, Verify, Finish
<1> QED BY <1>1, <1>2, <1>3, <1>4, <1>5, <1>6
-----------------------------------------------------------------------------
(* A fresh decoder satisfies the whole invariant.                          *)
LEMMA InitDecodeInv == Init => DecodeInv
<1> SUFFICES ASSUME Init PROVE DecodeInv OBVIOUS
<1>1. SizesInv BY InitInv
<1>2. ContentExact BY DEF Init, ContentExact, NoCall, Streaming
<1>3. SinkSeesVerifiedPrefix BY DEF Init, SinkSeesVerifiedPrefix
<1>4. PoolAccounted BY EmptyAccounted DEF Init, PoolAccounted
<1> QED BY <1>1, <1>2, <1>3, <1>4 DEF DecodeInv

(* The invariant of a decoder's life holds in every reachable state.       *)
THEOREM DecodeInvariant == Spec => []DecodeInv
<1>1. DecodeInv /\ [Next]_vars => DecodeInv'
  BY SizesStep, ContentStep, PoolStep DEF DecodeInv
<1> QED BY <1>1, InitDecodeInv, PTL DEF Spec

(* decode_into and decode_outputs append the declared size, which is       *)
(* within the limits, or restore the output; decode_chunks leaves it alone *)
(* and passes the declared size to the sink.                               *)
THEOREM OutputIsRestoredOrComplete == Spec => []OutputRestoredOrComplete
<1>1. DecodeInv => OutputRestoredOrComplete BY DEF DecodeInv, SizesInv
<1> QED BY <1>1, DecodeInvariant, PTL

(* The scratch pool never exceeds its caps, for all limits and frames.     *)
THEOREM PoolStaysWithinCaps == Spec => []PoolWithinCaps
<1>1. DecodeInv => PoolWithinCaps BY DEF DecodeInv, SizesInv
<1> QED BY <1>1, DecodeInvariant, PTL

(* The pool's count of its capacity is the sum of its buffers' capacities, *)
(* through every take, recycle, move and failure (DecodeScratch).          *)
THEOREM PoolCountIsExact == Spec => []PoolAccounted
<1>1. DecodeInv => PoolAccounted BY DEF DecodeInv
<1> QED BY <1>1, DecodeInvariant, PTL

(* The sink of decode_chunks sees the first chunks of the frame, each once *)
(* and in order, each verified first, and no more than the frame declares. *)
THEOREM SinkIsGivenVerifiedPrefix == Spec => []SinkSeesVerifiedPrefix
<1>1. DecodeInv => SinkSeesVerifiedPrefix BY DEF DecodeInv
<1> QED BY <1>1, DecodeInvariant, PTL

(* The types of a decoder's state.                                         *)
THEOREM DecodeTypes == Spec => []TypeOK
<1>1. DecodeInv => TypeOK BY DEF DecodeInv, SizesInv
<1> QED BY <1>1, DecodeInvariant, PTL
-----------------------------------------------------------------------------
(* The atomic decoder.  Every step of a decode is a stutter of it, but the *)
(* first, which starts a job, and the last, which accepts or refuses it.   *)
LEMMA InitImplements == Init => Contract!Init
<1> SUFFICES ASSUME Init PROVE Contract!Init OBVIOUS
<1>1. dst.bytes = <<>> BY DEF Init, NewBuffer
<1> QED BY <1>1 DEF Init, Contract!Init, Contract!NoJob

(* A call starts the atomic one.                                           *)
LEMMA CallStarts ==
  ASSUME DecodeInv, NEW to \in {"into", "chunks", "outputs"},
         NEW f \in Frames, NEW v \in BOOLEAN, Call(to, f, v)
  PROVE  Contract!Start
<1>1. /\ phase = "idle" /\ phase' = "open" /\ result' = "none"
      /\ call' = [to |-> to, frame |-> f, verify |-> v]
      /\ saved' = dst'.bytes
      /\ dst' = IF to = "outputs" THEN Truncated(dst, 0) ELSE dst
  BY DEF Call
<1>2. dst \in Buffer BY VectorsTyped DEF DecodeInv, SizesInv
<1>3. to = "outputs" => dst'.bytes = <<>>
  BY <1>1, <1>2, SubSeqEmpty DEF Truncated, Buffer
<1> QED BY <1>1, <1>3 DEF Contract!Start, Contract!NoJob

(* Both modules mean the same by the content of a frame.                   *)
LEMMA SameContent ==
  ASSUME NEW f \in Frames
  PROVE  Contract!Content(f) = Content(f, Len(f.chunks))
<1>1. DOMAIN f.chunks = 1 .. Len(f.chunks) BY FrameTyped
<1>2. ASSUME NEW s PROVE Contract!FlattenSeq(s) = FlattenSeq(s)
  BY DEF Contract!FlattenSeq, FlattenSeq
<1>3. Contract!Content(f)
        = Contract!FlattenSeq([k \in 1 .. Len(f.chunks) |-> f.chunks[k].bytes])
  BY <1>1 DEF Contract!Content
<1> QED BY <1>2, <1>3 DEF Content

(* The end of a call that succeeds accepts its job.                        *)
LEMMA Accepts ==
  ASSUME SizesInv, phase # "idle", phase' = "idle", result' = "ok",
         Sound(call.frame, call.verify),
         dst'.bytes = IF Streaming THEN saved
                      ELSE saved \o Content(call.frame, Len(call.frame.chunks))
  PROVE  Contract!Accept
<1>1. call.frame \in Frames BY CallTyped DEF SizesInv
<1>2. Contract!Content(call.frame) = Content(call.frame, Len(call.frame.chunks))
  BY <1>1, SameContent
<1> QED BY <1>2 DEF Contract!Accept, Contract!NoJob, Streaming

(* The end of a call that fails refuses it, or was interrupted.            *)
LEMMA Refuses ==
  ASSUME phase # "idle", phase' = "idle", result' \notin {"ok", "none"},
         \/ result' \in {"AllocationFailed", "Sink"}
         \/ ~Sound(call.frame, call.verify),
         dst'.bytes = saved
  PROVE  Contract!Refuse
BY DEF Contract!Refuse, Contract!NoJob

(* Nothing of a decode shows before it ends.                               *)
LEMMA Hidden ==
  ASSUME phase # "idle", phase' # "idle", call' = call, saved' = saved
  PROVE  UNCHANGED Contract!vars
BY DEF Contract!vars

(* The single zstd chunk is accepted or refused in one step.               *)
LEMMA DecodeSingleZstdImplements ==
  ASSUME DecodeInv, DecodeSingleZstd PROVE Contract!Accept \/ Contract!Refuse
<1> DEFINE f == call.frame
           chunk == f.chunks[1]
           verdict == SingleZstdVerdict(chunk)
           b == Appended(dst, chunk.bytes)
<1>1. /\ phase = "open" /\ ~Streaming /\ f.serial /\ Len(f.chunks) = 1
      /\ result' = verdict /\ phase' = "idle"
      /\ dst' = IF verdict \in {"ok", "ChecksumMismatch"}
                THEN IF verdict = "ok" THEN b ELSE Truncated(b, Len(saved))
                ELSE dst
      /\ call' = call /\ saved' = saved
  BY DEF DecodeSingleZstd, SingleZstd
<1>2. dst.bytes = saved BY <1>1 DEF DecodeInv, ContentExact
<1>3. TypeOK /\ SizesInv BY DEF DecodeInv, SizesInv
<1>4. /\ f \in Frames /\ chunk.bytes \in Seq(Byte) /\ DOMAIN f.chunks = {1}
      /\ 0 < Len(f.chunks)
  <2>1. f \in Frames BY <1>1, <1>3, CallTyped
  <2>2. 1 .. Len(f.chunks) = {1} /\ 1 \in 1 .. Len(f.chunks) BY <1>1
  <2> HIDE DEF f
  <2> QED BY <1>1, <2>1, <2>2, FrameTyped
<1>5. Content(f, Len(f.chunks)) = chunk.bytes
  <2>1. 0 \in Nat /\ 0 <= Len(f.chunks) /\ 0 < Len(f.chunks) /\ 0 + 1 = 1
    BY <1>4, FrameTyped
  <2>2. Content(f, 0) = <<>>
    <3> HIDE DEF f
    <3> QED BY <1>4, <2>1, ContentTyped
  <2>3. Content(f, 0 + 1) = Content(f, 0) \o f.chunks[0 + 1].bytes
    <3> HIDE DEF f
    <3> QED BY <1>4, <2>1, ContentGrows
  <2>4. <<>> \o chunk.bytes = chunk.bytes BY <1>4, ConcatEmptySeq
  <2> QED BY <1>1, <2>1, <2>2, <2>3, <2>4
<1>6. dst \in Buffer /\ saved \in Seq(Byte) BY <1>3, VectorsTyped
<1>7. b \in Buffer /\ b.bytes = saved \o chunk.bytes
  BY <1>2, <1>4, <1>6, VecAppended
<1>8. BudgetError(f) = "none" => WithinLimits(f) BY <1>4, BudgetOk
<1>9. CASE BudgetError(f) # "none"
  <2>1. verdict = BudgetError(f) BY <1>9 DEF SingleZstdVerdict
  <2>2. verdict \notin {"ok", "none", "ChecksumMismatch"}
    BY <1>9, <2>1 DEF BudgetError
  <2>3. ~Sound(f, call.verify) BY <1>4, <1>9, BudgetErrorRefuses
  <2>4. dst'.bytes = saved BY <1>1, <1>2, <2>2
  <2> QED BY <1>1, <2>2, <2>3, <2>4, Refuses
<1>10. CASE /\ BudgetError(f) = "none"
            /\ chunk.fails \/ Len(chunk.bytes) # Declared
  <2>1. verdict = "Malformed" BY <1>10 DEF SingleZstdVerdict
  <2>2. ~Sound(f, call.verify)
    BY <1>4, <1>5, <1>10 DEF Sound, Declared
  <2>3. dst'.bytes = saved BY <1>1, <1>2, <2>1
  <2> QED BY <1>1, <2>1, <2>2, <2>3, Refuses
<1>11. CASE /\ BudgetError(f) = "none"
            /\ ~chunk.fails /\ Len(chunk.bytes) = Declared
            /\ Mismatch(chunk, chunk.bytes)
  <2>1. verdict = "ChecksumMismatch" BY <1>11 DEF SingleZstdVerdict
  <2>2. ~Sound(f, call.verify) BY <1>4, <1>11 DEF Sound, Mismatch
  <2>3. dst' = Truncated(b, Len(saved)) BY <1>1, <2>1
  <2>4. Len(saved) <= Len(b.bytes) /\ SubSeq(b.bytes, 1, Len(saved)) = saved
    <3>1. Len(saved) <= Len(saved) /\ SubSeq(saved, 1, Len(saved)) = saved
      BY <1>6, SubSeqFull
    <3> HIDE DEF b
    <3> QED BY <1>4, <1>6, <1>7, <3>1, PrefixKept
  <2>5. dst'.bytes = saved BY <1>6, <1>7, <2>3, <2>4, TruncationRestores
  <2> QED BY <1>1, <2>1, <2>2, <2>5, Refuses
<1>12. CASE /\ BudgetError(f) = "none"
            /\ ~chunk.fails /\ Len(chunk.bytes) = Declared
            /\ ~Mismatch(chunk, chunk.bytes)
  <2>1. verdict = "ok" BY <1>12 DEF SingleZstdVerdict
  <2>2. Sound(f, call.verify)
    BY <1>1, <1>4, <1>5, <1>8, <1>12 DEF Sound, Mismatch, Declared
  <2>3. dst'.bytes = saved \o Content(f, Len(f.chunks))
    BY <1>1, <1>5, <1>7, <2>1
  <2> QED BY <1>1, <1>3, <2>1, <2>2, <2>3, Accepts
<1> QED BY <1>9, <1>10, <1>11, <1>12

(* The frame header refuses the call or leaves it open.                    *)
LEMMA OpenFrameImplements ==
  ASSUME DecodeInv, OpenFrame PROVE [Contract!Next]_(Contract!vars)
<1>1. /\ phase = "open" /\ call' = call /\ saved' = saved /\ dst' = dst
      /\ dst.bytes = saved
  BY DEF OpenFrame, DecodeInv, ContentExact
<1>2. CASE ~call.frame.serial
  <2>1. phase' = "idle" /\ result' = "Unsupported" BY <1>2 DEF OpenFrame
  <2>2. ~Sound(call.frame, call.verify) BY <1>2 DEF Sound
  <2>3. Contract!Refuse BY <1>1, <2>1, <2>2, Refuses
  <2> QED BY <2>3 DEF Contract!Next
<1>3. CASE call.frame.serial
  <2>1. phase' \in {"return", "chunk"} BY <1>3 DEF OpenFrame, Leave
  <2>2. UNCHANGED Contract!vars BY <1>1, <2>1, Hidden
  <2> QED BY <2>2
<1> QED BY <1>2, <1>3

(* decode_plan_with_context truncates after a failure.                     *)
LEMMA ReturnImplements ==
  ASSUME DecodeInv, Return PROVE Contract!Accept \/ Contract!Refuse
<1>1. /\ phase = "return" /\ phase' = "idle" /\ result' = result
      /\ Streaming => dst' = dst
      /\ ~Streaming =>
           dst' = IF result = "ok" THEN dst ELSE Truncated(dst, Len(saved))
  BY DEF Return
<1>2. /\ SizesInv /\ TypeOK /\ Kept /\ ContentExact
      /\ (Streaming => dst.bytes = saved) /\ result # "none"
  BY <1>1 DEF DecodeInv, SizesInv, BudgetExact
<1>3. CASE result = "ok"
  <2>1. /\ Sound(call.frame, call.verify)
        /\ Given(Len(call.frame.chunks))
    BY <1>1, <1>2, <1>3 DEF ContentExact
  <2>2. dst'.bytes = IF Streaming THEN saved
                     ELSE saved \o Content(call.frame, Len(call.frame.chunks))
    BY <1>1, <1>2, <1>3, <2>1 DEF Given
  <2> QED BY <1>1, <1>2, <1>3, <2>1, <2>2, Accepts
<1>4. CASE result # "ok"
  <2>1. dst \in Buffer /\ saved \in Seq(Byte) BY <1>2, VectorsTyped
  <2>2. Truncated(dst, Len(saved)).bytes = saved
    BY <1>2, <2>1, TruncationRestores DEF Kept
  <2>3. dst'.bytes = saved BY <1>1, <1>2, <1>4, <2>2
  <2>4. \/ result \in {"AllocationFailed", "Sink"}
        \/ ~Sound(call.frame, call.verify)
    BY <1>1, <1>2, <1>4 DEF ContentExact
  <2> QED BY <1>1, <1>2, <1>4, <2>3, <2>4, Refuses
<1> QED BY <1>3, <1>4

(* The decode in between: a step of it stays inside the call.              *)
LEMMA StepImplements ==
  ASSUME DecodeInv, [Next]_vars PROVE [Contract!Next]_(Contract!vars)
<1>1. CASE UNCHANGED vars BY <1>1 DEF vars, Contract!vars
<1>2. ASSUME NEW to \in {"into", "chunks", "outputs"}, NEW f \in Frames,
             NEW v \in BOOLEAN, Call(to, f, v)
      PROVE  Contract!Next
  BY <1>2, CallStarts DEF Contract!Next
<1>3. CASE DecodeSingleZstd
  BY <1>3, DecodeSingleZstdImplements DEF Contract!Next
<1>4. CASE OpenFrame BY <1>4, OpenFrameImplements
<1>5. CASE Return BY <1>5, ReturnImplements DEF Contract!Next
<1>6. CASE ShrinkToFit BY <1>6 DEF ShrinkToFit, Contract!vars
<1>7. CASE AllocationFails \/ TakeFails \/ AppendTail \/ AppendTailToBuffer
           \/ AppendBorrowed \/ AppendOwned \/ HoldOwned \/ Charge \/ Verify
           \/ Sink \/ Finish
  <2>1. /\ phase # "idle" /\ phase' # "idle" /\ call' = call /\ saved' = saved
    BY <1>7 DEF AllocationFails, TakeFails, AppendTail, AppendTailToBuffer,
                AppendBorrowed, AppendOwned, HoldOwned, Charge, Verify, Sink,
                Finish, Ready, Leave
  <2>2. UNCHANGED Contract!vars BY <2>1, Hidden
  <2> QED BY <2>2
<1> QED BY <1>1, <1>2, <1>3, <1>4, <1>5, <1>6, <1>7 DEF Next

(* Every entry point keeps the contract of AtomicDecode, whatever the      *)
(* frames, the limits and the number of calls: all of the content of a     *)
(* sound frame, or the output as it was.                                   *)
THEOREM DecodeImplementsAtomicDecode == Spec => ImplementsAtomicDecode
<1>1. DecodeInv /\ [Next]_vars => [Contract!Next]_(Contract!vars)
  BY StepImplements
<1> QED BY <1>1, InitImplements, DecodeInvariant, PTL
        DEF Spec, ImplementsAtomicDecode, Contract!Spec
=============================================================================
