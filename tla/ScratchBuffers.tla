--------------------------- MODULE ScratchBuffers ---------------------------
(***************************************************************************)
(* The operations of DecodeScratch (execute/runtime.rs) on a pool value    *)
(* [buffers, pooled]: the buffers it keeps, in vector order, and its count *)
(* of their capacity.  A buffer is [cap, bytes].                           *)
(***************************************************************************)
EXTENDS Integers, Sequences, SequencesExt

CONSTANTS MaxPooledBuffers, MaxPooledBytes

ASSUME PoolAssumption == MaxPooledBuffers \in Nat /\ MaxPooledBytes \in Nat

NoScratch == [buffers |-> <<>>, pooled |-> 0]

NewBuffer(capacity) == [cap |-> capacity, bytes |-> <<>>]

Fitting(scratch, capacity) ==
  {i \in DOMAIN scratch.buffers : scratch.buffers[i].cap >= capacity}

(* min_by_key keeps the first of the smallest fitting buffers.             *)
BestFit(scratch, capacity) ==
  CHOOSE i \in Fitting(scratch, capacity) :
    \A j \in Fitting(scratch, capacity) :
      LET a == scratch.buffers[i].cap
          b == scratch.buffers[j].cap
      IN  a < b \/ (a = b /\ i <= j)

(* Vec::swap_remove: the last element takes the place of the removed one.  *)
SwapRemove(s, i) == IF i = Len(s) THEN Front(s)
                    ELSE [Front(s) EXCEPT ![i] = Last(s)]

(* take_pooled_or_new: the pool and the buffer after the call.             *)
TakeStaleMutant(scratch, capacity) ==
  IF Fitting(scratch, capacity) = {}
  THEN [scratch |-> scratch, buffer |-> NewBuffer(capacity), new |-> TRUE]
  ELSE LET i == BestFit(scratch, capacity)
           b == scratch.buffers[i]
       IN  [scratch |-> [scratch EXCEPT !.buffers = SwapRemove(@, i)],
            buffer |-> b, new |-> FALSE]
TakeStale(scratch, capacity) ==
  IF Fitting(scratch, capacity) = {}
  THEN [scratch |-> scratch, buffer |-> NewBuffer(capacity), new |-> TRUE]
  ELSE LET i == BestFit(scratch, capacity)
           b == scratch.buffers[i]
       IN  [scratch |-> [buffers |-> SwapRemove(scratch.buffers, i),
                         pooled  |-> scratch.pooled - b.cap],
            buffer |-> b, new |-> FALSE]

(* take_byte_buffer empties what it took.                                  *)
Take(scratch, capacity) ==
  LET taken == TakeStale(scratch, capacity)
  IN  [taken EXCEPT !.buffer.bytes = <<>>]

Keeps(scratch, buffer) ==
  /\ buffer.cap # 0
  /\ Len(scratch.buffers) # MaxPooledBuffers
  /\ buffer.cap <= MaxPooledBytes - scratch.pooled

(* recycle_byte_buffer: a buffer the pool does not keep is freed.          *)
RecycleMutant(scratch, buffer) ==
  IF buffer.cap # 0 /\ Len(scratch.buffers) # MaxPooledBuffers
  THEN [buffers |-> Append(scratch.buffers, buffer),
        pooled  |-> scratch.pooled + buffer.cap]
  ELSE scratch
Recycle(scratch, buffer) ==
  IF Keeps(scratch, buffer)
  THEN [buffers |-> Append(scratch.buffers, buffer),
        pooled  |-> scratch.pooled + buffer.cap]
  ELSE scratch

(* Both caps of the pool hold, and it keeps no buffer without capacity.    *)
WithinCaps(scratch) ==
  /\ scratch.pooled <= MaxPooledBytes
  /\ Len(scratch.buffers) <= MaxPooledBuffers
  /\ \A i \in DOMAIN scratch.buffers : scratch.buffers[i].cap > 0

(* The pool's count is the capacity of the buffers it keeps.               *)
Accounted(scratch) ==
  scratch.pooled =
    FoldLeft(+, 0, [i \in DOMAIN scratch.buffers |-> scratch.buffers[i].cap])
=============================================================================
