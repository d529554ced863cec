---------------------------- MODULE FrameDecode ----------------------------
(***************************************************************************)
(* Decoding the chunks of a parsed frame with one serial output            *)
(* (execute.rs, execute/output.rs): the size budget, the four ways a chunk *)
(* reaches the output, the checksums, the sink of decode_chunks, and the   *)
(* way every failure unwinds.                                              *)
(*                                                                         *)
(* A decoder lives through several calls: the caller's vector and the      *)
(* scratch pool pass from one to the next.  A chunk is what its graph      *)
(* computes (StreamGraph): `bytes`, or an error after writing `bytes`.     *)
(***************************************************************************)
EXTENDS ScratchBuffers, FiniteSets

CONSTANTS
  Byte,
  Frames,         \* the frames calls may decode
  MaxDecoded,     \* min(Limits::max_decoded_bytes, max_buffer_bytes)
  ExemptBytes,    \* Limits::expansion_ratio_exempt_bytes
  MaxRatio,       \* Limits::max_expansion_ratio
  MaxUsize,
  MaxCalls        \* model bound: calls of one decoder

Unknown == -1

(* How a chunk's bytes come out of its nodes: "stored" has no nodes;       *)
(* "borrowed" graphs only move a stored stream; "owned" graphs end in a    *)
(* pooled buffer; "lz" and "zstd" are direct-append tails.  Only the zstd  *)
(* kernel looks at the rest of the frame's size.                           *)
Paths == {"stored", "borrowed", "owned", "lz", "zstd"}
Tails == {"lz", "zstd"}

(* sum holds what the stored checksum is a checksum of, if there is one.   *)
Chunk == [path : Paths, bytes : Seq(Byte), fails : BOOLEAN,
          sum : SUBSET Seq(Byte)]

ASSUME FrameAssumption ==
  /\ {MaxDecoded, ExemptBytes, MaxRatio, MaxUsize, MaxCalls} \subseteq Nat
  /\ \A f \in Frames :
       /\ f \in [serial : BOOLEAN, declared : Nat \cup {Unknown},
                 encoded : Nat, chunks : Seq(Chunk)]

VARIABLES
  phase,          \* idle, open, chunk, charge, verify, sink or return
  call,           \* [to, frame, verify]
  dst,            \* the caller's vector
  saved,          \* its bytes when the call began; start_len is their number
  budget,         \* OutputBudget [written, reserved]
  next,           \* the chunk decode has come to
  decoded,        \* bytes of the chunk just decoded
  owned,          \* decode_chunks: the buffer that holds them, if owned
  buffer,         \* decode_chunks: the buffer tails append to
  scratch,        \* DecodeScratch
  seen,           \* what the sink was given
  result,         \* of the last call
  calls

vars == <<phase, call, dst, saved, budget, next, decoded, owned, buffer,
          scratch, seen, result, calls>>

NoBuffer == NewBuffer(0)
NoBudget == [written |-> 0, reserved |-> FALSE]
NoCall   == [to |-> "none"]

Streaming == call.to = "chunks"
Declared  == call.frame.declared
Remaining == Declared - budget.written
Current   == call.frame.chunks[next]

Init ==
  /\ phase = "idle" /\ call = NoCall /\ saved = <<>>
  /\ dst \in {NewBuffer(c) : c \in 0 .. 1}
  /\ budget = NoBudget /\ next = 1 /\ decoded = <<>>
  /\ owned = NoBuffer /\ buffer = NoBuffer /\ scratch = NoScratch
  /\ seen = <<>> /\ result = "none" /\ calls = 0
-----------------------------------------------------------------------------
(* Vec: room for n more bytes; appending; truncating.                      *)
Roomy(b, n)     == b.cap >= Len(b.bytes) + n
Reserved(b, n)  == IF Roomy(b, n) THEN b
                   ELSE [b EXCEPT !.cap = Len(b.bytes) + n]
Appended(b, s)  == [Reserved(b, Len(s)) EXCEPT !.bytes = b.bytes \o s]
Truncated(b, n) == [b EXCEPT !.bytes = SubSeq(b.bytes, 1, n)]

(* OutputBudget::new: check_output_len, then check_expansion.              *)
BudgetErrorMutant(f) ==
  IF f.declared = Unknown THEN "Unsupported"
  ELSE IF f.declared <= ExemptBytes THEN "none"
  ELSE IF f.encoded * MaxRatio > MaxUsize THEN "IntegerOverflow"
  ELSE IF f.declared > f.encoded * MaxRatio THEN "LimitExceeded"
  ELSE "none"
BudgetError(f) ==
  IF f.declared = Unknown THEN "Unsupported"
  ELSE IF f.declared > MaxDecoded THEN "LimitExceeded"
  ELSE IF f.declared <= ExemptBytes THEN "none"
  ELSE IF f.encoded * MaxRatio > MaxUsize THEN "IntegerOverflow"
  ELSE IF f.declared > f.encoded * MaxRatio THEN "LimitExceeded"
  ELSE "none"

Mismatch(chunk, bytes) == call.verify /\ \E s \in chunk.sum : s # bytes

Leave(kind) == phase' = "return" /\ result' = kind
-----------------------------------------------------------------------------
Call(to, frame, verify) ==
  /\ phase = "idle" /\ calls < MaxCalls
  /\ to = "outputs" => frame.serial   \* other outputs: decode_outputs proper
  /\ call' = [to |-> to, frame |-> frame, verify |-> verify]
  \* reset_outputs clears the entry decode_outputs reuses.
  /\ dst' = IF to = "outputs" THEN Truncated(dst, 0) ELSE dst
  /\ saved' = dst'.bytes
  /\ phase' = "open" /\ result' = "none" /\ calls' = calls + 1
  /\ budget' = NoBudget /\ next' = 1 /\ decoded' = <<>> /\ seen' = <<>>
  /\ UNCHANGED <<owned, buffer, scratch>>

(* decode_into and decode_outputs try a single zstd chunk first.           *)
SingleZstd ==
  /\ ~Streaming /\ call.frame.serial
  /\ Len(call.frame.chunks) = 1 /\ call.frame.chunks[1].path = "zstd"

SingleZstdVerdict(chunk) ==
  IF BudgetError(call.frame) # "none" THEN BudgetError(call.frame)
  ELSE IF chunk.fails \/ Len(chunk.bytes) # Declared THEN "Malformed"
  ELSE IF Mismatch(chunk, chunk.bytes) THEN "ChecksumMismatch"
  ELSE "ok"

(* Every failure truncates here and now.                                   *)
DecodeSingleZstd ==
  LET chunk   == call.frame.chunks[1]
      verdict == SingleZstdVerdict(chunk)
  IN  /\ phase = "open" /\ SingleZstd
      /\ result' = verdict /\ phase' = "idle"
      /\ dst' = IF verdict \in {"ok", "ChecksumMismatch"}
                THEN LET b == Appended(dst, chunk.bytes)
                     IN  IF verdict = "ok" THEN b
                         ELSE Truncated(b, Len(saved))
                ELSE dst
      /\ UNCHANGED <<call, saved, budget, next, decoded, owned, buffer,
                     scratch, seen, calls>>

(* Type check, then decode_chunks takes its buffer, then the budget.       *)
OpenFrame ==
  /\ phase = "open" /\ ~SingleZstd
  /\ IF ~call.frame.serial
     THEN /\ phase' = "idle" /\ result' = "Unsupported"
          /\ UNCHANGED <<buffer, scratch>>
     ELSE /\ IF Streaming
             THEN LET taken == Take(scratch, 0)
                  IN  buffer' = taken.buffer /\ scratch' = taken.scratch
             ELSE UNCHANGED <<buffer, scratch>>
          /\ IF BudgetError(call.frame) # "none"
             THEN Leave(BudgetError(call.frame))
             ELSE phase' = "chunk" /\ UNCHANGED result
  /\ UNCHANGED <<call, dst, saved, budget, next, decoded, owned, seen, calls>>
-----------------------------------------------------------------------------
Ready(paths) ==
  /\ phase = "chunk" /\ next <= Len(call.frame.chunks)
  /\ Current.path \in paths

(* budget.reserve, once per frame.                                         *)
Reserve(b) == IF budget.reserved THEN b ELSE Reserved(b, Remaining)

(* A lone owned chunk moves into an empty dst that is too small for it.    *)
Moves(size) ==
  /\ Len(call.frame.chunks) = 1 /\ dst.bytes = <<>>
  /\ dst.cap < size

(* The output vector must grow for the chunk, by the reservation or by the *)
(* append.                                                                 *)
Grows ==
  LET size == Len(Current.bytes)
  IN  IF Streaming THEN Current.path \in Tails /\ buffer.cap < size
      ELSE /\ ~(Current.path = "owned" /\ Moves(size))
           /\ \/ ~budget.reserved /\ ~Roomy(dst, Remaining)
              \/ ~Roomy(Reserve(dst), size)

(* An owned buffer goes back to the pool even when the output cannot grow. *)
AllocationFails ==
  /\ Ready(Paths) /\ Grows
  /\ ~Current.fails \/ Current.path \in Tails
  /\ scratch' = IF Current.path = "owned"
                THEN LET taken == TakeStale(scratch, Len(Current.bytes))
                     IN  Recycle(taken.scratch,
                                 [taken.buffer EXCEPT !.bytes = Current.bytes])
                ELSE scratch
  /\ Leave("AllocationFailed")
  /\ UNCHANGED <<call, dst, saved, budget, next, decoded, owned, buffer, seen,
                 calls>>

(* The pool has no buffer for an owned chunk and cannot make one.          *)
TakeFails ==
  /\ Ready({"owned"}) /\ Current.bytes # <<>>
  /\ TakeStale(scratch, Len(Current.bytes)).new
  /\ Leave("AllocationFailed")
  /\ UNCHANGED <<call, dst, saved, budget, next, decoded, owned, buffer,
                 scratch, seen, calls>>

(* What a tail leaves in the vector it appends to: zstd is capped and      *)
(* truncates, the LZ kernels write up to their own header's size.          *)
TailStops(chunk) ==
  chunk.fails \/ (chunk.path = "zstd" /\ Len(chunk.bytes) > Remaining)

TailLeaves(chunk, b) ==
  IF TailStops(chunk) /\ chunk.path = "zstd" THEN b
  ELSE Appended(b, chunk.bytes)

(* decode_transform_chunk_appending onto dst.                              *)
AppendTail ==
  /\ Ready(Tails) /\ ~Streaming
  /\ budget' = [budget EXCEPT !.reserved = TRUE]
  /\ dst' = TailLeaves(Current, Reserve(dst))
  /\ decoded' = SubSeq(dst'.bytes, Len(dst.bytes) + 1, Len(dst'.bytes))
  /\ IF TailStops(Current) THEN Leave("Malformed")
     ELSE phase' = "charge" /\ UNCHANGED result
  /\ UNCHANGED <<call, saved, next, owned, buffer, scratch, seen, calls>>

(* ... and onto the buffer of decode_chunks, which no budget reserves.     *)
AppendTailToBuffer ==
  /\ Ready(Tails) /\ Streaming
  /\ buffer' = TailLeaves(Current, Truncated(buffer, 0))
  /\ decoded' = buffer'.bytes
  /\ IF TailStops(Current) THEN Leave("Malformed")
     ELSE phase' = "charge" /\ UNCHANGED result
  /\ UNCHANGED <<call, dst, saved, budget, next, owned, scratch, seen, calls>>

(* stored_only_chunk, or a graph that only moves a stored stream.          *)
AppendBorrowed ==
  /\ Ready({"stored", "borrowed"})
  /\ IF Current.fails THEN Leave("Malformed") /\ UNCHANGED <<dst, budget, decoded>>
     ELSE /\ phase' = "charge" /\ UNCHANGED result
          /\ decoded' = Current.bytes
          /\ IF Streaming THEN UNCHANGED <<dst, budget>>
             ELSE /\ dst' = Appended(Reserve(dst), Current.bytes)
                  /\ budget' = [budget EXCEPT !.reserved = TRUE]
  /\ buffer' = IF Streaming THEN Truncated(buffer, 0) ELSE buffer
  /\ UNCHANGED <<call, saved, next, owned, scratch, seen, calls>>

(* append_decoded_chunk of an owned buffer: it is copied and recycled, or  *)
(* moved, and then dst's own allocation goes to the pool.                  *)
AppendOwned ==
  LET taken == TakeStale(scratch, Len(Current.bytes))
      b     == [taken.buffer EXCEPT !.bytes = Current.bytes]
  IN  /\ Ready({"owned"}) /\ ~Streaming
      /\ IF Current.fails
         THEN \* The kernel drops its buffer, or recycles it.
              /\ scratch' \in {taken.scratch, Recycle(taken.scratch, b)}
              /\ Leave("Malformed") /\ UNCHANGED <<dst, budget, decoded>>
         ELSE /\ phase' = "charge" /\ UNCHANGED result
              /\ decoded' = Current.bytes
              /\ IF Moves(Len(b.bytes))
                 THEN /\ dst' = b /\ UNCHANGED budget
                      /\ scratch' = Recycle(taken.scratch, dst)
                 ELSE /\ dst' = Appended(Reserve(dst), Current.bytes)
                      /\ budget' = [budget EXCEPT !.reserved = TRUE]
                      /\ scratch' = Recycle(taken.scratch, b)
      /\ UNCHANGED <<call, saved, next, owned, buffer, seen, calls>>

(* decode_chunks keeps an owned buffer until the sink has seen it.         *)
HoldOwned ==
  LET taken == TakeStale(scratch, Len(Current.bytes))
      b     == [taken.buffer EXCEPT !.bytes = Current.bytes]
  IN  /\ Ready({"owned"}) /\ Streaming
      /\ buffer' = Truncated(buffer, 0)
      /\ IF Current.fails
         THEN /\ scratch' \in {taken.scratch, Recycle(taken.scratch, b)}
              /\ Leave("Malformed") /\ UNCHANGED <<owned, decoded>>
         ELSE /\ phase' = "charge" /\ UNCHANGED result
              /\ owned' = b /\ decoded' = b.bytes /\ scratch' = taken.scratch
      /\ UNCHANGED <<call, dst, saved, budget, next, seen, calls>>
-----------------------------------------------------------------------------
(* OutputBudget::consume, before the checksum.                             *)
ChargeMutant ==
  /\ phase = "charge"
  /\ phase' = "verify" /\ UNCHANGED result
  /\ budget' = [budget EXCEPT !.written = @ + Len(decoded)]
  /\ UNCHANGED <<call, dst, saved, next, decoded, owned, buffer, scratch, seen,
                 calls>>
Charge ==
  /\ phase = "charge"
  /\ IF Len(decoded) > Remaining
     THEN Leave("Malformed") /\ UNCHANGED budget
     ELSE /\ phase' = "verify" /\ UNCHANGED result
          /\ budget' = [budget EXCEPT !.written = @ + Len(decoded)]
  /\ UNCHANGED <<call, dst, saved, next, decoded, owned, buffer, scratch, seen,
                 calls>>

(* verify_decoded_checksum; without a sink the chunk is done.              *)
Verify ==
  /\ phase = "verify"
  /\ IF Mismatch(Current, decoded)
     THEN Leave("ChecksumMismatch") /\ UNCHANGED next
     ELSE /\ UNCHANGED result
          /\ IF Streaming THEN phase' = "sink" /\ UNCHANGED next
             ELSE phase' = "chunk" /\ next' = next + 1
  /\ UNCHANGED <<call, dst, saved, budget, decoded, owned, buffer, scratch,
                 seen, calls>>

(* The sink sees a verified chunk and may fail; then `owned` is dropped.   *)
Sink ==
  /\ phase = "sink"
  /\ seen' = seen \o decoded
  /\ owned' = NoBuffer
  /\ \/ /\ scratch' = Recycle(scratch, owned)
        /\ phase' = "chunk" /\ next' = next + 1 /\ UNCHANGED result
     \/ Leave("Sink") /\ UNCHANGED <<scratch, next>>
  /\ UNCHANGED <<call, dst, saved, budget, decoded, buffer, calls>>

(* OutputBudget::finish.                                                   *)
Finish ==
  /\ phase = "chunk" /\ next > Len(call.frame.chunks)
  /\ Leave(IF Remaining = 0 THEN "ok" ELSE "Malformed")
  /\ UNCHANGED <<call, dst, saved, budget, next, decoded, owned, buffer,
                 scratch, seen, calls>>

(* decode_plan_with_context truncates what a failed decode appended;       *)
(* decode_chunks_with_context recycles its buffer either way.              *)
ReturnMutant ==
  /\ phase = "return" /\ phase' = "idle"
  /\ IF Streaming
     THEN scratch' = Recycle(scratch, buffer) /\ UNCHANGED dst
     ELSE /\ UNCHANGED scratch
          /\ dst' = IF result = "ok" THEN dst
                    ELSE Truncated(dst, Len(saved) + budget.written)
  /\ buffer' = NoBuffer /\ owned' = NoBuffer
  /\ UNCHANGED <<call, saved, budget, next, decoded, seen, result, calls>>
Return ==
  /\ phase = "return" /\ phase' = "idle"
  /\ IF Streaming
     THEN scratch' = Recycle(scratch, buffer) /\ UNCHANGED dst
     ELSE /\ UNCHANGED scratch
          /\ dst' = IF result = "ok" THEN dst ELSE Truncated(dst, Len(saved))
  /\ buffer' = NoBuffer /\ owned' = NoBuffer
  /\ UNCHANGED <<call, saved, budget, next, decoded, seen, result, calls>>

(* Decoder::shrink_to_fit frees the pool.                                  *)
ShrinkToFit ==
  /\ phase = "idle" /\ scratch # NoScratch
  /\ scratch' = NoScratch
  /\ UNCHANGED <<phase, call, dst, saved, budget, next, decoded, owned, buffer,
                 seen, result, calls>>

Next ==
  \/ \E to \in {"into", "chunks", "outputs"}, f \in Frames, v \in BOOLEAN :
       Call(to, f, v)
  \/ DecodeSingleZstd
  \/ OpenFrame
  \/ AllocationFails
  \/ TakeFails
  \/ AppendTail
  \/ AppendTailToBuffer
  \/ AppendBorrowed
  \/ AppendOwned
  \/ HoldOwned
  \/ Charge
  \/ Verify
  \/ Sink
  \/ Finish
  \/ Return
  \/ ShrinkToFit

Spec == Init /\ [][Next]_vars
-----------------------------------------------------------------------------
(* When a frame decodes, read off the frame: its declared size is within   *)
(* the limits, is what its chunks hold, and their checksums are theirs.    *)
WithinLimits(frame) ==
  /\ frame.declared \in 0 .. MaxDecoded
  /\ \/ frame.declared <= ExemptBytes
     \/ /\ frame.encoded * MaxRatio <= MaxUsize
        /\ frame.declared <= frame.encoded * MaxRatio

Content(frame, n) ==
  FlattenSeq([k \in 1 .. n |-> frame.chunks[k].bytes])

Sound(frame, verify) ==
  /\ frame.serial /\ WithinLimits(frame)
  /\ \A k \in DOMAIN frame.chunks :
       LET chunk == frame.chunks[k]
       IN  ~chunk.fails /\ (verify => chunk.sum \subseteq {chunk.bytes})
  /\ Len(Content(frame, Len(frame.chunks))) = frame.declared

(* Every entry point keeps the contract of AtomicDecode: it accepts        *)
(* exactly the sound frames, appends their content and nothing else, and   *)
(* leaves the output alone on every failure, with dst, saved and the       *)
(* truncations of execute.rs in between.                                   *)
Contract == INSTANCE AtomicDecode WITH
  out <- IF phase = "idle" THEN dst.bytes ELSE saved,
  job <- IF phase = "idle" THEN <<>>
         ELSE <<call.frame, call.verify, call.to>>,
  verdict <- IF phase # "idle" \/ result = "none" THEN "none"
             ELSE IF result = "ok" THEN "accepted"
             ELSE IF result \in {"AllocationFailed", "Sink"}
                  THEN "interrupted"
             ELSE "refused"
ImplementsAtomicDecode == Contract!Spec

(* decode_chunks: the sink has seen the first chunks of the frame, each    *)
(* once and in order, each verified before it was passed on, and never     *)
(* more than the frame declares.                                           *)
SinkSeesVerifiedPrefix ==
  seen # <<>> =>
    /\ \E n \in DOMAIN call.frame.chunks :
         /\ seen = Content(call.frame, n)
         /\ call.verify =>
              \A k \in 1 .. n :
                call.frame.chunks[k].sum \subseteq {call.frame.chunks[k].bytes}
    /\ Len(seen) <= Declared

(* The pool's count of its capacity is exact, through moves, copies,       *)
(* dropped buffers and failures: take_pooled_or_new subtracts and          *)
(* recycle_byte_buffer adds, and a held buffer may grow in between.        *)
PoolAccounted == Accounted(scratch)

(* The pool never keeps more than its caps, whatever a decode hands back.  *)
PoolWithinCaps == WithinCaps(scratch)

(* A call that succeeded appended exactly the declared size after the      *)
(* bytes that were there, or passed exactly that to the sink; a call that  *)
(* failed, and any decode_chunks, left the bytes as they were.             *)
Kept == Len(saved) <= Len(dst.bytes) /\ SubSeq(dst.bytes, 1, Len(saved)) = saved

OutputRestoredOrComplete ==
  phase = "idle" /\ result # "none" =>
    /\ Kept
    /\ result = "ok" => WithinLimits(call.frame)
    /\ IF Streaming
       THEN /\ dst.bytes = saved
            /\ result = "ok" => Len(seen) = Declared
       ELSE Len(dst.bytes) = Len(saved) + (IF result = "ok" THEN Declared ELSE 0)
-----------------------------------------------------------------------------
Buffer == [cap : Nat, bytes : Seq(Byte)]
Results == {"none", "ok", "Unsupported", "LimitExceeded", "IntegerOverflow",
            "Malformed", "ChecksumMismatch", "AllocationFailed", "Sink"}

(* The types of every variable, for every call and outcome.                *)
TypeOK ==
  /\ phase \in {"idle", "open", "chunk", "charge", "verify", "sink", "return"}
  /\ \/ call = NoCall /\ phase = "idle"
     \/ call \in [to : {"into", "chunks", "outputs"}, frame : Frames,
                  verify : BOOLEAN]
  /\ dst \in Buffer /\ owned \in Buffer /\ buffer \in Buffer
  /\ saved \in Seq(Byte) /\ decoded \in Seq(Byte) /\ seen \in Seq(Byte)
  /\ budget \in [written : 0 .. MaxDecoded, reserved : BOOLEAN]
  /\ next \in Nat \ {0}
  /\ scratch \in [buffers : Seq(Buffer), pooled : Int]
  /\ result \in Results /\ calls \in 0 .. MaxCalls

(* Where the decode stands against its budget.  `done` is what earlier     *)
(* chunks gave the caller.                                                 *)
Done == IF Streaming THEN Len(seen) ELSE Len(dst.bytes) - Len(saved)

BudgetExact ==
  /\ phase \in {"chunk", "charge", "verify", "sink"} =>
       /\ WithinLimits(call.frame) /\ budget.written <= Declared
       /\ result = "none"
  /\ phase = "open" => result = "none" /\ Done = 0 /\ budget.written = 0
  /\ phase = "chunk" => Done = budget.written
  /\ phase = "charge" =>
       Done = budget.written + (IF Streaming THEN 0 ELSE Len(decoded))
  /\ phase \in {"verify", "sink"} =>
       Done + (IF Streaming THEN Len(decoded) ELSE 0) = budget.written
  /\ phase = "sink" => Streaming /\ next <= Len(call.frame.chunks)
  /\ phase \in {"charge", "verify"} => next <= Len(call.frame.chunks)
  /\ phase = "return" =>
       /\ result # "none"
       /\ result = "ok" => Done = Declared /\ WithinLimits(call.frame)

(* Failures restore the output, successes complete it, and the pool keeps  *)
(* to its caps: the part that follows from sizes.                          *)
SizesInv ==
  /\ TypeOK /\ Kept /\ BudgetExact
  /\ Streaming => dst.bytes = saved
  /\ PoolWithinCaps
  /\ OutputRestoredOrComplete

(* The first n chunks decoded and matched their checksums; the caller has  *)
(* the content of the first n chunks.                                      *)
Passed(n) ==
  \A k \in 1 .. n :
    LET chunk == call.frame.chunks[k]
    IN  ~chunk.fails /\ (call.verify => chunk.sum \subseteq {chunk.bytes})
Given(n) == IF Streaming THEN seen = Content(call.frame, n)
            ELSE dst.bytes = saved \o Content(call.frame, n)

(* What the bytes are: up to the chunk decode has come to they are the     *)
(* content of the chunks before it, all of which passed; a call that       *)
(* leaves with an error of the frame has found it unsound.                 *)
ContentExact ==
  /\ ~Streaming => seen = <<>>
  /\ phase = "open" => next = 1 /\ seen = <<>> /\ dst.bytes = saved
  /\ phase \in {"chunk", "charge", "verify", "sink"} =>
       /\ call.frame.serial /\ next - 1 <= Len(call.frame.chunks)
       /\ Passed(next - 1)
  /\ phase = "chunk" => Given(next - 1)
  /\ phase \in {"charge", "verify", "sink"} =>
       /\ decoded = Current.bytes /\ ~Current.fails
       /\ Given(IF Streaming THEN next - 1 ELSE next)
  /\ phase = "sink" => Passed(next)
  /\ phase = "return" /\ result = "ok" =>
       /\ Sound(call.frame, call.verify)
       /\ Given(Len(call.frame.chunks))
  /\ phase = "return" /\ result \notin {"ok", "AllocationFailed", "Sink"} =>
       ~Sound(call.frame, call.verify)

(* The inductive invariant of the proofs.                                  *)
DecodeInv ==
  /\ SizesInv /\ ContentExact /\ SinkSeesVerifiedPrefix /\ PoolAccounted
=============================================================================
