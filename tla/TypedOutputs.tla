---------------------------- MODULE TypedOutputs ----------------------------
(***************************************************************************)
(* Decoding every output of a frame with its type (execute/outputs.rs,     *)
(* Decoder::decode_outputs_into): the caller's entries are reused, each    *)
(* output has a size budget, string outputs one for their lengths, and     *)
(* every chunk adds to every output before its checksum is verified.       *)
(*                                                                         *)
(* A frame with one serial output takes the path of FrameDecode instead.   *)
(* A chunk is what its graph computes (StreamGraph).                       *)
(***************************************************************************)
EXTENDS Integers, Sequences, SequencesExt, FiniteSets

CONSTANTS
  Byte,
  Frames,
  MaxDecoded,     \* min(Limits::max_decoded_bytes, max_buffer_bytes)
  ExemptBytes,    \* Limits::expansion_ratio_exempt_bytes
  MaxRatio        \* Limits::max_expansion_ratio

Types == {"Serial", "Struct", "Numeric", "String"}

(* What is optional in the code is a set of at most one element here:      *)
(* `elements` is the string count a string output states (from v21),       *)
(* `lengths` those of a string stream, `sum` what the checksum covers.     *)
Optional(S) == {o \in SUBSET S : \A x, y \in o : x = y}

Stream == [type : Types, width : Nat, bytes : Seq(Byte), lengths : Optional(Seq(Nat))]
Chunk  == [streams : Seq(Stream), fails : BOOLEAN, sum : Optional(Seq(Int))]
Header == [type : Types, size : Nat, elements : Optional(Nat)]
Frame  == [prepared : {"Ok", "Malformed", "provider"}, version : Nat, encoded : Nat,
           outputs : Seq(Header), chunks : Seq(Chunk)]

ASSUME OutputAssumption ==
  /\ {MaxDecoded, ExemptBytes, MaxRatio} \subseteq Nat
  /\ Byte \subseteq Nat
  /\ Frames \subseteq Frame
  /\ \A f \in Frames :
       /\ f.outputs # <<>>
       /\ f.prepared = "Ok" => [k \in DOMAIN f.outputs |-> f.outputs[k].type] # <<"Serial">>
       /\ \A k \in DOMAIN f.outputs :
            f.outputs[k].elements # {} => f.outputs[k].type = "String" /\ f.version >= 21
       /\ \A i \in DOMAIN f.chunks : \A j \in DOMAIN f.chunks[i].streams :
            f.chunks[i].streams[j].lengths # {} => f.chunks[i].streams[j].type = "String"

VARIABLES
  phase,      \* idle, plan, chunk or append
  frame,      \* of the last call
  verify,     \* Options::verify_content_checksum
  outputs,    \* the caller's entries
  budgets,    \* OutputBudgets: bytes and lengths written
  next,       \* the chunk the decode has come to
  output,     \* the output of that chunk to append next
  hashed,     \* what ChunkHasher was fed
  result      \* of the last call

vars == <<phase, frame, verify, outputs, budgets, next, output, hashed, result>>

NoFrame == [prepared |-> "Ok", version |-> 0, encoded |-> 0,
            outputs |-> <<>>, chunks |-> <<>>]

Init ==
  /\ phase = "idle" /\ frame = NoFrame /\ verify \in BOOLEAN /\ outputs = <<>>
  /\ budgets = <<>> /\ next = 1 /\ output = 1 /\ hashed = <<>> /\ result = "none"
-----------------------------------------------------------------------------
Current == frame.chunks[next]

(* Output k of a chunk is its stream `streams - k - 1`, counted from 0.    *)
FinalStream(chunk, k) == chunk.streams[Len(chunk.streams) - k + 1]

SumOver(s) == FoldLeft(+, 0, s)

DeclaredTotal(f) == SumOver([k \in DOMAIN f.outputs |-> f.outputs[k].size])

(* Four bytes for each string a header announces.                          *)
LengthBytes(header) ==
  IF header.elements # {}
  THEN 4 * CHOOSE n \in header.elements : TRUE ELSE 0

(* String lengths are decoded output too.                                  *)
Expanded(f) ==
  DeclaredTotal(f) + SumOver([k \in DOMAIN f.outputs |-> LengthBytes(f.outputs[k])])

(* plan_output_budgets.                                                    *)
BudgetError(f) ==
  IF \/ DeclaredTotal(f) > MaxDecoded
     \/ \E k \in DOMAIN f.outputs : LengthBytes(f.outputs[k]) > MaxDecoded
     \/ Expanded(f) > ExemptBytes /\ Expanded(f) > f.encoded * MaxRatio
  THEN "LimitExceeded" ELSE "Ok"

Stop(kind) ==
  /\ phase' = "idle" /\ result' = kind
  /\ UNCHANGED <<frame, verify, budgets, next, output, hashed>>
-----------------------------------------------------------------------------
(* reset_outputs: one empty entry for each output, of its type.            *)
EmptyMutant(header) ==
  [type |-> "None", width |-> 0, bytes |-> <<>>, lengths |-> <<>>]
Empty(header) == [type |-> header.type, width |-> 0, bytes |-> <<>>, lengths |-> <<>>]

(* decode_outputs_into.  The frame is parsed and its dictionaries fetched  *)
(* before the entries are touched.                                         *)
CallMutant(f) ==
  /\ phase = "idle"
  /\ frame' = f /\ next' = 1 /\ output' = 1 /\ hashed' = <<>>
  /\ budgets' = [k \in DOMAIN f.outputs |-> [bytes |-> 0, lengths |-> 0]]
  /\ IF f.prepared = "Ok"
     THEN /\ phase' = "plan" /\ result' = "none"
          /\ outputs' = [k \in DOMAIN f.outputs |->
                          IF k \in DOMAIN outputs
                          THEN [Empty(f.outputs[k]) EXCEPT !.lengths = outputs[k].lengths]
                          ELSE Empty(f.outputs[k])]
     ELSE /\ result' = f.prepared /\ UNCHANGED <<phase, outputs>>
  /\ UNCHANGED verify
Call(f) ==
  /\ phase = "idle"
  /\ frame' = f /\ next' = 1 /\ output' = 1 /\ hashed' = <<>>
  /\ budgets' = [k \in DOMAIN f.outputs |-> [bytes |-> 0, lengths |-> 0]]
  /\ IF f.prepared = "Ok"
     THEN /\ phase' = "plan" /\ result' = "none"
          /\ outputs' = [k \in DOMAIN f.outputs |-> Empty(f.outputs[k])]
     ELSE /\ result' = f.prepared /\ UNCHANGED <<phase, outputs>>
  /\ UNCHANGED verify

PlanBudgets ==
  /\ phase = "plan" /\ UNCHANGED outputs
  /\ \/ /\ BudgetError(frame) = "Ok" /\ phase' = "chunk"
        /\ UNCHANGED <<frame, verify, budgets, next, output, hashed, result>>
     \/ \E kind \in {BudgetError(frame), "AllocationFailed"} \ {"Ok"} : Stop(kind)

RunChunk ==
  /\ phase = "chunk" /\ next \in DOMAIN frame.chunks /\ UNCHANGED outputs
  /\ \/ /\ ~Current.fails /\ phase' = "append"
        /\ output' = 1 /\ hashed' = <<>>
        /\ UNCHANGED <<frame, verify, budgets, next, result>>
     \/ Current.fails /\ Stop("Malformed")
-----------------------------------------------------------------------------
Widths(type) == IF type \in {"Serial", "String"} THEN {1}
                ELSE IF type = "Numeric" THEN {1, 2, 4, 8} ELSE Nat

Partial(stream) == IF stream.width = 0 THEN stream.bytes # <<>>
                   ELSE Len(stream.bytes) % stream.width # 0

(* append_chunk_output: the checks before anything is appended.            *)
StreamErrorMutant(stream, k) ==
  IF stream.type # outputs[k].type THEN "Malformed"
  ELSE IF stream.width \notin Widths(stream.type) THEN "InvalidType"
  ELSE IF outputs[k].width \notin {0, stream.width} THEN "Malformed"
  ELSE IF Partial(stream) THEN "Malformed"
  ELSE "Ok"
StreamError(stream, k) ==
  IF stream.type # outputs[k].type THEN "Malformed"
  ELSE IF stream.width \notin Widths(stream.type) THEN "InvalidType"
  ELSE IF outputs[k].width \notin {0, stream.width} THEN "Malformed"
  ELSE IF Partial(stream) THEN "Malformed"
  ELSE IF budgets[k].bytes + Len(stream.bytes) > frame.outputs[k].size THEN "Malformed"
  ELSE "Ok"

(* Its checks between appending the bytes and appending the lengths.       *)
LengthError(lengths, k) ==
  LET size == 4 * (Len(outputs[k].lengths) + Len(lengths))
  IN  IF frame.outputs[k].elements # {}
      THEN IF size > LengthBytes(frame.outputs[k]) THEN "Malformed" ELSE "Ok"
      ELSE IF size > MaxDecoded THEN "LimitExceeded" ELSE "Ok"

(* A length's four bytes in the hash, told apart from content bytes.       *)
Le32(length) == -1 - length

HashedMutant(stream) == hashed \o stream.bytes
Hashed(stream) ==
  hashed \o stream.bytes
         \o (IF frame.version >= 15 /\ stream.lengths # {}
             THEN LET lengths == CHOOSE s \in stream.lengths : TRUE
                  IN  [i \in DOMAIN lengths |-> Le32(lengths[i])]
             ELSE <<>>)

WithBytes(entry, stream) ==
  [entry EXCEPT !.width = IF @ = 0 THEN stream.width ELSE @,
                !.bytes = @ \o stream.bytes]

NextOutput(stream) ==
  /\ output' = output + 1 /\ hashed' = Hashed(stream)
  /\ UNCHANGED <<phase, frame, verify, next, result>>

(* An output without lengths.                                              *)
AppendBytes ==
  /\ phase = "append" /\ output \in DOMAIN outputs
  /\ Len(Current.streams) >= output
  /\ LET stream == FinalStream(Current, output)
     IN  /\ StreamError(stream, output) = "Ok" /\ stream.type # "String"
         /\ outputs' = [outputs EXCEPT ![output] = WithBytes(@, stream)]
         /\ budgets' = [budgets EXCEPT ![output].bytes = @ + Len(stream.bytes)]
         /\ NextOutput(stream)

(* A string output: bytes, then lengths, which may fail on their own.      *)
AppendStrings ==
  /\ phase = "append" /\ output \in DOMAIN outputs
  /\ Len(Current.streams) >= output
  /\ LET stream == FinalStream(Current, output)
     IN  /\ StreamError(stream, output) = "Ok" /\ stream.type = "String"
         /\ \E lengths \in stream.lengths :
              /\ LengthError(lengths, output) = "Ok"
              /\ outputs' = [outputs EXCEPT ![output] =
                              [WithBytes(outputs[output], stream) EXCEPT
                                  !.lengths = @ \o lengths]]
              /\ budgets' = [budgets EXCEPT
                              ![output] = [bytes |-> @.bytes + Len(stream.bytes),
                                           lengths |-> @.lengths + 4 * Len(lengths)]]
         /\ NextOutput(stream)

StringsFail ==
  /\ phase = "append" /\ output \in DOMAIN outputs
  /\ Len(Current.streams) >= output
  /\ LET stream == FinalStream(Current, output)
     IN  /\ StreamError(stream, output) = "Ok" /\ stream.type = "String"
         /\ outputs' = [outputs EXCEPT ![output] = WithBytes(@, stream)]
         /\ \/ stream.lengths = {} /\ Stop("Malformed")
            \/ \E lengths \in stream.lengths :
                 Stop(IF LengthError(lengths, output) = "Ok" THEN "AllocationFailed"
                      ELSE LengthError(lengths, output))

(* The entry takes a valid width before the bytes are refused.             *)
RefuseStream ==
  /\ phase = "append" /\ output \in DOMAIN outputs
  /\ IF Len(Current.streams) < output THEN UNCHANGED outputs /\ Stop("InvalidGraph")
     ELSE LET stream == FinalStream(Current, output)
          IN  /\ StreamError(stream, output) # "Ok"
              /\ Stop(StreamError(stream, output))
              /\ outputs' = IF /\ stream.type = outputs[output].type
                              /\ stream.width \in Widths(stream.type)
                              /\ outputs[output].width = 0
                           THEN [outputs EXCEPT ![output].width = stream.width]
                           ELSE outputs
-----------------------------------------------------------------------------
Mismatch(chunk, bytes) == verify /\ \E s \in chunk.sum : s # bytes

(* ChunkHasher::finish, after every output of the chunk was appended.      *)
FinishChunk ==
  /\ phase = "append" /\ output \notin DOMAIN outputs /\ UNCHANGED outputs
  /\ IF Mismatch(Current, hashed) THEN Stop("ChecksumMismatch")
     ELSE /\ phase' = "chunk" /\ next' = next + 1
          /\ UNCHANGED <<frame, verify, budgets, output, hashed, result>>

(* OutputBudgets::finish of every output.                                  *)
Complete(k) ==
  /\ budgets[k].bytes = frame.outputs[k].size
  /\ \A n \in frame.outputs[k].elements : budgets[k].lengths = 4 * n

FinishFrame ==
  /\ phase = "chunk" /\ next \notin DOMAIN frame.chunks /\ UNCHANGED outputs
  /\ Stop(IF \A k \in DOMAIN outputs : Complete(k) THEN "Ok" ELSE "Malformed")

Next ==
  \/ \E f \in Frames : Call(f)
  \/ PlanBudgets \/ RunChunk \/ AppendBytes \/ AppendStrings \/ StringsFail
  \/ RefuseStream \/ FinishChunk \/ FinishFrame

Spec == Init /\ [][Next]_vars
-----------------------------------------------------------------------------
Entry == [type : Types, width : Nat, bytes : Seq(Byte), lengths : Seq(Nat)]

(* Every variable has the type its field has in the code.                  *)
TypeOK ==
  /\ phase \in {"idle", "plan", "chunk", "append"}
  /\ frame \in Frames \cup {NoFrame} /\ verify \in BOOLEAN
  /\ outputs \in Seq(Entry) /\ budgets \in Seq([bytes : Nat, lengths : Nat])
  /\ next \in Nat \ {0} /\ output \in Nat \ {0} /\ hashed \in Seq(Int)
  /\ phase = "append" => next \in DOMAIN frame.chunks

(* The last call came as far as the entries: they are about its frame.     *)
Touched == frame.prepared = "Ok"

(* No entry ever holds more than its output declares, nor more lengths     *)
(* than it announces or the limits allow: not between two checks, and not  *)
(* in what an error leaves behind.                                         *)
ContentWithinDeclared ==
  Touched =>
    /\ Len(outputs) = Len(frame.outputs)
    /\ \A k \in DOMAIN outputs :
         /\ Len(outputs[k].bytes) <= frame.outputs[k].size
         /\ 4 * Len(outputs[k].lengths) <=
              IF frame.outputs[k].elements = {} THEN MaxDecoded
              ELSE LengthBytes(frame.outputs[k])

LengthsOf(stream) == IF stream.lengths = {} THEN <<>>
                     ELSE CHOOSE s \in stream.lengths : TRUE

BytesUpTo(k, n)   == FlattenSeq([i \in 1 .. n |-> FinalStream(frame.chunks[i], k).bytes])
LengthsUpTo(k, n) == FlattenSeq([i \in 1 .. n |-> LengthsOf(FinalStream(frame.chunks[i], k))])

(* Entry k holds the bytes the first m chunks give output k.               *)
Holds(k, m) ==
  /\ m <= Len(frame.chunks)
  /\ \A i \in 1 .. m : k <= Len(frame.chunks[i].streams)
  /\ outputs[k].bytes = BytesUpTo(k, m)

(* At every moment, and after every error, the entries hold the frame's    *)
(* content up to one point: n chunks of every output and one more of the   *)
(* first j.  Nothing of an earlier frame is left, nothing is skipped; only *)
(* the last output appended may miss its lengths.                          *)
CutAtOnePoint ==
  Touched =>
    \E n \in 0 .. Len(frame.chunks), j \in 0 .. Len(outputs) :
      \A k \in DOMAIN outputs :
        LET m == IF k <= j THEN n + 1 ELSE n
        IN  /\ Holds(k, m)
            /\ \/ outputs[k].lengths = LengthsUpTo(k, m)
               \/ k = j /\ phase = "idle" /\ outputs[k].lengths = LengthsUpTo(k, n)

(* What upstream hashes of a chunk: its outputs in order, each followed by *)
(* its string lengths from format v15 on.                                  *)
HashPiece(f, stream) ==
  stream.bytes \o (IF f.version >= 15
                   THEN [i \in DOMAIN LengthsOf(stream) |-> Le32(LengthsOf(stream)[i])]
                   ELSE <<>>)
HashUpTo(f, chunk, j) ==
  FlattenSeq([k \in 1 .. j |-> HashPiece(f, FinalStream(chunk, k))])
ChunkHash(f, chunk) == HashUpTo(f, chunk, Len(f.outputs))

(* What follows from the counts alone.                                     *)
EntriesInv ==
  /\ TypeOK /\ ContentWithinDeclared
  /\ phase # "idle" => Touched
  /\ phase # "idle" =>
       /\ Len(budgets) = Len(outputs)
       /\ \A k \in DOMAIN outputs : budgets[k].bytes = Len(outputs[k].bytes)

(* A frame that decodes, told from its data alone.                         *)
StreamsFit(f, k, m) ==
  LET stream(i) == FinalStream(f.chunks[i], k)
  IN  \A i \in 1 .. m :
        /\ stream(i).type = f.outputs[k].type
        /\ stream(i).width \in Widths(stream(i).type) /\ ~Partial(stream(i))
        /\ stream(i).type = "String" => stream(i).lengths # {}
        /\ \A h \in 1 .. i - 1 : stream(h).width \in {0, stream(i).width}

SoundOutput(f, k) ==
  LET header  == f.outputs[k]
      chunks  == 1 .. Len(f.chunks)
      strings == SumOver([i \in chunks |-> Len(LengthsOf(FinalStream(f.chunks[i], k)))])
  IN  /\ StreamsFit(f, k, Len(f.chunks))
      /\ SumOver([i \in chunks |-> Len(FinalStream(f.chunks[i], k).bytes)]) = header.size
      /\ header.type = "String" =>
           IF header.elements # {} THEN strings \in header.elements
           ELSE 4 * strings <= MaxDecoded

SoundChunk(f, chunk, checked) ==
  /\ ~chunk.fails /\ Len(chunk.streams) >= Len(f.outputs)
  /\ checked => \A s \in chunk.sum : s = ChunkHash(f, chunk)

WithinLimits(f) ==
  /\ DeclaredTotal(f) <= MaxDecoded
  /\ \A k \in DOMAIN f.outputs : LengthBytes(f.outputs[k]) <= MaxDecoded
  /\ Expanded(f) <= ExemptBytes \/ Expanded(f) <= f.encoded * MaxRatio

Sound(f, checked) ==
  /\ f.prepared = "Ok" /\ WithinLimits(f)
  /\ \A i \in DOMAIN f.chunks : SoundChunk(f, f.chunks[i], checked)
  /\ \A k \in DOMAIN f.outputs : SoundOutput(f, k)

(* decode_outputs_into accepts the sound frames and only them, whatever    *)
(* the order of its checks; a sound frame fails only for want of memory.   *)
(* An accepted frame left all of its content.                              *)
AcceptsExactlySound ==
  phase = "idle" /\ result # "none" =>
    /\ result = "Ok" =>
         /\ Sound(frame, verify)
         /\ \A k \in DOMAIN outputs :
              outputs[k].bytes = BytesUpTo(k, Len(frame.chunks))
    /\ result \notin {"Ok", "AllocationFailed"} => ~Sound(frame, verify)

(* While a call runs, an output has what the chunks before the current one *)
(* give it, and what that one gives it once it was its turn; all of it has *)
(* passed the checks, and its width is that of its last stream.            *)
Given(k) == IF phase = "append" /\ k < output THEN next ELSE next - 1

EntryExact(k) ==
  /\ outputs[k].type = frame.outputs[k].type
  /\ Holds(k, Given(k)) /\ outputs[k].lengths = LengthsUpTo(k, Given(k))
  /\ StreamsFit(frame, k, Given(k))
  /\ outputs[k].width = IF Given(k) = 0 THEN 0
                        ELSE FinalStream(frame.chunks[Given(k)], k).width
  /\ budgets[k].lengths = 4 * Len(outputs[k].lengths)

ContentExact ==
  phase # "idle" =>
    /\ phase = "plan" => next = 1
    /\ phase # "plan" => WithinLimits(frame)
    /\ next - 1 <= Len(frame.chunks)
    /\ \A i \in 1 .. next - 1 : SoundChunk(frame, frame.chunks[i], verify)
    /\ phase = "append" =>
         /\ ~Current.fails /\ output - 1 <= Len(outputs)
         /\ hashed = HashUpTo(frame, Current, output - 1)
    /\ \A k \in DOMAIN outputs : EntryExact(k)

(* The inductive invariant.                                                *)
OutputInv ==
  EntriesInv /\ ContentExact /\ CutAtOnePoint /\ AcceptsExactlySound

(* Decoder::decode_outputs_into says: "On error, `outputs` holds one entry *)
(* per output with partial or no content."  Frames whose header cannot be  *)
(* parsed, and so have no known outputs, are left out.                     *)
ErrorLeavesEntryPerOutput ==
  phase = "idle" /\ result \notin {"none", "Ok"} /\ frame.prepared # "Malformed" =>
    /\ Len(outputs) = Len(frame.outputs)
    /\ \A k \in DOMAIN outputs : outputs[k].type = frame.outputs[k].type
=============================================================================
