------------------------- MODULE TypedOutputsProofs -------------------------
(***************************************************************************)
(* Proofs about TypedOutputs, for all frames and limits: whatever a chunk  *)
(* gives and wherever a call stops, no entry holds more than its output    *)
(* declares, the entries are the frame's content up to one point, and the  *)
(* frames accepted are the sound ones.                                     *)
(*                                                                         *)
(* EntriesInv is inductive.  The check of the bytes looks at a budget and  *)
(* the check of the lengths at the entry; that the budget counts what the  *)
(* entry holds is what makes the first one enough.  ContentExact says what *)
(* each entry holds between any two checks; that more chunks never give    *)
(* fewer bytes is what makes a check before the last chunk a right one.    *)
(***************************************************************************)
EXTENDS TypedOutputs, DataInduction, TLAPS

-----------------------------------------------------------------------------
(* Facts about sequences and about frames.                                 *)

(* Appending adds the lengths.                                             *)
LEMMA Appended ==
  ASSUME NEW S, NEW s \in Seq(S), NEW t \in Seq(S)
  PROVE  s \o t \in Seq(S) /\ Len(s \o t) = Len(s) + Len(t)
BY ConcatProperties

(* Replacing an element leaves the others and the length.                  *)
LEMMA Replaced ==
  ASSUME NEW S, NEW s \in Seq(S), NEW i \in DOMAIN s, NEW e \in S
  PROVE  /\ [s EXCEPT ![i] = e] \in Seq(S) /\ Len([s EXCEPT ![i] = e]) = Len(s)
         /\ DOMAIN [s EXCEPT ![i] = e] = DOMAIN s
         /\ [s EXCEPT ![i] = e][i] = e
         /\ \A k \in DOMAIN s : k # i => [s EXCEPT ![i] = e][k] = s[k]
BY ExceptSeq

(* What a header announces is a number of bytes.                           *)
LEMMA Announced == ASSUME NEW header \in Header PROVE LengthBytes(header) \in Nat
<1>1. CASE header.elements = {}
  BY <1>1 DEF LengthBytes
<1>2. CASE header.elements # {}
  <2>1. (CHOOSE n \in header.elements : TRUE) \in header.elements
    BY <1>2
  <2>2. (CHOOSE n \in header.elements : TRUE) \in Nat
    BY <2>1 DEF Header, Optional
  <2> QED
    BY <1>2, <2>2 DEF LengthBytes
<1> QED
  BY <1>1, <1>2

(* The frame of a call, whichever it is.                                   *)
LEMMA FrameFacts ==
  ASSUME OutputAssumption, frame \in Frames \cup {NoFrame}
  PROVE  /\ frame.outputs \in Seq(Header) /\ frame.chunks \in Seq(Chunk)
         /\ MaxDecoded \in Nat
         /\ \A k \in DOMAIN frame.outputs :
              /\ frame.outputs[k] \in Header /\ frame.outputs[k].size \in Nat
              /\ LengthBytes(frame.outputs[k]) \in Nat
<1>1. frame.outputs \in Seq(Header) /\ frame.chunks \in Seq(Chunk)
  <2>1. CASE frame \in Frames
    BY <2>1 DEF OutputAssumption, Frame
  <2>2. CASE frame = NoFrame
    BY <2>2 DEF NoFrame
  <2> QED
    BY <2>1, <2>2
<1>2. ASSUME NEW k \in DOMAIN frame.outputs
      PROVE  frame.outputs[k] \in Header
  BY <1>1, <1>2
<1>3. \A header \in Header : header.size \in Nat
  BY DEF Header
<1> QED
  BY <1>1, <1>2, <1>3, Announced DEF OutputAssumption
-----------------------------------------------------------------------------
(* What an entry may hold.                                                 *)
EntryFits(k, e) ==
  /\ Len(e.bytes) <= frame.outputs[k].size
  /\ 4 * Len(e.lengths) <= IF frame.outputs[k].elements = {} THEN MaxDecoded
                           ELSE LengthBytes(frame.outputs[k])

(* A stream's bytes after those of an entry.                               *)
LEMMA BytesAdded ==
  ASSUME NEW e \in Entry, NEW stream \in Stream
  PROVE  /\ WithBytes(e, stream) \in Entry
         /\ Len(WithBytes(e, stream).bytes) = Len(e.bytes) + Len(stream.bytes)
         /\ WithBytes(e, stream).lengths = e.lengths
<1>1. /\ e.bytes \in Seq(Byte) /\ stream.bytes \in Seq(Byte)
      /\ e.width \in Nat /\ stream.width \in Nat
  BY DEF Entry, Stream
<1>2. /\ e.bytes \o stream.bytes \in Seq(Byte)
      /\ Len(e.bytes \o stream.bytes) = Len(e.bytes) + Len(stream.bytes)
  BY <1>1, Appended
<1>3. WithBytes(e, stream) =
        [e EXCEPT !.width = IF e.width = 0 THEN stream.width ELSE e.width,
                  !.bytes = e.bytes \o stream.bytes]
  BY DEF WithBytes
<1>4. WithBytes(e, stream) \in Entry
  BY <1>1, <1>2, <1>3 DEF Entry
<1> QED
  BY <1>2, <1>3, <1>4 DEF Entry

(* Other lengths, or another width, in an entry; other bytes in a budget.  *)
LEMMA LengthsSet ==
  ASSUME NEW e \in Entry, NEW s \in Seq(Nat)
  PROVE  /\ [e EXCEPT !.lengths = s] \in Entry
         /\ [e EXCEPT !.lengths = s].bytes = e.bytes
         /\ [e EXCEPT !.lengths = s].lengths = s
BY DEF Entry

(* An entry whose width is set.                                            *)
LEMMA WidthSet ==
  ASSUME NEW e \in Entry, NEW w \in Nat
  PROVE  /\ [e EXCEPT !.width = w] \in Entry
         /\ [e EXCEPT !.width = w].bytes = e.bytes
         /\ [e EXCEPT !.width = w].lengths = e.lengths
BY DEF Entry

(* Budgets stay numbers.                                                   *)
LEMMA BudgetTotals ==
  ASSUME NEW b \in [bytes : Nat, lengths : Nat], NEW m \in Nat, NEW n \in Nat
  PROVE  b.bytes + m \in Nat /\ b.lengths + n \in Nat
<1>1. b.bytes \in Nat /\ b.lengths \in Nat
  OBVIOUS
<1> QED
  BY <1>1

(* A budget whose bytes are set.                                           *)
LEMMA BudgetSet ==
  ASSUME NEW b \in [bytes : Nat, lengths : Nat], NEW n \in Nat
  PROVE  /\ [b EXCEPT !.bytes = n] \in [bytes : Nat, lengths : Nat]
         /\ [b EXCEPT !.bytes = n].bytes = n
OBVIOUS

(* The entry and the budget of the output that is appended next.           *)
LEMMA TurnFacts ==
  ASSUME OutputAssumption, EntriesInv, phase = "append", output \in DOMAIN outputs
  PROVE  /\ outputs[output] \in Entry /\ output \in DOMAIN frame.outputs
         /\ budgets[output] \in [bytes : Nat, lengths : Nat]
         /\ budgets[output].bytes = Len(outputs[output].bytes)
<1>1. TypeOK /\ Touched /\ ContentWithinDeclared /\ Len(budgets) = Len(outputs)
  BY DEF EntriesInv
<1>2. outputs \in Seq(Entry) /\ budgets \in Seq([bytes : Nat, lengths : Nat])
  BY <1>1 DEF TypeOK
<1>3. frame.outputs \in Seq(Header) /\ Len(outputs) = Len(frame.outputs)
  BY <1>1, FrameFacts DEF TypeOK, ContentWithinDeclared
<1>4. output \in DOMAIN budgets /\ output \in DOMAIN frame.outputs
  BY <1>1, <1>2, <1>3
<1>5. outputs[output] \in Entry /\ budgets[output] \in [bytes : Nat, lengths : Nat]
  <2> DEFINE Budget == [bytes : Nat, lengths : Nat]
  <2>1. budgets \in Seq(Budget)
    BY <1>2
  <2> HIDE DEF Budget
  <2>2. budgets[output] \in Budget
    BY <2>1, <1>4
  <2> QED
    BY <1>2, <2>2 DEF Budget
<1>6. budgets[output].bytes = Len(outputs[output].bytes)
  BY DEF EntriesInv
<1> QED
  BY <1>4, <1>5, <1>6

(* The stream of the chunk that is appended next.                          *)
LEMMA StreamFacts ==
  ASSUME OutputAssumption, TypeOK, phase = "append", output \in DOMAIN outputs,
         Len(Current.streams) >= output
  PROVE  FinalStream(Current, output) \in Stream
<1>1. Current \in Chunk
  <2>1. frame.chunks \in Seq(Chunk) /\ next \in DOMAIN frame.chunks
    BY FrameFacts DEF TypeOK
  <2> QED
    BY <2>1 DEF Current
<1>2. Current.streams \in Seq(Stream)
  BY <1>1 DEF Chunk
<1>3. output \in Nat /\ output >= 1 /\ Len(Current.streams) \in Nat
  BY <1>2 DEF TypeOK
<1>4. (Len(Current.streams) - output) + 1 \in 1 .. Len(Current.streams)
  BY <1>3
<1> QED
  BY <1>2, <1>4 DEF FinalStream

(* An entry that fits may replace the one of the output.                   *)
LEMMA ReplacingKeeps ==
  ASSUME OutputAssumption, TypeOK, Touched, ContentWithinDeclared, frame' = frame,
         output \in DOMAIN outputs, NEW e \in Entry, EntryFits(output, e),
         outputs' = [outputs EXCEPT ![output] = e]
  PROVE  /\ outputs' \in Seq(Entry) /\ Len(outputs') = Len(outputs)
         /\ DOMAIN outputs' = DOMAIN outputs /\ ContentWithinDeclared'
         /\ outputs'[output] = e
         /\ \A k \in DOMAIN outputs : k # output => outputs'[k] = outputs[k]
<1>1. /\ outputs' \in Seq(Entry) /\ Len(outputs') = Len(outputs)
      /\ DOMAIN outputs' = DOMAIN outputs /\ outputs'[output] = e
      /\ \A k \in DOMAIN outputs : k # output => outputs'[k] = outputs[k]
  BY Replaced DEF TypeOK
<1>2. \A k \in DOMAIN outputs : EntryFits(k, outputs[k])
  BY DEF ContentWithinDeclared, EntryFits
<1>3. \A k \in DOMAIN outputs : EntryFits(k, outputs'[k])
  BY <1>1, <1>2
<1>4. Len(outputs') = Len(frame'.outputs)
  BY <1>1 DEF ContentWithinDeclared
<1>5. ContentWithinDeclared'
  BY <1>1, <1>3, <1>4 DEF ContentWithinDeclared, EntryFits
<1> QED
  BY <1>1, <1>5
-----------------------------------------------------------------------------
(* The steps.                                                              *)

(* A step that touches no entry and no budget, for the same frame.         *)
LEMMA LeavesEntries ==
  ASSUME EntriesInv, UNCHANGED <<outputs, budgets, frame, verify>>,
         phase' \in {"idle", "plan", "chunk", "append"}, phase # "idle" \/ phase' = "idle",
         next' \in Nat \ {0}, output' \in Nat \ {0}, hashed' \in Seq(Int),
         phase' = "append" => next' \in DOMAIN frame.chunks
  PROVE  EntriesInv'
<1>1. TypeOK'
  BY DEF EntriesInv, TypeOK
<1>2. ContentWithinDeclared' /\ (phase' # "idle" => Touched')
  BY DEF EntriesInv, ContentWithinDeclared, Touched
<1>3. phase' # "idle" =>
        /\ Len(budgets') = Len(outputs')
        /\ \A k \in DOMAIN outputs' : budgets'[k].bytes = Len(outputs'[k].bytes)
  BY DEF EntriesInv
<1> QED
  BY <1>1, <1>2, <1>3 DEF EntriesInv

(* A call that ends, whatever it left in the entry it was at.              *)
LEMMA StopKeeps ==
  ASSUME OutputAssumption, EntriesInv, phase # "idle", NEW kind, Stop(kind),
         outputs' \in Seq(Entry), ContentWithinDeclared'
  PROVE  EntriesInv'
<1>1. TypeOK'
  BY DEF Stop, EntriesInv, TypeOK
<1> QED
  BY <1>1 DEF Stop, EntriesInv

(* A call that ends between two streams.                                   *)
LEMMA StopBetween ==
  ASSUME OutputAssumption, EntriesInv, phase # "idle", NEW kind, Stop(kind), UNCHANGED outputs
  PROVE  EntriesInv'
<1>1. outputs' \in Seq(Entry)
  BY DEF EntriesInv, TypeOK
<1>2. ContentWithinDeclared'
  BY DEF Stop, EntriesInv, ContentWithinDeclared, Touched
<1> QED
  BY <1>1, <1>2, StopKeeps

(* A call empties the entries and the budgets, or leaves the entries.      *)
LEMMA CallKeeps ==
  ASSUME OutputAssumption, EntriesInv, NEW f \in Frames, Call(f)
  PROVE  EntriesInv'
<1>1. f \in Frame /\ f.outputs \in Seq(Header)
  BY DEF OutputAssumption, Frame
<1>2. DOMAIN f.outputs = 1 .. Len(f.outputs) /\ Len(f.outputs) \in Nat
  BY <1>1, LenProperties
<1>3. /\ phase = "idle" /\ frame' = f /\ next' = 1 /\ output' = 1 /\ hashed' = <<>>
      /\ budgets' = [k \in DOMAIN f.outputs |-> [bytes |-> 0, lengths |-> 0]]
      /\ verify' = verify
  BY DEF Call
<1>4. /\ budgets' \in Seq([bytes : Nat, lengths : Nat]) /\ Len(budgets') = Len(f.outputs)
      /\ \A k \in DOMAIN f.outputs : budgets'[k].bytes = 0
  BY <1>2, <1>3
<1>5. CASE f.prepared = "Ok"
  <2>1. /\ phase' = "plan"
        /\ outputs' = [k \in DOMAIN f.outputs |-> Empty(f.outputs[k])]
    BY <1>5 DEF Call
  <2>2. ASSUME NEW k \in DOMAIN f.outputs
        PROVE  /\ Empty(f.outputs[k]) \in Entry
               /\ Empty(f.outputs[k]).bytes = <<>> /\ Empty(f.outputs[k]).lengths = <<>>
               /\ f.outputs[k].size \in Nat /\ LengthBytes(f.outputs[k]) \in Nat
    <3>1. f.outputs[k] \in Header
      BY <1>1, <2>2
    <3> QED
      BY <3>1, Announced DEF Empty, Entry, Header
  <2>3. /\ outputs' \in Seq(Entry) /\ Len(outputs') = Len(f.outputs)
        /\ DOMAIN outputs' = DOMAIN f.outputs
    BY <1>2, <2>1, <2>2
  <2>4. \A k \in DOMAIN outputs' : outputs'[k].bytes = <<>> /\ outputs'[k].lengths = <<>>
    BY <2>1, <2>2, <2>3
  <2>5. ContentWithinDeclared'
    <3>1. \A k \in DOMAIN outputs' :
            /\ Len(outputs'[k].bytes) <= f.outputs[k].size
            /\ 4 * Len(outputs'[k].lengths) <=
                 IF f.outputs[k].elements = {} THEN MaxDecoded ELSE LengthBytes(f.outputs[k])
      BY <2>2, <2>3, <2>4 DEF OutputAssumption
    <3> QED
      BY <1>3, <2>3, <3>1 DEF ContentWithinDeclared
  <2>6. TypeOK'
    BY <1>3, <1>4, <2>1, <2>3 DEF EntriesInv, TypeOK
  <2>7. /\ Len(budgets') = Len(outputs')
        /\ \A k \in DOMAIN outputs' : budgets'[k].bytes = Len(outputs'[k].bytes)
    BY <1>4, <2>3, <2>4
  <2>8. Touched'
    BY <1>3, <1>5 DEF Touched
  <2> QED
    BY <2>5, <2>6, <2>7, <2>8 DEF EntriesInv
<1>6. CASE f.prepared # "Ok"
  <2>1. phase' = "idle" /\ outputs' = outputs /\ ~Touched'
    BY <1>3, <1>6 DEF Call, Touched
  <2>2. TypeOK'
    BY <1>3, <1>4, <2>1 DEF EntriesInv, TypeOK
  <2> QED
    BY <2>1, <2>2 DEF EntriesInv, ContentWithinDeclared
<1> QED
  BY <1>5, <1>6

(* The checks before the bytes are enough: the budget is what the entry    *)
(* holds.                                                                  *)
LEMMA BytesFit ==
  ASSUME OutputAssumption, EntriesInv, phase = "append", output \in DOMAIN outputs,
         NEW stream \in Stream, StreamError(stream, output) = "Ok"
  PROVE  /\ outputs[output] \in Entry /\ WithBytes(outputs[output], stream) \in Entry
         /\ EntryFits(output, WithBytes(outputs[output], stream))
<1>1. /\ outputs[output] \in Entry /\ Touched /\ ContentWithinDeclared
      /\ budgets[output].bytes = Len(outputs[output].bytes)
  BY DEF EntriesInv, TypeOK
<1>2. budgets[output].bytes + Len(stream.bytes) <= frame.outputs[output].size
  <2>1. /\ budgets[output].bytes \in Nat /\ Len(stream.bytes) \in Nat
    BY <1>1 DEF Entry, Stream
  <2>2. frame.outputs[output].size \in Nat
    <3>1. output \in DOMAIN frame.outputs
      BY <1>1, FrameFacts DEF ContentWithinDeclared, EntriesInv, TypeOK
    <3> QED
      BY <3>1, FrameFacts DEF EntriesInv, TypeOK
  <2>3. ~ (budgets[output].bytes + Len(stream.bytes) > frame.outputs[output].size)
    BY DEF StreamError
  <2> QED
    BY <2>1, <2>2, <2>3
<1>3. EntryFits(output, outputs[output])
  BY <1>1 DEF ContentWithinDeclared, EntryFits
<1> QED
  BY <1>1, <1>2, <1>3, BytesAdded DEF EntryFits

(* The next output is the next turn, with a longer hash.                   *)
LEMMA HashGrows ==
  ASSUME EntriesInv, NEW stream \in Stream, OutputAssumption
  PROVE  Hashed(stream) \in Seq(Int)
<1>1. hashed \in Seq(Int) /\ stream.bytes \in Seq(Int)
  <2>1. stream.bytes \in Seq(Byte) /\ Byte \subseteq Int
    BY DEF Stream, OutputAssumption
  <2>2. /\ stream.bytes = [i \in 1 .. Len(stream.bytes) |-> stream.bytes[i]]
        /\ Len(stream.bytes) \in Nat
        /\ \A i \in 1 .. Len(stream.bytes) : stream.bytes[i] \in Int
    <3>1. \A i \in 1 .. Len(stream.bytes) : stream.bytes[i] \in Byte
      BY <2>1
    <3>2. /\ stream.bytes = [i \in 1 .. Len(stream.bytes) |-> stream.bytes[i]]
          /\ Len(stream.bytes) \in Nat
      BY <2>1
    <3> QED
      BY <2>1, <3>1, <3>2
  <2>3. stream.bytes \in Seq(Int)
    BY <2>2
  <2> QED
    BY <2>3 DEF EntriesInv, TypeOK
<1>2. CASE frame.version >= 15 /\ stream.lengths # {}
  <2>1. PICK lengths \in stream.lengths : lengths = CHOOSE s \in stream.lengths : TRUE
    BY <1>2
  <2>2. lengths \in Seq(Nat) /\ DOMAIN lengths = 1 .. Len(lengths) /\ Len(lengths) \in Nat
    BY <2>1 DEF Stream, Optional
  <2>3. \A i \in DOMAIN lengths : Le32(lengths[i]) \in Int
    BY <2>2 DEF Le32
  <2>4. [i \in DOMAIN lengths |-> Le32(lengths[i])] \in Seq(Int)
    BY <2>2, <2>3
  <2>5. Hashed(stream) = hashed \o stream.bytes \o [i \in DOMAIN lengths |-> Le32(lengths[i])]
    BY <1>2, <2>1 DEF Hashed
  <2> QED
    BY <1>1, <2>4, <2>5, Appended
<1>3. CASE ~ (frame.version >= 15 /\ stream.lengths # {})
  <2>1. Hashed(stream) = hashed \o stream.bytes \o <<>>
    BY <1>3 DEF Hashed
  <2>2. <<>> \in Seq(Int)
    OBVIOUS
  <2> QED
    BY <1>1, <2>1, <2>2, Appended
<1> QED
  BY <1>2, <1>3

(* An output appended whole, with a budget that counts it.                 *)
LEMMA AppendedKeeps ==
  ASSUME OutputAssumption, EntriesInv, phase = "append", output \in DOMAIN outputs,
         NEW stream \in Stream, NextOutput(stream),
         NEW e \in Entry, EntryFits(output, e), outputs' = [outputs EXCEPT ![output] = e],
         NEW b \in [bytes : Nat, lengths : Nat], b.bytes = Len(e.bytes),
         budgets' = [budgets EXCEPT ![output] = b]
  PROVE  EntriesInv'
<1>1. /\ phase' = phase /\ frame' = frame /\ verify' = verify /\ next' = next
      /\ output' = output + 1 /\ hashed' = Hashed(stream)
  BY DEF NextOutput
<1>2. TypeOK /\ Touched /\ ContentWithinDeclared /\ Len(budgets) = Len(outputs)
  BY DEF EntriesInv
<1>3. /\ outputs' \in Seq(Entry) /\ Len(outputs') = Len(outputs)
      /\ DOMAIN outputs' = DOMAIN outputs /\ ContentWithinDeclared'
      /\ outputs'[output] = e
      /\ \A k \in DOMAIN outputs : k # output => outputs'[k] = outputs[k]
  BY <1>1, <1>2, ReplacingKeeps
<1>4. /\ budgets' \in Seq([bytes : Nat, lengths : Nat]) /\ Len(budgets') = Len(budgets)
      /\ budgets'[output] = b
      /\ \A k \in DOMAIN budgets : k # output => budgets'[k] = budgets[k]
  <2>1. budgets \in Seq([bytes : Nat, lengths : Nat]) /\ output \in DOMAIN budgets
    BY <1>2 DEF TypeOK
  <2> QED
    BY <2>1, Replaced
<1>5. \A k \in DOMAIN outputs' : budgets'[k].bytes = Len(outputs'[k].bytes)
  <2> SUFFICES ASSUME NEW k \in DOMAIN outputs' PROVE budgets'[k].bytes = Len(outputs'[k].bytes)
    OBVIOUS
  <2>1. CASE k = output
    BY <2>1, <1>3, <1>4
  <2>2. CASE k # output
    <3>1. k \in DOMAIN outputs /\ k \in DOMAIN budgets
      BY <1>2, <1>3 DEF TypeOK
    <3>2. budgets[k].bytes = Len(outputs[k].bytes)
      BY <3>1 DEF EntriesInv
    <3> QED
      BY <2>2, <1>3, <1>4, <3>1, <3>2
  <2> QED
    BY <2>1, <2>2
<1>6. output' \in Nat \ {0} /\ hashed' \in Seq(Int)
  <2>1. output \in Nat
    BY <1>2 DEF TypeOK
  <2> QED
    BY <1>1, <2>1, HashGrows
<1>7. TypeOK'
  BY <1>1, <1>2, <1>3, <1>4, <1>6 DEF TypeOK
<1>8. Touched'
  BY <1>1, <1>2 DEF Touched
<1> QED
  BY <1>2, <1>3, <1>4, <1>5, <1>7, <1>8 DEF EntriesInv

(* AppendBytes and AppendStrings.                                          *)
LEMMA AppendBytesKeeps ==
  ASSUME OutputAssumption, EntriesInv, AppendBytes
  PROVE  EntriesInv'
<1> DEFINE stream == FinalStream(Current, output)
<1>1. /\ phase = "append" /\ output \in DOMAIN outputs
      /\ Len(Current.streams) >= output /\ StreamError(stream, output) = "Ok"
      /\ outputs' = [outputs EXCEPT ![output] = WithBytes(outputs[output], stream)]
      /\ budgets' = [budgets EXCEPT ![output] =
                      [budgets[output] EXCEPT !.bytes = budgets[output].bytes + Len(stream.bytes)]]
      /\ NextOutput(stream)
  BY DEF AppendBytes
<1>2. stream \in Stream
  BY <1>1, StreamFacts DEF EntriesInv
<1> HIDE DEF stream
<1>3. /\ outputs[output] \in Entry /\ WithBytes(outputs[output], stream) \in Entry
      /\ EntryFits(output, WithBytes(outputs[output], stream))
  BY <1>1, <1>2, BytesFit
<1>4. /\ budgets[output] \in [bytes : Nat, lengths : Nat]
      /\ budgets[output].bytes = Len(outputs[output].bytes)
  BY <1>1, TurnFacts
<1>5. Len(stream.bytes) \in Nat
  BY <1>2 DEF Stream
<1>6. PICK b \in [bytes : Nat, lengths : Nat] :
        /\ b = [budgets[output] EXCEPT !.bytes = budgets[output].bytes + Len(stream.bytes)]
        /\ b.bytes = budgets[output].bytes + Len(stream.bytes)
  <2> DEFINE m == budgets[output].bytes + Len(stream.bytes)
             b == [budgets[output] EXCEPT !.bytes = m]
  <2>1. m \in Nat
    BY <1>4, <1>5, BudgetTotals
  <2> HIDE DEF m
  <2>2. b \in [bytes : Nat, lengths : Nat] /\ b.bytes = m
    BY <1>4, <2>1, BudgetSet
  <2> HIDE DEF b
  <2>3. \E c \in [bytes : Nat, lengths : Nat] : c = b /\ c.bytes = m
    BY <2>2
  <2> QED
    BY <2>3 DEF m, b
<1>7. b.bytes = Len(WithBytes(outputs[output], stream).bytes)
  <2>1. Len(WithBytes(outputs[output], stream).bytes) =
          Len(outputs[output].bytes) + Len(stream.bytes)
    BY <1>2, <1>3, BytesAdded
  <2> QED
    BY <2>1, <1>4, <1>6
<1> QED
  BY <1>1, <1>2, <1>3, <1>6, <1>7, AppendedKeeps

(* Strings are appended, with their lengths, within both budgets.          *)
LEMMA AppendStringsKeeps ==
  ASSUME OutputAssumption, EntriesInv, AppendStrings
  PROVE  EntriesInv'
<1> DEFINE stream == FinalStream(Current, output)
           entry  == WithBytes(outputs[output], stream)
<1>1. PICK lengths \in stream.lengths :
        /\ phase = "append" /\ output \in DOMAIN outputs
        /\ Len(Current.streams) >= output /\ StreamError(stream, output) = "Ok"
        /\ LengthError(lengths, output) = "Ok"
        /\ outputs' = [outputs EXCEPT ![output] = [entry EXCEPT !.lengths = entry.lengths \o lengths]]
        /\ budgets' = [budgets EXCEPT ![output] =
                        [bytes |-> budgets[output].bytes + Len(stream.bytes),
                         lengths |-> budgets[output].lengths + 4 * Len(lengths)]]
        /\ NextOutput(stream)
  <2>1. /\ phase = "append" /\ output \in DOMAIN outputs
        /\ Len(Current.streams) >= output /\ StreamError(stream, output) = "Ok"
        /\ NextOutput(stream)
    BY DEF AppendStrings
  <2>2. PICK lengths \in stream.lengths :
          /\ LengthError(lengths, output) = "Ok"
          /\ outputs' = [outputs EXCEPT ![output] =
                          [WithBytes(outputs[output], stream) EXCEPT
                           !.lengths = @ \o lengths]]
          /\ budgets' = [budgets EXCEPT
                          ![output] = [bytes |-> @.bytes + Len(stream.bytes),
                                       lengths |-> @.lengths + 4 * Len(lengths)]]
    BY DEF AppendStrings
  <2> HIDE DEF stream
  <2>3. outputs' = [outputs EXCEPT ![output] = [entry EXCEPT !.lengths = entry.lengths \o lengths]]
    BY <2>2
  <2>4. budgets' = [budgets EXCEPT ![output] =
                     [bytes |-> budgets[output].bytes + Len(stream.bytes),
                      lengths |-> budgets[output].lengths + 4 * Len(lengths)]]
    BY <2>2
  <2> HIDE DEF entry
  <2> QED
    BY <2>1, <2>2, <2>3, <2>4
<1>2. stream \in Stream /\ lengths \in Seq(Nat) /\ Len(lengths) \in Nat
  <2>1. stream \in Stream
    BY <1>1, StreamFacts DEF EntriesInv
  <2> QED
    BY <2>1 DEF Stream, Optional
<1> HIDE DEF stream
<1>3. outputs[output] \in Entry /\ entry \in Entry /\ EntryFits(output, entry)
  BY <1>1, <1>2, BytesFit
<1>4. /\ Len(entry.bytes) = Len(outputs[output].bytes) + Len(stream.bytes)
      /\ entry.lengths = outputs[output].lengths
  BY <1>2, <1>3, BytesAdded
<1> HIDE DEF entry
<1>5. /\ entry.lengths \o lengths \in Seq(Nat)
      /\ Len(entry.lengths \o lengths) = Len(outputs[output].lengths) + Len(lengths)
  BY <1>2, <1>3, <1>4, Appended DEF Entry
<1>6. PICK e \in Entry : /\ e = [entry EXCEPT !.lengths = entry.lengths \o lengths]
                         /\ e.bytes = entry.bytes
                         /\ e.lengths = entry.lengths \o lengths
  BY <1>3, <1>5, LengthsSet
<1>7. EntryFits(output, e)
  <2>1. 4 * (Len(outputs[output].lengths) + Len(lengths)) <=
          IF frame.outputs[output].elements = {} THEN MaxDecoded
          ELSE LengthBytes(frame.outputs[output])
    <3>1. /\ Len(outputs[output].lengths) \in Nat /\ MaxDecoded \in Nat
          /\ LengthBytes(frame.outputs[output]) \in Nat
      <4>1. output \in DOMAIN frame.outputs /\ frame \in Frames \cup {NoFrame}
        BY <1>1, TurnFacts DEF EntriesInv, TypeOK
      <4>2. MaxDecoded \in Nat /\ LengthBytes(frame.outputs[output]) \in Nat
        BY <4>1, FrameFacts
      <4>3. outputs[output].lengths \in Seq(Nat)
        BY <1>3 DEF Entry
      <4> QED
        BY <4>2, <4>3
    <3>2. /\ frame.outputs[output].elements # {} =>
               ~ (4 * (Len(outputs[output].lengths) + Len(lengths)) > LengthBytes(frame.outputs[output]))
          /\ frame.outputs[output].elements = {} =>
               ~ (4 * (Len(outputs[output].lengths) + Len(lengths)) > MaxDecoded)
      BY <1>1 DEF LengthError
    <3> QED
      BY <1>2, <3>1, <3>2
  <2> QED
    BY <1>3, <1>5, <1>6, <2>1 DEF EntryFits
<1>8. /\ budgets[output] \in [bytes : Nat, lengths : Nat]
      /\ budgets[output].bytes = Len(outputs[output].bytes)
  BY <1>1, TurnFacts
<1>9. PICK b \in [bytes : Nat, lengths : Nat] :
        /\ b = [bytes |-> budgets[output].bytes + Len(stream.bytes),
                lengths |-> budgets[output].lengths + 4 * Len(lengths)]
        /\ b.bytes = budgets[output].bytes + Len(stream.bytes)
  <2>1. Len(stream.bytes) \in Nat
    BY <1>2 DEF Stream
  <2> DEFINE m == budgets[output].bytes + Len(stream.bytes)
             n == budgets[output].lengths + 4 * Len(lengths)
  <2>2. m \in Nat /\ n \in Nat
    <3>1. 4 * Len(lengths) \in Nat
      BY <1>2
    <3> QED
      BY <1>8, <2>1, <3>1, BudgetTotals
  <2> HIDE DEF m, n
  <2>3. [bytes |-> m, lengths |-> n] \in [bytes : Nat, lengths : Nat]
    BY <2>2
  <2>4. [bytes |-> m, lengths |-> n].bytes = m
    OBVIOUS
  <2> QED
    BY <2>3, <2>4 DEF m, n
<1>10. b.bytes = Len(e.bytes)
  BY <1>4, <1>6, <1>8, <1>9
<1> QED
  BY <1>1, <1>2, <1>6, <1>7, <1>9, <1>10, AppendedKeeps

(* StringsFail: the bytes stay, as a chunk that fails leaves them.         *)
LEMMA StringsFailKeeps ==
  ASSUME OutputAssumption, EntriesInv, StringsFail
  PROVE  EntriesInv'
<1> DEFINE stream == FinalStream(Current, output)
<1>1. /\ phase = "append" /\ output \in DOMAIN outputs
      /\ Len(Current.streams) >= output /\ StreamError(stream, output) = "Ok"
      /\ outputs' = [outputs EXCEPT ![output] = WithBytes(outputs[output], stream)]
      /\ \E kind : Stop(kind)
  BY DEF StringsFail
<1>2. stream \in Stream
  BY <1>1, StreamFacts DEF EntriesInv
<1> HIDE DEF stream
<1>3. /\ WithBytes(outputs[output], stream) \in Entry
      /\ EntryFits(output, WithBytes(outputs[output], stream))
  BY <1>1, <1>2, BytesFit
<1>4. frame' = frame
  BY <1>1 DEF Stop
<1>5. outputs' \in Seq(Entry) /\ ContentWithinDeclared'
  BY <1>1, <1>3, <1>4, ReplacingKeeps DEF EntriesInv
<1> QED
  BY <1>1, <1>5, StopKeeps

(* RefuseStream: nothing, or the width of a stream whose bytes are refused.*)
LEMMA RefuseStreamKeeps ==
  ASSUME OutputAssumption, EntriesInv, RefuseStream
  PROVE  EntriesInv'
<1>1. phase = "append" /\ output \in DOMAIN outputs /\ (\E kind : Stop(kind))
  BY DEF RefuseStream
<1>2. CASE outputs' = outputs
  BY <1>1, <1>2, StopBetween
<1>3. CASE outputs' # outputs
  <2> DEFINE stream == FinalStream(Current, output)
  <2>1. /\ Len(Current.streams) >= output
        /\ outputs' = [outputs EXCEPT ![output] = [outputs[output] EXCEPT !.width = stream.width]]
    <3>1. ~ (Len(Current.streams) < output)
      BY <1>3 DEF RefuseStream
    <3>2. Len(Current.streams) \in Int /\ output \in Int
      <4>1. Current \in Chunk
        <5>1. frame.chunks \in Seq(Chunk) /\ next \in DOMAIN frame.chunks
          BY <1>1, FrameFacts DEF EntriesInv, TypeOK
        <5> QED
          BY <5>1 DEF Current
      <4>2. Current.streams \in Seq(Stream)
        BY <4>1 DEF Chunk
      <4> QED
        BY <4>2 DEF EntriesInv, TypeOK
    <3>3. outputs' = [outputs EXCEPT ![output].width = stream.width]
      BY <1>3, <3>1 DEF RefuseStream
    <3> QED
      BY <3>1, <3>2, <3>3
  <2>2. stream \in Stream
    BY <1>1, <2>1, StreamFacts DEF EntriesInv
  <2> HIDE DEF stream
  <2>3. outputs[output] \in Entry /\ stream.width \in Nat
    BY <1>1, <2>2 DEF EntriesInv, TypeOK, Stream
  <2>4. PICK e \in Entry : /\ e = [outputs[output] EXCEPT !.width = stream.width]
                           /\ e.bytes = outputs[output].bytes
                           /\ e.lengths = outputs[output].lengths
    BY <2>3, WidthSet
  <2>5. EntryFits(output, e)
    BY <1>1, <2>4 DEF EntriesInv, ContentWithinDeclared, EntryFits
  <2>6. frame' = frame
    BY <1>1 DEF Stop
  <2>7. outputs' \in Seq(Entry) /\ ContentWithinDeclared'
    BY <1>1, <2>1, <2>4, <2>5, <2>6, ReplacingKeeps DEF EntriesInv
  <2> QED
    BY <1>1, <2>7, StopKeeps
<1> QED
  BY <1>2, <1>3
-----------------------------------------------------------------------------
(* What a frame's chunks give an output.                                   *)

(* What an option holds is its only element.                               *)
LEMMA OptionalOne ==
  ASSUME NEW S, NEW o \in Optional(S), NEW x \in o
  PROVE  (CHOOSE y \in o : TRUE) = x
<1>1. (CHOOSE y \in o : TRUE) \in o
  OBVIOUS
<1> QED
  BY <1>1 DEF Optional

(* The lengths of a stream are numbers, if it has any.                     *)
LEMMA LengthsOfOne ==
  ASSUME NEW stream \in Stream
  PROVE  /\ LengthsOf(stream) \in Seq(Nat)
         /\ \A s \in stream.lengths : LengthsOf(stream) = s
<1>1. stream.lengths \in Optional(Seq(Nat))
  BY DEF Stream
<1>2. \A s \in stream.lengths : LengthsOf(stream) = s
  BY <1>1, OptionalOne DEF LengthsOf
<1>3. \A s \in stream.lengths : s \in Seq(Nat)
  BY <1>1 DEF Optional
<1>4. stream.lengths = {} => LengthsOf(stream) \in Seq(Nat)
  BY EmptySeq DEF LengthsOf
<1> QED
  BY <1>2, <1>3, <1>4

(* The stream chunk i gives output k.                                      *)
LEMMA GivenStream ==
  ASSUME OutputAssumption, frame \in Frames \cup {NoFrame},
         NEW k \in Nat \ {0}, NEW i \in DOMAIN frame.chunks,
         k <= Len(frame.chunks[i].streams)
  PROVE  /\ FinalStream(frame.chunks[i], k) \in Stream
         /\ FinalStream(frame.chunks[i], k).lengths # {} =>
              FinalStream(frame.chunks[i], k).type = "String"
<1>1. frame.chunks \in Seq(Chunk)
  BY FrameFacts
<1>2. frame.chunks[i] \in Chunk
  BY <1>1
<1>3. frame.chunks[i].streams \in Seq(Stream)
  BY <1>2 DEF Chunk
<1>4. (Len(frame.chunks[i].streams) - k) + 1 \in DOMAIN frame.chunks[i].streams
  BY <1>3
<1>5. frame \in Frames
  BY DEF NoFrame
<1>6. FinalStream(frame.chunks[i], k).lengths # {} =>
        FinalStream(frame.chunks[i], k).type = "String"
  BY <1>4, <1>5 DEF OutputAssumption, FinalStream
<1> QED
  BY <1>3, <1>4, <1>6 DEF FinalStream

(* The parts a stream has.                                                 *)
LEMMA StreamParts ==
  ASSUME OutputAssumption, NEW stream \in Stream
  PROVE  /\ stream.bytes \in Seq(Byte) /\ Len(stream.bytes) \in Nat /\ stream.width \in Nat
         /\ stream.lengths \in Optional(Seq(Nat)) /\ HashPiece(frame, stream) \in Seq(Int)
<1>1. /\ stream.bytes \in Seq(Byte) /\ stream.width \in Nat
      /\ stream.lengths \in Optional(Seq(Nat))
  BY DEF Stream
<1>2. stream.bytes \in Seq(Int)
  <2> DEFINE b == stream.bytes
  <2>1. b \in Seq(Byte) /\ Byte \subseteq Int
    BY <1>1 DEF OutputAssumption
  <2> HIDE DEF b
  <2>2. b = [i \in 1 .. Len(b) |-> b[i]] /\ Len(b) \in Nat
    BY <2>1
  <2>3. \A i \in 1 .. Len(b) : b[i] \in Int
    <3>1. \A i \in 1 .. Len(b) : b[i] \in Byte
      BY <2>1
    <3> QED
      BY <2>1, <3>1
  <2>4. b \in Seq(Int)
    BY <2>2, <2>3
  <2> QED
    BY <2>4 DEF b
<1>3. [i \in DOMAIN LengthsOf(stream) |-> Le32(LengthsOf(stream)[i])] \in Seq(Int)
  <2> DEFINE s == LengthsOf(stream)
  <2>1. s \in Seq(Nat)
    BY LengthsOfOne
  <2> HIDE DEF s
  <2>2. DOMAIN s = 1 .. Len(s) /\ Len(s) \in Nat /\ \A i \in DOMAIN s : Le32(s[i]) \in Int
    BY <2>1 DEF Le32
  <2>3. [i \in DOMAIN s |-> Le32(s[i])] \in Seq(Int)
    BY <2>2
  <2> QED
    BY <2>3 DEF s
<1>4. HashPiece(frame, stream) \in Seq(Int)
  <2> DEFINE t == IF frame.version >= 15
                  THEN [i \in DOMAIN LengthsOf(stream) |-> Le32(LengthsOf(stream)[i])]
                  ELSE <<>>
  <2>1. t \in Seq(Int)
    BY <1>3, EmptySeq
  <2> HIDE DEF t
  <2>2. stream.bytes \o t \in Seq(Int)
    BY <1>2, <2>1, Appended
  <2> QED
    BY <2>2 DEF HashPiece, t
<1> QED
  BY <1>1, <1>4

(* The first m chunks all have a stream for output k.                      *)
Reaches(k, m) ==
  /\ m <= Len(frame.chunks)
  /\ \A i \in 1 .. m : k <= Len(frame.chunks[i].streams)

ByteLists(k, m)   == [i \in 1 .. m |-> FinalStream(frame.chunks[i], k).bytes]
LengthLists(k, m) == [i \in 1 .. m |-> LengthsOf(FinalStream(frame.chunks[i], k))]

(* What the chunks give an output, as lists.                               *)
LEMMA ListTypes ==
  ASSUME OutputAssumption, frame \in Frames \cup {NoFrame},
         NEW k \in Nat \ {0}, NEW m \in Nat, Reaches(k, m)
  PROVE  /\ \A i \in 1 .. m : FinalStream(frame.chunks[i], k) \in Stream
         /\ ByteLists(k, m) \in Seq(Seq(Byte)) /\ Len(ByteLists(k, m)) = m
         /\ LengthLists(k, m) \in Seq(Seq(Nat)) /\ Len(LengthLists(k, m)) = m
<1>1. ASSUME NEW i \in 1 .. m
      PROVE  FinalStream(frame.chunks[i], k) \in Stream
  <2>1. frame.chunks \in Seq(Chunk)
    BY FrameFacts
  <2>2. i \in DOMAIN frame.chunks /\ k <= Len(frame.chunks[i].streams)
    BY <2>1 DEF Reaches
  <2> QED
    BY <2>2, GivenStream
<1>2. \A i \in 1 .. m : /\ FinalStream(frame.chunks[i], k).bytes \in Seq(Byte)
                        /\ LengthsOf(FinalStream(frame.chunks[i], k)) \in Seq(Nat)
  BY <1>1, StreamParts, LengthsOfOne
<1>3. ByteLists(k, m) \in Seq(Seq(Byte)) /\ Len(ByteLists(k, m)) = m
  <2>1. PICK u : u = ByteLists(k, m)
    OBVIOUS
  <2>2. u = [i \in 1 .. m |-> u[i]] /\ \A i \in 1 .. m : u[i] \in Seq(Byte)
    BY <1>2, <2>1 DEF ByteLists
  <2>3. PICK U : U = Seq(Byte)
    OBVIOUS
  <2>4. u \in Seq(U) /\ Len(u) = m
    BY <2>2, <2>3, FunctionIsSeq
  <2> QED
    BY <2>1, <2>3, <2>4
<1>4. LengthLists(k, m) \in Seq(Seq(Nat)) /\ Len(LengthLists(k, m)) = m
  <2>1. PICK u : u = LengthLists(k, m)
    OBVIOUS
  <2>2. u = [i \in 1 .. m |-> u[i]] /\ \A i \in 1 .. m : u[i] \in Seq(Nat)
    BY <1>2, <2>1 DEF LengthLists
  <2>3. PICK U : U = Seq(Nat)
    OBVIOUS
  <2>4. u \in Seq(U) /\ Len(u) = m
    BY <2>2, <2>3, FunctionIsSeq
  <2> QED
    BY <2>1, <2>3, <2>4
<1> QED
  BY <1>1, <1>3, <1>4

(* What no chunk gives.                                                    *)
LEMMA NothingYet ==
  ASSUME NEW k
  PROVE  BytesUpTo(k, 0) = <<>> /\ LengthsUpTo(k, 0) = <<>>
<1>1. ByteLists(k, 0) = <<>> /\ LengthLists(k, 0) = <<>>
  BY DEF ByteLists, LengthLists
<1>2. FlattenSeq(<<>>) = <<>>
  BY FlattenEmpty
<1> QED
  BY <1>1, <1>2 DEF BytesUpTo, LengthsUpTo, ByteLists, LengthLists

(* One more chunk gives its stream's bytes and lengths.                    *)
LEMMA OneMore ==
  ASSUME OutputAssumption, frame \in Frames \cup {NoFrame},
         NEW k \in Nat \ {0}, NEW m \in Nat, Reaches(k, m + 1)
  PROVE  /\ BytesUpTo(k, m + 1) = BytesUpTo(k, m) \o FinalStream(frame.chunks[m + 1], k).bytes
         /\ LengthsUpTo(k, m + 1) =
              LengthsUpTo(k, m) \o LengthsOf(FinalStream(frame.chunks[m + 1], k))
<1>1. m + 1 \in Nat /\ Reaches(k, m)
  <2>1. Len(frame.chunks) \in Nat
    BY FrameFacts
  <2> QED
    BY <2>1 DEF Reaches
<1>2. /\ ByteLists(k, m) \in Seq(Seq(Byte)) /\ Len(ByteLists(k, m)) = m
      /\ ByteLists(k, m + 1) \in Seq(Seq(Byte)) /\ Len(ByteLists(k, m + 1)) = m + 1
      /\ LengthLists(k, m) \in Seq(Seq(Nat)) /\ Len(LengthLists(k, m)) = m
      /\ LengthLists(k, m + 1) \in Seq(Seq(Nat)) /\ Len(LengthLists(k, m + 1)) = m + 1
  BY <1>1, ListTypes
<1>3. /\ \A i \in 1 .. m : ByteLists(k, m + 1)[i] = ByteLists(k, m)[i]
      /\ ByteLists(k, m + 1)[m + 1] = FinalStream(frame.chunks[m + 1], k).bytes
  BY DEF ByteLists
<1>4. /\ \A i \in 1 .. m : LengthLists(k, m + 1)[i] = LengthLists(k, m)[i]
      /\ LengthLists(k, m + 1)[m + 1] = LengthsOf(FinalStream(frame.chunks[m + 1], k))
  BY DEF LengthLists
<1>5. FlattenSeq(ByteLists(k, m + 1)) =
        FlattenSeq(ByteLists(k, m)) \o FinalStream(frame.chunks[m + 1], k).bytes
  <2> DEFINE s == ByteLists(k, m)
             t == ByteLists(k, m + 1)
             x == FinalStream(frame.chunks[m + 1], k).bytes
  <2>1. /\ s \in Seq(Seq(Byte)) /\ Len(s) = m /\ t \in Seq(Seq(Byte)) /\ Len(t) = m + 1
        /\ \A i \in 1 .. m : t[i] = s[i]
        /\ t[m + 1] = x
    BY <1>2, <1>3
  <2> HIDE DEF s, t, x
  <2>2. FlattenSeq(t) = FlattenSeq(s) \o t[Len(t)]
    BY <2>1, FlattenLast
  <2>3. FlattenSeq(t) = FlattenSeq(s) \o x
    BY <2>1, <2>2
  <2> QED
    BY <2>3 DEF s, t, x
<1>6. FlattenSeq(LengthLists(k, m + 1)) =
        FlattenSeq(LengthLists(k, m)) \o LengthsOf(FinalStream(frame.chunks[m + 1], k))
  <2> DEFINE s == LengthLists(k, m)
             t == LengthLists(k, m + 1)
             x == LengthsOf(FinalStream(frame.chunks[m + 1], k))
  <2>1. /\ s \in Seq(Seq(Nat)) /\ Len(s) = m /\ t \in Seq(Seq(Nat)) /\ Len(t) = m + 1
        /\ \A i \in 1 .. m : t[i] = s[i]
        /\ t[m + 1] = x
    BY <1>2, <1>4
  <2> HIDE DEF s, t, x
  <2>2. FlattenSeq(t) = FlattenSeq(s) \o t[Len(t)]
    BY <2>1, FlattenLast
  <2>3. FlattenSeq(t) = FlattenSeq(s) \o x
    BY <2>1, <2>2
  <2> QED
    BY <2>3 DEF s, t, x
<1> QED
  BY <1>5, <1>6 DEF BytesUpTo, LengthsUpTo, ByteLists, LengthLists

(* Its length is the sum of the parts, and more chunks never give less.    *)
LEMMA SizesGiven ==
  ASSUME OutputAssumption, frame \in Frames \cup {NoFrame},
         NEW k \in Nat \ {0}, NEW m \in Nat, Reaches(k, m)
  PROVE  /\ SumOver([i \in 1 .. m |-> Len(FinalStream(frame.chunks[i], k).bytes)]) =
              Len(BytesUpTo(k, m))
         /\ SumOver([i \in 1 .. m |-> Len(LengthsOf(FinalStream(frame.chunks[i], k)))]) =
              Len(LengthsUpTo(k, m))
         /\ BytesUpTo(k, m) \in Seq(Byte) /\ LengthsUpTo(k, m) \in Seq(Nat)
         /\ \A n \in 0 .. m : /\ Len(BytesUpTo(k, n)) <= Len(BytesUpTo(k, m))
                              /\ Len(LengthsUpTo(k, n)) <= Len(LengthsUpTo(k, m))
<1> DEFINE s == ByteLists(k, m)
           t == LengthLists(k, m)
<1>1. s \in Seq(Seq(Byte)) /\ Len(s) = m /\ t \in Seq(Seq(Nat)) /\ Len(t) = m
  BY ListTypes
<1>2. /\ Lengths(s) = [i \in 1 .. m |-> Len(FinalStream(frame.chunks[i], k).bytes)]
      /\ Lengths(t) = [i \in 1 .. m |-> Len(LengthsOf(FinalStream(frame.chunks[i], k)))]
  BY DEF Lengths, ByteLists, LengthLists
<1>3. \A n \in 0 .. m : Firsts(s, n) = ByteLists(k, n) /\ Firsts(t, n) = LengthLists(k, n)
  BY DEF Firsts, ByteLists, LengthLists
<1>4. /\ BytesUpTo(k, m) = FlattenSeq(s) /\ LengthsUpTo(k, m) = FlattenSeq(t)
      /\ \A n \in 0 .. m : /\ BytesUpTo(k, n) = FlattenSeq(ByteLists(k, n))
                           /\ LengthsUpTo(k, n) = FlattenSeq(LengthLists(k, n))
  BY DEF BytesUpTo, LengthsUpTo, ByteLists, LengthLists
<1>5. Firsts(s, m) = s /\ Firsts(t, m) = t
  BY <1>3
<1> HIDE DEF s, t
<1>6. Len(FlattenSeq(s)) = Sum(Lengths(s)) /\ Len(FlattenSeq(t)) = Sum(Lengths(t))
  BY <1>1, FlattenLength
<1>7. FlattenSeq(s) \in Seq(Byte) /\ FlattenSeq(t) \in Seq(Nat)
  BY <1>1, FlattenType
<1>8. ASSUME NEW n \in 0 .. m
      PROVE  /\ Len(FlattenSeq(Firsts(s, n))) <= Len(FlattenSeq(Firsts(s, m)))
             /\ Len(FlattenSeq(Firsts(t, n))) <= Len(FlattenSeq(Firsts(t, m)))
  <2>1. n \in Nat /\ n <= m
    OBVIOUS
  <2> QED
    BY <1>1, <2>1, FlattenGrows
<1>9. \A n \in 0 .. m : /\ Len(BytesUpTo(k, n)) <= Len(BytesUpTo(k, m))
                        /\ Len(LengthsUpTo(k, n)) <= Len(LengthsUpTo(k, m))
  BY <1>3, <1>4, <1>5, <1>8
<1> QED
  BY <1>2, <1>4, <1>6, <1>7, <1>9 DEF SumOver, Sum
-----------------------------------------------------------------------------
(* Whether a frame is within the limits is decided before its first chunk. *)

(* The totals of a header are numbers.                                     *)
LEMMA Totals ==
  ASSUME OutputAssumption, frame \in Frames
  PROVE  DeclaredTotal(frame) \in Nat /\ Expanded(frame) \in Nat /\ frame.encoded * MaxRatio \in Nat
<1> DEFINE sizes  == [k \in DOMAIN frame.outputs |-> frame.outputs[k].size]
           counts == [k \in DOMAIN frame.outputs |-> LengthBytes(frame.outputs[k])]
<1>1. frame.outputs \in Seq(Header)
  BY FrameFacts
<1>2. sizes \in Seq(Nat) /\ counts \in Seq(Nat)
  <2>1. \A k \in DOMAIN frame.outputs :
          frame.outputs[k].size \in Nat /\ LengthBytes(frame.outputs[k]) \in Nat
    BY FrameFacts
  <2>2. DOMAIN frame.outputs = 1 .. Len(frame.outputs) /\ Len(frame.outputs) \in Nat
    BY <1>1
  <2> QED
    BY <2>1, <2>2
<1> HIDE DEF sizes, counts
<1>3. Sum(sizes) \in Nat /\ Sum(counts) \in Nat
  <2>1. /\ Firsts(sizes, Len(sizes)) = sizes /\ Firsts(counts, Len(counts)) = counts
        /\ Len(sizes) \in Nat /\ Len(counts) \in Nat
    BY <1>2, FirstsFacts
  <2>2. /\ Sum(Firsts(sizes, Len(sizes))) \in Nat
        /\ Sum(Firsts(counts, Len(counts))) \in Nat
    BY <1>2, <2>1, SumNat
  <2> QED
    BY <2>1, <2>2
<1>4. DeclaredTotal(frame) = Sum(sizes) /\ Expanded(frame) = Sum(sizes) + Sum(counts)
  BY DEF DeclaredTotal, Expanded, SumOver, Sum, sizes, counts
<1>5. frame.encoded \in Nat /\ MaxRatio \in Nat
  BY DEF OutputAssumption, Frame
<1>6. frame.encoded * MaxRatio \in Nat
  BY <1>5
<1> QED
  BY <1>3, <1>4, <1>6

(* The budget checks refuse exactly what the limits rule out.              *)
LEMMA LimitsChecked ==
  ASSUME OutputAssumption, frame \in Frames \cup {NoFrame}
  PROVE  frame \in Frames => (BudgetError(frame) = "Ok" <=> WithinLimits(frame))
<1> SUFFICES ASSUME frame \in Frames
             PROVE  BudgetError(frame) = "Ok" <=> WithinLimits(frame)
  OBVIOUS
<1> DEFINE product == frame.encoded * MaxRatio
           total   == DeclaredTotal(frame)
           all     == Expanded(frame)
<1>1. /\ total \in Nat /\ all \in Nat /\ product \in Nat /\ MaxDecoded \in Nat /\ ExemptBytes \in Nat
  BY Totals DEF OutputAssumption
<1>2. \A k \in DOMAIN frame.outputs : LengthBytes(frame.outputs[k]) \in Nat
  BY FrameFacts
<1>3. BudgetError(frame) = "Ok" <=>
        ~ (\/ total > MaxDecoded
           \/ \E k \in DOMAIN frame.outputs : LengthBytes(frame.outputs[k]) > MaxDecoded
           \/ all > ExemptBytes /\ all > product)
  BY DEF BudgetError
<1>4. WithinLimits(frame) <=>
        /\ total <= MaxDecoded
        /\ \A k \in DOMAIN frame.outputs : LengthBytes(frame.outputs[k]) <= MaxDecoded
        /\ all <= ExemptBytes \/ all <= product
  BY DEF WithinLimits
<1> HIDE DEF product, total, all
<1>5. (\A k \in DOMAIN frame.outputs : LengthBytes(frame.outputs[k]) <= MaxDecoded)
        <=> ~ \E k \in DOMAIN frame.outputs : LengthBytes(frame.outputs[k]) > MaxDecoded
  BY <1>1, <1>2
<1> QED
  BY <1>1, <1>3, <1>4, <1>5

(* While a call runs, its entries are a frame's content up to one point.   *)
LEMMA RunningIsCut ==
  ASSUME OutputAssumption, EntriesInv, ContentExact, phase # "idle"
  PROVE  CutAtOnePoint
<1> DEFINE j == IF phase = "append" THEN output - 1 ELSE 0
           n == next - 1
<1>1. /\ next \in Nat \ {0} /\ output \in Nat \ {0} /\ outputs \in Seq(Entry)
      /\ next - 1 <= Len(frame.chunks) /\ \A k \in DOMAIN outputs : EntryExact(k)
      /\ phase = "append" => output - 1 <= Len(outputs)
  BY DEF EntriesInv, TypeOK, ContentExact
<1>2. Len(frame.chunks) \in Nat
  BY FrameFacts DEF EntriesInv, TypeOK
<1>3. n \in 0 .. Len(frame.chunks) /\ j \in 0 .. Len(outputs)
  BY <1>1, <1>2
<1>4. ASSUME NEW k \in DOMAIN outputs
      PROVE  LET m == IF k <= j THEN n + 1 ELSE n
             IN  Holds(k, m) /\ outputs[k].lengths = LengthsUpTo(k, m)
  <2>1. k \in Nat \ {0}
    BY <1>1
  <2>2. Given(k) = IF k <= j THEN n + 1 ELSE n
    BY <1>1, <2>1 DEF Given
  <2>3. Holds(k, Given(k)) /\ outputs[k].lengths = LengthsUpTo(k, Given(k))
    BY <1>1 DEF EntryExact
  <2> QED
    BY <2>2, <2>3
<1> HIDE DEF n, j
<1> QED
  BY <1>3, <1>4 DEF CutAtOnePoint

(* A call that ends where nothing was appended leaves the same content.    *)
LEMMA CutStays ==
  ASSUME CutAtOnePoint, phase # "idle" \/ phase' = "idle", frame' = frame,
         Len(outputs') = Len(outputs), DOMAIN outputs' = DOMAIN outputs,
         \A k \in DOMAIN outputs : /\ outputs'[k].bytes = outputs[k].bytes
                                   /\ outputs'[k].lengths = outputs[k].lengths
  PROVE  CutAtOnePoint'
<1> SUFFICES ASSUME Touched'
             PROVE  \E n \in 0 .. Len(frame'.chunks), j \in 0 .. Len(outputs') :
                      \A k \in DOMAIN outputs' :
                        LET m == IF k <= j THEN n + 1 ELSE n
                        IN  /\ Holds(k, m)'
                            /\ \/ outputs'[k].lengths = LengthsUpTo(k, m)'
                               \/ /\ k = j /\ phase' = "idle"
                                  /\ outputs'[k].lengths = LengthsUpTo(k, n)'
  BY DEF CutAtOnePoint
<1>1. PICK n \in 0 .. Len(frame.chunks), j \in 0 .. Len(outputs) :
        \A k \in DOMAIN outputs :
          LET m == IF k <= j THEN n + 1 ELSE n
          IN  /\ Holds(k, m)
              /\ \/ outputs[k].lengths = LengthsUpTo(k, m)
                 \/ k = j /\ phase = "idle" /\ outputs[k].lengths = LengthsUpTo(k, n)
  BY DEF CutAtOnePoint, Touched
<1>2. ASSUME NEW k \in DOMAIN outputs, NEW m
      PROVE  /\ Holds(k, m) => Holds(k, m)'
             /\ outputs[k].lengths = LengthsUpTo(k, m) => outputs'[k].lengths = LengthsUpTo(k, m)'
  BY DEF Holds, BytesUpTo, LengthsUpTo
<1>3. ASSUME NEW k \in DOMAIN outputs
      PROVE  \E m : /\ m = IF k <= j THEN n + 1 ELSE n
                    /\ Holds(k, m)'
                    /\ \/ outputs'[k].lengths = LengthsUpTo(k, m)'
                       \/ /\ k = j /\ phase' = "idle"
                          /\ outputs'[k].lengths = LengthsUpTo(k, n)'
  <2>1. PICK m : m = IF k <= j THEN n + 1 ELSE n
    OBVIOUS
  <2>2. /\ Holds(k, m)
        /\ \/ outputs[k].lengths = LengthsUpTo(k, m)
           \/ k = j /\ phase = "idle" /\ outputs[k].lengths = LengthsUpTo(k, n)
    BY <1>1, <2>1
  <2>3. /\ Holds(k, m)'
        /\ \/ outputs'[k].lengths = LengthsUpTo(k, m)'
           \/ k = j /\ phase' = "idle" /\ outputs'[k].lengths = LengthsUpTo(k, n)'
    BY <1>2, <2>2
  <2> QED
    BY <2>1, <2>3
<1>4. ASSUME NEW k \in DOMAIN outputs
      PROVE  LET m == IF k <= j THEN n + 1 ELSE n
             IN  /\ Holds(k, m)'
                 /\ \/ outputs'[k].lengths = LengthsUpTo(k, m)'
                    \/ /\ k = j /\ phase' = "idle"
                       /\ outputs'[k].lengths = LengthsUpTo(k, n)'
  BY <1>3 DEF Holds, BytesUpTo, LengthsUpTo
<1>5. n \in 0 .. Len(frame'.chunks) /\ j \in 0 .. Len(outputs')
  OBVIOUS
<1> QED
  BY <1>4, <1>5
-----------------------------------------------------------------------------
(* The output whose turn it is.                                            *)

(* What its entry has, and what the stream would add.                      *)
LEMMA TurnExact ==
  ASSUME OutputAssumption, EntriesInv, ContentExact, phase = "append",
         output \in DOMAIN outputs, Len(Current.streams) >= output
  PROVE  LET stream == FinalStream(Current, output)
         IN  /\ stream \in Stream
             /\ stream.lengths # {} => stream.type = "String"
             /\ Given(output) = next - 1 /\ EntryExact(output)
             /\ output \in Nat \ {0} /\ next \in DOMAIN frame.chunks /\ next \in Nat \ {0}
             /\ Reaches(output, next)
             /\ BytesUpTo(output, next) = outputs[output].bytes \o stream.bytes
             /\ LengthsUpTo(output, next) = outputs[output].lengths \o LengthsOf(stream)
<1>1. /\ next \in DOMAIN frame.chunks /\ next \in Nat \ {0} /\ output \in Nat \ {0}
      /\ frame \in Frames \cup {NoFrame}
  BY DEF EntriesInv, TypeOK
<1>2. FinalStream(Current, output) = FinalStream(frame.chunks[next], output)
  BY DEF Current
<1>3. output <= Len(frame.chunks[next].streams)
  <2>1. Current \in Chunk
    BY <1>1, FrameFacts DEF Current
  <2>2. Len(Current.streams) \in Nat
    BY <2>1 DEF Chunk
  <2> QED
    BY <1>1, <2>2 DEF Current
<1>4. /\ FinalStream(Current, output) \in Stream
      /\ FinalStream(Current, output).lengths # {} => FinalStream(Current, output).type = "String"
  BY <1>1, <1>2, <1>3, GivenStream
<1>5. Given(output) = next - 1 /\ EntryExact(output)
  BY <1>1 DEF Given, ContentExact
<1>6. next - 1 \in Nat /\ (next - 1) + 1 = next
  BY <1>1
<1>7. Holds(output, next - 1) /\ outputs[output].lengths = LengthsUpTo(output, next - 1)
  BY <1>5 DEF EntryExact
<1>8. Reaches(output, next)
  <2>1. next <= Len(frame.chunks)
    BY <1>1, FrameFacts
  <2>2. \A i \in 1 .. next : i = next \/ i \in 1 .. (next - 1)
    BY <1>1
  <2> QED
    BY <1>3, <1>7, <2>1, <2>2 DEF Reaches, Holds
<1>9. /\ BytesUpTo(output, next) =
           BytesUpTo(output, next - 1) \o FinalStream(frame.chunks[next], output).bytes
      /\ LengthsUpTo(output, next) =
           LengthsUpTo(output, next - 1) \o LengthsOf(FinalStream(frame.chunks[next], output))
  <2> DEFINE m == next - 1
  <2>1. m \in Nat /\ m + 1 = next
    BY <1>6
  <2> HIDE DEF m
  <2>2. Reaches(output, m + 1)
    BY <1>8, <2>1
  <2>3. /\ BytesUpTo(output, m + 1) =
             BytesUpTo(output, m) \o FinalStream(frame.chunks[m + 1], output).bytes
        /\ LengthsUpTo(output, m + 1) =
             LengthsUpTo(output, m) \o LengthsOf(FinalStream(frame.chunks[m + 1], output))
    BY <1>1, <2>1, <2>2, OneMore
  <2> QED
    BY <2>1, <2>3 DEF m
<1> QED
  BY <1>1, <1>2, <1>4, <1>5, <1>7, <1>8, <1>9 DEF Holds

(* A stream that passes the checks fits behind those before it.            *)
LEMMA StreamFits ==
  ASSUME OutputAssumption, EntriesInv, ContentExact, phase = "append",
         output \in DOMAIN outputs, Len(Current.streams) >= output,
         FinalStream(Current, output).type = outputs[output].type,
         FinalStream(Current, output).width \in Widths(FinalStream(Current, output).type),
         outputs[output].width \in {0, FinalStream(Current, output).width},
         ~ Partial(FinalStream(Current, output)),
         FinalStream(Current, output).type = "String" =>
           FinalStream(Current, output).lengths # {}
  PROVE  StreamsFit(frame, output, next)
<1> DEFINE stream(i) == FinalStream(frame.chunks[i], output)
           Fits(i) == /\ stream(i).type = frame.outputs[output].type
                      /\ stream(i).width \in Widths(stream(i).type) /\ ~Partial(stream(i))
                      /\ stream(i).type = "String" => stream(i).lengths # {}
                      /\ \A h \in 1 .. i - 1 : stream(h).width \in {0, stream(i).width}
<1>1. EntryExact(output) /\ Given(output) = next - 1 /\ next \in Nat \ {0}
  BY TurnExact
<1>2. \A i \in 1 .. next - 1 : Fits(i)
  BY <1>1 DEF EntryExact, StreamsFit
<1>3. /\ stream(next).type = frame.outputs[output].type
      /\ stream(next).width \in Widths(stream(next).type) /\ ~Partial(stream(next))
      /\ stream(next).type = "String" => stream(next).lengths # {}
      /\ outputs[output].width \in {0, stream(next).width}
  BY <1>1 DEF Current, EntryExact
<1>4. outputs[output].width = IF next - 1 = 0 THEN 0 ELSE stream(next - 1).width
  BY <1>1 DEF EntryExact
<1>5. \A h \in 1 .. next - 1 : stream(h).width \in {0, stream(next).width}
  <2> SUFFICES ASSUME NEW h \in 1 .. next - 1 PROVE stream(h).width \in {0, stream(next).width}
    OBVIOUS
  <2>1. next - 1 \in 1 .. next - 1 /\ next - 1 # 0
    BY <1>1
  <2>2. stream(next - 1).width \in {0, stream(next).width}
    BY <1>3, <1>4, <2>1
  <2>3. CASE h = next - 1
    BY <2>2, <2>3
  <2>4. CASE h # next - 1
    <3>1. h \in 1 .. (next - 1) - 1
      BY <1>1, <2>4
    <3>2. \A g \in 1 .. (next - 1) - 1 : stream(g).width \in {0, stream(next - 1).width}
      BY <1>2, <2>1
    <3>3. stream(h).width \in {0, stream(next - 1).width}
      BY <3>1, <3>2
    <3> QED
      BY <2>2, <3>3
  <2> QED
    BY <2>3, <2>4
<1>6. Fits(next)
  BY <1>3, <1>5
<1>7. \A i \in 1 .. next : i = next \/ i \in 1 .. next - 1
  BY <1>1
<1>8. \A i \in 1 .. next : Fits(i)
  BY <1>2, <1>6, <1>7
<1> QED
  BY <1>8 DEF StreamsFit

(* The hash of the chunk so far, with this output's piece.                 *)
LEMMA HashStep ==
  ASSUME OutputAssumption, EntriesInv, ContentExact, phase = "append",
         output \in DOMAIN outputs, Len(Current.streams) >= output
  PROVE  Hashed(FinalStream(Current, output)) = HashUpTo(frame, Current, output)
<1> DEFINE stream == FinalStream(Current, output)
           s == [k \in 1 .. (output - 1) |-> HashPiece(frame, FinalStream(Current, k))]
           t == [k \in 1 .. output |-> HashPiece(frame, FinalStream(Current, k))]
<1>1. /\ stream \in Stream /\ output \in Nat \ {0} /\ next \in DOMAIN frame.chunks
      /\ Reaches(output, next) /\ next \in Nat \ {0}
  BY TurnExact
<1>2. output <= Len(frame.chunks[next].streams)
  BY <1>1 DEF Reaches
<1>3. ASSUME NEW k \in 1 .. output
      PROVE  HashPiece(frame, FinalStream(Current, k)) \in Seq(Int)
  <2>1. Len(frame.chunks[next].streams) \in Nat
    <3>1. frame.chunks \in Seq(Chunk)
      BY FrameFacts DEF EntriesInv, TypeOK
    <3>2. frame.chunks[next] \in Chunk
      BY <1>1, <3>1
    <3>3. frame.chunks[next].streams \in Seq(Stream)
      BY <3>2 DEF Chunk
    <3> QED
      BY <3>3
  <2>2. k \in Nat \ {0} /\ k <= Len(frame.chunks[next].streams)
    BY <1>1, <1>2, <2>1
  <2>3. FinalStream(frame.chunks[next], k) \in Stream
    BY <1>1, <2>2, GivenStream DEF EntriesInv, TypeOK
  <2> QED
    BY <2>3, StreamParts DEF Current
<1>4. s \in Seq(Seq(Int)) /\ Len(s) = output - 1 /\ t \in Seq(Seq(Int)) /\ Len(t) = output
  <2>1. output \in Nat /\ output - 1 \in Nat /\ 1 .. (output - 1) \subseteq 1 .. output
    BY <1>1
  <2>2. t \in Seq(Seq(Int)) /\ Len(t) = output
    BY <1>3, <2>1
  <2>3. s \in Seq(Seq(Int)) /\ Len(s) = output - 1
    BY <1>3, <2>1
  <2> QED
    BY <2>2, <2>3
<1>5. (\A k \in 1 .. Len(s) : t[k] = s[k]) /\ t[output] = HashPiece(frame, stream)
  BY <1>1, <1>4
<1>6. hashed = FlattenSeq(s) /\ HashUpTo(frame, Current, output) = FlattenSeq(t)
  BY DEF ContentExact, HashUpTo
<1>7. HashPiece(frame, stream) \in Seq(Int) /\ hashed \in Seq(Int) /\ stream.bytes \in Seq(Int)
  <2>1. stream.bytes \in Seq(Byte) /\ Byte \subseteq Int
    BY <1>1 DEF Stream, OutputAssumption
  <2> DEFINE b == stream.bytes
  <2> HIDE DEF stream, s, t
  <2>2. b \in Seq(Byte)
    BY <2>1
  <2> HIDE DEF b
  <2>3. b = [i \in 1 .. Len(b) |-> b[i]] /\ Len(b) \in Nat /\ \A i \in 1 .. Len(b) : b[i] \in Byte
    BY <2>2
  <2>4. \A i \in 1 .. Len(b) : b[i] \in Int
    BY <2>1, <2>3
  <2>5. b \in Seq(Int)
    BY <2>3, <2>4
  <2> QED
    BY <1>1, <2>5, StreamParts DEF EntriesInv, TypeOK, b
<1>8. Hashed(stream) = hashed \o HashPiece(frame, stream)
  <2> DEFINE tail == IF frame.version >= 15
                     THEN [i \in DOMAIN LengthsOf(stream) |-> Le32(LengthsOf(stream)[i])]
                     ELSE <<>>
             b == stream.bytes
  <2>1. tail \in Seq(Int)
    <3> DEFINE u == LengthsOf(stream)
    <3>1. u \in Seq(Nat)
      BY <1>1, LengthsOfOne
    <3> HIDE DEF u
    <3>2. DOMAIN u = 1 .. Len(u) /\ Len(u) \in Nat /\ \A i \in DOMAIN u : Le32(u[i]) \in Int
      BY <3>1 DEF Le32
    <3>3. [i \in DOMAIN u |-> Le32(u[i])] \in Seq(Int)
      BY <3>2
    <3> QED
      BY <3>3, EmptySeq DEF u
  <2>2. HashPiece(frame, stream) = b \o tail
    BY DEF HashPiece
  <2>3. Hashed(stream) = (hashed \o b) \o tail
    <3> HIDE DEF stream
    <3>1. CASE stream.lengths = {}
      <4>1. LengthsOf(stream) = <<>>
        BY <3>1 DEF LengthsOf
      <4>2. tail = <<>>
        BY <4>1
      <4>3. Hashed(stream) = (hashed \o b) \o <<>>
        BY <3>1 DEF Hashed
      <4> QED
        BY <4>2, <4>3
    <3>2. CASE stream.lengths # {}
      BY <3>2 DEF Hashed, LengthsOf
    <3> QED
      BY <3>1, <3>2
  <2>4. b \in Seq(Int) /\ hashed \in Seq(Int)
    BY <1>7
  <2> HIDE DEF tail, b
  <2>5. (hashed \o b) \o tail = hashed \o (b \o tail)
    <3>1. PICK S : S = Int
      OBVIOUS
    <3>2. b \in Seq(S) /\ hashed \in Seq(S) /\ tail \in Seq(S)
      BY <2>1, <2>4, <3>1
    <3> QED
      BY SMTT(30), <3>2, ConcatAssociative
  <2> QED
    BY <2>2, <2>3, <2>5
<1> HIDE DEF s, t, stream
<1>9. FlattenSeq(t) = FlattenSeq(s) \o t[Len(t)]
  <2>1. Len(t) = Len(s) + 1
    BY <1>1, <1>4
  <2> QED
    BY <1>4, <1>5, <2>1, FlattenLast
<1>10. FlattenSeq(t) = hashed \o HashPiece(frame, stream)
  BY <1>4, <1>5, <1>6, <1>9
<1> QED
  BY <1>6, <1>8, <1>10 DEF stream
-----------------------------------------------------------------------------
(* The entries stay exact.                                                 *)

(* EntryExact once g chunks have given output k theirs.                    *)
ExactAt(k, g) ==
  /\ outputs[k].type = frame.outputs[k].type
  /\ Holds(k, g) /\ outputs[k].lengths = LengthsUpTo(k, g)
  /\ StreamsFit(frame, k, g)
  /\ outputs[k].width = IF g = 0 THEN 0 ELSE FinalStream(frame.chunks[g], k).width
  /\ budgets[k].lengths = 4 * Len(outputs[k].lengths)

(* EntryExact, with the number of chunks as a parameter.                   *)
LEMMA ExactNow == ASSUME NEW k PROVE EntryExact(k) <=> ExactAt(k, Given(k))
BY DEF EntryExact, ExactAt

(* EntryExact after a step, with that number named.                        *)
LEMMA ExactNext ==
  ASSUME NEW k, NEW g, Given(k)' = g, ExactAt(k, g)' PROVE EntryExact(k)'
BY DEF EntryExact, ExactAt

(* An entry no step touched.                                               *)
LEMMA ExactStays ==
  ASSUME NEW k, NEW g, frame' = frame, outputs'[k] = outputs[k], budgets'[k] = budgets[k],
         ExactAt(k, g)
  PROVE  ExactAt(k, g)'
BY DEF ExactAt, Holds, BytesUpTo, LengthsUpTo

(* A step that touches no entry and moves no turn.                         *)
LEMMA AllStay ==
  ASSUME ContentExact, phase # "idle", frame' = frame, outputs' = outputs, budgets' = budgets,
         \A k \in DOMAIN outputs : Given(k)' = Given(k)
  PROVE  \A k \in DOMAIN outputs' : EntryExact(k)'
<1> SUFFICES ASSUME NEW k \in DOMAIN outputs PROVE EntryExact(k)'
  OBVIOUS
<1> DEFINE g == Given(k)
<1>1. ExactAt(k, g)
  BY ExactNow DEF ContentExact
<1>2. Given(k)' = g
  OBVIOUS
<1> HIDE DEF g
<1>3. PICK h : h = g
  OBVIOUS
<1>4. ExactAt(k, h)'
  BY <1>1, <1>3, ExactStays
<1> QED
  BY <1>2, <1>3, <1>4, ExactNext

(* What a stream that is accepted looks like.                              *)
LEMMA Accepted ==
  ASSUME NEW stream, NEW k, StreamError(stream, k) = "Ok"
  PROVE  /\ stream.type = outputs[k].type /\ stream.width \in Widths(stream.type)
         /\ outputs[k].width \in {0, stream.width} /\ ~ Partial(stream)
BY DEF StreamError

(* An entry and its budget, replaced together.                             *)
LEMMA BothReplaced ==
  ASSUME EntriesInv, phase # "idle", output \in DOMAIN outputs,
         NEW e, outputs' = [outputs EXCEPT ![output] = e],
         NEW b, budgets' = [budgets EXCEPT ![output] = b]
  PROVE  /\ DOMAIN outputs' = DOMAIN outputs /\ outputs'[output] = e /\ budgets'[output] = b
         /\ \A k \in DOMAIN outputs : k # output => outputs'[k] = outputs[k] /\ budgets'[k] = budgets[k]
<1>1. /\ outputs \in Seq(Entry) /\ Len(budgets) = Len(outputs)
      /\ budgets \in Seq([bytes : Nat, lengths : Nat])
  BY DEF EntriesInv, TypeOK
<1>2. DOMAIN budgets = DOMAIN outputs
  BY <1>1
<1> QED
  BY <1>2

(* The output whose turn it was takes all of its stream.                   *)
LEMMA AppendedExact ==
  ASSUME OutputAssumption, EntriesInv, ContentExact, phase = "append",
         output \in DOMAIN outputs, Len(Current.streams) >= output,
         NextOutput(FinalStream(Current, output)), StreamsFit(frame, output, next),
         DOMAIN outputs' = DOMAIN outputs,
         \A k \in DOMAIN outputs : k # output => /\ outputs'[k] = outputs[k]
                                                /\ budgets'[k] = budgets[k],
         outputs'[output].type = outputs[output].type,
         outputs'[output].width = FinalStream(Current, output).width,
         outputs'[output].bytes = outputs[output].bytes \o FinalStream(Current, output).bytes,
         outputs'[output].lengths =
           outputs[output].lengths \o LengthsOf(FinalStream(Current, output)),
         budgets'[output].lengths = 4 * Len(outputs'[output].lengths)
  PROVE  ContentExact'
<1> DEFINE stream == FinalStream(Current, output)
<1>1. /\ EntryExact(output) /\ output \in Nat \ {0}
      /\ next \in DOMAIN frame.chunks /\ next \in Nat \ {0} /\ Reaches(output, next)
      /\ BytesUpTo(output, next) = outputs[output].bytes \o stream.bytes
      /\ LengthsUpTo(output, next) = outputs[output].lengths \o LengthsOf(stream)
  BY TurnExact
<1>2. /\ phase' = "append" /\ frame' = frame /\ verify' = verify /\ next' = next
      /\ output' = output + 1 /\ hashed' = Hashed(stream)
  BY DEF NextOutput
<1>3. outputs \in Seq(Entry)
  BY DEF EntriesInv, TypeOK
<1>4. /\ outputs'[output].type = outputs[output].type
      /\ outputs'[output].width = stream.width
      /\ outputs'[output].bytes = outputs[output].bytes \o stream.bytes
      /\ outputs'[output].lengths = outputs[output].lengths \o LengthsOf(stream)
      /\ budgets'[output].lengths = 4 * Len(outputs'[output].lengths)
      /\ \A k \in DOMAIN outputs : k # output => outputs'[k] = outputs[k] /\ budgets'[k] = budgets[k]
  OBVIOUS
<1>5. ASSUME NEW k \in DOMAIN outputs
      PROVE  EntryExact(k)'
  <2>1. k \in Nat
    BY <1>3
  <2>2. CASE k = output
    <3>1. PICK g : g = next
      OBVIOUS
    <3>2. Given(k)' = g
      BY <1>1, <1>2, <2>1, <2>2, <3>1 DEF Given
    <3>3. ExactAt(k, g)'
      <4>1. outputs'[k].type = frame'.outputs[k].type
        BY <1>1, <1>2, <1>4, <2>2 DEF EntryExact
      <4>2. Holds(k, g)'
        BY <1>1, <1>2, <1>4, <2>2, <3>1 DEF Holds, Reaches, BytesUpTo
      <4>3. outputs'[k].lengths = LengthsUpTo(k, g)'
        BY <1>1, <1>2, <1>4, <2>2, <3>1 DEF LengthsUpTo
      <4>4. StreamsFit(frame', k, g)
        BY <1>2, <2>2, <3>1
      <4>5. g # 0 /\ outputs'[k].width = FinalStream(frame'.chunks[g], k).width
        BY <1>1, <1>2, <1>4, <2>2, <3>1 DEF Current
      <4>6. budgets'[k].lengths = 4 * Len(outputs'[k].lengths)
        BY <1>4, <2>2
      <4> QED
        BY <4>1, <4>2, <4>3, <4>4, <4>5, <4>6 DEF ExactAt
    <3> QED
      BY <3>2, <3>3, ExactNext
  <2>3. CASE k # output
    <3>1. PICK g : g = Given(k)
      OBVIOUS
    <3>2. ExactAt(k, g)
      BY <3>1, ExactNow DEF ContentExact
    <3>3. ExactAt(k, g)'
      BY <1>2, <1>4, <2>3, <3>2, ExactStays
    <3>4. Given(k)' = g
      BY <1>1, <1>2, <2>1, <2>3, <3>1 DEF Given
    <3> QED
      BY <3>3, <3>4, ExactNext
  <2> QED
    BY <2>2, <2>3
<1>6. hashed' = HashUpTo(frame', Current', output' - 1)
  <2>1. hashed' = HashUpTo(frame, Current, output)
    BY <1>2, HashStep
  <2>2. output' - 1 = output /\ Current' = Current
    BY SMTT(30), <1>1, <1>2 DEF Current
  <2> QED
    BY <1>2, <2>1, <2>2
<1>7. output' - 1 <= Len(outputs')
  BY <1>1, <1>2, <1>3, <1>4
<1>8. ~ Current'.fails
  BY <1>2 DEF ContentExact, Current
<1>9. /\ WithinLimits(frame') /\ next' - 1 <= Len(frame'.chunks)
      /\ \A i \in 1 .. next' - 1 : SoundChunk(frame', frame'.chunks[i], verify')
  BY <1>2 DEF ContentExact
<1>10. \A k \in DOMAIN outputs' : EntryExact(k)'
  BY <1>4, <1>5
<1> QED
  BY <1>2, <1>6, <1>7, <1>8, <1>9, <1>10 DEF ContentExact

(* An entry that takes a stream takes its width.                           *)
LEMMA TakesWidth ==
  ASSUME NEW e \in Entry, NEW stream \in Stream, e.width \in {0, stream.width}
  PROVE  /\ WithBytes(e, stream).type = e.type
         /\ WithBytes(e, stream).width = stream.width
         /\ WithBytes(e, stream).bytes = e.bytes \o stream.bytes
         /\ WithBytes(e, stream).lengths = e.lengths
<1>1. WithBytes(e, stream) =
        [e EXCEPT !.width = IF e.width = 0 THEN stream.width ELSE e.width,
                  !.bytes = e.bytes \o stream.bytes]
  BY DEF WithBytes
<1>2. (IF e.width = 0 THEN stream.width ELSE e.width) = stream.width
  OBVIOUS
<1> QED
  BY <1>1, <1>2 DEF Entry

(* A stream without lengths.                                               *)
LEMMA AppendBytesExact ==
  ASSUME OutputAssumption, EntriesInv, ContentExact, AppendBytes
  PROVE  ContentExact'
<1> DEFINE stream == FinalStream(Current, output)
           e == WithBytes(outputs[output], stream)
           b == [budgets[output] EXCEPT !.bytes = budgets[output].bytes + Len(stream.bytes)]
<1>1. /\ phase = "append" /\ output \in DOMAIN outputs
      /\ Len(Current.streams) >= output /\ StreamError(stream, output) = "Ok"
      /\ stream.type # "String"
      /\ outputs' = [outputs EXCEPT ![output] = e] /\ budgets' = [budgets EXCEPT ![output] = b]
      /\ NextOutput(stream)
  BY DEF AppendBytes
<1>2. /\ stream \in Stream /\ stream.lengths = {} /\ EntryExact(output)
  BY <1>1, TurnExact
<1>3. StreamsFit(frame, output, next)
  BY <1>1, Accepted, StreamFits
<1>4. outputs[output] \in Entry /\ budgets[output] \in [bytes : Nat, lengths : Nat]
  BY <1>1, TurnFacts
<1>5. outputs[output].width \in {0, stream.width}
  BY <1>1, Accepted
<1>6. b.lengths = budgets[output].lengths
  BY <1>4
<1> HIDE DEF stream
<1>7. /\ e.type = outputs[output].type /\ e.width = stream.width
      /\ e.bytes = outputs[output].bytes \o stream.bytes
      /\ e.lengths = outputs[output].lengths
  BY <1>2, <1>4, <1>5, TakesWidth
<1>8. outputs[output].lengths = outputs[output].lengths \o LengthsOf(stream)
  <2>1. LengthsOf(stream) = <<>>
    BY <1>2 DEF LengthsOf
  <2>2. outputs[output].lengths \in Seq(Nat)
    BY <1>4 DEF Entry
  <2> QED
    BY <2>1, <2>2
<1>9. b.lengths = 4 * Len(e.lengths)
  BY <1>2, <1>6, <1>7 DEF EntryExact
<1> HIDE DEF e, b
<1>10. /\ DOMAIN outputs' = DOMAIN outputs /\ outputs'[output] = e /\ budgets'[output] = b
       /\ \A k \in DOMAIN outputs : k # output => outputs'[k] = outputs[k] /\ budgets'[k] = budgets[k]
  BY <1>1, BothReplaced
<1> QED
  BY <1>1, <1>3, <1>7, <1>8, <1>9, <1>10, AppendedExact DEF stream

(* A string stream.                                                        *)
LEMMA AppendStringsExact ==
  ASSUME OutputAssumption, EntriesInv, ContentExact, AppendStrings
  PROVE  ContentExact'
<1> DEFINE stream == FinalStream(Current, output)
           entry  == WithBytes(outputs[output], stream)
<1>1. PICK lengths \in stream.lengths :
        /\ phase = "append" /\ output \in DOMAIN outputs
        /\ Len(Current.streams) >= output /\ StreamError(stream, output) = "Ok"
        /\ outputs' = [outputs EXCEPT ![output] = [entry EXCEPT !.lengths = entry.lengths \o lengths]]
        /\ budgets' = [budgets EXCEPT ![output] =
                        [bytes |-> budgets[output].bytes + Len(stream.bytes),
                         lengths |-> budgets[output].lengths + 4 * Len(lengths)]]
        /\ NextOutput(stream)
  <2>1. /\ phase = "append" /\ output \in DOMAIN outputs
        /\ Len(Current.streams) >= output /\ StreamError(stream, output) = "Ok"
        /\ NextOutput(stream)
    BY DEF AppendStrings
  <2>2. PICK lengths \in stream.lengths :
          /\ outputs' = [outputs EXCEPT ![output] =
                          [WithBytes(outputs[output], stream) EXCEPT
                           !.lengths = @ \o lengths]]
          /\ budgets' = [budgets EXCEPT
                          ![output] = [bytes |-> @.bytes + Len(stream.bytes),
                                       lengths |-> @.lengths + 4 * Len(lengths)]]
    BY DEF AppendStrings
  <2> HIDE DEF stream
  <2>3. outputs' = [outputs EXCEPT ![output] = [entry EXCEPT !.lengths = entry.lengths \o lengths]]
    BY <2>2
  <2>4. budgets' = [budgets EXCEPT ![output] =
                     [bytes |-> budgets[output].bytes + Len(stream.bytes),
                      lengths |-> budgets[output].lengths + 4 * Len(lengths)]]
    BY <2>2
  <2> HIDE DEF entry
  <2> QED
    BY <2>1, <2>2, <2>3, <2>4
<1> DEFINE e == [entry EXCEPT !.lengths = entry.lengths \o lengths]
           b == [bytes |-> budgets[output].bytes + Len(stream.bytes),
                 lengths |-> budgets[output].lengths + 4 * Len(lengths)]
<1>2. stream \in Stream /\ EntryExact(output)
  BY <1>1, TurnExact
<1>3. StreamsFit(frame, output, next)
  BY <1>1, Accepted, StreamFits
<1>4. outputs[output] \in Entry
  BY <1>1, TurnFacts
<1>5. outputs[output].width \in {0, stream.width}
  BY <1>1, Accepted
<1>6. stream = FinalStream(Current, output)
  OBVIOUS
<1> HIDE DEF stream
<1>7. LengthsOf(stream) = lengths /\ lengths \in Seq(Nat)
  BY <1>1, <1>2, LengthsOfOne
<1>8. /\ entry.type = outputs[output].type /\ entry.width = stream.width
      /\ entry.bytes = outputs[output].bytes \o stream.bytes
      /\ entry.lengths = outputs[output].lengths /\ entry \in Entry
  BY <1>2, <1>4, <1>5, TakesWidth, BytesAdded
<1> HIDE DEF entry
<1>9. /\ e.type = outputs[output].type /\ e.width = stream.width
      /\ e.bytes = outputs[output].bytes \o stream.bytes
      /\ e.lengths = outputs[output].lengths \o LengthsOf(stream)
  BY <1>7, <1>8 DEF Entry
<1>10. b.lengths = 4 * Len(e.lengths)
  <2>1. outputs[output].lengths \in Seq(Nat)
    BY <1>4 DEF Entry
  <2>2. Len(e.lengths) = Len(outputs[output].lengths) + Len(lengths)
    BY <1>7, <1>9, <2>1, Appended
  <2>3. budgets[output].lengths = 4 * Len(outputs[output].lengths)
    BY <1>2 DEF EntryExact
  <2>4. Len(outputs[output].lengths) \in Nat /\ Len(lengths) \in Nat
    BY <1>7, <2>1
  <2>5. b.lengths = budgets[output].lengths + 4 * Len(lengths)
    OBVIOUS
  <2>6. 4 * (Len(outputs[output].lengths) + Len(lengths)) =
          4 * Len(outputs[output].lengths) + 4 * Len(lengths)
    <3> DEFINE x == Len(outputs[output].lengths)
               y == Len(lengths)
    <3>1. x \in Nat /\ y \in Nat
      BY <2>4
    <3> HIDE DEF x, y
    <3>2. 4 * (x + y) = 4 * x + 4 * y
      BY <3>1
    <3> QED
      BY <3>2 DEF x, y
  <2> HIDE DEF b, e
  <2>7. b.lengths = 4 * Len(outputs[output].lengths) + 4 * Len(lengths)
    BY <2>3, <2>5
  <2> QED
    BY <2>2, <2>6, <2>7
<1> HIDE DEF e, b
<1>11. outputs' = [outputs EXCEPT ![output] = e] /\ budgets' = [budgets EXCEPT ![output] = b]
  BY <1>1 DEF e, b
<1>12. /\ DOMAIN outputs' = DOMAIN outputs /\ outputs'[output] = e /\ budgets'[output] = b
       /\ \A k \in DOMAIN outputs : k # output => outputs'[k] = outputs[k] /\ budgets'[k] = budgets[k]
  BY <1>1, <1>11, BothReplaced
<1> QED
  BY <1>1, <1>3, <1>6, <1>9, <1>10, <1>12, AppendedExact
-----------------------------------------------------------------------------
(* What ends a call.                                                       *)

(* An error that a frame deserves, or no fault of the frame.               *)
LEMMA ErrorIsRight ==
  ASSUME frame' = frame, verify' = verify, result' # "Ok",
         result' # "AllocationFailed" => ~ Sound(frame, verify)
  PROVE  AcceptsExactlySound'
BY DEF AcceptsExactlySound

(* What a sound frame gives each of its outputs.                           *)
LEMMA SoundGives ==
  ASSUME OutputAssumption, EntriesInv, phase # "idle", Sound(frame, verify),
         NEW k \in DOMAIN outputs
  PROVE  LET n == Len(frame.chunks)
         IN  /\ n \in Nat /\ Reaches(k, n) /\ StreamsFit(frame, k, n)
             /\ Len(BytesUpTo(k, n)) = frame.outputs[k].size
             /\ frame.outputs[k].type = "String" =>
                  IF frame.outputs[k].elements # {}
                  THEN Len(LengthsUpTo(k, n)) \in frame.outputs[k].elements
                  ELSE 4 * Len(LengthsUpTo(k, n)) <= MaxDecoded
             /\ \A m \in 0 .. n : /\ Len(BytesUpTo(k, m)) <= Len(BytesUpTo(k, n))
                                  /\ Len(LengthsUpTo(k, m)) <= Len(LengthsUpTo(k, n))
<1> DEFINE n == Len(frame.chunks)
<1>1. /\ frame \in Frames \cup {NoFrame} /\ outputs \in Seq(Entry)
      /\ Len(outputs) = Len(frame.outputs)
  BY DEF EntriesInv, TypeOK, ContentWithinDeclared
<1>2. frame.chunks \in Seq(Chunk) /\ frame.outputs \in Seq(Header)
  BY <1>1, FrameFacts
<1>3. k \in Nat \ {0} /\ k \in DOMAIN frame.outputs /\ k <= Len(frame.outputs) /\ n \in Nat
  BY <1>1, <1>2
<1>4. Reaches(k, n)
  <2> SUFFICES ASSUME NEW i \in 1 .. n PROVE k <= Len(frame.chunks[i].streams)
    BY <1>3 DEF Reaches
  <2>1. i \in DOMAIN frame.chunks
    BY <1>2
  <2>2. frame.chunks[i].streams \in Seq(Stream)
    <3>1. frame.chunks[i] \in Chunk
      BY <1>2, <2>1
    <3> QED
      BY <3>1 DEF Chunk
  <2>3. Len(frame.chunks[i].streams) >= Len(frame.outputs)
    BY <2>1 DEF Sound, SoundChunk
  <2>4. Len(frame.chunks[i].streams) \in Nat /\ Len(frame.outputs) \in Nat
    BY <1>2, <2>2
  <2> QED
    BY <1>3, <2>3, <2>4
<1>5. SoundOutput(frame, k)
  BY <1>3 DEF Sound
<1>6. /\ SumOver([i \in 1 .. n |-> Len(FinalStream(frame.chunks[i], k).bytes)]) =
           Len(BytesUpTo(k, n))
      /\ SumOver([i \in 1 .. n |-> Len(LengthsOf(FinalStream(frame.chunks[i], k)))]) =
           Len(LengthsUpTo(k, n))
      /\ \A m \in 0 .. n : /\ Len(BytesUpTo(k, m)) <= Len(BytesUpTo(k, n))
                           /\ Len(LengthsUpTo(k, m)) <= Len(LengthsUpTo(k, n))
  BY <1>1, <1>3, <1>4, SizesGiven
<1>7. /\ StreamsFit(frame, k, n)
      /\ SumOver([i \in 1 .. n |-> Len(FinalStream(frame.chunks[i], k).bytes)]) =
           frame.outputs[k].size
      /\ frame.outputs[k].type = "String" =>
           IF frame.outputs[k].elements # {}
           THEN SumOver([i \in 1 .. n |-> Len(LengthsOf(FinalStream(frame.chunks[i], k)))])
                  \in frame.outputs[k].elements
           ELSE 4 * SumOver([i \in 1 .. n |-> Len(LengthsOf(FinalStream(frame.chunks[i], k)))])
                  <= MaxDecoded
  BY <1>5 DEF SoundOutput
<1> HIDE DEF n
<1>8. Len(BytesUpTo(k, n)) = frame.outputs[k].size
  BY <1>6, <1>7
<1>9. frame.outputs[k].type = "String" =>
        IF frame.outputs[k].elements # {}
        THEN Len(LengthsUpTo(k, n)) \in frame.outputs[k].elements
        ELSE 4 * Len(LengthsUpTo(k, n)) <= MaxDecoded
  BY <1>6, <1>7
<1> QED
  BY <1>3, <1>4, <1>6, <1>7, <1>8, <1>9 DEF n

(* A stream is refused only for a frame that is not sound.                 *)
LEMMA RefusesRightly ==
  ASSUME OutputAssumption, EntriesInv, ContentExact, RefuseStream
  PROVE  ~ Sound(frame, verify) /\ result' # "Ok" /\ frame' = frame /\ verify' = verify
<1> DEFINE stream == FinalStream(Current, output)
           n == Len(frame.chunks)
<1>1. phase = "append" /\ output \in DOMAIN outputs
  BY DEF RefuseStream
<1>2. frame' = frame /\ verify' = verify /\ result' # "Ok"
  BY DEF RefuseStream, Stop
<1>3. ~ Sound(frame, verify)
  <2> SUFFICES ASSUME Sound(frame, verify) PROVE FALSE
    OBVIOUS
  <2>1. /\ n \in Nat /\ Reaches(output, n) /\ StreamsFit(frame, output, n)
        /\ Len(BytesUpTo(output, n)) = frame.outputs[output].size
        /\ \A m \in 0 .. n : Len(BytesUpTo(output, m)) <= Len(BytesUpTo(output, n))
    BY <1>1, SoundGives
  <2>2. /\ next \in DOMAIN frame.chunks /\ next \in Nat \ {0} /\ output \in Nat \ {0}
        /\ frame.chunks \in Seq(Chunk) /\ frame \in Frames \cup {NoFrame}
    BY <1>1, FrameFacts DEF EntriesInv, TypeOK
  <2>3. next \in 1 .. n
    BY <2>2
  <2>4. Len(Current.streams) >= output /\ ~ (Len(Current.streams) < output)
    <3>1. Current \in Chunk
      BY <2>2 DEF Current
    <3>2. Len(Current.streams) \in Nat
      BY <3>1 DEF Chunk
    <3>3. output <= Len(Current.streams)
      BY <2>1, <2>3 DEF Reaches, Current
    <3> QED
      BY <2>2, <3>2, <3>3
  <2>5. StreamError(stream, output) # "Ok"
    BY <2>4 DEF RefuseStream
  <2>6. /\ stream \in Stream /\ EntryExact(output) /\ Given(output) = next - 1
        /\ BytesUpTo(output, next) = outputs[output].bytes \o stream.bytes
    BY <1>1, <2>4, TurnExact
  <2>7. /\ stream.type = frame.outputs[output].type
        /\ stream.width \in Widths(stream.type) /\ ~Partial(stream)
        /\ \A h \in 1 .. next - 1 :
             FinalStream(frame.chunks[h], output).width \in {0, stream.width}
    BY <2>1, <2>3 DEF StreamsFit, Current
  <2>8. stream.type = outputs[output].type
    BY <2>6, <2>7 DEF EntryExact
  <2>9. outputs[output].width \in {0, stream.width}
    <3>1. outputs[output].width =
            IF next - 1 = 0 THEN 0 ELSE FinalStream(frame.chunks[next - 1], output).width
      BY <2>6 DEF EntryExact
    <3>2. next - 1 # 0 => next - 1 \in 1 .. next - 1
      BY <2>2
    <3> QED
      BY <2>7, <3>1, <3>2
  <2>10. ~ (budgets[output].bytes + Len(stream.bytes) > frame.outputs[output].size)
    <3>1. /\ outputs[output] \in Entry /\ budgets[output].bytes = Len(outputs[output].bytes)
          /\ output \in DOMAIN frame.outputs
      BY <1>1, TurnFacts
    <3>2. outputs[output].bytes \in Seq(Byte) /\ stream.bytes \in Seq(Byte)
      BY <2>6, <3>1 DEF Entry, Stream
    <3>3. Len(BytesUpTo(output, next)) = Len(outputs[output].bytes) + Len(stream.bytes)
      BY <2>6, <3>2, Appended
    <3>4. Len(BytesUpTo(output, next)) <= frame.outputs[output].size
      BY <2>1, <2>3
    <3>5. frame.outputs[output].size \in Nat
      BY <2>2, <3>1, FrameFacts
    <3> DEFINE had == Len(outputs[output].bytes)
               more == Len(stream.bytes)
               size == frame.outputs[output].size
    <3>6. had \in Nat /\ more \in Nat /\ size \in Nat
      BY <3>2, <3>5
    <3>7. had + more <= size /\ budgets[output].bytes = had
      BY <3>1, <3>3, <3>4
    <3> HIDE DEF had, more, size, stream
    <3>8. ~ (had + more > size)
      BY <3>6, <3>7
    <3> QED
      BY <3>7, <3>8 DEF had, more, size
  <2>11. StreamError(stream, output) = "Ok"
    BY <2>7, <2>8, <2>9, <2>10 DEF StreamError
  <2> QED
    BY <2>5, <2>11
<1> QED
  BY <1>2, <1>3

(* Lengths that fail on their own do so for a frame that is not sound, or  *)
(* for want of memory.                                                     *)
LEMMA FailsRightly ==
  ASSUME OutputAssumption, EntriesInv, ContentExact, StringsFail
  PROVE  /\ result' # "AllocationFailed" => ~ Sound(frame, verify)
         /\ result' # "Ok" /\ frame' = frame /\ verify' = verify
<1> DEFINE stream == FinalStream(Current, output)
           n == Len(frame.chunks)
<1>1. /\ phase = "append" /\ output \in DOMAIN outputs /\ Len(Current.streams) >= output
      /\ StreamError(stream, output) = "Ok" /\ stream.type = "String"
      /\ \/ stream.lengths = {} /\ Stop("Malformed")
         \/ \E lengths \in stream.lengths :
              Stop(IF LengthError(lengths, output) = "Ok" THEN "AllocationFailed"
                   ELSE LengthError(lengths, output))
  BY DEF StringsFail
<1>2. frame' = frame /\ verify' = verify /\ result' # "Ok"
  BY <1>1 DEF Stop
<1>3. ASSUME Sound(frame, verify), result' # "AllocationFailed"
      PROVE  FALSE
  <2>1. /\ n \in Nat /\ Reaches(output, n) /\ StreamsFit(frame, output, n)
        /\ frame.outputs[output].type = "String" =>
                  IF frame.outputs[output].elements # {}
                  THEN Len(LengthsUpTo(output, n)) \in frame.outputs[output].elements
                  ELSE 4 * Len(LengthsUpTo(output, n)) <= MaxDecoded
        /\ \A m \in 0 .. n : Len(LengthsUpTo(output, m)) <= Len(LengthsUpTo(output, n))
    BY <1>1, <1>3, SoundGives
  <2>2. /\ stream \in Stream /\ next \in DOMAIN frame.chunks /\ next \in Nat \ {0}
        /\ LengthsUpTo(output, next) = outputs[output].lengths \o LengthsOf(stream)
        /\ EntryExact(output) /\ output \in Nat \ {0}
    BY <1>1, TurnExact
  <2>3. frame.chunks \in Seq(Chunk) /\ frame \in Frames \cup {NoFrame}
    BY FrameFacts DEF EntriesInv, TypeOK
  <2>4. next \in 1 .. n
    BY <2>2, <2>3
  <2>5. stream.type = "String" => stream.lengths # {}
    BY <2>1, <2>4 DEF StreamsFit, Current
  <2>6. PICK lengths \in stream.lengths : LengthError(lengths, output) # "Ok"
    BY <1>1, <1>3, <2>5 DEF Stop
  <2>7. LengthsOf(stream) = lengths /\ lengths \in Seq(Nat)
    BY <2>2, <2>6, LengthsOfOne
  <2>8. /\ outputs[output] \in Entry /\ output \in DOMAIN frame.outputs
    BY <1>1, TurnFacts
  <2>9. outputs[output].lengths \in Seq(Nat)
    BY <2>8 DEF Entry
  <2>10. Len(LengthsUpTo(output, next)) = Len(outputs[output].lengths) + Len(lengths)
    BY <2>2, <2>7, <2>9, Appended
  <2>11. Len(LengthsUpTo(output, next)) <= Len(LengthsUpTo(output, n))
    BY <2>1, <2>4
  <2>12. frame.outputs[output].type = "String"
    BY <1>1, <2>2, Accepted DEF EntryExact
  <2>13. /\ MaxDecoded \in Nat /\ LengthBytes(frame.outputs[output]) \in Nat
         /\ frame.outputs[output] \in Header
    BY <2>3, <2>8, FrameFacts
  <2>14. frame.outputs[output].elements \in Optional(Nat)
    BY <2>13 DEF Header
  <2>15. LengthsUpTo(output, n) \in Seq(Nat)
    BY <2>1, <2>2, <2>3, SizesGiven
  <2> DEFINE had == Len(outputs[output].lengths)
             more == Len(lengths)
             all == Len(LengthsUpTo(output, n))
  <2>16. had \in Nat /\ more \in Nat /\ all \in Nat
    BY <2>7, <2>9, <2>15
  <2>17. had + more <= all
    BY <2>10, <2>11
  <2>18. CASE frame.outputs[output].elements # {}
    <3>1. all \in frame.outputs[output].elements
      BY <2>1, <2>12, <2>18
    <3>2. (CHOOSE x \in frame.outputs[output].elements : TRUE) = all
      BY <2>14, <3>1, OptionalOne
    <3>3. LengthBytes(frame.outputs[output]) = 4 * all
      BY <2>18, <3>2 DEF LengthBytes
    <3>4. 4 * (had + more) > LengthBytes(frame.outputs[output])
      BY <2>6, <2>18 DEF LengthError
    <3> HIDE DEF had, more, all
    <3> QED
      BY <2>16, <2>17, <3>3, <3>4
  <2>19. CASE frame.outputs[output].elements = {}
    <3>1. 4 * all <= MaxDecoded
      BY <2>1, <2>12, <2>19
    <3>2. 4 * (had + more) > MaxDecoded
      BY <2>6, <2>19 DEF LengthError
    <3> HIDE DEF had, more, all
    <3> QED
      BY <2>13, <2>16, <2>17, <3>1, <3>2
  <2> QED
    BY <2>18, <2>19
<1> QED
  BY <1>2, <1>3

(* After the last chunk, the frame is sound exactly if all is complete.    *)
LEMMA CompleteIsSound ==
  ASSUME OutputAssumption, EntriesInv, ContentExact, phase = "chunk",
         next \notin DOMAIN frame.chunks
  PROVE  /\ \A k \in DOMAIN outputs : outputs[k].bytes = BytesUpTo(k, Len(frame.chunks))
         /\ (\A k \in DOMAIN outputs : Complete(k)) <=> Sound(frame, verify)
<1> DEFINE n == Len(frame.chunks)
<1>1. /\ next \in Nat \ {0} /\ frame \in Frames \cup {NoFrame} /\ outputs \in Seq(Entry)
      /\ Len(outputs) = Len(frame.outputs) /\ Touched
  BY DEF EntriesInv, TypeOK, ContentWithinDeclared
<1>2. frame.chunks \in Seq(Chunk) /\ frame.outputs \in Seq(Header) /\ n \in Nat
  BY <1>1, FrameFacts
<1>3. next - 1 = n
  <2>1. next - 1 <= n
    BY DEF ContentExact
  <2> QED
    BY <1>1, <1>2, <2>1
<1>4. \A k \in DOMAIN outputs : EntryExact(k) /\ Given(k) = n
  BY <1>3 DEF ContentExact, Given
<1>5. \A i \in DOMAIN frame.chunks : SoundChunk(frame, frame.chunks[i], verify)
  BY <1>2, <1>3 DEF ContentExact
<1>6. WithinLimits(frame) /\ frame.prepared = "Ok"
  BY <1>1 DEF ContentExact, Touched
<1>7. ASSUME NEW k \in DOMAIN outputs
      PROVE  outputs[k].bytes = BytesUpTo(k, n) /\ (Complete(k) <=> SoundOutput(frame, k))
  <2> DEFINE strings == SumOver([i \in 1 .. n |-> Len(LengthsOf(FinalStream(frame.chunks[i], k)))])
             sizes   == SumOver([i \in 1 .. n |-> Len(FinalStream(frame.chunks[i], k).bytes)])
             header  == frame.outputs[k]
  <2>1. /\ k \in Nat \ {0} /\ k \in DOMAIN frame.outputs /\ outputs[k] \in Entry
    BY <1>1, <1>2
  <2>2. /\ Holds(k, n) /\ outputs[k].lengths = LengthsUpTo(k, n) /\ StreamsFit(frame, k, n)
        /\ budgets[k].lengths = 4 * Len(outputs[k].lengths)
    BY <1>4 DEF EntryExact
  <2>3. outputs[k].bytes = BytesUpTo(k, n) /\ Reaches(k, n)
    BY <2>2 DEF Holds, Reaches
  <2>4. sizes = Len(outputs[k].bytes) /\ strings = Len(outputs[k].lengths)
    BY <1>1, <1>2, <2>1, <2>2, <2>3, SizesGiven
  <2>5. budgets[k].bytes = sizes /\ budgets[k].lengths = 4 * strings
    BY <2>2, <2>4 DEF EntriesInv
  <2>6. strings \in Nat
    <3>1. outputs[k].lengths \in Seq(Nat)
      BY <2>1 DEF Entry
    <3> QED
      BY <2>4, <3>1
  <2>7. Complete(k) <=> sizes = header.size /\ \A m \in header.elements : 4 * strings = 4 * m
    BY <2>5 DEF Complete
  <2>8. SoundOutput(frame, k) <=>
          /\ sizes = header.size
          /\ header.type = "String" => IF header.elements # {} THEN strings \in header.elements
                                       ELSE 4 * strings <= MaxDecoded
    BY <2>2 DEF SoundOutput
  <2>9. header.elements \in Optional(Nat)
    <3>1. header \in Header
      BY <1>2, <2>1
    <3> QED
      BY <3>1 DEF Header
  <2>10. header.elements = {} => 4 * strings <= MaxDecoded
    BY <1>1, <2>4 DEF EntriesInv, ContentWithinDeclared
  <2>11. header.elements # {} => header.type = "String"
    <3>1. CASE frame \in Frames
      BY <2>1, <3>1 DEF OutputAssumption
    <3>2. CASE frame = NoFrame
      BY <2>1, <3>2 DEF NoFrame
    <3> QED
      BY <1>1, <3>1, <3>2
  <2> HIDE DEF strings, sizes, header
  <2>12. (\A m \in header.elements : 4 * strings = 4 * m) <=>
           (header.elements # {} => strings \in header.elements)
    <3>1. \A m \in header.elements : m \in Nat
      BY <2>9 DEF Optional
    <3>2. \A m \in header.elements : 4 * strings = 4 * m <=> strings = m
      BY <2>6, <3>1
    <3>3. \A l, m \in header.elements : l = m
      BY <2>9 DEF Optional
    <3> QED
      BY <3>2, <3>3
  <2>13. Complete(k) <=> SoundOutput(frame, k)
    BY <2>7, <2>8, <2>10, <2>11, <2>12
  <2> QED
    BY <2>3, <2>13
<1>8. DOMAIN frame.outputs = DOMAIN outputs
  BY <1>1, <1>2
<1> QED
  BY <1>5, <1>6, <1>7, <1>8 DEF Sound
-----------------------------------------------------------------------------
(* Each step keeps the whole invariant.                                    *)

(* A call that ends before anything of the next stream was appended.       *)
LEMMA EndsClean ==
  ASSUME OutputAssumption, OutputInv, EntriesInv', phase # "idle", phase' = "idle",
         frame' = frame, AcceptsExactlySound', UNCHANGED outputs
  PROVE  OutputInv'
<1>1. CutAtOnePoint'
  BY CutStays DEF OutputInv
<1>2. ContentExact'
  BY DEF ContentExact
<1> QED
  BY <1>1, <1>2 DEF OutputInv

Running == EntriesInv /\ ContentExact /\ phase # "idle"

(* A call in progress is cut at one point.                                 *)
LEMMA RunningIsAlwaysCut == Running => CutAtOnePoint
BY RunningIsCut, OutputAssumption DEF Running

(* A call that goes on.                                                    *)
LEMMA GoesOn ==
  ASSUME OutputAssumption, EntriesInv', ContentExact', phase' # "idle"
  PROVE  OutputInv'
<1>1. CutAtOnePoint'
  <2>1. Running'
    BY DEF Running
  <2> QED
    BY <2>1, RunningIsAlwaysCut, PTL
<1>2. AcceptsExactlySound'
  BY DEF AcceptsExactlySound
<1> QED
  BY <1>1, <1>2 DEF OutputInv

(* A call starts with empty entries.                                       *)
LEMMA CallStep ==
  ASSUME OutputAssumption, OutputInv, EntriesInv', NEW f \in Frames, Call(f)
  PROVE  OutputInv'
<1>1. /\ phase = "idle" /\ frame' = f /\ next' = 1 /\ verify' = verify
      /\ budgets' = [k \in DOMAIN f.outputs |-> [bytes |-> 0, lengths |-> 0]]
  BY DEF Call
<1>2. CASE f.prepared = "Ok"
  <2>1. /\ phase' = "plan"
        /\ outputs' = [k \in DOMAIN f.outputs |-> Empty(f.outputs[k])]
    BY <1>2 DEF Call
  <2>2. Len(f.chunks) \in Nat
    <3>1. f.chunks \in Seq(Chunk)
      BY DEF OutputAssumption, Frame
    <3> QED
      BY <3>1
  <2>3. ASSUME NEW k \in DOMAIN outputs'
        PROVE  EntryExact(k)'
    <3>1. /\ outputs'[k].type = f.outputs[k].type /\ outputs'[k].width = 0
          /\ outputs'[k].bytes = <<>> /\ outputs'[k].lengths = <<>>
          /\ budgets'[k].lengths = 0
      BY <1>1, <2>1 DEF Empty
    <3>2. Given(k)' = 0
      BY <1>1, <2>1 DEF Given
    <3>3. BytesUpTo(k, 0)' = <<>> /\ LengthsUpTo(k, 0)' = <<>>
      <4>1. FlattenSeq(<<>>) = <<>>
        BY FlattenEmpty
      <4>2. /\ [i \in 1 .. 0 |-> FinalStream(frame'.chunks[i], k).bytes] = <<>>
            /\ [i \in 1 .. 0 |-> LengthsOf(FinalStream(frame'.chunks[i], k))] = <<>>
        OBVIOUS
      <4> QED
        BY <4>1, <4>2 DEF BytesUpTo, LengthsUpTo
    <3>4. Holds(k, 0)'
      BY <1>1, <2>2, <3>1, <3>3 DEF Holds
    <3>5. StreamsFit(frame', k, 0)
      BY DEF StreamsFit
    <3>6. ExactAt(k, 0)'
      BY <1>1, <3>1, <3>3, <3>4, <3>5 DEF ExactAt
    <3> QED
      BY <3>2, <3>6, ExactNext
  <2>4. /\ next' - 1 <= Len(frame'.chunks)
        /\ \A i \in 1 .. next' - 1 : SoundChunk(frame', frame'.chunks[i], verify')
    BY <1>1, <2>2
  <2>5. ContentExact'
    BY <1>1, <2>1, <2>3, <2>4 DEF ContentExact
  <2> QED
    BY <2>1, <2>5, GoesOn
<1>3. CASE f.prepared # "Ok"
  <2>1. phase' = "idle" /\ result' = f.prepared
    BY <1>1, <1>3 DEF Call
  <2>2. ~ Touched' /\ ~ Sound(frame', verify')
    BY <1>1, <1>3 DEF Touched, Sound
  <2>3. ContentExact' /\ CutAtOnePoint'
    BY <2>1, <2>2 DEF ContentExact, CutAtOnePoint
  <2>4. AcceptsExactlySound'
    BY <1>3, <2>1, <2>2 DEF AcceptsExactlySound
  <2> QED
    BY <2>3, <2>4 DEF OutputInv
<1> QED
  BY <1>2, <1>3

(* The budgets are planned, or the frame refused.                          *)
LEMMA PlanStep ==
  ASSUME OutputAssumption, OutputInv, EntriesInv', PlanBudgets
  PROVE  OutputInv'
<1>1. phase = "plan" /\ outputs' = outputs /\ frame \in Frames \cup {NoFrame}
  BY DEF PlanBudgets, OutputInv, EntriesInv, TypeOK
<1>2. frame = NoFrame => BudgetError(frame) = "Ok" /\ WithinLimits(frame)
  <2> SUFFICES ASSUME frame = NoFrame
               PROVE  BudgetError(frame) = "Ok" /\ WithinLimits(frame)
    OBVIOUS
  <2>1. frame.outputs = <<>> /\ frame.encoded = 0
    BY DEF NoFrame
  <2> DEFINE sizes  == [k \in DOMAIN frame.outputs |-> frame.outputs[k].size]
             counts == [k \in DOMAIN frame.outputs |-> LengthBytes(frame.outputs[k])]
  <2>2. DOMAIN sizes = {} /\ DOMAIN counts = {}
    BY <2>1
  <2> HIDE DEF sizes, counts
  <2>3. Sum(sizes) = 0 /\ Sum(counts) = 0
    BY <2>2, SumEmpty
  <2>4. DeclaredTotal(frame) = 0 /\ Expanded(frame) = 0
    <3>1. DeclaredTotal(frame) = Sum(sizes) /\ Expanded(frame) = Sum(sizes) + Sum(counts)
      BY DEF DeclaredTotal, Expanded, SumOver, Sum, sizes, counts
    <3> QED
      BY <2>3, <3>1
  <2>5. MaxDecoded \in Nat /\ ExemptBytes \in Nat
    BY DEF OutputAssumption
  <2> QED
    BY <2>1, <2>4, <2>5 DEF BudgetError, WithinLimits
<1>3. BudgetError(frame) = "Ok" <=> WithinLimits(frame)
  BY <1>1, <1>2, LimitsChecked
<1>4. CASE /\ BudgetError(frame) = "Ok" /\ phase' = "chunk"
           /\ UNCHANGED <<frame, verify, budgets, next, output, hashed, result>>
  <2>1. /\ phase' = "chunk" /\ frame' = frame /\ verify' = verify /\ budgets' = budgets
        /\ next' = next /\ output' = output
    BY <1>4
  <2>2. \A k \in DOMAIN outputs' : EntryExact(k)'
    <3>1. \A k \in DOMAIN outputs : Given(k)' = Given(k)
      BY <1>1, <2>1 DEF Given
    <3> QED
      BY <1>1, <2>1, <3>1, AllStay DEF OutputInv
  <2>3. WithinLimits(frame')
    BY <1>3, <1>4, <2>1
  <2>4. ContentExact'
    BY <1>1, <2>1, <2>2, <2>3 DEF OutputInv, ContentExact
  <2> QED
    BY <2>1, <2>4, GoesOn
<1>5. CASE \E kind \in {BudgetError(frame), "AllocationFailed"} \ {"Ok"} : Stop(kind)
  <2>1. PICK kind \in {BudgetError(frame), "AllocationFailed"} \ {"Ok"} : Stop(kind)
    BY <1>5
  <2>2. /\ phase' = "idle" /\ result' = kind /\ frame' = frame /\ verify' = verify
    BY <2>1 DEF Stop
  <2>3. result' # "AllocationFailed" => ~ Sound(frame, verify)
    BY <1>3, <2>1, <2>2 DEF Sound
  <2>4. AcceptsExactlySound'
    BY <2>1, <2>2, <2>3, ErrorIsRight
  <2> QED
    BY <1>1, <2>2, <2>4, EndsClean
<1> QED
  BY <1>4, <1>5 DEF PlanBudgets

(* A chunk runs, or fails.                                                 *)
LEMMA RunChunkStep ==
  ASSUME OutputAssumption, OutputInv, EntriesInv', RunChunk
  PROVE  OutputInv'
<1>1. /\ phase = "chunk" /\ next \in DOMAIN frame.chunks /\ outputs' = outputs
      /\ outputs \in Seq(Entry)
  BY DEF RunChunk, OutputInv, EntriesInv, TypeOK
<1>2. CASE /\ ~Current.fails /\ phase' = "append" /\ output' = 1 /\ hashed' = <<>>
           /\ UNCHANGED <<frame, verify, budgets, next, result>>
  <2>1. /\ phase' = "append" /\ output' = 1 /\ hashed' = <<>> /\ frame' = frame
        /\ verify' = verify /\ budgets' = budgets /\ next' = next
    BY <1>2
  <2>2. \A k \in DOMAIN outputs' : EntryExact(k)'
    <3>1. \A k \in DOMAIN outputs : Given(k)' = Given(k)
      BY <1>1, <2>1 DEF Given
    <3> QED
      BY <1>1, <2>1, <3>1, AllStay DEF OutputInv
  <2>3. hashed' = HashUpTo(frame', Current', output' - 1)
    <3>1. [k \in 1 .. 0 |-> HashPiece(frame, FinalStream(Current, k))] = <<>>
      OBVIOUS
    <3>2. FlattenSeq(<<>>) = <<>>
      BY FlattenEmpty
    <3>3. HashUpTo(frame, Current, 0) = <<>>
      BY <3>1, <3>2 DEF HashUpTo
    <3>4. output' - 1 = 0 /\ Current' = Current
      BY <2>1 DEF Current
    <3> QED
      BY <2>1, <3>3, <3>4
  <2>4. ~ Current'.fails /\ output' - 1 <= Len(outputs')
    BY <1>1, <1>2, <2>1 DEF Current
  <2>5. /\ WithinLimits(frame') /\ next' - 1 <= Len(frame'.chunks)
        /\ \A i \in 1 .. next' - 1 : SoundChunk(frame', frame'.chunks[i], verify')
    BY <1>1, <2>1 DEF OutputInv, ContentExact
  <2>6. ContentExact'
    BY <2>1, <2>2, <2>3, <2>4, <2>5 DEF ContentExact
  <2> QED
    BY <2>1, <2>6, GoesOn
<1>3. CASE Current.fails /\ Stop("Malformed")
  <2>1. phase' = "idle" /\ result' = "Malformed" /\ frame' = frame /\ verify' = verify
    BY <1>3 DEF Stop
  <2>2. ~ Sound(frame, verify)
    BY <1>1, <1>3 DEF Sound, SoundChunk, Current
  <2>3. AcceptsExactlySound'
    BY <2>1, <2>2, ErrorIsRight
  <2> QED
    BY <1>1, <2>1, <2>3, EndsClean
<1> QED
  BY <1>2, <1>3 DEF RunChunk

(* A stream of the chunk is appended to its entry.                         *)
LEMMA AppendStep ==
  ASSUME OutputAssumption, OutputInv, EntriesInv', AppendBytes \/ AppendStrings
  PROVE  OutputInv'
<1>1. ContentExact'
  BY AppendBytesExact, AppendStringsExact DEF OutputInv
<1>2. phase' # "idle"
  BY DEF AppendBytes, AppendStrings, NextOutput
<1> QED
  BY <1>1, <1>2, GoesOn

(* The bytes of a string output are left without its lengths.              *)
LEMMA StringsFailStep ==
  ASSUME OutputAssumption, OutputInv, EntriesInv', StringsFail
  PROVE  OutputInv'
<1> DEFINE stream == FinalStream(Current, output)
           e == WithBytes(outputs[output], stream)
<1>0. PICK n : n = next - 1
  OBVIOUS
<1>1. /\ phase = "append" /\ output \in DOMAIN outputs /\ Len(Current.streams) >= output
      /\ StreamError(stream, output) = "Ok"
      /\ outputs' = [outputs EXCEPT ![output] = e]
  BY DEF StringsFail
<1>2. phase' = "idle"
  BY DEF StringsFail, Stop
<1>3. frame' = frame /\ verify' = verify /\ AcceptsExactlySound'
  BY FailsRightly, ErrorIsRight DEF OutputInv
<1>4. EntriesInv /\ ContentExact
  BY DEF OutputInv
<1>5. /\ stream \in Stream /\ EntryExact(output) /\ Given(output) = n
      /\ output \in Nat \ {0} /\ next \in Nat \ {0} /\ Reaches(output, next)
      /\ BytesUpTo(output, next) = outputs[output].bytes \o stream.bytes
  BY <1>0, <1>1, <1>4, TurnExact
<1>6. outputs[output] \in Entry /\ outputs \in Seq(Entry)
  BY <1>1, <1>4, TurnFacts DEF EntriesInv, TypeOK
<1>7. outputs[output].width \in {0, stream.width}
  BY <1>1, Accepted
<1>8. e.bytes = outputs[output].bytes \o stream.bytes /\ e.lengths = outputs[output].lengths
  BY <1>5, <1>6, <1>7, TakesWidth
<1> HIDE DEF stream, e
<1>9. /\ DOMAIN outputs' = DOMAIN outputs /\ Len(outputs') = Len(outputs) /\ outputs'[output] = e
      /\ \A k \in DOMAIN outputs : k # output => outputs'[k] = outputs[k]
  BY <1>1, <1>6
<1>10. CutAtOnePoint'
  <2>1. n \in 0 .. Len(frame.chunks) /\ output \in 0 .. Len(outputs') /\ n + 1 = next
    <3>1. Len(frame.chunks) \in Nat
      BY <1>4, FrameFacts DEF EntriesInv, TypeOK
    <3>2. n <= Len(frame.chunks)
      BY <1>0, <1>1, <1>4 DEF ContentExact
    <3> QED
      BY SMTT(30), <1>0, <1>1, <1>5, <1>6, <1>9, <3>1, <3>2
  <2>2. ASSUME NEW k \in DOMAIN outputs
        PROVE  /\ k <= output => Holds(k, n + 1)'
               /\ k < output => outputs'[k].lengths = LengthsUpTo(k, n + 1)'
               /\ k = output => outputs'[k].lengths = LengthsUpTo(k, n)'
               /\ ~ (k <= output) => Holds(k, n)' /\ outputs'[k].lengths = LengthsUpTo(k, n)'
    <3>1. k \in Nat /\ EntryExact(k)
      BY <1>1, <1>4, <1>6 DEF ContentExact
    <3>2. PICK m, l : m = n + 1 /\ l = n
      OBVIOUS
    <3>3. CASE k = output
      <4>1. Holds(k, m)'
        BY <1>3, <1>5, <1>8, <1>9, <2>1, <3>2, <3>3 DEF Holds, Reaches, BytesUpTo
      <4>2. outputs'[k].lengths = LengthsUpTo(k, l)'
        BY <1>3, <1>5, <1>8, <1>9, <3>2, <3>3 DEF EntryExact, LengthsUpTo
      <4> QED
        <5>1. Holds(k, n + 1)' /\ outputs'[k].lengths = LengthsUpTo(k, n)'
          BY <3>2, <4>1, <4>2
        <5>2. ~ (k < output) /\ ~ ~ (k <= output)
          BY <3>1, <3>3
        <5> QED
          BY <5>1, <5>2
    <3>4. CASE k # output
      <4>1. Given(k) = IF k < output THEN m ELSE l
        BY <1>1, <1>5, <2>1, <3>1, <3>2 DEF Given
      <4>2. /\ k < output => Holds(k, m) /\ outputs[k].lengths = LengthsUpTo(k, m)
            /\ ~ (k < output) => Holds(k, l) /\ outputs[k].lengths = LengthsUpTo(k, l)
        BY <3>1, <4>1 DEF EntryExact
      <4>3. /\ k < output => Holds(k, m)' /\ outputs'[k].lengths = LengthsUpTo(k, m)'
            /\ ~ (k < output) => Holds(k, l)' /\ outputs'[k].lengths = LengthsUpTo(k, l)'
        BY <1>3, <1>9, <3>4, <4>2 DEF Holds, BytesUpTo, LengthsUpTo
      <4>4. k <= output <=> k < output
        BY <1>5, <3>1, <3>4
      <4> QED
        BY <3>2, <3>4, <4>3, <4>4
    <3> QED
      BY <3>3, <3>4
  <2> QED
    <3>1. PICK m, j : m = n /\ j = output
      OBVIOUS
    <3>2. m \in 0 .. Len(frame'.chunks) /\ j \in 0 .. Len(outputs')
      BY <1>3, <2>1, <3>1
    <3>3. ASSUME NEW k \in DOMAIN outputs'
          PROVE  LET g == IF k <= j THEN m + 1 ELSE m
                 IN  /\ Holds(k, g)'
                     /\ \/ outputs'[k].lengths = LengthsUpTo(k, g)'
                        \/ k = j /\ phase' = "idle" /\ outputs'[k].lengths = LengthsUpTo(k, m)'
      <4>1. k \in Nat /\ j \in Nat
        BY <1>5, <1>6, <1>9, <3>1
      <4>2. /\ k <= j => Holds(k, m + 1)'
            /\ k < j => outputs'[k].lengths = LengthsUpTo(k, m + 1)'
            /\ k = j => outputs'[k].lengths = LengthsUpTo(k, m)'
            /\ ~ (k <= j) => Holds(k, m)' /\ outputs'[k].lengths = LengthsUpTo(k, m)'
        BY <1>9, <2>2, <3>1
      <4>3. k <= j => k = j \/ k < j
        BY <4>1
      <4> QED
        BY <1>2, <4>2, <4>3
    <3> QED
      BY <3>2, <3>3 DEF CutAtOnePoint
<1>11. ContentExact'
  BY <1>2 DEF ContentExact
<1> QED
  BY <1>3, <1>10, <1>11 DEF OutputInv

(* A refused stream leaves at most its width.                              *)
LEMMA RefuseStep ==
  ASSUME OutputAssumption, OutputInv, EntriesInv', RefuseStream
  PROVE  OutputInv'
<1>1. phase = "append" /\ output \in DOMAIN outputs /\ phase' = "idle"
  BY DEF RefuseStream, Stop
<1>2. frame' = frame /\ AcceptsExactlySound'
  BY RefusesRightly, ErrorIsRight DEF OutputInv
<1>3. outputs \in Seq(Entry)
  BY DEF OutputInv, EntriesInv, TypeOK
<1>4. /\ Len(outputs') = Len(outputs) /\ DOMAIN outputs' = DOMAIN outputs
      /\ \A k \in DOMAIN outputs : /\ outputs'[k].bytes = outputs[k].bytes
                                   /\ outputs'[k].lengths = outputs[k].lengths
  <2>1. CASE outputs' = outputs
    BY <2>1
  <2>2. CASE outputs' # outputs
    <3>1. PICK w : outputs' = [outputs EXCEPT ![output].width = w]
      BY <2>2 DEF RefuseStream
    <3>2. outputs[output] \in Entry
      BY <1>1, <1>3
    <3>3. /\ outputs'[output] = [outputs[output] EXCEPT !.width = w]
          /\ \A k \in DOMAIN outputs : k # output => outputs'[k] = outputs[k]
          /\ DOMAIN outputs' = DOMAIN outputs /\ Len(outputs') = Len(outputs)
      BY <1>1, <1>3, <3>1
    <3>4. /\ outputs'[output].bytes = outputs[output].bytes
          /\ outputs'[output].lengths = outputs[output].lengths
      BY <3>2, <3>3 DEF Entry
    <3> QED
      BY <3>3, <3>4
  <2> QED
    BY <2>1, <2>2
<1>5. CutAtOnePoint'
  BY <1>1, <1>2, <1>4, CutStays DEF OutputInv
<1>6. ContentExact'
  BY <1>1 DEF ContentExact
<1> QED
  BY <1>2, <1>5, <1>6 DEF OutputInv

(* All outputs of a chunk are appended; its checksum decides.              *)
LEMMA FinishChunkStep ==
  ASSUME OutputAssumption, OutputInv, EntriesInv', FinishChunk
  PROVE  OutputInv'
<1>1. /\ phase = "append" /\ output \notin DOMAIN outputs /\ outputs' = outputs
  BY DEF FinishChunk
<1>2. /\ outputs \in Seq(Entry) /\ Len(outputs) = Len(frame.outputs) /\ output \in Nat \ {0}
      /\ next \in DOMAIN frame.chunks /\ next \in Nat \ {0} /\ frame \in Frames \cup {NoFrame}
  BY <1>1 DEF OutputInv, EntriesInv, TypeOK, ContentWithinDeclared
<1>3. /\ ~Current.fails /\ output - 1 <= Len(outputs)
      /\ hashed = HashUpTo(frame, Current, output - 1)
      /\ \A k \in DOMAIN outputs : EntryExact(k)
      /\ WithinLimits(frame) /\ \A i \in 1 .. next - 1 : SoundChunk(frame, frame.chunks[i], verify)
  BY <1>1 DEF OutputInv, ContentExact
<1>4. output - 1 = Len(frame.outputs) /\ \A k \in DOMAIN outputs : k < output
  <2>1. DOMAIN outputs = 1 .. Len(outputs) /\ Len(outputs) \in Nat
    BY <1>2
  <2> QED
    BY <1>1, <1>2, <1>3, <2>1
<1>5. hashed = ChunkHash(frame, Current)
  BY <1>3, <1>4 DEF ChunkHash
<1>6. CASE Mismatch(Current, hashed)
  <2>1. Stop("ChecksumMismatch")
    BY <1>6 DEF FinishChunk
  <2>2. phase' = "idle" /\ result' = "ChecksumMismatch" /\ frame' = frame /\ verify' = verify
    BY <2>1 DEF Stop
  <2>3. ~ Sound(frame, verify)
    BY <1>2, <1>5, <1>6 DEF Mismatch, Sound, SoundChunk, Current
  <2>4. AcceptsExactlySound'
    BY <2>2, <2>3, ErrorIsRight
  <2> QED
    BY <1>1, <2>2, <2>4, EndsClean
<1>7. CASE ~ Mismatch(Current, hashed)
  <2>1. /\ phase' = "chunk" /\ next' = next + 1 /\ frame' = frame /\ verify' = verify
        /\ budgets' = budgets /\ output' = output
    BY <1>7 DEF FinishChunk
  <2>2. \A k \in DOMAIN outputs' : EntryExact(k)'
    <3>1. \A k \in DOMAIN outputs : Given(k)' = Given(k)
      BY <1>1, <1>2, <1>4, <2>1 DEF Given
    <3> QED
      BY <1>1, <2>1, <3>1, AllStay DEF OutputInv
  <2>3. SoundChunk(frame, Current, verify)
    <3>1. verify => \A s \in Current.sum : s = ChunkHash(frame, Current)
      BY <1>5, <1>7 DEF Mismatch
    <3>2. Len(Current.streams) >= Len(frame.outputs)
      <4>1. frame.chunks \in Seq(Chunk)
        BY <1>2, FrameFacts
      <4>2. Current \in Chunk
        BY <1>2, <4>1 DEF Current
      <4>3. Len(Current.streams) \in Nat
        BY <4>2 DEF Chunk
      <4>4. Len(frame.outputs) \in Nat
        BY <1>2
      <4>5. CASE Len(frame.outputs) = 0
        BY <4>3, <4>5
      <4>6. CASE Len(frame.outputs) # 0
        <5> DEFINE k == Len(frame.outputs)
        <5>1. k \in DOMAIN outputs /\ k < output
          BY <1>2, <1>4, <4>4, <4>6
        <5>2. Given(k) = next /\ EntryExact(k)
          BY <1>1, <1>3, <5>1 DEF Given
        <5>3. Holds(k, next)
          BY <5>2 DEF EntryExact
        <5>4. k <= Len(frame.chunks[next].streams)
          BY <1>2, <5>3 DEF Holds
        <5> QED
          BY <4>3, <4>4, <5>4 DEF Current
      <4> QED
        BY <4>5, <4>6
    <3> QED
      BY <1>3, <3>1, <3>2 DEF SoundChunk
  <2>4. \A i \in 1 .. next' - 1 : SoundChunk(frame', frame'.chunks[i], verify')
    <3>1. \A i \in 1 .. next' - 1 : i = next \/ i \in 1 .. next - 1
      BY <1>2, <2>1
    <3> QED
      BY <1>3, <2>1, <2>3, <3>1 DEF Current
  <2>5. next' - 1 <= Len(frame'.chunks)
    <3>1. frame.chunks \in Seq(Chunk)
      BY <1>2, FrameFacts
    <3> QED
      BY <1>2, <2>1, <3>1
  <2>6. ContentExact'
    BY <1>3, <2>1, <2>2, <2>4, <2>5 DEF ContentExact
  <2> QED
    BY <2>1, <2>6, GoesOn
<1> QED
  BY <1>6, <1>7

(* No chunk is left; the declared sizes decide.                            *)
LEMMA FinishFrameStep ==
  ASSUME OutputAssumption, OutputInv, EntriesInv', FinishFrame
  PROVE  OutputInv'
<1>1. /\ phase = "chunk" /\ next \notin DOMAIN frame.chunks /\ outputs' = outputs
      /\ Stop(IF \A k \in DOMAIN outputs : Complete(k) THEN "Ok" ELSE "Malformed")
  BY DEF FinishFrame
<1>2. /\ phase' = "idle" /\ frame' = frame /\ verify' = verify
      /\ result' = IF \A k \in DOMAIN outputs : Complete(k) THEN "Ok" ELSE "Malformed"
  BY <1>1 DEF Stop
<1>3. /\ \A k \in DOMAIN outputs : outputs[k].bytes = BytesUpTo(k, Len(frame.chunks))
      /\ (\A k \in DOMAIN outputs : Complete(k)) <=> Sound(frame, verify)
  BY <1>1, CompleteIsSound DEF OutputInv
<1>4. AcceptsExactlySound'
  <2>1. \A k \in DOMAIN outputs' : outputs'[k].bytes = BytesUpTo(k, Len(frame.chunks))'
    BY <1>1, <1>2, <1>3 DEF BytesUpTo
  <2>2. CASE Sound(frame, verify)
    BY <1>2, <1>3, <2>1, <2>2 DEF AcceptsExactlySound
  <2>3. CASE ~ Sound(frame, verify)
    BY <1>2, <1>3, <2>3, ErrorIsRight
  <2> QED
    BY <2>2, <2>3
<1> QED
  BY <1>1, <1>2, <1>4, EndsClean
-----------------------------------------------------------------------------
(* The theorem.                                                            *)

(* The first call finds no entries.                                        *)
LEMMA InitInv == ASSUME OutputAssumption, Init PROVE EntriesInv
<1>1. /\ outputs = <<>> /\ budgets = <<>> /\ hashed = <<>> /\ frame = NoFrame /\ phase = "idle"
      /\ next = 1 /\ output = 1 /\ verify \in BOOLEAN
  BY DEF Init
<1>2. TypeOK
  BY <1>1 DEF TypeOK
<1>3. ContentWithinDeclared
  BY <1>1 DEF ContentWithinDeclared, NoFrame
<1> QED
  BY <1>1, <1>2, <1>3 DEF EntriesInv

(* Every step keeps the entries typed and within what is declared.         *)
LEMMA NextKeeps == ASSUME OutputAssumption, EntriesInv, [Next]_vars PROVE EntriesInv'
<1>1. CASE UNCHANGED vars
  BY <1>1 DEF vars, EntriesInv, TypeOK, ContentWithinDeclared, Touched
<1>2. CASE PlanBudgets
  <2>1. CASE \E kind : Stop(kind)
    BY <1>2, <2>1, StopBetween DEF PlanBudgets
  <2>2. CASE ~ \E kind : Stop(kind)
    <3>1. phase' = "chunk" /\ phase = "plan"
          /\ UNCHANGED <<outputs, frame, verify, budgets, next, output, hashed>>
      BY <1>2, <2>2 DEF PlanBudgets
    <3> QED
      BY <3>1, LeavesEntries DEF EntriesInv, TypeOK
  <2> QED
    BY <2>1, <2>2
<1>3. CASE RunChunk
  <2>1. CASE \E kind : Stop(kind)
    BY <1>3, <2>1, StopBetween DEF RunChunk
  <2>2. CASE ~ \E kind : Stop(kind)
    <3>1. /\ phase' = "append" /\ phase = "chunk" /\ next \in DOMAIN frame.chunks
          /\ output' = 1 /\ hashed' = <<>>
          /\ UNCHANGED <<outputs, frame, verify, budgets, next>>
      BY <1>3, <2>2 DEF RunChunk
    <3> QED
      BY <3>1, LeavesEntries DEF EntriesInv, TypeOK
  <2> QED
    BY <2>1, <2>2
<1>4. CASE FinishChunk
  <2>1. CASE \E kind : Stop(kind)
    BY <1>4, <2>1, StopBetween DEF FinishChunk
  <2>2. CASE ~ \E kind : Stop(kind)
    <3>1. /\ phase' = "chunk" /\ phase = "append" /\ next' = next + 1
          /\ UNCHANGED <<outputs, frame, verify, budgets, output, hashed>>
      BY <1>4, <2>2 DEF FinishChunk
    <3>2. next' \in Nat \ {0}
      BY <3>1 DEF EntriesInv, TypeOK
    <3> QED
      BY <3>1, <3>2, LeavesEntries DEF EntriesInv, TypeOK
  <2> QED
    BY <2>1, <2>2
<1>5. CASE FinishFrame
  <2>1. phase # "idle" /\ (\E kind : Stop(kind)) /\ UNCHANGED outputs
    BY <1>5 DEF FinishFrame
  <2> QED
    BY <2>1, StopBetween
<1> QED
  BY <1>1, <1>2, <1>3, <1>4, <1>5, CallKeeps, AppendBytesKeeps, AppendStringsKeeps,
     StringsFailKeeps, RefuseStreamKeeps DEF Next

(* Every step keeps all of the invariant.                                  *)
LEMMA StepKeeps == ASSUME OutputAssumption, OutputInv, [Next]_vars PROVE OutputInv'
<1>1. EntriesInv'
  BY NextKeeps DEF OutputInv
<1>2. CASE UNCHANGED vars
  <2>1. CutAtOnePoint'
    <3>1. /\ outputs' = outputs /\ frame' = frame /\ phase' = phase
      BY <1>2 DEF vars
    <3> QED
      BY <3>1, CutStays DEF OutputInv
  <2>2. AcceptsExactlySound'
    BY <1>2 DEF vars, OutputInv, AcceptsExactlySound, BytesUpTo
  <2>3. ContentExact'
    <3>1. (\A k : EntryExact(k)' <=> EntryExact(k)) /\ Current' = Current
      BY <1>2 DEF vars, Current, EntryExact, Given, Holds, BytesUpTo, LengthsUpTo
    <3>2. ContentExact' <=> ContentExact
      BY <1>2, <3>1 DEF vars, ContentExact
    <3> QED
      BY <3>2 DEF OutputInv
  <2> QED
    BY <1>1, <2>1, <2>2, <2>3 DEF OutputInv
<1> QED
  BY <1>1, <1>2, CallStep, PlanStep, RunChunkStep, AppendStep, StringsFailStep, RefuseStep,
     FinishChunkStep, FinishFrameStep DEF Next

(* Nothing was called and no entry exists.                                 *)
LEMMA InitialInv == ASSUME OutputAssumption, Init PROVE OutputInv
<1>1. EntriesInv
  BY InitInv
<1>2. phase = "idle" /\ outputs = <<>> /\ frame = NoFrame /\ result = "none"
  BY DEF Init
<1>3. CutAtOnePoint
  <2>1. Len(frame.chunks) = 0 /\ Len(outputs) = 0 /\ DOMAIN outputs = {}
    BY <1>2 DEF NoFrame
  <2>2. 0 \in 0 .. Len(frame.chunks) /\ 0 \in 0 .. Len(outputs)
    BY <2>1
  <2> QED
    BY <2>1, <2>2 DEF CutAtOnePoint
<1> QED
  BY <1>1, <1>2, <1>3 DEF OutputInv, ContentExact, AcceptsExactlySound

(* Between any two checks the entries, the budgets and the hash are those  *)
(* of exactly the streams that were accepted, whatever the frame's chunks  *)
(* give and wherever a call stops.                                         *)
THEOREM OutputInvariant == Spec => []OutputInv
<1>1. Init => OutputInv
  BY InitialInv, OutputAssumption
<1>2. OutputInv /\ [Next]_vars => OutputInv'
  BY StepKeeps, OutputAssumption
<1> QED
  BY <1>1, <1>2, PTL DEF Spec

(* What decode_outputs_into leaves is within what the header declares.     *)
THEOREM OutputsStayWithinDeclared == Spec => []ContentWithinDeclared
<1>1. OutputInv => ContentWithinDeclared
  BY DEF OutputInv, EntriesInv
<1> QED
  BY <1>1, OutputInvariant, PTL

(* A reader of the entries never finds a gap: every output has the content *)
(* of the same chunks, but for the chunk that was being appended.          *)
THEOREM OutputsCutAtOnePoint == Spec => []CutAtOnePoint
<1>1. OutputInv => CutAtOnePoint
  BY DEF OutputInv
<1> QED
  BY <1>1, OutputInvariant, PTL

(* The checks decode_outputs_into makes one by one, of budgets that grow   *)
(* and of what was appended before, are together the frame's soundness.    *)
THEOREM OutputsAcceptExactlySound == Spec => []AcceptsExactlySound
<1>1. OutputInv => AcceptsExactlySound
  BY DEF OutputInv
<1> QED
  BY <1>1, OutputInvariant, PTL
=============================================================================
