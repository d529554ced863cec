---------------------------- MODULE StringNodes ----------------------------
(***************************************************************************)
(* The nodes that take byte strings apart and put them together:           *)
(* dispatch_string (to strings, or straight to the frame's output, with    *)
(* the loop for CSV rows), dispatchN_byTag, concat_string,                 *)
(* interleave_string, prefix, tokenize and separate_string_components.     *)
(*                                                                         *)
(* Most nodes check all lengths first and then copy in a loop that relies  *)
(* on it; dispatch_string straight to the output relies on the nodes its   *)
(* inputs come from.  Bytes are symbolic; sources, tags and tokens are     *)
(* numbered from 1.                                                        *)
(***************************************************************************)
EXTENDS Integers, Sequences, SequencesExt, FiniteSets

CONSTANTS
  Calls,      \* the calls, see Call
  MaxBytes,   \* min(Limits::max_decoded_bytes, max_buffer_bytes)
  MaxStreams, \* Limits::max_streams
  CopyChunk,  \* COPY_CHUNK
  CsvPattern, \* CSV_PATTERN: the sources of a row
  CsvSources  \* the number of sources of a CSV: separators are the last

Old == 0
Kinds == {"strings", "serial", "tags", "prefix", "tokenize", "interleave",
          "concat", "components"}
Stream == [lens : Seq(Nat), bytes : Seq(Nat)]

(* idx: dispatch indices, tags, match sizes, tokens or concat sizes; sizes:*)
(* segment or field sizes; count: outputs of interleave and concat; base:  *)
(* what the output holds before the call.                                  *)
Call == [kind : Kinds, src : Seq(Stream), idx : Seq(Nat), sizes : Seq(Nat),
         count : Nat, wide : BOOLEAN, base : Nat]

ASSUME CallAssumption ==
  /\ Calls \subseteq Call
  /\ \A j \in Calls :
       /\ j.kind \notin {"strings", "serial", "tags"} => Len(j.src) = 1
       /\ j.kind # "serial" => j.base = 0

ASSUME BoundAssumption ==
  /\ {MaxBytes, MaxStreams} \subseteq Nat /\ {CopyChunk, CsvSources} \subseteq Nat \ {0}
  /\ CsvPattern \in Seq(1 .. CsvSources) /\ CsvPattern # <<>>

VARIABLES
  call,
  stage,        \* begin, loop or done
  index,        \* the next index, string or output
  csvRow,       \* how far the loop is in a CSV row, 0 between rows
  position,     \* DispatchStringSource::position of every source
  bytePosition, \* byte_position of every source
  outs,         \* the outputs, see Output
  outcome

vars == <<call, stage, index, csvRow, position, bytePosition, outs, outcome>>

(* lens: the string lengths, if the output has any; cap: its capacity.     *)
Output == [bytes : Seq(Nat), lens : Seq(Nat), cap : Nat]
EmptyOutput(room) == [bytes |-> <<>>, lens |-> <<>>, cap |-> room]

Init ==
  /\ call \in Calls /\ stage = "begin" /\ index = 1 /\ csvRow = 0
  /\ position = [s \in DOMAIN call.src |-> 0] /\ bytePosition = [s \in DOMAIN call.src |-> 0]
  /\ outs = <<>> /\ outcome = "none"
-----------------------------------------------------------------------------
SumsMatch(stream) == SumFunction(stream.lens) = Len(stream.bytes)
Strings == call.src[1].lens
Bytes == call.src[1].bytes
AllBytes == SumFunction([s \in DOMAIN call.src |-> Len(call.src[s].bytes)])

(* prefix_output_lengths; only for matches within the string before.       *)
PrefixLength(i) == call.idx[i] + Strings[i]
MatchFitsMutant(i) == i > 1 => call.idx[i] <= PrefixLength(i - 1)
MatchFits(i) == call.idx[i] <= IF i = 1 THEN 0 ELSE PrefixLength(i - 1)

(* What the output of a node is charged for.                               *)
OutputSize ==
  IF call.kind = "prefix" THEN SumFunction([i \in DOMAIN call.idx |-> PrefixLength(i)])
  ELSE IF call.kind = "tokenize" THEN SumFunction([i \in DOMAIN call.idx |-> Strings[call.idx[i]]])
  ELSE AllBytes

(* dispatch_shape, collect_sources, n_by_tag_shape and the checks of the   *)
(* other nodes before they ask for room.                                   *)
DispatchFits ==
  /\ call.idx # <<>> => call.src # <<>>
  /\ call.kind = "strings" => \A s \in DOMAIN call.src : SumsMatch(call.src[s])
  /\ Len(call.idx) = SumFunction([s \in DOMAIN call.src |-> Len(call.src[s].lens)])
TagsFit == Len(call.idx) = Len(call.sizes) /\ (call.idx # <<>> => call.src # <<>>)
PrefixFits ==
  /\ SumsMatch(call.src[1]) /\ Len(call.idx) = Len(Strings)
  /\ \A i \in DOMAIN call.idx : MatchFits(i)
TokensFit ==
  /\ SumsMatch(call.src[1]) /\ Len(call.idx) >= Len(Strings)
  /\ \A i \in DOMAIN call.idx : call.idx[i] \in DOMAIN Strings
InterleaveFits == Len(Strings) % call.count = 0 /\ SumsMatch(call.src[1])
ConcatFits == Len(call.idx) = call.count /\ call.count > 0 /\ SumsMatch(call.src[1])
ComponentsFit == SumFunction(call.sizes) = Len(Bytes)

InputsFit ==
  /\ call.kind \in {"strings", "serial"} => DispatchFits
  /\ call.kind = "tags" => TagsFit
  /\ call.kind = "prefix" => PrefixFits
  /\ call.kind = "tokenize" => TokensFit
  /\ call.kind = "interleave" => call.count > 0 /\ (call.count > MaxStreams \/ InterleaveFits)
  /\ call.kind = "concat" => ConcatFits
  /\ call.kind = "components" => ComponentsFit

(* check_n_by_tag_segments: after the limit, the segments of every tag.    *)
SegmentsFit ==
  call.kind = "tags" =>
    /\ \A i \in DOMAIN call.idx : call.idx[i] \in DOMAIN call.src
    /\ \A s \in DOMAIN call.src :
         SumFunctionOnSet(call.sizes, {i \in DOMAIN call.idx : call.idx[i] = s})
           = Len(call.src[s].bytes)

TooLarge ==
  \/ call.kind = "interleave" /\ call.count > MaxStreams
  \/ call.kind # "concat" /\ OutputSize > MaxBytes

(* interleave_byte_counts                                                  *)
Dealt(o) == {i \in DOMAIN Strings : (i - 1) % call.count = o - 1}

Room ==
  IF call.kind = "concat" THEN <<>>
  ELSE IF call.kind = "interleave"
  THEN [o \in 1 .. call.count |-> EmptyOutput(SumFunctionOnSet(Strings, Dealt(o)))]
  ELSE IF call.kind = "serial"
  THEN <<[bytes |-> [i \in 1 .. call.base |-> Old], lens |-> <<>>,
          cap |-> call.base + OutputSize]>>
  ELSE <<EmptyOutput(OutputSize)>>

Refuse(kind) ==
  /\ stage' = "done" /\ outcome' = kind
  /\ UNCHANGED <<call, index, csvRow, position, bytePosition, outs>>

StartNode ==
  /\ stage = "begin"
  /\ \/ ~InputsFit /\ Refuse("Malformed")
     \/ InputsFit /\ TooLarge /\ Refuse("LimitExceeded")
     \/ InputsFit /\ ~TooLarge /\ ~SegmentsFit /\ Refuse("Malformed")
     \/ InputsFit /\ ~TooLarge /\ Refuse("AllocationFailed")
     \/ /\ InputsFit /\ ~TooLarge /\ SegmentsFit
        /\ stage' = "loop" /\ outs' = Room
        /\ UNCHANGED <<call, index, csvRow, position, bytePosition, outcome>>
-----------------------------------------------------------------------------
(* Appending bytes to an output that holds `held` meanwhile, and appending *)
(* them as a string.                                                       *)
Held(out, bytes, held) ==
  [out EXCEPT !.bytes = @ \o bytes, !.cap = IF held > @ THEN held ELSE @]
Add(out, bytes) == Held([out EXCEPT !.lens = Append(@, Len(bytes))], bytes,
                        Len(out.bytes) + Len(bytes))
Cut(bytes, start, len) == SubSeq(bytes, start + 1, start + len)

(* Whole rows of the pattern are copied at a time, from 2-byte indices.    *)
RowAhead ==
  /\ call.kind = "serial" /\ call.wide /\ Len(call.src) = CsvSources
  /\ csvRow = 0 /\ index - 1 + Len(CsvPattern) <= Len(call.idx)
  /\ Cut(call.idx, index - 1, Len(CsvPattern)) = CsvPattern

StartRow ==
  /\ stage = "loop" /\ RowAhead
  /\ csvRow' = 1 /\ UNCHANGED <<call, stage, index, position, bytePosition, outs, outcome>>

Selected == IF csvRow > 0 THEN CsvPattern[csvRow] ELSE call.idx[index]

(* SerialOutput::write copies a whole chunk and truncates it, when both    *)
(* sides have room; a separator of one byte is pushed.                     *)
WritesChunk(s, len) ==
  /\ len <= CopyChunk
  /\ outs[1].cap - Len(outs[1].bytes) >= CopyChunk
  /\ bytePosition[s] + CopyChunk <= Len(call.src[s].bytes)
Separator(s, len) == csvRow > 0 /\ s = CsvSources /\ len = 1

(* append_dispatched_string, its serial forms and the tag loop: the next   *)
(* string of the selected source.                                          *)
StringLength(s) ==
  IF call.kind = "tags" THEN call.sizes[index] ELSE call.src[s].lens[position[s] + 1]
HasString(s) ==
  /\ s \in DOMAIN call.src
  /\ call.kind # "tags" => position[s] < Len(call.src[s].lens)
  /\ bytePosition[s] + StringLength(s) <= Len(call.src[s].bytes)

TakenAfterMutant(s) ==
  IF call.kind = "tags" \/ (csvRow > 0 /\ s = CsvSources) THEN position
  ELSE [position EXCEPT ![s] = @ + 1]
TakenAfter(s) == IF call.kind = "tags" THEN position ELSE [position EXCEPT ![s] = @ + 1]

TakeSelected ==
  /\ stage = "loop" /\ call.kind \in {"strings", "serial", "tags"}
  /\ index <= Len(call.idx) /\ ~RowAhead
  /\ LET s   == Selected
         len == StringLength(s)
         new == Cut(call.src[s].bytes, bytePosition[s], len)
     IN  IF ~HasString(s)
         THEN Refuse(IF call.kind = "tags" THEN "Redundant" ELSE "Malformed")
         ELSE /\ outs' = IF call.kind = "strings" THEN <<Add(outs[1], new)>>
                         ELSE <<Held(outs[1], new, Len(outs[1].bytes) +
                                  IF call.kind = "serial" /\ WritesChunk(s, len)
                                     /\ ~Separator(s, len)
                                  THEN CopyChunk ELSE len)>>
              /\ position' = TakenAfter(s)
              /\ bytePosition' = [bytePosition EXCEPT ![s] = @ + len]
              /\ csvRow' = IF csvRow = Len(CsvPattern) \/ csvRow = 0 THEN 0 ELSE csvRow + 1
              /\ index' = index + 1
              /\ UNCHANGED <<call, stage, outcome>>
-----------------------------------------------------------------------------
(* The loops over the strings of one input.                                *)
TakeBytes(len) ==
  /\ bytePosition' = <<bytePosition[1] + len>>
  /\ index' = index + 1 /\ UNCHANGED <<call, stage, csvRow, position, outcome>>

(* decode_prefix_node: the match is the head of the string before; a slice *)
(* out of range would panic.                                               *)
PreviousStart ==
  LET out == outs[1] IN Len(out.bytes) - IF index = 1 THEN 0 ELSE out.lens[index - 1]

TakeSuffix ==
  /\ stage = "loop" /\ call.kind = "prefix" /\ index <= Len(Strings)
  /\ IF \/ PreviousStart + call.idx[index] > Len(outs[1].bytes)
        \/ bytePosition[1] + Strings[index] > Len(Bytes)
     THEN Refuse("Redundant")
     ELSE /\ outs' = <<Add(outs[1], Cut(outs[1].bytes, PreviousStart, call.idx[index])
                                    \o Cut(Bytes, bytePosition[1], Strings[index]))>>
          /\ TakeBytes(Strings[index])

(* decode_tokenize_string_node, alphabet_starts                            *)
TokenStart(t) == SumFunction(SubSeq(Strings, 1, t - 1))

TakeToken ==
  /\ stage = "loop" /\ call.kind = "tokenize" /\ index <= Len(call.idx)
  /\ LET t == call.idx[index]
     IN  IF TokenStart(t) + Strings[t] > Len(Bytes) THEN Refuse("Redundant")
         ELSE /\ outs' = <<Add(outs[1], Cut(Bytes, TokenStart(t), Strings[t]))>>
              /\ TakeBytes(0)

(* decode_interleave_string_node                                           *)
Deal ==
  /\ stage = "loop" /\ call.kind = "interleave" /\ index <= Len(Strings)
  /\ LET o == ((index - 1) % call.count) + 1
     IN  IF bytePosition[1] + Strings[index] > Len(Bytes) THEN Refuse("Redundant")
         ELSE /\ outs' = [outs EXCEPT ![o] = Add(@, Cut(Bytes, bytePosition[1], Strings[index]))]
              /\ TakeBytes(Strings[index])

(* decode_concat_string_node: an output takes as many strings as its size. *)
TakeRun ==
  /\ stage = "loop" /\ call.kind = "concat" /\ index <= call.count
  /\ LET n    == call.idx[index]
         lens == SubSeq(Strings, position[1] + 1, position[1] + n)
         len  == SumFunction(lens)
     IN  IF position[1] + n > Len(Strings) THEN Refuse("Malformed")
         ELSE IF len > MaxBytes THEN Refuse("LimitExceeded")
         ELSE IF bytePosition[1] + len > Len(Bytes) THEN Refuse("Redundant")
         ELSE \/ Refuse("AllocationFailed")
              \/ /\ outs' = Append(outs, [Held(EmptyOutput(len), Cut(Bytes, bytePosition[1], len),
                                                len) EXCEPT !.lens = lens])
                 /\ position' = <<position[1] + n>> /\ index' = index + 1
                 /\ bytePosition' = <<bytePosition[1] + len>>
                 /\ UNCHANGED <<call, stage, csvRow, outcome>>

(* decode_separate_string_components_node: the content gets the lengths.   *)
TakeAll ==
  /\ stage = "loop" /\ call.kind = "components" /\ index = 1
  /\ outs' = <<[Held(outs[1], Bytes, Len(Bytes)) EXCEPT !.lens = call.sizes]>>
  /\ TakeBytes(Len(Bytes))

(* ensure_sources_consumed, and the final checks of the other nodes.       *)
AllTakenMutant == \A s \in DOMAIN call.src : position[s] = Len(call.src[s].lens)
AllTaken == \A s \in DOMAIN call.src :
              position[s] = Len(call.src[s].lens) /\ bytePosition[s] = Len(call.src[s].bytes)
Steps ==
  IF call.kind \in {"strings", "serial", "tags", "tokenize"} THEN Len(call.idx)
  ELSE IF call.kind = "concat" THEN call.count
  ELSE IF call.kind = "components" THEN 1
  ELSE Len(Strings)

FinishNode ==
  /\ stage = "loop" /\ index > Steps
  /\ IF call.kind \in {"strings", "serial", "concat"} /\ ~AllTaken THEN Refuse("Malformed")
     ELSE IF call.kind = "tags" /\ Len(outs[1].bytes) # OutputSize THEN Refuse("Redundant")
     ELSE /\ stage' = "done" /\ outcome' = "Ok"
          /\ UNCHANGED <<call, index, csvRow, position, bytePosition, outs>>

Next ==
  \/ StartNode \/ StartRow \/ TakeSelected \/ TakeSuffix \/ TakeToken \/ Deal \/ TakeRun
  \/ TakeAll \/ FinishNode

Spec == Init /\ [][Next]_vars
-----------------------------------------------------------------------------
Outcomes == {"none", "Ok", "Malformed", "LimitExceeded", "AllocationFailed", "Redundant"}

(* The types of every variable; the two cursors of a source move together: *)
(* its byte position is where the strings it has given end.                *)
TypeOK ==
  /\ call \in Call /\ stage \in {"begin", "loop", "done"} /\ index \in Nat \ {0}
  /\ csvRow \in 0 .. Len(CsvPattern) /\ outs \in Seq(Output) /\ outcome \in Outcomes
  /\ DOMAIN position = DOMAIN call.src /\ DOMAIN bytePosition = DOMAIN call.src
  /\ \A s \in DOMAIN call.src :
       /\ position[s] \in 0 .. Len(call.src[s].lens)
       /\ bytePosition[s] \in 0 .. Len(call.src[s].bytes)
       /\ call.kind \in {"strings", "serial", "concat"} =>
            bytePosition[s] = SumFunction(SubSeq(call.src[s].lens, 1, position[s]))

(* What each node should make: strings cut from their source one by one.   *)
StringsOf(stream) ==
  [i \in DOMAIN stream.lens |->
     Cut(stream.bytes, SumFunction(SubSeq(stream.lens, 1, i - 1)), stream.lens[i])]

(* Where a source is selected among the first n.                           *)
Uses(s, n) == {i \in 1 .. n : call.idx[i] = s}
Length == Len(call.idx)

(* The i-th string selected: the next of its source, and with tags the next*)
(* segment.                                                                *)
Selection(i) ==
  LET s == call.idx[i]
  IN  IF call.kind = "tags"
      THEN Cut(call.src[s].bytes, SumFunctionOnSet(call.sizes, Uses(s, i - 1)), call.sizes[i])
      ELSE StringsOf(call.src[s])[Cardinality(Uses(s, i))]

PrefixFrom(last, i) ==
  SubSeq(last, 1, IF call.idx[i] <= Len(last) THEN call.idx[i] ELSE Len(last))
  \o StringsOf(call.src[1])[i]
Prefixed[i \in 0 .. Length] == IF i = 0 THEN <<>> ELSE PrefixFrom(Prefixed[i - 1], i)

Accepted ==
  /\ call.kind \in {"strings", "serial", "tags"} =>
       /\ call.kind = "tags" => Len(call.sizes) = Length
       /\ \A i \in DOMAIN call.idx : call.idx[i] \in DOMAIN call.src
       /\ \A s \in DOMAIN call.src :
            IF call.kind = "tags"
            THEN SumFunctionOnSet(call.sizes, Uses(s, Length)) = Len(call.src[s].bytes)
            ELSE SumsMatch(call.src[s]) /\ Cardinality(Uses(s, Length)) = Len(call.src[s].lens)
  /\ call.kind \in {"prefix", "tokenize", "interleave", "concat"} => SumsMatch(call.src[1])
  /\ call.kind = "prefix" =>
       Length = Len(Strings) /\ \A i \in 1 .. Length : call.idx[i] <= Len(Prefixed[i - 1])
  /\ call.kind = "tokenize" =>
       Length >= Len(Strings) /\ \A i \in 1 .. Length : call.idx[i] \in DOMAIN Strings
  /\ call.kind = "interleave" => call.count > 0 /\ Len(Strings) % call.count = 0
  /\ call.kind = "concat" =>
       Length = call.count /\ call.count > 0 /\ SumFunction(call.idx) = Len(Strings)
  /\ call.kind = "components" => SumFunction(call.sizes) = Len(Bytes)

Contents ==
  LET all == StringsOf(call.src[1])
  IN  CASE call.kind \in {"strings", "serial", "tags"} -> <<[i \in 1 .. Length |-> Selection(i)]>>
        [] call.kind = "prefix" -> <<[i \in 1 .. Length |-> Prefixed[i]]>>
        [] call.kind = "tokenize" -> <<[i \in 1 .. Length |-> all[call.idx[i]]]>>
        [] call.kind = "interleave" ->
             [o \in 1 .. call.count |->
                [k \in 1 .. Len(Strings) \div call.count |-> all[(k - 1) * call.count + o]]]
        [] call.kind = "concat" ->
             [o \in 1 .. call.count |->
                Cut(all, SumFunction(SubSeq(call.idx, 1, o - 1)), call.idx[o])]
        [] call.kind = "components" -> <<StringsOf([lens |-> call.sizes, bytes |-> Bytes])>>

(* A node makes the strings its inputs describe, with lengths that add up  *)
(* to their content, and refuses only inputs that describe none.  Both     *)
(* dispatch_string paths accept the same inputs, although only one of them *)
(* adds up the lengths of its sources.                                     *)
RestoresStrings ==
  /\ outcome = "Ok" =>
       /\ Accepted /\ Len(outs) = Len(Contents)
       /\ \A o \in DOMAIN outs :
            /\ outs[o].bytes = [i \in 1 .. call.base |-> Old] \o FlattenSeq(Contents[o])
            /\ call.kind \notin {"serial", "tags"} =>
                 outs[o].lens = [i \in DOMAIN Contents[o] |-> Len(Contents[o][i])]
  /\ outcome = "Malformed" => ~Accepted

(* What a node checked before its loop is enough for the loop: every       *)
(* position stays where TypeOK has it, nothing in the loop fails any more, *)
(* and no output grows past what was reserved, chunks included.            *)
ChecksSuffice ==
  /\ TypeOK /\ outcome # "Redundant"
  /\ call.kind # "concat" /\ outs # <<>> =>
       \A o \in DOMAIN outs : outs[o].cap = Room[o].cap
  /\ call.kind = "concat" => \A o \in DOMAIN outs : outs[o].cap = Len(outs[o].bytes)
=============================================================================
