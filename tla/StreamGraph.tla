---------------------------- MODULE StreamGraph ----------------------------
(***************************************************************************)
(* One chunk's transform graph, from the parsed plan to decoded streams:   *)
(* the graph validator (parse/validate.rs), the execution plan             *)
(* (execute/plan.rs), the stream table (execute/slots.rs), the node loop   *)
(* (execute/chunk.rs) and the direct-append tails                          *)
(* (execute/direct_append.rs).                                             *)
(*                                                                         *)
(* A chunk has stored + regen streams, numbered from 0; the last `outputs` *)
(* of them are the chunk's final streams.  Nodes read consecutive streams: *)
(* node i starts where node i-1 ended.  A node's outputs are named by      *)
(* their distance from the end of its inputs.                              *)
(*                                                                         *)
(* Bytes are symbolic: a stored stream is one byte naming its index, and a *)
(* codec's byte names the node, the output, the position and the inputs    *)
(* the codec was given.  Equal byte sequences therefore mean that the same *)
(* codecs ran on the same inputs in the same order.                        *)
(***************************************************************************)
EXTENDS Integers, Sequences, FiniteSets, SequencesExt

CONSTANTS
  NodePlan,       \* node plans a parsed chunk may hold
  MaxNodes,       \* model bound: nodes of a chunk
  MaxStored,      \* model bound: stored streams of a chunk
  MaxOutputs,     \* model bound: final outputs of the frame
  MaxGraphDepth,  \* Limits::max_graph_depth
  MaxLiveBytes,   \* Limits::max_live_bytes
  OutLen,         \* OutLen[id]: bytes the codec of node id regenerates
  HeaderCounts    \* output counts an interleave_string header may hold

-----------------------------------------------------------------------------
(* The standard nodes and their shapes.                                    *)

Fixed(i, o)  == [static |-> i, variable |-> FALSE, min |-> o, max |-> {o}]
Variable(i)  == [static |-> i, variable |-> TRUE,  min |-> 1, max |-> {1}]
FanOut(i)    == [static |-> i, variable |-> FALSE, min |-> 1, max |-> {}]

Conversions ==
  {"convert_serial_to_struct", "convert_struct_to_serial",
   "convert_string_to_serial", "convert_struct_to_num_le",
   "convert_num_to_struct_le", "convert_serial_to_num_le",
   "convert_num_to_serial_le"}

SplitN == {"splitn", "splitn_struct", "splitn_num"}

OneToOne == Conversions \cup
  {"delta_int", "transpose", "zigzag", "convert_struct_to_num_be",
   "convert_serial_to_num_be", "fse_deprecated", "huffman_deprecated",
   "huffman_fixed_deprecated", "rolz_deprecated", "fastlz_deprecated",
   "zstd", "zstd_fixed_legacy", "bitpack_serial", "bitpack_int",
   "bitunpack", "range_pack", "constant_serial", "constant_fixed",
   "fse_ncount", "divide_by", "parse_int", "lz4"}
TwoToOne ==
  {"separate_string_components", "sentinel", "quantize_offsets",
   "quantize_lengths", "flatpack", "transpose_split2", "float_deconstruct",
   "tokenize_fixed", "tokenize_numeric", "tokenize_string", "merge_sorted",
   "prefix", "fse_v2", "huffman_v2", "huffman_struct_v2", "partition",
   "sparse_num", "pivco_huffman"}
AnyToOne == SplitN \cup {"transpose_split", "split_by_struct", "bit_split"}
FanOuts  == {"concat_serial", "dedup_num", "concat_num", "concat_struct",
             "concat_string", "interleave_string"}

StandardNodes ==
  OneToOne \cup TwoToOne \cup AnyToOne \cup FanOuts \cup
  {"lz", "field_lz", "transpose_split4", "transpose_split8", "mux_lengths",
   "dispatch_n_by_tag", "dispatch_string"}

Shape(id) ==
  IF id \in OneToOne THEN Fixed(1, 1)
  ELSE IF id \in TwoToOne THEN Fixed(2, 1)
  ELSE IF id \in AnyToOne THEN Variable(0)
  ELSE IF id \in {"lz", "transpose_split4"} THEN Fixed(4, 1)
  ELSE IF id = "field_lz" THEN Fixed(5, 1)
  ELSE IF id = "transpose_split8" THEN Fixed(8, 1)
  ELSE IF id = "mux_lengths" THEN Fixed(2, 2)
  ELSE IF id = "dispatch_string" THEN Variable(1)
  ELSE IF id = "dispatch_n_by_tag" THEN Variable(2)
  ELSE IF id \in {"dedup_num", "interleave_string"} THEN FanOut(1)
  ELSE FanOut(2)

(* Nodes whose codec returns a string stream, with its lengths.            *)
StringNodes ==
  {"separate_string_components", "tokenize_string", "prefix",
   "dispatch_string", "concat_string", "parse_int", "interleave_string"}

(* What the parser reads of a node; a regen distance is a u32.              *)
ASSUME NodePlanAssumption ==
  NodePlan \subseteq [id : STRING, vars : Nat, dists : Seq(Nat), dict : BOOLEAN]

ASSUME BoundsAssumption ==
  /\ MaxNodes \in Nat /\ MaxStored \in Nat /\ MaxOutputs \in Nat
  /\ MaxGraphDepth \in Nat

(* A codec regenerates a number of bytes.                                  *)
ASSUME OutLenAssumption == OutLen \in [StandardNodes -> Nat]

(* An interleave_string header is refused when its count is zero.          *)
ASSUME HeaderAssumption == HeaderCounts \subseteq Nat \ {0}

-----------------------------------------------------------------------------
VARIABLES
  phase,     \* "parse", "validate", "build", "run", "done", "failed"
  nodes,     \* parsed node plans, in execution order
  stored,    \* number of stored streams
  regen,     \* number of regenerated streams
  outputs,   \* number of final outputs
  append,    \* whether the chunk decodes straight onto the caller's output
  ends,      \* input_end of every node validated so far
  produced,  \* streams some validated node regenerates
  depths,    \* depth of every stream in the graph
  plan,      \* execution plan: the nodes with resolved streams
  slots,     \* the stream table
  next,      \* nodes executed so far
  live,      \* LiveBytes::current
  peak,      \* history: most bytes owned streams held at once
  dst,       \* bytes appended to the caller's output
  why        \* "" or the class of the error that ended the chunk

vars == <<phase, nodes, stored, regen, outputs, append, ends, produced,
          depths, plan, slots, next, live, peak, dst, why>>

chunk     == <<nodes, stored, regen, outputs, append>>
validator == <<ends, produced, depths>>
runtime   == <<slots, next, live, peak, dst>>

Bound      == stored + regen
Streams    == 0 .. Bound - 1
FirstFinal == Bound - outputs
Final      == Bound - 1
Finals     == FirstFinal .. Final

Fail(class) == phase' = "failed" /\ why' = class

Empty == [state |-> "empty", bytes |-> <<>>, lens |-> 0]

-----------------------------------------------------------------------------
(* The parsed chunk.  Reading a node adds its outputs to the chunk's       *)
(* regenerated streams, so the totals always agree with the nodes; a       *)
(* node's distances start at `offset` of the chunk's distance array.       *)

Init ==
  /\ phase = "parse" /\ nodes = <<>> /\ regen = 0
  /\ stored \in 0 .. MaxStored /\ outputs \in 1 .. MaxOutputs
  /\ append \in BOOLEAN /\ (append => outputs = 1)
  /\ ends = <<>> /\ produced = {} /\ depths = <<>>
  /\ plan = <<>> /\ slots = <<>> /\ next = 0
  /\ live = 0 /\ peak = 0 /\ dst = <<>> /\ why = ""

ParseNode ==
  /\ phase = "parse" /\ Len(nodes) < MaxNodes
  /\ \E n \in NodePlan :
       /\ nodes' = Append(nodes, [node |-> n, offset |-> regen])
       /\ regen' = regen + Len(n.dists)
  /\ UNCHANGED <<phase, stored, outputs, append, validator, plan, runtime, why>>

-----------------------------------------------------------------------------
(* Validation.                                                             *)

InputCount(n) == Shape(n.id).static + n.vars

Targets(n, inputEnd) == [k \in DOMAIN n.dists |-> inputEnd + n.dists[k]]

KnownNode(n)    == n.id \in StandardNodes
InputsAllowed(n) == n.vars = 0 \/ Shape(n.id).variable
OutputsAllowed(n) == /\ Len(n.dists) >= Shape(n.id).min
                     /\ \A m \in Shape(n.id).max : Len(n.dists) <= m

Cursor == IF ends = <<>> THEN 0 ELSE Last(ends)

OutputDepthMutant(start, end) == 1 + Cardinality({s \in {start} : depths[s] > 0})
OutputDepth(start, end) ==
  1 + Max({0} \cup {depths[s] : s \in start .. end - 1})

TargetsFreeMutant(t, taken) ==
  /\ \A k \in DOMAIN t : t[k] <= Bound /\ t[k] \notin taken
  /\ IsInjective(t)
TargetsFree(t, taken) ==
  /\ \A k \in DOMAIN t : t[k] < Bound /\ t[k] \notin taken
  /\ IsInjective(t)

NodeFitsMutant(n, start, taken) ==
  LET end == start + InputCount(n)
  IN  /\ KnownNode(n) /\ InputsAllowed(n)
      /\ end <= Bound
      /\ OutputsAllowed(n)
      /\ TargetsFree(Targets(n, end), taken)
NodeFits(n, start, taken) ==
  LET end == start + InputCount(n)
  IN  /\ KnownNode(n) /\ InputsAllowed(n)
      /\ end <= FirstFinal
      /\ OutputsAllowed(n)
      /\ TargetsFree(Targets(n, end), taken)

(* Final outputs no node regenerates must be stored streams.               *)
FinalsCovered(taken) == Cardinality(Finals \ taken) <= stored

(* The one-node chunk is checked in one pass, without the tables.          *)
SingleNodeFitsMutant(n) ==
  LET t == Targets(n, InputCount(n))
  IN  /\ KnownNode(n) /\ InputsAllowed(n)
      /\ InputCount(n) <= FirstFinal
      /\ 1 <= MaxGraphDepth
      /\ OutputsAllowed(n)
      /\ \A k \in DOMAIN t : t[k] < Bound
SingleNodeFits(n) ==
  LET t == Targets(n, InputCount(n))
      producedFinals == Cardinality({k \in DOMAIN t : t[k] >= FirstFinal})
  IN  /\ KnownNode(n) /\ InputsAllowed(n)
      /\ InputCount(n) <= FirstFinal
      /\ 1 <= MaxGraphDepth
      /\ OutputsAllowed(n)
      /\ \A k \in DOMAIN t : t[k] < Bound
      /\ IsInjective(n.dists)
      /\ outputs - producedFinals <= stored

BeginValidate ==
  /\ phase = "parse"
  /\ \/ /\ outputs > Bound /\ Fail("invalid") /\ UNCHANGED depths
     \/ /\ outputs <= Bound
        /\ phase' = "validate" /\ depths' = [s \in Streams |-> 0]
        /\ UNCHANGED why
  /\ UNCHANGED <<chunk, ends, produced, plan, runtime>>

ValidateSingle ==
  /\ phase = "validate" /\ Len(nodes) = 1
  /\ IF SingleNodeFits(nodes[1].node)
       THEN /\ phase' = "build" /\ ends' = <<InputCount(nodes[1].node)>>
            /\ UNCHANGED why
       ELSE Fail("invalid") /\ UNCHANGED ends
  /\ UNCHANGED <<chunk, produced, depths, plan, runtime>>

ValidateNode ==
  /\ phase = "validate" /\ Len(nodes) # 1 /\ Len(ends) < Len(nodes)
  /\ LET n   == nodes[Len(ends) + 1].node
         end == Cursor + InputCount(n)
         t   == Targets(n, end)
         d   == OutputDepth(Cursor, end)
     IN  IF NodeFits(n, Cursor, produced) /\ d <= MaxGraphDepth
           THEN /\ ends' = Append(ends, end)
                /\ produced' = produced \cup ToSet(t)
                /\ depths' = [s \in Streams |->
                                IF s \in ToSet(t) THEN d ELSE depths[s]]
                /\ UNCHANGED <<phase, why>>
           ELSE Fail("invalid") /\ UNCHANGED validator
  /\ UNCHANGED <<chunk, plan, runtime>>

EndValidate ==
  /\ phase = "validate" /\ Len(nodes) # 1 /\ Len(ends) = Len(nodes)
  /\ IF FinalsCovered(produced)
       THEN phase' = "build" /\ UNCHANGED why
       ELSE Fail("invalid")
  /\ UNCHANGED <<chunk, validator, plan, runtime>>

-----------------------------------------------------------------------------
(* The execution plan and the stream table.                                *)

InputEnd(e)   == e.start + e.count
NodeInputs(e) == e.start .. InputEnd(e) - 1
RegenTargets  == UNION {ToSet(plan[j].targets) : j \in DOMAIN plan}
PlanCursor    == IF plan = <<>> THEN 0 ELSE InputEnd(Last(plan))

BuildNode ==
  /\ phase = "build" /\ Len(plan) < Len(nodes)
  /\ LET n == nodes[Len(plan) + 1].node
         t == Targets(n, PlanCursor + InputCount(n))
     IN  \/ /\ n.dict /\ n.id # "zstd"
            /\ Fail("unsupported") /\ UNCHANGED plan
         \/ /\ ~n.dict \/ n.id = "zstd"
            /\ IF TargetsFree(t, RegenTargets)
                 THEN /\ plan' = Append(plan,
                           [id |-> n.id, start |-> PlanCursor,
                            count |-> InputCount(n), targets |-> t])
                      /\ UNCHANGED <<phase, why>>
                 ELSE Fail("fault") /\ UNCHANGED plan
  /\ UNCHANGED <<chunk, validator, runtime>>

StoredByte(k) == <<"stored", k>>
StoredIndex(s) == Cardinality({r \in 0 .. s - 1 : r \notin RegenTargets})

InitSlots ==
  /\ phase = "build" /\ Len(plan) = Len(nodes)
  /\ IF Cardinality(Streams \ RegenTargets) = stored
       THEN /\ slots' = [s \in Streams |->
                  IF s \in RegenTargets THEN Empty
                  ELSE [state |-> "borrowed", lens |-> 0,
                        bytes |-> <<StoredByte(StoredIndex(s))>>]]
            /\ phase' = "run" /\ UNCHANGED why
       ELSE Fail("fault") /\ UNCHANGED slots
  /\ UNCHANGED <<chunk, validator, plan, next, live, peak, dst>>

-----------------------------------------------------------------------------
(* The direct-append tail of a plan: the node whose codec writes straight  *)
(* to the caller's output, 0 when the plan has none.                       *)

(* Nodes after i are conversions chained from its output to the end.       *)
ChainedToFinal(i) ==
  /\ \A j \in i + 1 .. Len(plan) :
       /\ plan[j].id \in Conversions
       /\ plan[j].count = 1
       /\ plan[j].start = plan[j - 1].targets[1]
       /\ Len(plan[j].targets) = 1
  /\ Last(plan).targets[1] = Final

(* The set of a pattern's tail, empty or a single node.                    *)
ConversionChainTail(id) ==
  LET match == {i \in DOMAIN plan : /\ plan[i].id = id
                                    /\ Len(plan[i].targets) = 1}
  IN  {i \in match : ChainedToFinal(i) /\ \A m \in match : i <= m}

DispatchStringTail ==
  {i \in DOMAIN plan :
     /\ i + 1 = Len(plan)
     /\ plan[i].id = "dispatch_string" /\ Len(plan[i].targets) = 1
     /\ plan[i + 1].id = "convert_string_to_serial"
     /\ plan[i + 1].count = 1
     /\ plan[i + 1].start = plan[i].targets[1]
     /\ plan[i + 1].targets = <<Final>>}

SplitByStructTail ==
  {i \in DOMAIN plan :
     /\ i + 1 = Len(plan)
     /\ plan[i].id = "split_by_struct" /\ Len(plan[i].targets) = 1
     /\ plan[i + 1].id \in {"splitn", "splitn_struct"}
     /\ plan[i + 1].targets = <<Final>>
     /\ plan[i].targets[1] \in NodeInputs(plan[i + 1])}

(* The patterns in the order direct_append_tail tries them.                *)
TailStart ==
  LET tails == <<ConversionChainTail("field_lz"), ConversionChainTail("zstd"),
                 DispatchStringTail, SplitByStructTail,
                 ConversionChainTail("lz")>>
      found == {k \in 1 .. 5 : tails[k] # {} /\ \A m \in 1 .. k - 1 : tails[m] = {}}
  IN  IF found = {} THEN 0 ELSE CHOOSE i \in UNION {tails[k] : k \in found} : TRUE

Appending == append /\ TailStart # 0

(* Nodes run one by one into the stream table; the tail is not one.        *)
LoopEnd == IF Appending THEN TailStart - 1 ELSE Len(plan)

-----------------------------------------------------------------------------
(* Running the nodes.                                                      *)

(* collect_node_inputs hands the inputs to the codec last stream first.    *)
Inputs(e) == [k \in 1 .. e.count |-> slots[InputEnd(e) - k]]

(* The outputs the graph lets a codec return: its shape's number, or as    *)
(* many as the node has targets.                                           *)
OutCount(e) == IF Shape(e.id).max = {} THEN Len(e.targets)
               ELSE Shape(e.id).min

(* The outputs a codec may return.  concat_* refuses a header that names   *)
(* another number than the graph's and dedup_num is told that number;      *)
(* interleave_string returns what its header says, as long as it deals its *)
(* input's strings out evenly.                                             *)
Counts(e) ==
  IF e.id = "interleave_string"
  THEN {n \in HeaderCounts : /\ Inputs(e)[1].lens > 0
                             /\ Inputs(e)[1].lens % n = 0}
  ELSE {OutCount(e)}

(* The bytes of the n outputs the codec of plan node i returns for the     *)
(* given input bytes.  dedup_num copies its whole input to each of them.   *)
Outputs(i, n, ins) ==
  LET e == plan[i]
  IN  IF e.id \in SplitN THEN <<FlattenSeq(ins)>>
      ELSE IF e.id = "dedup_num" THEN [k \in 1 .. n |-> ins[1]]
      ELSE [k \in 1 .. n |-> [b \in 1 .. OutLen[e.id] |-> <<i, k, b, ins>>]]

Decode(i, ins) == Outputs(i, OutCount(plan[i]), ins)

(* String lengths of each of n outputs; a string codec regenerates two.    *)
Strings(e, n) == IF e.id = "interleave_string" THEN Inputs(e)[1].lens \div n
                 ELSE IF e.id \in StringNodes THEN 2 ELSE 0

BytesOf(streams) == [k \in DOMAIN streams |-> streams[k].bytes]

(* OwnedStream::live_bytes; borrowed and empty slots hold nothing.         *)
LiveOf(s) == IF s.state = "owned" THEN Len(s.bytes) + 4 * s.lens ELSE 0
SumLive(streams) ==
  FoldLeft(+, 0, [k \in DOMAIN streams |-> LiveOf(streams[k])])

Owned(bytes, lens) == [state |-> "owned", bytes |-> bytes, lens |-> lens]

(* The streams plan node i gets from its codec when it returns n outputs.  *)
Returned(i, n) ==
  LET outs == Outputs(i, n, BytesOf(Inputs(plan[i])))
  IN  [k \in DOMAIN outs |-> Owned(outs[k], Strings(plan[i], n))]

Moves(e) == e.id \in Conversions \/ (e.id \in SplitN /\ e.count = 1)

InputsPresent(e) ==
  /\ NodeInputs(e) \subseteq Streams
  /\ \A s \in NodeInputs(e) : slots[s].state # "empty"

(* No target slot holds a stream once the inputs are gone.                 *)
TargetsOpen(e) ==
  \A k \in DOMAIN e.targets :
    /\ e.targets[k] \in Streams
    /\ slots[e.targets[k]].state = "empty" \/ e.targets[k] \in NodeInputs(e)

(* What moving a stream releases: the string lengths it owned.             *)
ReleasedByMoveMutant(from) == LiveOf(from)
ReleasedByMove(from) == IF from.state = "owned" THEN 4 * from.lens ELSE 0

(* A node input that is missing, a target that is no stream or is taken, a *)
(* number of targets the node's shape does not allow: errors that report a *)
(* graph the validator should have refused.                                *)
Faulty(i) ==
  LET e == plan[i]
  IN  \/ ~InputsPresent(e)
      \/ Moves(e) /\ (\/ Len(e.targets) # 1
                      \/ e.targets[1] \notin Streams
                      \/ slots[e.targets[1]].state # "empty")
      \/ ~Moves(e) /\ (OutCount(e) # Len(e.targets) \/ ~TargetsOpen(e))

(* The codec refuses its input or header; so does a conversion of a stream *)
(* without the string lengths it needs.                                    *)
CodecFails == Fail("codec") /\ UNCHANGED <<slots, next, live, peak>>

(* Conversions and one-input splitn move the stream to the output slot,    *)
(* and drop its string lengths if they own them.                           *)
Moved(from) == [state |-> from.state, bytes |-> from.bytes, lens |-> 0]

MoveNode(e) ==
  LET from == slots[e.start]
  IN  /\ Moves(e)
      /\ e.id = "convert_string_to_serial" => from.lens > 0
      /\ slots' = [slots EXCEPT ![e.start] = Empty,
                                ![e.targets[1]] = Moved(from)]
      /\ live' = live - ReleasedByMove(from)
      /\ next' = next + 1
      /\ UNCHANGED <<phase, peak, why>>

(* The stream table after a codec: inputs consumed, outputs in their slots.*)
Placed(e, new) ==
  [s \in Streams |->
     IF \E k \in DOMAIN e.targets : e.targets[k] = s
       THEN new[CHOOSE k \in DOMAIN e.targets : e.targets[k] = s]
     ELSE IF s \in NodeInputs(e) THEN Empty
     ELSE slots[s]]

(* The outputs exist before the inputs are recycled; they are charged to   *)
(* the live bytes after.                                                   *)
DecodeNode(i) ==
  LET e    == plan[i]
      new  == Returned(i, OutCount(e))
      held == live - SumLive(Inputs(e)) + SumLive(new)
  IN  /\ ~Moves(e) /\ OutCount(e) \in Counts(e)
      /\ peak' = Max({peak, live + SumLive(new)})
      /\ live' = held
      /\ IF held <= MaxLiveBytes
           THEN /\ slots' = Placed(e, new)
                /\ next' = next + 1 /\ UNCHANGED <<phase, why>>
           ELSE Fail("limit") /\ UNCHANGED <<slots, next>>

(* The codec returns another number of outputs than the node has targets:  *)
(* its inputs are gone when the outputs are counted, and none is placed.   *)
MiscountNode(i) ==
  LET e == plan[i]
  IN  /\ ~Moves(e)
      /\ \E n \in Counts(e) \ {Len(e.targets)} :
           peak' = Max({peak, live + SumLive(Returned(i, n))})
      /\ live' = live - SumLive(Inputs(e))
      /\ slots' = [s \in Streams |->
                     IF s \in NodeInputs(e) THEN Empty ELSE slots[s]]
      /\ Fail("count") /\ UNCHANGED next

ExecuteNode ==
  /\ phase = "run" /\ next < LoopEnd
  /\ IF Faulty(next + 1)
       THEN Fail("fault") /\ UNCHANGED <<slots, next, live, peak>>
       ELSE \/ CodecFails
            \/ MoveNode(plan[next + 1])
            \/ DecodeNode(next + 1)
            \/ MiscountNode(next + 1)
  /\ UNCHANGED <<chunk, validator, plan, dst>>

(* All nodes ran: the final streams are taken from their slots.            *)
Finish ==
  /\ phase = "run" /\ ~Appending /\ next = Len(plan)
  /\ IF \A s \in Finals : slots[s].state # "empty"
       THEN phase' = "done" /\ UNCHANGED why
       ELSE Fail("fault")
  /\ UNCHANGED <<chunk, validator, plan, runtime>>

(* What splitn after split_by_struct node i appends: its inputs, last      *)
(* stream first, the split stream decoded in place.                        *)
SplitByStructAppendMutant(i, ins) ==
  LET e == plan[i]
      splitn == plan[i + 1]
  IN  FlattenSeq([k \in 1 .. splitn.count |->
        IF splitn.start + k - 1 = e.targets[1] THEN Decode(i, ins)[1]
        ELSE slots[splitn.start + k - 1].bytes])
SplitByStructAppend(i, ins) ==
  LET e == plan[i]
      splitn == plan[i + 1]
  IN  FlattenSeq([k \in 1 .. splitn.count |->
        IF InputEnd(splitn) - k = e.targets[1] THEN Decode(i, ins)[1]
        ELSE slots[InputEnd(splitn) - k].bytes])

TailInputs(i) ==
  NodeInputs(plan[i]) \cup
  (IF plan[i].id = "split_by_struct"
   THEN NodeInputs(plan[i + 1]) \ {plan[i].targets[1]} ELSE {})

(* The tail's codec appends to the caller's output, the nodes after it are *)
(* checked against what it appended, and the stream slots are recycled.    *)
AppendTail ==
  /\ phase = "run" /\ Appending /\ next = TailStart - 1
  /\ LET e   == plan[TailStart]
         ins == BytesOf(Inputs(e))
     IN  IF \E s \in TailInputs(TailStart) :
              s \notin Streams \/ slots[s].state = "empty"
         THEN Fail("fault") /\ UNCHANGED <<dst, slots>>
         ELSE \/ Fail("codec") /\ UNCHANGED <<dst, slots>>
              \/ /\ dst' = IF e.id = "split_by_struct"
                           THEN SplitByStructAppend(TailStart, ins)
                           ELSE Decode(TailStart, ins)[1]
                 /\ slots' = [s \in Streams |-> Empty]
                 /\ phase' = "done" /\ UNCHANGED why
  /\ UNCHANGED <<chunk, validator, plan, next, live, peak>>

Next == \/ ParseNode \/ BeginValidate
        \/ ValidateSingle \/ ValidateNode \/ EndValidate
        \/ BuildNode \/ InitSlots
        \/ ExecuteNode \/ Finish \/ AppendTail

Spec == Init /\ [][Next]_vars
-----------------------------------------------------------------------------
(* Properties.                                                             *)

ParsedNodes == [node : NodePlan, offset : Nat]
PlanNodes == [id : STRING, start : Nat, count : Nat, targets : Seq(Nat)]

(* Every variable has its type, and the three passes over the nodes stay   *)
(* in step: the plan never runs ahead of the nodes, the node loop never    *)
(* ahead of the plan, and every regenerated stream is a stream.            *)
TypeOK ==
  /\ phase \in {"parse", "validate", "build", "run", "done", "failed"}
  /\ nodes \in Seq(ParsedNodes)
  /\ stored \in Nat /\ regen \in Nat /\ outputs \in Nat \ {0}
  /\ append \in BOOLEAN
  /\ ends \in Seq(Nat) /\ Len(ends) <= Len(nodes)
  /\ produced \subseteq Streams
  /\ plan \in Seq(PlanNodes)
  /\ Len(plan) <= Len(nodes) /\ next \in 0 .. Len(plan)
  /\ why \in {"", "invalid", "unsupported", "codec", "limit", "count", "fault"}

(* The executor never meets a graph the validator should have refused: no  *)
(* input slot is missing or empty when its node runs, no output lands out  *)
(* of the table or on a stream, no codec of a fixed output count has       *)
(* another number of targets, no stored stream is left over and no final   *)
(* output is missing (InvalidGraph in resolve_output_targets of plan.rs,   *)
(* in slots.rs, and where chunk.rs places and takes streams).  The count   *)
(* of a codec's outputs in chunk.rs is not one of them: MiscountNode       *)
(* reaches it with the header of interleave_string.                        *)
NoGraphFault == why # "fault"

(* The inductive invariant behind NoGraphFault, in named parts.            *)

InputStart(i) == IF i = 1 THEN 0 ELSE ends[i - 1]
TargetsOf(i)  == Targets(nodes[i].node, ends[i])

(* Validated nodes read consecutive streams below the finals, regenerate   *)
(* streams above their own inputs, and no two regenerate the same one.     *)
Validated ==
  /\ \A i \in 1 .. Len(ends) :
       /\ ends[i] = InputStart(i) + InputCount(nodes[i].node)
       /\ ends[i] <= FirstFinal
       /\ KnownNode(nodes[i].node)
       /\ InputsAllowed(nodes[i].node) /\ OutputsAllowed(nodes[i].node)
       /\ TargetsFree(TargetsOf(i), {})
  /\ \A i, j \in 1 .. Len(ends) : i < j =>
       /\ ends[i] <= ends[j]
       /\ ToSet(TargetsOf(i)) \cap ToSet(TargetsOf(j)) = {}

(* The plan resolves the nodes as they were validated.                     *)
Resolved ==
  \A i \in 1 .. Len(plan) :
    plan[i] = [id |-> nodes[i].node.id, start |-> InputStart(i),
               count |-> InputCount(nodes[i].node), targets |-> TargetsOf(i)]

(* Distances are laid out node after node, so a plan's regenerated streams *)
(* number exactly the distances read so far.                               *)
RegenBefore(i) == IF i <= Len(nodes) THEN nodes[i].offset ELSE regen
Counted ==
  /\ RegenBefore(1) = 0
  /\ \A i \in 1 .. Len(nodes) :
       RegenBefore(i + 1) = RegenBefore(i) + Len(nodes[i].node.dists)
  /\ phase = "build" => /\ IsFiniteSet(RegenTargets)
                        /\ Cardinality(RegenTargets) = RegenBefore(Len(plan) + 1)

(* A slot is empty exactly when its stream was consumed or is not yet      *)
(* regenerated.                                                            *)
SlotsFollowPlan ==
  phase = "run" =>
    /\ DOMAIN slots = Streams
    /\ \A s \in Streams :
         slots[s].state = "empty" <=>
           \/ s < (IF next = 0 THEN 0 ELSE ends[next])
           \/ \E j \in next + 1 .. Len(plan) : s \in ToSet(TargetsOf(j))

(* Which parts of the state a phase has filled.                            *)
InStep ==
  /\ phase = "parse" => ends = <<>> /\ produced = {}
  /\ phase \in {"validate", "build", "run"} => outputs <= Bound
  /\ phase = "validate" =>
       produced = UNION {ToSet(TargetsOf(i)) : i \in 1 .. Len(ends)}
  /\ phase \in {"build", "run"} => Len(ends) = Len(nodes)
  /\ phase \in {"parse", "validate"} => plan = <<>>
  /\ phase \in {"parse", "validate", "build"} => next = 0
  /\ phase = "run" => Len(plan) = Len(nodes)

GraphInv ==
  /\ TypeOK /\ NoGraphFault /\ Counted /\ InStep
  /\ phase \in {"parse", "validate", "build", "run"} =>
       Validated /\ Resolved /\ SlotsFollowPlan

(* The value of every stream by the meaning of the graph alone: a stored   *)
(* stream's bytes, or what its producer's codec makes of its inputs'       *)
(* values; conversions keep the bytes.                                     *)
GraphValue ==
  LET value[s \in Streams] ==
        IF s \notin RegenTargets THEN <<StoredByte(StoredIndex(s))>>
        ELSE LET i == CHOOSE j \in DOMAIN plan : s \in ToSet(plan[j].targets)
                 e == plan[i]
                 k == CHOOSE x \in DOMAIN e.targets : e.targets[x] = s
             IN  IF e.id \in Conversions THEN value[e.start]
                 ELSE Decode(i, [x \in 1 .. e.count |->
                                   value[InputEnd(e) - x]])[k]
  IN  value

(* A decoded chunk is the value of its graph, whichever way it ran: node   *)
(* by node through the stream table, or with a direct-append tail that     *)
(* skips the last slots.  While it runs, every stream of the table is the  *)
(* value of its place.                                                     *)
FinalStreamsAreGraphValues ==
  /\ phase = "run" =>
       \A s \in Streams : slots[s].state # "empty" => slots[s].bytes = GraphValue[s]
  /\ phase = "done" =>
       IF Appending THEN dst = GraphValue[Final]
       ELSE \A s \in Finals : slots[s].bytes = GraphValue[s]

(* LiveBytes::current is exactly what the owned streams of the table hold, *)
(* after moves that drop string lengths as after codecs.                   *)
LiveBytesExact ==
  /\ phase \in {"parse", "validate", "build"} => live = 0
  /\ phase = "run" =>
       /\ \A s \in Streams : /\ slots[s].bytes \in Seq(ToSet(slots[s].bytes))
                            /\ slots[s].lens \in Nat
       /\ live = SumLive([k \in 1 .. Bound |-> slots[k - 1]])

(* The one-pass check of a one-node chunk accepts exactly the chunks the   *)
(* general walk over the same node accepts.                                *)
SingleNodeShortcutAgrees ==
  (phase = "validate" /\ Len(nodes) = 1) =>
    LET n == nodes[1].node
        general == /\ NodeFits(n, 0, {}) /\ 1 <= MaxGraphDepth
                   /\ FinalsCovered(ToSet(Targets(n, InputCount(n))))
    IN  SingleNodeFits(n) <=> general

(* A node lies deeper than the producers of its inputs, and its targets    *)
(* carry its depth; one node needs no tables.                              *)
DepthOf(i, d) ==
  /\ \A s \in InputStart(i) .. ends[i] - 1 : depths[s] < d
  /\ \A s \in ToSet(TargetsOf(i)) : depths[s] = d
DepthsFollowNodes ==
  phase \in {"validate", "build", "run"} =>
    /\ depths \in [Streams -> 0 .. MaxGraphDepth]
    /\ IF Len(nodes) = 1 THEN ends # <<>> => 1 <= MaxGraphDepth
       ELSE \A i \in 1 .. Len(ends) : \E d \in 1 .. MaxGraphDepth : DepthOf(i, d)

(* The longest chain of nodes in an accepted graph is at most              *)
(* max_graph_depth, though the validator keeps one number per stream.      *)
NodeDepth ==
  LET depth[i \in DOMAIN plan] ==
        1 + Max({0} \cup {depth[j] : j \in
              {m \in 1 .. i - 1 : \E s \in NodeInputs(plan[i]) :
                                     s \in ToSet(plan[m].targets)}})
  IN  depth
DepthBounded ==
  /\ DepthsFollowNodes
  /\ phase = "run" => \A i \in DOMAIN plan : NodeDepth[i] <= MaxGraphDepth

(* What core/src/lib.rs says of Limits::max_live_bytes: the most bytes all *)
(* intermediate streams of one chunk may hold at once.                     *)
StreamsHoldAtMostTheLimit == phase = "done" => peak <= MaxLiveBytes
=============================================================================
