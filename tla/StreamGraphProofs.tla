------------------------- MODULE StreamGraphProofs -------------------------
(***************************************************************************)
(* Proofs about StreamGraph for every set of node plans and every bound:   *)
(* the executor never meets a graph the validator should have refused, a   *)
(* chunk decodes to the value of its graph, the live bytes are counted to  *)
(* the byte, and the depth limit bounds the longest chain of nodes.        *)
(*                                                                         *)
(* The inductive invariant is GraphInv.  Its core is order: a node's       *)
(* targets lie above the end of its inputs (Validated), and nodes read     *)
(* consecutive streams, so the producer of a stream runs before its only   *)
(* reader.  SlotsFollowPlan turns that into the contents of the stream     *)
(* table, and Counted into the number of stored streams.  The other        *)
(* invariants are inductive relative to it: the node that fills a slot is  *)
(* the stream's only producer and finds its inputs in place, so values,    *)
(* byte counts and depths change at the node's own streams only.           *)
(***************************************************************************)
EXTENDS StreamGraph, FiniteSetTheorems, DataInduction

-----------------------------------------------------------------------------
(* Facts about nodes.                                                      *)

(* Every node shape has natural counts, and a fixed or open output count.  *)
LEMMA ShapeFacts ==
  ASSUME NEW id
  PROVE  /\ Shape(id).static \in Nat /\ Shape(id).min \in Nat
         /\ Shape(id).variable \in BOOLEAN
         /\ Shape(id).max = {} \/ Shape(id).max = {Shape(id).min}
BY SMTT(30) DEF Shape, Fixed, Variable, FanOut

(* A conversion reads one stream and regenerates one.                      *)
LEMMA ConversionShape ==
  ASSUME NEW id \in Conversions
  PROVE  Shape(id) = Fixed(1, 1)
BY DEF Shape, OneToOne

(* The splitn nodes read any number of streams and regenerate one.         *)
LEMMA SplitNShape ==
  ASSUME NEW id \in SplitN
  PROVE  Shape(id) = Variable(0)
BY DEF Shape, OneToOne, TwoToOne, AnyToOne, Conversions, SplitN

(* Two of the nodes with any number of outputs read one stream.            *)
LEMMA FanOutShape ==
  ASSUME NEW id \in {"dedup_num", "interleave_string"}
  PROVE  Shape(id) = FanOut(1)
BY DEF Shape, OneToOne, TwoToOne, AnyToOne, Conversions, SplitN

(* The fields of a parsed node plan and its number of inputs.              *)
LEMMA NodeType ==
  ASSUME NEW n \in NodePlan
  PROVE  /\ n.vars \in Nat /\ n.dists \in Seq(Nat) /\ n.dict \in BOOLEAN
         /\ InputCount(n) \in Nat
BY NodePlanAssumption, ShapeFacts DEF InputCount

(* The targets of a node: one per distance, none below its input end.      *)
LEMMA TargetsType ==
  ASSUME NEW n \in NodePlan, NEW e \in Nat
  PROVE  /\ Targets(n, e) \in Seq(Nat)
         /\ Len(Targets(n, e)) = Len(n.dists)
         /\ DOMAIN Targets(n, e) = 1 .. Len(n.dists)
         /\ \A k \in 1 .. Len(n.dists) : Targets(n, e)[k] = e + n.dists[k]
         /\ \A s \in ToSet(Targets(n, e)) : s \in Nat /\ s >= e
<1>1. n.dists \in Seq(Nat) /\ Len(n.dists) \in Nat
  BY NodeType
<1>2. Targets(n, e) = [k \in 1 .. Len(n.dists) |-> e + n.dists[k]]
  BY <1>1 DEF Targets
<1>3. \A k \in 1 .. Len(n.dists) : e + n.dists[k] \in Nat
  BY <1>1
<1>4. Targets(n, e) \in Seq(Nat) /\ Len(Targets(n, e)) = Len(n.dists)
  BY <1>1, <1>2, <1>3
<1> QED
  BY <1>1, <1>2, <1>3, <1>4 DEF ToSet

(* The facts of TypeOK that the proofs below use most.                     *)
LEMMA TypeFacts ==
  ASSUME TypeOK
  PROVE  /\ nodes \in Seq(ParsedNodes) /\ Len(nodes) \in Nat
         /\ stored \in Nat /\ regen \in Nat /\ outputs \in Nat
         /\ Bound \in Nat /\ FirstFinal \in Int
         /\ ends \in Seq(Nat) /\ Len(ends) \in Nat
         /\ Len(plan) \in Nat /\ next \in Nat
<1>1. nodes \in Seq(ParsedNodes)
  BY DEF TypeOK
<1>2. plan \in Seq(PlanNodes)
  BY DEF TypeOK
<1>3. ends \in Seq(Nat)
  BY DEF TypeOK
<1>4. stored \in Nat /\ regen \in Nat /\ outputs \in Nat
  BY DEF TypeOK
<1>5. Len(plan) \in Nat
  BY <1>2
<1>6. next \in Nat
  <2>1. next \in 0 .. Len(plan)
    BY DEF TypeOK
  <2> QED
    BY <2>1, <1>5
<1> QED
  BY <1>1, <1>3, <1>4, <1>5, <1>6 DEF Bound, FirstFinal

(* The nodes of a chunk are node plans.                                    *)
LEMMA ParsedNode ==
  ASSUME TypeOK, NEW i \in 1 .. Len(nodes)
  PROVE  nodes[i].node \in NodePlan /\ nodes[i].offset \in Nat
<1>1. nodes \in Seq(ParsedNodes)
  BY DEF TypeOK
<1>2. nodes[i] \in ParsedNodes
  BY <1>1, ElementOfSeq
<1> QED
  BY <1>2 DEF ParsedNodes

(* The only way a list of targets is free.                                 *)
LEMMA TargetsFreeMeans ==
  ASSUME NEW t, NEW A
  PROVE  TargetsFree(t, A) <=> /\ TargetsFree(t, {})
                               /\ ToSet(t) \cap A = {}
BY DEF TargetsFree, ToSet

(* An injective list of targets has as many elements as its length.        *)
LEMMA InjectiveCount ==
  ASSUME NEW t \in Seq(Nat), IsInjective(t)
  PROVE  IsFiniteSet(ToSet(t)) /\ Cardinality(ToSet(t)) = Len(t)
<1>1. t \in [1 .. Len(t) -> ToSet(t)] /\ Len(t) \in Nat
  BY DEF ToSet
<1>2. t \in Bijection(1 .. Len(t), ToSet(t))
  BY <1>1 DEF Bijection, Injection, Surjection, ToSet, IsInjective
<1>3. ExistsBijection(1 .. Len(t), ToSet(t))
  BY <1>2 DEF ExistsBijection
<1>4. IsFiniteSet(1 .. Len(t)) /\ Cardinality(1 .. Len(t)) = Len(t)
  <2> DEFINE m == Len(t)
  <2>1. m \in Nat
    BY <1>1
  <2> HIDE DEF m
  <2>2. IsFiniteSet(1 .. m) /\ Cardinality(1 .. m) = IF 1 > m THEN 0 ELSE m - 1 + 1
    BY <2>1, FS_Interval
  <2>3. Cardinality(1 .. m) = m
    BY <2>1, <2>2
  <2> QED
    BY <2>2, <2>3 DEF m
<1> QED
  BY <1>3, <1>4, FS_Bijection

-----------------------------------------------------------------------------
(* Parsing and validation preserve the invariant.                          *)

(* Every chunk starts in the invariant.                                    *)
LEMMA InitInv == Init => GraphInv
<1> SUFFICES ASSUME Init PROVE GraphInv
  OBVIOUS
<1>1. TypeOK
  <2>1. nodes = <<>> /\ ends = <<>> /\ plan = <<>> /\ Len(<<>>) = 0
    BY DEF Init
  <2>2. /\ nodes \in Seq(ParsedNodes)
        /\ ends \in Seq(Nat)
        /\ plan \in Seq(PlanNodes)
    BY <2>1, EmptySeq
  <2>3. stored \in Nat /\ outputs \in Nat \ {0} /\ regen \in Nat /\ next = 0
    <3>1. stored \in 0 .. MaxStored /\ outputs \in 1 .. MaxOutputs
      BY DEF Init
    <3>2. regen = 0 /\ next = 0
      BY DEF Init
    <3> QED
      BY <3>1, <3>2, BoundsAssumption
  <2>4. /\ phase = "parse" /\ why = "" /\ append \in BOOLEAN
        /\ produced = {}
    BY DEF Init
  <2>5. Len(nodes) = 0 /\ Len(ends) = 0 /\ Len(plan) = 0
    BY <2>1
  <2>6. next \in 0 .. Len(plan) /\ Len(ends) <= Len(nodes) /\ Len(plan) <= Len(nodes)
    BY <2>3, <2>5
  <2>7. produced \subseteq Streams
    BY <2>4
  <2> QED
    BY <2>2, <2>3, <2>4, <2>6, <2>7 DEF TypeOK
<1>2. Counted
  <2>1. Len(nodes) = 0 /\ regen = 0 /\ phase # "build"
    BY DEF Init
  <2> QED
    BY <2>1 DEF Counted, RegenBefore
<1>3. NoGraphFault /\ InStep
  BY DEF Init, NoGraphFault, InStep
<1>4. Validated /\ Resolved /\ SlotsFollowPlan
  <2>1. Len(ends) = 0 /\ Len(plan) = 0 /\ phase # "run"
    BY DEF Init
  <2> QED
    BY <2>1 DEF Validated, Resolved, SlotsFollowPlan
<1> QED
  BY <1>1, <1>2, <1>3, <1>4 DEF GraphInv

(* A step that fails keeps the types and the layout of the distances.      *)
LEMMA FailInv ==
  ASSUME TypeOK, Counted, NEW c \in {"invalid", "unsupported", "codec", "limit", "count"},
         Fail(c), UNCHANGED <<nodes, stored, regen, outputs, append>>,
         UNCHANGED <<ends, produced, plan, next>>
  PROVE  GraphInv'
<1>1. TypeOK'
  BY DEF TypeOK, Fail, Streams, Bound
<1>2. Counted'
  BY DEF Counted, RegenBefore, Fail
<1>3. NoGraphFault' /\ InStep'
  BY DEF Fail, NoGraphFault, InStep
<1> QED
  BY <1>1, <1>2, <1>3 DEF GraphInv, Fail

(* A step that leaves the nodes, their ends and the plan alone keeps what  *)
(* is known of them.                                                       *)
LEMMA KeepsGraph ==
  ASSUME UNCHANGED <<nodes, stored, regen, outputs, ends, plan>>
  PROVE  /\ Validated' <=> Validated
         /\ Resolved' <=> Resolved
         /\ RegenTargets' = RegenTargets
BY DEF Validated, Resolved, RegenTargets, TargetsOf, InputStart, FirstFinal,
       Bound, TargetsFree

(* A step that keeps the parsed nodes: what TypeOK' and Counted' ask of it. *)
LEMMA TypeStep ==
  ASSUME TypeOK, UNCHANGED <<nodes, stored, regen, outputs, append>>,
         phase' \in {"validate", "build", "run", "done"}, why' = why,
         ends' \in Seq(Nat), Len(ends') <= Len(nodes),
         produced' \subseteq Streams,
         plan' \in Seq(PlanNodes), Len(plan') <= Len(nodes),
         next' \in 0 .. Len(plan')
  PROVE  TypeOK'
<1>1. /\ nodes' \in Seq(ParsedNodes) /\ stored' \in Nat /\ regen' \in Nat
      /\ outputs' \in Nat \ {0} /\ append' \in BOOLEAN
      /\ why' \in {"", "invalid", "unsupported", "codec", "limit", "count", "fault"}
  BY DEF TypeOK
<1>2. Streams' = Streams /\ Len(nodes') = Len(nodes)
  BY DEF Streams, Bound
<1> QED
  BY <1>1, <1>2 DEF TypeOK, ParsedNodes, PlanNodes

(* A step that keeps the nodes keeps the layout of their distances.        *)
LEMMA CountedStep ==
  ASSUME Counted, UNCHANGED <<nodes, regen>>,
         phase' = "build" =>
           /\ IsFiniteSet(RegenTargets')
           /\ Cardinality(RegenTargets') = RegenBefore(Len(plan') + 1)
  PROVE  Counted'
<1>1. \A i : RegenBefore(i)' = RegenBefore(i)
  BY DEF RegenBefore
<1>2. RegenBefore(Len(plan) + 1)' = RegenBefore(Len(plan') + 1)
  BY DEF RegenBefore
<1>3. /\ RegenBefore(1)' = 0
      /\ \A i \in 1 .. Len(nodes') :
           RegenBefore(i + 1)' = RegenBefore(i)' + Len(nodes'[i].node.dists)
  BY DEF Counted, RegenBefore
<1> QED
  BY <1>2, <1>3 DEF Counted

(* What appending an element does to a sequence.                           *)
LEMMA AppendFacts ==
  ASSUME NEW S, NEW s \in Seq(S), NEW e \in S
  PROVE  /\ Append(s, e) \in Seq(S)
         /\ Len(Append(s, e)) = Len(s) + 1
         /\ \A i \in 1 .. Len(s) : Append(s, e)[i] = s[i]
         /\ Append(s, e)[Len(s) + 1] = e
         /\ Len(s) \in Nat
OBVIOUS

(* Reading a node (read_chunk_payload) preserves the invariant.            *)
LEMMA ParseNodeInv == GraphInv /\ ParseNode => GraphInv'
<1> SUFFICES ASSUME GraphInv, ParseNode PROVE GraphInv'
  OBVIOUS
<1> USE DEF chunk, validator, runtime
<1>0. /\ TypeOK /\ Counted /\ InStep /\ NoGraphFault /\ phase = "parse"
      /\ ends = <<>> /\ plan = <<>> /\ produced = {} /\ next = 0
  BY DEF GraphInv, ParseNode, InStep
<1>1. PICK n \in NodePlan : /\ nodes' = Append(nodes, [node |-> n, offset |-> regen])
                            /\ regen' = regen + Len(n.dists)
  BY DEF ParseNode
<1>2. UNCHANGED <<phase, stored, outputs, append, ends, produced, depths, plan,
                  slots, next, live, peak, dst, why>>
  BY DEF ParseNode
<1>3. regen \in Nat /\ n.dists \in Seq(Nat) /\ Len(n.dists) \in Nat
  BY <1>0, NodeType, TypeFacts
<1>4. nodes \in Seq(ParsedNodes) /\ Len(nodes) \in Nat
  BY <1>0, TypeFacts
<1>5. [node |-> n, offset |-> regen] \in ParsedNodes
  BY <1>3 DEF ParsedNodes
<1>6. /\ nodes' \in Seq(ParsedNodes)
      /\ Len(nodes') = Len(nodes) + 1
      /\ \A i \in 1 .. Len(nodes) : nodes'[i] = nodes[i]
      /\ nodes'[Len(nodes) + 1] = [node |-> n, offset |-> regen]
  BY <1>1, <1>4, <1>5, AppendFacts
<1>7. TypeOK'
  <2>1. Len(ends) = 0 /\ Len(plan) = 0
    BY <1>0
  <2>2. regen' \in Nat /\ Len(ends') <= Len(nodes') /\ Len(plan') <= Len(nodes')
    BY <1>1, <1>2, <1>3, <1>4, <1>6, <2>1
  <2> QED
    BY <1>0, <1>2, <1>6, <2>2 DEF TypeOK
<1>8. Counted'
  <2>1. RegenBefore(1)' = 0
    BY <1>0, <1>1, <1>4, <1>6 DEF Counted, RegenBefore
  <2>2. ASSUME NEW i \in 1 .. Len(nodes')
        PROVE  RegenBefore(i + 1)' = RegenBefore(i)' + Len(nodes'[i].node.dists)
    <3>1. CASE i < Len(nodes)
      <4>1. i \in 1 .. Len(nodes) /\ i + 1 \in 1 .. Len(nodes)
        BY <3>1, <1>4, <1>6
      <4>2. RegenBefore(i + 1) = RegenBefore(i) + Len(nodes[i].node.dists)
        BY <4>1, <1>0 DEF Counted
      <4>3. nodes'[i] = nodes[i] /\ nodes'[i + 1] = nodes[i + 1]
        BY <4>1, <1>6
      <4> QED
        BY <4>1, <4>2, <4>3, <1>4, <1>6 DEF RegenBefore
    <3>2. CASE i = Len(nodes)
      <4>1. RegenBefore(i + 1) = regen
        BY <3>2, <1>4 DEF RegenBefore
      <4>2. RegenBefore(i + 1)' = regen
        BY <3>2, <1>4, <1>6 DEF RegenBefore
      <4> QED
        BY <3>2, <4>1, <4>2, <1>0, <1>4, <1>6 DEF Counted, RegenBefore
    <3>3. CASE i = Len(nodes) + 1
      BY <3>3, <1>1, <1>4, <1>6 DEF RegenBefore
    <3> QED
      BY <3>1, <3>2, <3>3, <1>4, <1>6
  <2> QED
    BY <2>1, <2>2, <1>0, <1>2 DEF Counted
<1>9. NoGraphFault' /\ InStep'
  BY <1>0, <1>2 DEF NoGraphFault, InStep
<1>10. Validated' /\ Resolved' /\ SlotsFollowPlan'
  <2>1. Len(ends') = 0 /\ Len(plan') = 0 /\ phase' # "run"
    BY <1>0, <1>2
  <2> QED
    BY <2>1 DEF Validated, Resolved, SlotsFollowPlan
<1> QED
  BY <1>7, <1>8, <1>9, <1>10 DEF GraphInv

(* Entering validate_chunk_plan preserves the invariant.                   *)
LEMMA BeginValidateInv == GraphInv /\ BeginValidate => GraphInv'
<1> SUFFICES ASSUME GraphInv, BeginValidate PROVE GraphInv'
  OBVIOUS
<1> USE DEF chunk, validator, runtime
<1>0. /\ TypeOK /\ Counted /\ InStep /\ NoGraphFault /\ phase = "parse"
      /\ ends = <<>> /\ plan = <<>> /\ produced = {} /\ next = 0
  BY DEF GraphInv, BeginValidate, InStep
<1>1. UNCHANGED <<nodes, stored, regen, outputs, append, ends, produced, plan,
                  slots, next, live, peak, dst>>
  BY DEF BeginValidate
<1>2. CASE Fail("invalid")
  BY <1>0, <1>1, <1>2, FailInv
<1>3. CASE outputs <= Bound /\ phase' = "validate" /\ why' = why
  <2>1. TypeOK'
    BY <1>0, <1>1, <1>3 DEF TypeOK, Streams, Bound
  <2>2. Counted' /\ NoGraphFault'
    BY <1>0, <1>1, <1>3 DEF Counted, RegenBefore, NoGraphFault
  <2>3. InStep'
    <3>1. Len(ends') = 0 /\ produced' = {}
      BY <1>0, <1>1
    <3>2. produced' = UNION {ToSet(TargetsOf(i)) : i \in 1 .. Len(ends)}'
      BY <3>1
    <3> QED
      BY <1>0, <1>1, <1>3, <3>2 DEF InStep, Bound
  <2>4. Validated' /\ Resolved' /\ SlotsFollowPlan'
    <3>1. Len(ends') = 0 /\ Len(plan') = 0 /\ phase' # "run"
      BY <1>0, <1>1, <1>3
    <3> QED
      BY <3>1 DEF Validated, Resolved, SlotsFollowPlan
  <2> QED
    BY <2>1, <2>2, <2>3, <2>4 DEF GraphInv
<1> QED
  BY <1>2, <1>3 DEF BeginValidate

(* The one-node shortcut preserves the invariant.                          *)
LEMMA ValidateSingleInv == GraphInv /\ ValidateSingle => GraphInv'
<1> SUFFICES ASSUME GraphInv, ValidateSingle PROVE GraphInv'
  OBVIOUS
<1> USE DEF chunk, validator, runtime
<1> DEFINE n == nodes[1].node
<1>0. /\ TypeOK /\ Counted /\ InStep /\ NoGraphFault /\ phase = "validate"
      /\ plan = <<>> /\ next = 0 /\ outputs <= Bound /\ Len(nodes) = 1
  BY DEF GraphInv, ValidateSingle, InStep
<1>1. UNCHANGED <<nodes, stored, regen, outputs, append, produced, plan,
                  slots, next, live, peak, dst>>
  BY DEF ValidateSingle
<1>2. CASE Fail("invalid") /\ ends' = ends
  BY <1>0, <1>1, <1>2, FailInv
<1>3. CASE /\ SingleNodeFits(n) /\ phase' = "build" /\ why' = why
           /\ ends' = <<InputCount(n)>>
  <2>1. n \in NodePlan /\ InputCount(n) \in Nat
    BY <1>0, ParsedNode, NodeType
  <2>2. ends' \in Seq(Nat) /\ Len(ends') = 1 /\ ends'[1] = InputCount(n)
    BY <1>3, <2>1
  <2>3. Len(plan) = 0
    BY <1>0
  <2>4. TypeOK'
    <3>1. plan' \in Seq(PlanNodes) /\ produced' \subseteq Streams
      BY <1>0, <1>1 DEF TypeOK
    <3>2. Len(plan') <= Len(nodes) /\ next' \in 0 .. Len(plan')
      BY <1>0, <1>1, <2>3
    <3> QED
      BY <1>0, <1>1, <1>3, <2>2, <3>1, <3>2, TypeStep
  <2>5. Counted'
    <3>1. IsFiniteSet(RegenTargets') /\ Cardinality(RegenTargets') = 0
      <4>1. RegenTargets' = {}
        BY <1>0, <1>1 DEF RegenTargets
      <4> QED
        BY <4>1, FS_EmptySet
    <3>2. RegenBefore(Len(plan') + 1) = 0
      BY <1>0, <1>1, <2>3 DEF Counted
    <3> QED
      BY <3>1, <3>2, <1>0, <1>1, CountedStep
  <2>6. NoGraphFault' /\ InStep'
    BY <1>0, <1>1, <1>3, <2>2 DEF NoGraphFault, InStep, Bound
  <2>7. Validated'
    <3>1. TargetsFree(TargetsOf(1), {})'
      <4>1. /\ Targets(n, InputCount(n)) \in Seq(Nat)
            /\ DOMAIN Targets(n, InputCount(n)) = DOMAIN n.dists
            /\ \A k \in DOMAIN n.dists :
                 Targets(n, InputCount(n))[k] = InputCount(n) + n.dists[k]
            /\ \A k \in DOMAIN n.dists : n.dists[k] \in Nat
        BY <2>1, TargetsType, NodeType DEF Targets
      <4>2. /\ \A k \in DOMAIN n.dists : Targets(n, InputCount(n))[k] < Bound
            /\ IsInjective(n.dists)
        BY <1>3, <4>1 DEF SingleNodeFits
      <4>3. IsInjective(Targets(n, InputCount(n)))
        BY <2>1, <4>1, <4>2 DEF IsInjective
      <4> QED
        BY <1>1, <1>3, <2>2, <4>1, <4>2, <4>3 DEF TargetsFree, TargetsOf, Bound
    <3>2. /\ ends'[1] = InputStart(1)' + InputCount(nodes'[1].node)
          /\ ends'[1] <= FirstFinal'
          /\ KnownNode(nodes'[1].node)
          /\ InputsAllowed(nodes'[1].node) /\ OutputsAllowed(nodes'[1].node)
      BY <1>1, <1>3, <2>1, <2>2 DEF SingleNodeFits, InputStart, FirstFinal, Bound
    <3> QED
      BY <2>2, <3>1, <3>2 DEF Validated
  <2>8. Resolved' /\ SlotsFollowPlan'
    BY <1>1, <1>3, <2>3 DEF Resolved, SlotsFollowPlan
  <2> QED
    BY <2>4, <2>5, <2>6, <2>7, <2>8, <1>3 DEF GraphInv
<1> QED
  BY <1>2, <1>3 DEF ValidateSingle

(* The loop of validate_chunk_plan appends one node's input end: what it   *)
(* says of the node, and that the nodes before it stay as they were.       *)
LEMMA EndAppended ==
  ASSUME TypeOK, Len(ends) < Len(nodes), nodes' = nodes,
         NEW m, m = Len(ends) + 1, NEW end,
         end = Cursor + InputCount(nodes[m].node), ends' = Append(ends, end)
  PROVE  /\ m \in 1 .. Len(nodes) /\ Len(ends) \in Nat
         /\ nodes[m].node \in NodePlan
         /\ Cursor \in Nat /\ Cursor = InputStart(m) /\ end \in Nat /\ Cursor <= end
         /\ ends' \in Seq(Nat) /\ Len(ends') = m /\ ends'[m] = end
         /\ \A i \in 1 .. Len(ends) : /\ ends'[i] = ends[i] /\ ends[i] \in Nat
                                      /\ InputStart(i)' = InputStart(i)
                                      /\ InputStart(i) \in Nat
                                      /\ TargetsOf(i)' = TargetsOf(i)
         /\ InputStart(m)' = Cursor
         /\ TargetsOf(m)' = Targets(nodes[m].node, end)
<1>1. /\ ends \in Seq(Nat) /\ Len(ends) \in Nat /\ Len(nodes) \in Nat
      /\ m \in 1 .. Len(nodes)
  BY TypeFacts
<1>2. nodes[m].node \in NodePlan /\ InputCount(nodes[m].node) \in Nat
  BY <1>1, ParsedNode, NodeType
<1>3. Cursor \in Nat /\ Cursor = InputStart(m)
  BY <1>1, ElementOfSeq DEF Cursor, InputStart, Last
<1>4. end \in Nat /\ Cursor <= end
  BY <1>2, <1>3
<1>5. /\ ends' \in Seq(Nat) /\ Len(ends') = m /\ ends'[m] = end
      /\ \A i \in 1 .. Len(ends) : ends'[i] = ends[i]
  BY <1>1, <1>4, AppendFacts
<1>6. \A i \in 1 .. Len(ends) : ends[i] \in Nat
  BY <1>1, ElementOfSeq
<1>7. ASSUME NEW i \in 1 .. Len(ends)
      PROVE  InputStart(i)' = InputStart(i) /\ InputStart(i) \in Nat
  <2>1. i = 1 \/ i - 1 \in 1 .. Len(ends)
    BY <1>1
  <2> QED
    BY <2>1, <1>5, <1>6 DEF InputStart
<1>8. \A i \in 1 .. Len(ends) : TargetsOf(i)' = TargetsOf(i)
  BY <1>5 DEF TargetsOf
<1>9. InputStart(m)' = Cursor
  <2>1. m = 1 \/ m - 1 \in 1 .. Len(ends)
    BY <1>1
  <2> QED
    BY <2>1, <1>3, <1>5 DEF InputStart
<1>10. TargetsOf(m)' = Targets(nodes[m].node, end)
  BY <1>5 DEF TargetsOf
<1> QED
  BY <1>1, <1>2, <1>3, <1>4, <1>5, <1>6, <1>7, <1>8, <1>9, <1>10

(* One round of the validation loop preserves the invariant.               *)
LEMMA ValidateNodeInv == GraphInv /\ ValidateNode => GraphInv'
<1> SUFFICES ASSUME GraphInv, ValidateNode PROVE GraphInv'
  OBVIOUS
<1> USE DEF chunk, validator, runtime
<1> PICK m : m = Len(ends) + 1
  OBVIOUS
<1> DEFINE n   == nodes[m].node
           end == Cursor + InputCount(n)
           t   == Targets(n, end)
<1>0. /\ TypeOK /\ Counted /\ InStep /\ NoGraphFault /\ phase = "validate"
      /\ plan = <<>> /\ next = 0 /\ outputs <= Bound
      /\ Len(ends) < Len(nodes) /\ Validated
      /\ produced = UNION {ToSet(TargetsOf(i)) : i \in 1 .. Len(ends)}
  BY DEF GraphInv, ValidateNode, InStep
<1>1. UNCHANGED <<nodes, stored, regen, outputs, append, plan,
                  slots, next, live, peak, dst>>
  BY DEF ValidateNode
<1>2. CASE Fail("invalid") /\ ends' = ends /\ produced' = produced
  BY <1>0, <1>1, <1>2, FailInv
<1>3. CASE /\ NodeFits(n, Cursor, produced)
           /\ ends' = Append(ends, end) /\ produced' = produced \cup ToSet(t)
           /\ phase' = phase /\ why' = why
  <2>1. /\ ends \in Seq(Nat) /\ Len(ends) \in Nat /\ Len(nodes) \in Nat
        /\ Bound \in Nat /\ m \in 1 .. Len(nodes)
    BY <1>0, TypeFacts
  <2>2. n \in NodePlan /\ InputCount(n) \in Nat
    BY <1>0, <2>1, ParsedNode, NodeType
  <2> HIDE DEF t
  <2>3. /\ Cursor \in Nat /\ Cursor = InputStart(m) /\ end \in Nat /\ Cursor <= end
        /\ ends' \in Seq(Nat) /\ Len(ends') = m /\ ends'[m] = end
        /\ \A i \in 1 .. Len(ends) : /\ ends'[i] = ends[i]
                                     /\ InputStart(i)' = InputStart(i)
                                     /\ TargetsOf(i)' = TargetsOf(i)
        /\ InputStart(m)' = Cursor
        /\ TargetsOf(m)' = Targets(n, end)
    <3> DEFINE x == end
    <3>1. x = Cursor + InputCount(nodes[m].node) /\ ends' = Append(ends, x)
      BY <1>3
    <3> HIDE DEF x
    <3> QED
      BY <1>0, <1>1, <3>1, EndAppended DEF x
  <2>4. end \in Nat
    BY <2>3
  <2>5. /\ ends' \in Seq(Nat) /\ Len(ends') = m /\ ends'[m] = end
        /\ \A i \in 1 .. Len(ends) : ends'[i] = ends[i]
    BY <2>3
  <2> HIDE DEF n, end
  <2>6. /\ \A i \in 1 .. Len(ends) : InputStart(i)' = InputStart(i)
        /\ \A i \in 1 .. Len(ends) : TargetsOf(i)' = TargetsOf(i)
        /\ InputStart(m)' = Cursor
    BY <2>3
  <2>7. TargetsOf(m)' = t
    BY <2>3 DEF t
  <2>8. t \in Seq(Nat) /\ DOMAIN t = 1 .. Len(t)
    BY <2>2, <2>4, TargetsType DEF t
  <2>9. /\ KnownNode(n)
        /\ InputsAllowed(n) /\ OutputsAllowed(n) /\ end <= FirstFinal
        /\ TargetsFree(t, produced)
    BY <1>3 DEF NodeFits, end, t
  <2>10. ToSet(t) \subseteq Streams
    BY <2>8, <2>9, <2>1 DEF TargetsFree, ToSet, Streams
  <2>11. produced' = UNION {ToSet(TargetsOf(i)) : i \in 1 .. Len(ends)}'
    <3>1. ASSUME NEW x
          PROVE  (\E i \in 1 .. Len(ends') : x \in ToSet(TargetsOf(i)'))
                 <=> x \in produced \/ x \in ToSet(t)
      <4>1. 1 .. Len(ends') = (1 .. Len(ends)) \cup {m}
        BY <2>1, <2>5
      <4> QED
        BY <4>1, <1>0, <2>6, <2>7
    <3> QED
      BY <3>1, <1>3
  <2>12. TypeOK'
    <3>1. produced' \subseteq Streams /\ plan' \in Seq(PlanNodes)
      BY <1>0, <1>1, <1>3, <2>10 DEF TypeOK
    <3>2. Len(plan') = 0 /\ next' = 0
      BY <1>0, <1>1
    <3> QED
      BY <1>0, <1>1, <1>3, <2>1, <2>5, <3>1, <3>2, TypeStep
  <2>13. Counted'
    BY <1>0, <1>1, <1>3, CountedStep
  <2>14. NoGraphFault' /\ InStep'
    BY <1>0, <1>1, <1>3, <2>11 DEF NoGraphFault, InStep, Bound
  <2>15. Validated'
    <3>1. ASSUME NEW i \in 1 .. Len(ends')
          PROVE  /\ ends'[i] = InputStart(i)' + InputCount(nodes'[i].node)
                 /\ ends'[i] <= FirstFinal'
                 /\ KnownNode(nodes'[i].node)
                 /\ InputsAllowed(nodes'[i].node) /\ OutputsAllowed(nodes'[i].node)
                 /\ TargetsFree(TargetsOf(i), {})'
      <4>0. FirstFinal' = FirstFinal /\ Bound' = Bound
        BY <1>1 DEF FirstFinal, Bound
      <4>1. CASE i = m
        BY <4>0, <4>1, <1>1, <2>3, <2>5, <2>6, <2>7, <2>9
           DEF TargetsFree, end, n
      <4>2. CASE i \in 1 .. Len(ends)
        BY <4>0, <4>2, <1>0, <1>1, <2>5, <2>6 DEF Validated, TargetsFree
      <4> QED
        BY <4>1, <4>2, <2>1, <2>5
    <3>2. ASSUME NEW i \in 1 .. Len(ends'), NEW j \in 1 .. Len(ends'), i < j
          PROVE  /\ ends'[i] <= ends'[j]
                 /\ ToSet(TargetsOf(i)') \cap ToSet(TargetsOf(j)') = {}
      <4>0. i \in 1 .. Len(ends)
        BY <3>2, <2>1, <2>5
      <4>1. CASE j = m
        <5>1. ends[i] <= Cursor
          <6>1. CASE i = Len(ends)
            BY <6>1, <4>0, <2>1 DEF Cursor, Last
          <6>2. CASE i < Len(ends)
            BY <6>2, <4>0, <1>0, <2>1 DEF Cursor, Last, Validated
          <6> QED
            BY <6>1, <6>2, <4>0, <2>1
        <5>2. ends'[i] \in Nat /\ ends'[i] <= ends'[j]
          <6>1. ends[i] \in Nat
            BY <4>0, <2>1, ElementOfSeq
          <6>2. ends'[i] = ends[i] /\ ends'[j] = end
            BY <4>0, <4>1, <2>5
          <6>3. Cursor <= end
            BY <2>2, <2>3, <2>4 DEF end
          <6> QED
            BY <5>1, <6>1, <6>2, <6>3, <2>2, <2>3, <2>4 DEF end
        <5>3. ToSet(TargetsOf(i)) \subseteq produced
          BY <4>0, <1>0
        <5>4. ToSet(t) \cap produced = {}
          BY <2>9, TargetsFreeMeans
        <5> QED
          BY <5>2, <5>3, <5>4, <4>0, <4>1, <2>6, <2>7
      <4>2. CASE j \in 1 .. Len(ends)
        BY <4>0, <4>2, <3>2, <1>0, <2>5, <2>6 DEF Validated
      <4> QED
        BY <4>1, <4>2, <2>1, <2>5
    <3> QED
      BY <3>1, <3>2 DEF Validated
  <2>16. Resolved' /\ SlotsFollowPlan'
    <3>1. Len(plan') = 0 /\ phase' # "run"
      BY <1>0, <1>1, <1>3
    <3> QED
      BY <3>1 DEF Resolved, SlotsFollowPlan
  <2> QED
    BY <2>12, <2>13, <2>14, <2>15, <2>16 DEF GraphInv
<1> QED
  BY <1>2, <1>3 DEF ValidateNode

(* The check of the final outputs preserves the invariant.                 *)
LEMMA EndValidateInv == GraphInv /\ EndValidate => GraphInv'
<1> SUFFICES ASSUME GraphInv, EndValidate PROVE GraphInv'
  OBVIOUS
<1> USE DEF chunk, validator, runtime
<1>0. /\ TypeOK /\ Counted /\ InStep /\ NoGraphFault /\ phase = "validate"
      /\ plan = <<>> /\ next = 0 /\ outputs <= Bound
      /\ Len(ends) = Len(nodes) /\ Validated /\ Resolved
  BY DEF GraphInv, EndValidate, InStep
<1>1. UNCHANGED <<nodes, stored, regen, outputs, append, ends, produced, plan,
                  slots, next, live, peak, dst>>
  BY DEF EndValidate
<1>2. CASE Fail("invalid")
  BY <1>0, <1>1, <1>2, FailInv
<1>3. CASE phase' = "build" /\ why' = why
  <2>1. Len(plan) = 0
    BY <1>0
  <2>2. TypeOK'
    <3>1. /\ plan' \in Seq(PlanNodes) /\ produced' \subseteq Streams
          /\ ends' \in Seq(Nat)
      BY <1>0, <1>1 DEF TypeOK
    <3>2. Len(plan') <= Len(nodes) /\ next' \in 0 .. Len(plan') /\ Len(ends') <= Len(nodes)
      BY <1>0, <1>1, <2>1, TypeFacts
    <3> QED
      BY <1>0, <1>1, <1>3, <3>1, <3>2, TypeStep
  <2>3. Counted'
    <3>1. RegenTargets' = {}
      BY <1>0, <1>1 DEF RegenTargets
    <3>2. RegenBefore(Len(plan') + 1) = 0
      BY <1>0, <1>1, <2>1 DEF Counted
    <3> QED
      BY <3>1, <3>2, <1>0, <1>1, FS_EmptySet, CountedStep
  <2>4. NoGraphFault' /\ InStep'
    BY <1>0, <1>1, <1>3 DEF NoGraphFault, InStep, Bound
  <2>5. Validated' /\ Resolved' /\ SlotsFollowPlan'
    BY <1>0, <1>1, <1>3, KeepsGraph DEF SlotsFollowPlan
  <2> QED
    BY <2>2, <2>3, <2>4, <2>5 DEF GraphInv
<1> QED
  BY <1>2, <1>3 DEF EndValidate

-----------------------------------------------------------------------------
(* Building the plan and the stream table.                                 *)

(* A plan that resolves the validated nodes: its cursor and its streams.   *)
LEMMA ResolvedPlan ==
  ASSUME TypeOK, Validated, Resolved, Len(ends) = Len(nodes)
  PROVE  /\ DOMAIN plan = 1 .. Len(plan) /\ Len(plan) \in Nat
         /\ \A i \in 1 .. Len(plan) :
              /\ i \in 1 .. Len(ends) /\ ends[i] \in Nat
              /\ plan[i].id = nodes[i].node.id
              /\ plan[i].start = InputStart(i)
              /\ plan[i].count = InputCount(nodes[i].node)
              /\ plan[i].targets = TargetsOf(i)
              /\ InputEnd(plan[i]) = ends[i]
         /\ PlanCursor = InputStart(Len(plan) + 1)
         /\ RegenTargets = UNION {ToSet(TargetsOf(i)) : i \in 1 .. Len(plan)}
<1>1. /\ plan \in Seq(PlanNodes) /\ Len(plan) <= Len(nodes)
      /\ ends \in Seq(Nat) /\ Len(nodes) \in Nat
  BY TypeFacts DEF TypeOK
<1>2. DOMAIN plan = 1 .. Len(plan) /\ Len(plan) \in Nat
  BY <1>1
<1>3. ASSUME NEW i \in 1 .. Len(plan)
      PROVE  /\ i \in 1 .. Len(ends) /\ ends[i] \in Nat
             /\ plan[i].id = nodes[i].node.id
             /\ plan[i].start = InputStart(i)
             /\ plan[i].count = InputCount(nodes[i].node)
             /\ plan[i].targets = TargetsOf(i)
             /\ InputEnd(plan[i]) = ends[i]
  <2>1. i \in 1 .. Len(ends) /\ ends[i] \in Nat
    BY <1>1, <1>2, ElementOfSeq
  <2>2. plan[i] = [id |-> nodes[i].node.id, start |-> InputStart(i),
                   count |-> InputCount(nodes[i].node), targets |-> TargetsOf(i)]
    BY DEF Resolved
  <2>3. ends[i] = InputStart(i) + InputCount(nodes[i].node)
    BY <2>1 DEF Validated
  <2> QED
    BY <2>1, <2>2, <2>3 DEF InputEnd
<1>4. PlanCursor = InputStart(Len(plan) + 1)
  <2>1. CASE Len(plan) = 0
    BY <2>1, <1>1, EmptySeq DEF PlanCursor, InputStart
  <2>2. CASE Len(plan) # 0
    <3>1. Len(plan) \in 1 .. Len(plan) /\ plan # <<>>
      BY <2>2, <1>2
    <3>2. PlanCursor = ends[Len(plan)]
      BY <3>1, <1>3 DEF PlanCursor, Last
    <3> QED
      BY <3>1, <3>2, <1>2, <2>2 DEF InputStart
  <2> QED
    BY <2>1, <2>2
<1>5. RegenTargets = UNION {ToSet(TargetsOf(i)) : i \in 1 .. Len(plan)}
  BY <1>2, <1>3 DEF RegenTargets
<1> QED
  BY <1>2, <1>3, <1>4, <1>5

(* One round of build_chunk_execution_plan preserves the invariant.        *)
LEMMA BuildNodeInv == GraphInv /\ BuildNode => GraphInv'
<1> SUFFICES ASSUME GraphInv, BuildNode PROVE GraphInv'
  OBVIOUS
<1> USE DEF chunk, validator, runtime
<1> PICK m : m = Len(plan) + 1
  OBVIOUS
<1> DEFINE n == nodes[m].node
           t == Targets(n, PlanCursor + InputCount(n))
           e == [id |-> n.id, start |-> PlanCursor, count |-> InputCount(n),
                 targets |-> t]
<1>0. /\ TypeOK /\ Counted /\ InStep /\ NoGraphFault /\ phase = "build"
      /\ next = 0 /\ outputs <= Bound
      /\ Len(ends) = Len(nodes) /\ Len(plan) < Len(nodes)
      /\ Validated /\ Resolved
  BY DEF GraphInv, BuildNode, InStep
<1>1. UNCHANGED <<nodes, stored, regen, outputs, append, ends, produced,
                  slots, next, live, peak, dst>>
  BY DEF BuildNode
<1>2. CASE Fail("unsupported") /\ plan' = plan
  BY <1>0, <1>1, <1>2, FailInv
<1>3. /\ Len(plan) \in Nat /\ Len(nodes) \in Nat /\ m \in 1 .. Len(nodes)
      /\ ends \in Seq(Nat) /\ Bound \in Nat /\ plan \in Seq(PlanNodes)
      /\ ends[m] \in Nat
  <2>1. /\ Len(plan) \in Nat /\ Len(nodes) \in Nat /\ ends \in Seq(Nat)
        /\ Bound \in Nat
    BY <1>0, TypeFacts
  <2>2. plan \in Seq(PlanNodes)
    BY <1>0 DEF TypeOK
  <2>3. m \in 1 .. Len(nodes)
    BY <1>0, <2>1
  <2>4. ends[m] \in Nat
    BY <1>0, <2>1, <2>3, ElementOfSeq
  <2> QED
    BY <2>1, <2>2, <2>3, <2>4
<1>4. n \in NodePlan /\ InputCount(n) \in Nat /\ n.id \in STRING
  BY <1>0, <1>3, ParsedNode, NodeType, NodePlanAssumption
<1>5. PlanCursor = InputStart(m) /\ ends[m] = InputStart(m) + InputCount(n)
  BY <1>0, <1>3, ResolvedPlan DEF Validated
<1>6. t = TargetsOf(m)
  BY <1>5 DEF TargetsOf
<1>7. PlanCursor \in Nat
  <2>1. m = 1 \/ m - 1 \in 1 .. Len(ends)
    BY <1>0, <1>3
  <2> QED
    BY <2>1, <1>3, <1>5, ElementOfSeq DEF InputStart
<1>8. t \in Seq(Nat) /\ Len(t) = Len(n.dists)
  BY <1>3, <1>4, <1>6, TargetsType DEF TargetsOf
<1>9. e \in PlanNodes
  BY <1>4, <1>7, <1>8 DEF PlanNodes
<1> HIDE DEF n, t, e
<1>10. TargetsFree(t, RegenTargets)
  <2>1. TargetsFree(t, {})
    BY <1>0, <1>3, <1>6 DEF Validated
  <2>2. \A i \in 1 .. Len(plan) : ToSet(TargetsOf(i)) \cap ToSet(t) = {}
    <3> TAKE i \in 1 .. Len(plan)
    <3>1. i \in 1 .. Len(ends) /\ m \in 1 .. Len(ends) /\ i < m
      BY <1>0, <1>3
    <3>2. ToSet(TargetsOf(i)) \cap ToSet(TargetsOf(m)) = {}
      BY <1>0, <3>1 DEF Validated
    <3> QED
      BY <1>6, <3>2
  <2>3. ToSet(t) \cap RegenTargets = {}
    BY <2>2, <1>0, ResolvedPlan
  <2> QED
    BY <2>1, <2>3, TargetsFreeMeans
<1>11. CASE plan' = Append(plan, e) /\ phase' = phase /\ why' = why
  <2>1. /\ plan' \in Seq(PlanNodes) /\ Len(plan') = m /\ plan'[m] = e
        /\ \A i \in 1 .. Len(plan) : plan'[i] = plan[i]
    BY <1>3, <1>9, <1>11, AppendFacts
  <2>2. TypeOK'
    <3>1. /\ produced' \subseteq Streams /\ ends' \in Seq(Nat)
      BY <1>0, <1>1 DEF TypeOK
    <3>2. Len(plan') <= Len(nodes) /\ next' \in 0 .. Len(plan') /\ Len(ends') <= Len(nodes)
      BY <1>0, <1>1, <1>3, <2>1
    <3> QED
      BY <1>0, <1>1, <1>11, <2>1, <3>1, <3>2, TypeStep
  <2>3. Counted'
    <3>1. RegenTargets' = RegenTargets \cup ToSet(t)
      <4>1. DOMAIN plan' = DOMAIN plan \cup {m} /\ DOMAIN plan = 1 .. Len(plan)
        BY <1>3, <2>1
      <4>2. plan'[m].targets = t
        BY <2>1 DEF e
      <4> QED
        BY <4>1, <4>2, <2>1 DEF RegenTargets
    <3>2. /\ IsFiniteSet(RegenTargets)
          /\ Cardinality(RegenTargets) = RegenBefore(m)
      BY <1>0 DEF Counted
    <3>3. IsFiniteSet(ToSet(t)) /\ Cardinality(ToSet(t)) = Len(t)
      BY <1>8, <1>10, InjectiveCount DEF TargetsFree
    <3>4. RegenTargets \cap ToSet(t) = {}
      BY <1>10, TargetsFreeMeans
    <3>5. /\ IsFiniteSet(RegenTargets')
          /\ Cardinality(RegenTargets') = Cardinality(RegenTargets) + Len(t)
      <4>1. Cardinality(RegenTargets) \in Nat /\ Len(t) \in Nat
        BY <1>8, <3>2, FS_CardinalityType
      <4>2. /\ IsFiniteSet(RegenTargets \cup ToSet(t))
            /\ Cardinality(RegenTargets \cup ToSet(t)) =
                 Cardinality(RegenTargets) + Cardinality(ToSet(t))
                 - Cardinality(RegenTargets \cap ToSet(t))
        BY <3>2, <3>3, FS_Union
      <4>3. Cardinality(RegenTargets \cap ToSet(t)) = 0
        BY <3>4, FS_EmptySet
      <4> QED
        BY <3>1, <3>3, <4>1, <4>2, <4>3
    <3>6. RegenBefore(m + 1) = RegenBefore(m) + Len(t)
      BY <1>0, <1>3, <1>8 DEF Counted, n
    <3> QED
      BY <3>2, <3>5, <3>6, <2>1, <1>0, <1>1, CountedStep
  <2>4. NoGraphFault' /\ InStep'
    BY <1>0, <1>1, <1>11 DEF NoGraphFault, InStep, Bound
  <2>5. Validated'
    BY <1>0, <1>1 DEF Validated, TargetsOf, InputStart, FirstFinal, Bound, TargetsFree
  <2>6. Resolved'
    <3>1. \A i : InputStart(i)' = InputStart(i) /\ TargetsOf(i)' = TargetsOf(i)
      BY <1>1 DEF InputStart, TargetsOf
    <3>2. ASSUME NEW i \in 1 .. Len(plan')
          PROVE  plan'[i] = [id |-> nodes'[i].node.id, start |-> InputStart(i)',
                             count |-> InputCount(nodes'[i].node),
                             targets |-> TargetsOf(i)']
      <4>1. CASE i = m
        BY <4>1, <3>1, <1>1, <1>5, <1>6, <2>1 DEF e, n
      <4>2. CASE i \in 1 .. Len(plan)
        BY <4>2, <3>1, <1>0, <1>1, <2>1 DEF Resolved
      <4> QED
        BY <4>1, <4>2, <1>3, <2>1
    <3> QED
      BY <3>2 DEF Resolved
  <2>7. SlotsFollowPlan'
    BY <1>0, <1>11 DEF SlotsFollowPlan
  <2> QED
    BY <2>2, <2>3, <2>4, <2>5, <2>6, <2>7 DEF GraphInv
<1> QED
  BY <1>2, <1>10, <1>11 DEF BuildNode, n, t, e

(* Node m of a complete plan: its inputs lie below the finals, its targets *)
(* above its inputs, and the nodes after it neither read nor regenerate    *)
(* anything below its input end.                                           *)
LEMMA PlannedNode ==
  ASSUME TypeOK, Validated, Resolved, Len(ends) = Len(nodes),
         NEW m \in 1 .. Len(plan)
  PROVE  /\ plan[m].start \in Nat /\ plan[m].count \in Nat
         /\ plan[m].start = InputStart(m)
         /\ ends[m] = plan[m].start + plan[m].count
         /\ InputEnd(plan[m]) = ends[m]
         /\ ends[m] \in Nat /\ ends[m] < Bound
         /\ plan[m].targets = TargetsOf(m)
         /\ DOMAIN plan[m].targets = 1 .. Len(plan[m].targets)
         /\ IsInjective(plan[m].targets)
         /\ ToSet(plan[m].targets) \subseteq Streams
         /\ \A s \in ToSet(plan[m].targets) : s >= ends[m]
         /\ \A j \in m .. Len(plan) : \A s \in ToSet(TargetsOf(j)) : s >= ends[m]
         /\ \A j \in m + 1 .. Len(plan) :
              ToSet(TargetsOf(j)) \cap ToSet(plan[m].targets) = {}
<1>1. /\ Len(plan) \in Nat /\ Len(nodes) \in Nat /\ ends \in Seq(Nat)
      /\ Bound \in Nat /\ outputs \in Nat /\ FirstFinal = Bound - outputs
      /\ outputs # 0 /\ Len(plan) <= Len(nodes)
  <2>1. outputs \in Nat \ {0} /\ Len(plan) <= Len(nodes)
    BY DEF TypeOK
  <2> QED
    BY <2>1, TypeFacts DEF FirstFinal
<1>2. ASSUME NEW j \in 1 .. Len(plan)
      PROVE  /\ j \in 1 .. Len(ends) /\ j \in 1 .. Len(nodes) /\ ends[j] \in Nat
             /\ nodes[j].node \in NodePlan /\ InputCount(nodes[j].node) \in Nat
             /\ plan[j].start = InputStart(j)
             /\ plan[j].count = InputCount(nodes[j].node)
             /\ plan[j].targets = TargetsOf(j)
             /\ InputEnd(plan[j]) = ends[j]
             /\ \A s \in ToSet(TargetsOf(j)) : s \in Nat /\ s >= ends[j]
  <2>1. j \in 1 .. Len(nodes) /\ j \in 1 .. Len(ends)
    BY <1>1
  <2>2. nodes[j].node \in NodePlan /\ InputCount(nodes[j].node) \in Nat
    BY <2>1, ParsedNode, NodeType
  <2>3. ends[j] \in Nat
    BY <2>1, <1>1, ElementOfSeq
  <2>4. \A s \in ToSet(TargetsOf(j)) : s \in Nat /\ s >= ends[j]
    BY <2>2, <2>3, TargetsType DEF TargetsOf
  <2> QED
    BY <2>1, <2>2, <2>3, <2>4, ResolvedPlan
<1>3. InputStart(m) \in Nat
  <2>1. m = 1 \/ m - 1 \in 1 .. Len(plan)
    BY <1>1
  <2> QED
    BY <2>1, <1>2 DEF InputStart
<1>4. /\ ends[m] = InputStart(m) + InputCount(nodes[m].node)
      /\ ends[m] <= FirstFinal
      /\ TargetsFree(TargetsOf(m), {})
  BY <1>2 DEF Validated
<1>5. DOMAIN TargetsOf(m) = 1 .. Len(TargetsOf(m))
  BY <1>2, TargetsType DEF TargetsOf
<1>6. /\ IsInjective(TargetsOf(m))
      /\ ToSet(TargetsOf(m)) \subseteq Streams
  <2>1. IsInjective(TargetsOf(m)) /\ \A s \in ToSet(TargetsOf(m)) : s < Bound
    BY <1>4 DEF TargetsFree, ToSet
  <2>2. \A s \in ToSet(TargetsOf(m)) : s \in Nat
    BY <1>2
  <2> QED
    BY <1>1, <2>1, <2>2 DEF Streams
<1>7. ASSUME NEW j \in m .. Len(plan), NEW s \in ToSet(TargetsOf(j))
      PROVE  s >= ends[m]
  <2>1. j \in 1 .. Len(plan)
    BY <1>1
  <2>2. ends[m] <= ends[j]
    <3>1. CASE j = m
      BY <3>1, <1>2
    <3>2. CASE m < j
      BY <3>2, <2>1, <1>2 DEF Validated
    <3> QED
      BY <3>1, <3>2
  <2> QED
    BY <2>1, <2>2, <1>2
<1>8. \A j \in m + 1 .. Len(plan) : ToSet(TargetsOf(j)) \cap ToSet(TargetsOf(m)) = {}
  <2>1. ASSUME NEW j \in m + 1 .. Len(plan)
        PROVE  j \in 1 .. Len(plan) /\ m < j
    BY <1>1
  <2> QED
    BY <2>1, <1>2 DEF Validated
<1>9. ends[m] < Bound
  BY <1>1, <1>2, <1>4
<1> QED
  BY <1>2, <1>3, <1>4, <1>5, <1>6, <1>7, <1>8, <1>9

(* initialize_stream_slots preserves the invariant, and never fails.       *)
LEMMA InitSlotsInv == GraphInv /\ InitSlots => GraphInv'
<1> SUFFICES ASSUME GraphInv, InitSlots PROVE GraphInv'
  OBVIOUS
<1> USE DEF chunk, validator, runtime
<1>0. /\ TypeOK /\ Counted /\ InStep /\ NoGraphFault /\ phase = "build"
      /\ next = 0 /\ outputs <= Bound
      /\ Len(ends) = Len(nodes) /\ Len(plan) = Len(nodes)
      /\ Validated /\ Resolved
  BY DEF GraphInv, InitSlots, InStep
<1>1. UNCHANGED <<nodes, stored, regen, outputs, append, ends, produced, plan,
                  next, live, peak, dst>>
  BY DEF InitSlots
<1>2. RegenTargets \subseteq Streams
  <2>1. ASSUME NEW i \in 1 .. Len(plan) PROVE ToSet(TargetsOf(i)) \subseteq Streams
    BY <1>0, PlannedNode
  <2> QED
    BY <2>1, <1>0, ResolvedPlan
<1>3. Cardinality(Streams \ RegenTargets) = stored
  <2>1. stored \in Nat /\ regen \in Nat /\ Bound = stored + regen /\ Len(nodes) \in Nat
    BY <1>0, TypeFacts DEF Bound
  <2>2. IsFiniteSet(Streams) /\ Cardinality(Streams) = Bound
    <3>1. /\ IsFiniteSet(0 .. Bound - 1)
          /\ Cardinality(0 .. Bound - 1) =
               IF 0 > Bound - 1 THEN 0 ELSE (Bound - 1) - 0 + 1
      BY <2>1, FS_Interval
    <3> QED
      BY <2>1, <3>1 DEF Streams
  <2>3. IsFiniteSet(RegenTargets) /\ Cardinality(RegenTargets) = regen
    <3>1. RegenBefore(Len(plan) + 1) = regen
      BY <1>0, <2>1 DEF RegenBefore
    <3> QED
      BY <1>0, <3>1 DEF Counted
  <2>4. /\ IsFiniteSet(Streams \ RegenTargets)
        /\ Cardinality(Streams \ RegenTargets) \in Nat
    BY <2>2, FS_Difference, FS_CardinalityType
  <2>5. Cardinality((Streams \ RegenTargets) \cup RegenTargets) =
          Cardinality(Streams \ RegenTargets) + Cardinality(RegenTargets)
          - Cardinality((Streams \ RegenTargets) \cap RegenTargets)
    BY <2>3, <2>4, FS_Union
  <2>6. /\ (Streams \ RegenTargets) \cup RegenTargets = Streams
        /\ (Streams \ RegenTargets) \cap RegenTargets = {}
    BY <1>2
  <2>7. Cardinality(Streams) =
          Cardinality(Streams \ RegenTargets) + Cardinality(RegenTargets)
          - Cardinality({})
    BY <2>5, <2>6, Zenon
  <2>8. Cardinality({}) = 0
    BY FS_EmptySet
  <2>9. Bound = Cardinality(Streams \ RegenTargets) + regen - 0
    BY <2>2, <2>3, <2>7, <2>8, Zenon
  <2> QED
    BY <2>1, <2>4, <2>9
<1>4. /\ phase' = "run" /\ why' = why /\ DOMAIN slots' = Streams
      /\ \A s \in Streams : slots'[s].state = "empty" <=> s \in RegenTargets
  <2>1. /\ phase' = "run" /\ why' = why
        /\ slots' = [s \in Streams |->
              IF s \in RegenTargets THEN Empty
              ELSE [state |-> "borrowed", lens |-> 0,
                    bytes |-> <<StoredByte(StoredIndex(s))>>]]
    BY <1>3 DEF InitSlots
  <2> QED
    BY <2>1 DEF Empty
<1>5. TypeOK'
  <2>1. plan' \in Seq(PlanNodes) /\ produced' \subseteq Streams /\ ends' \in Seq(Nat)
    BY <1>0, <1>1 DEF TypeOK
  <2>2. Len(plan') <= Len(nodes) /\ next' \in 0 .. Len(plan') /\ Len(ends') <= Len(nodes)
    BY <1>0, <1>1, TypeFacts
  <2> QED
    BY <1>0, <1>1, <1>4, <2>1, <2>2, TypeStep
<1>6. Counted'
  BY <1>0, <1>1, <1>4, CountedStep
<1>7. NoGraphFault' /\ InStep'
  BY <1>0, <1>1, <1>4 DEF NoGraphFault, InStep, Bound
<1>8. Validated' /\ Resolved'
  BY <1>0, <1>1, KeepsGraph
<1>9. SlotsFollowPlan'
  <2>1. Streams' = Streams /\ \A j : TargetsOf(j)' = TargetsOf(j)
    BY <1>1 DEF Streams, Bound, TargetsOf
  <2>2. \A s \in Streams : s \in RegenTargets <=>
          \E j \in 1 .. Len(plan) : s \in ToSet(TargetsOf(j))
    BY <1>0, ResolvedPlan
  <2>3. \A s \in Streams : ~(s < 0)
    BY DEF Streams
  <2>4. next' = 0 /\ Len(plan') = Len(plan)
    BY <1>0, <1>1
  <2> QED
    BY <1>4, <2>1, <2>2, <2>3, <2>4 DEF SlotsFollowPlan
<1> QED
  BY <1>5, <1>6, <1>7, <1>8, <1>9 DEF GraphInv

-----------------------------------------------------------------------------
(* Running the nodes.                                                      *)

(* While nodes run: a slot is empty iff its stream lies below the inputs   *)
(* of the next node or is a target of that node or a later one.            *)
LEMMA EmptySlots ==
  ASSUME GraphInv, phase = "run", NEW s \in Streams
  PROVE  /\ TypeOK /\ Validated /\ Resolved /\ outputs <= Bound
         /\ Len(ends) = Len(nodes) /\ Len(plan) = Len(nodes)
         /\ DOMAIN slots = Streams
         /\ slots[s].state = "empty" <=>
              \/ s < InputStart(next + 1)
              \/ \E j \in next + 1 .. Len(plan) : s \in ToSet(TargetsOf(j))
<1>1. TypeOK /\ Validated /\ Resolved /\ SlotsFollowPlan /\ InStep
  BY DEF GraphInv
<1>2. InputStart(next + 1) = IF next = 0 THEN 0 ELSE ends[next]
  <2>1. next \in Nat
    BY <1>1, TypeFacts
  <2>2. CASE next = 0
    <3>1. next + 1 = 1
      BY <2>2
    <3> QED
      BY <2>2, <3>1 DEF InputStart
  <2>3. CASE next # 0
    <3>1. next + 1 # 1 /\ (next + 1) - 1 = next
      BY <2>1, <2>3
    <3> QED
      BY <2>3, <3>1, Zenon DEF InputStart
  <2> QED
    BY <2>2, <2>3
<1> QED
  BY <1>1, <1>2 DEF SlotsFollowPlan, InStep

(* The next node to run finds its inputs and no stream at its targets.     *)
LEMMA NextNodeReady ==
  ASSUME GraphInv, phase = "run", NEW m \in 1 .. Len(plan), m = next + 1
  PROVE  /\ InputsPresent(plan[m])
         /\ \A s \in ToSet(plan[m].targets) : s \in Streams /\ slots[s].state = "empty"
<1>1. TypeOK /\ Validated /\ Resolved /\ InStep /\ Len(ends) = Len(nodes)
  BY DEF GraphInv, InStep
<1>2. /\ Len(plan) \in Nat /\ next \in Nat /\ Bound \in Nat
  BY <1>1, TypeFacts
<1>3. /\ plan[m].start \in Nat /\ plan[m].count \in Nat
      /\ plan[m].start = InputStart(m)
      /\ InputEnd(plan[m]) = ends[m] /\ ends[m] \in Nat /\ ends[m] < Bound
      /\ plan[m].targets = TargetsOf(m)
      /\ ToSet(plan[m].targets) \subseteq Streams
      /\ \A j \in m .. Len(plan) : \A s \in ToSet(TargetsOf(j)) : s >= ends[m]
  BY <1>1, PlannedNode
<1>4. ASSUME NEW s \in NodeInputs(plan[m])
      PROVE  s \in Streams /\ slots[s].state # "empty"
  <2>1. s \in Nat /\ s >= InputStart(m) /\ s < ends[m]
    BY <1>3 DEF NodeInputs
  <2>2. s \in Streams
    BY <2>1, <1>2, <1>3 DEF Streams
  <2>3. ~(s < InputStart(m))
    BY <2>1, <1>3
  <2>4. \A j \in m .. Len(plan) : s \notin ToSet(TargetsOf(j))
    BY <2>1, <1>3
  <2> QED
    BY <2>2, <2>3, <2>4, EmptySlots
<1>5. ASSUME NEW s \in ToSet(plan[m].targets)
      PROVE  s \in Streams /\ slots[s].state = "empty"
  <2>1. m \in next + 1 .. Len(plan)
    BY <1>2
  <2>2. s \in Streams
    BY <1>3
  <2> QED
    BY <2>1, <2>2, <1>3, EmptySlots
<1> QED
  BY <1>4, <1>5 DEF InputsPresent

(* The only natural between 1 and 1.                                       *)
LEMMA One ==
  ASSUME NEW c \in Nat, c >= 1, c <= 1
  PROVE  c = 1
OBVIOUS

(* Every codec returns as many outputs as its node has targets, and a      *)
(* moving node has one input and one target.                               *)
LEMMA NodeShape ==
  ASSUME TypeOK, Validated, Resolved, Len(ends) = Len(nodes),
         NEW m \in 1 .. Len(plan)
  PROVE  /\ Len(plan[m].targets) \in Nat
         /\ OutCount(plan[m]) = Len(plan[m].targets)
         /\ Moves(plan[m]) => plan[m].count = 1 /\ Len(plan[m].targets) = 1
         /\ plan[m].id \in SplitN => Len(plan[m].targets) = 1
<1> DEFINE n == nodes[m].node
<1>1. /\ m \in 1 .. Len(ends) /\ m \in 1 .. Len(nodes) /\ ends[m] \in Nat
      /\ plan[m].id = n.id /\ plan[m].count = InputCount(n)
      /\ plan[m].targets = Targets(n, ends[m])
  <2>1. Len(plan) <= Len(nodes) /\ Len(nodes) \in Nat /\ Len(plan) \in Nat
    BY TypeFacts DEF TypeOK
  <2> QED
    BY <2>1, ResolvedPlan DEF TargetsOf
<1>2. InputsAllowed(n) /\ OutputsAllowed(n)
  BY <1>1 DEF Validated
<1>3. n \in NodePlan
  BY <1>1, ParsedNode
<1> HIDE DEF n
<1>4. n.vars \in Nat /\ n.dists \in Seq(Nat) /\ Len(n.dists) \in Nat
  BY <1>3, NodeType
<1>5. Len(plan[m].targets) = Len(n.dists)
  BY <1>1, <1>3, TargetsType
<1>6. OutCount(plan[m]) = Len(plan[m].targets)
  <2>1. Shape(n.id).min \in Nat
    BY ShapeFacts
  <2>2. CASE Shape(n.id).max = {}
    BY <2>2, <1>1 DEF OutCount
  <2>3. CASE Shape(n.id).max = {Shape(n.id).min}
    <3>1. Len(n.dists) = Shape(n.id).min
      BY <2>1, <2>3, <1>2, <1>4 DEF OutputsAllowed
    <3>2. Shape(n.id).max # {}
      BY <2>3
    <3> QED
      BY <3>1, <3>2, <1>1, <1>5 DEF OutCount
  <2> QED
    BY <2>2, <2>3, ShapeFacts
<1>7. n.id \in Conversions => n.vars = 0 /\ InputCount(n) = 1 /\ Len(n.dists) = 1
  <2> SUFFICES ASSUME n.id \in Conversions
               PROVE  n.vars = 0 /\ InputCount(n) = 1 /\ Len(n.dists) = 1
    OBVIOUS
  <2>1. /\ Shape(n.id).static = 1 /\ Shape(n.id).variable = FALSE
        /\ Shape(n.id).min = 1 /\ Shape(n.id).max = {1}
    BY ConversionShape DEF Fixed
  <2>2. n.vars = 0
    BY <2>1, <1>2 DEF InputsAllowed
  <2>3. InputCount(n) = 1
    BY <2>1, <2>2 DEF InputCount
  <2>4. Len(n.dists) >= 1 /\ Len(n.dists) <= 1
    BY <2>1, <1>2 DEF OutputsAllowed
  <2> QED
    BY <2>2, <2>3, <2>4, <1>4, One, Zenon
<1>8. n.id \in SplitN => Len(n.dists) = 1
  <2> SUFFICES ASSUME n.id \in SplitN PROVE Len(n.dists) = 1
    OBVIOUS
  <2>1. Shape(n.id).min = 1 /\ Shape(n.id).max = {1}
    BY SplitNShape DEF Variable
  <2>2. Len(n.dists) >= 1 /\ Len(n.dists) <= 1
    BY <2>1, <1>2 DEF OutputsAllowed
  <2> QED
    BY <2>2, <1>4, One, Zenon
<1> QED
  BY <1>1, <1>4, <1>5, <1>6, <1>7, <1>8 DEF Moves

(* dedup_num and interleave_string read one stream.                        *)
LEMMA FanOutInput ==
  ASSUME TypeOK, Validated, Resolved, Len(ends) = Len(nodes),
         NEW m \in 1 .. Len(plan), plan[m].id \in {"dedup_num", "interleave_string"}
  PROVE  plan[m].count = 1
<1> DEFINE n == nodes[m].node
<1>1. /\ m \in 1 .. Len(ends) /\ plan[m].id = n.id /\ plan[m].count = InputCount(n)
  <2>1. Len(plan) <= Len(nodes) /\ Len(nodes) \in Nat /\ Len(plan) \in Nat
    BY TypeFacts DEF TypeOK
  <2> QED
    BY <2>1, ResolvedPlan DEF TargetsOf
<1>2. InputsAllowed(n)
  BY <1>1 DEF Validated
<1> HIDE DEF n
<1>3. Shape(n.id).static = 1 /\ Shape(n.id).variable = FALSE
  BY <1>1, FanOutShape DEF FanOut
<1> QED
  BY <1>1, <1>2, <1>3 DEF InputsAllowed, InputCount

(* The next node to run meets no graph fault.                              *)
LEMMA NodeNotFaulty ==
  ASSUME GraphInv, phase = "run", NEW m \in 1 .. Len(plan), m = next + 1
  PROVE  ~Faulty(m)
<1>1. TypeOK /\ Validated /\ Resolved /\ Len(ends) = Len(nodes)
  BY DEF GraphInv, InStep
<1>2. /\ InputsPresent(plan[m])
      /\ \A s \in ToSet(plan[m].targets) : s \in Streams /\ slots[s].state = "empty"
  BY NextNodeReady
<1>3. /\ Len(plan[m].targets) \in Nat
      /\ OutCount(plan[m]) = Len(plan[m].targets)
      /\ Moves(plan[m]) => Len(plan[m].targets) = 1
      /\ DOMAIN plan[m].targets = 1 .. Len(plan[m].targets)
  BY <1>1, NodeShape, PlannedNode
<1>4. \A k \in 1 .. Len(plan[m].targets) : plan[m].targets[k] \in ToSet(plan[m].targets)
  BY <1>3 DEF ToSet
<1>5. Moves(plan[m]) => /\ plan[m].targets[1] \in Streams
                        /\ slots[plan[m].targets[1]].state = "empty"
  BY <1>2, <1>3, <1>4
<1>6. TargetsOpen(plan[m])
  BY <1>2, <1>3, <1>4 DEF TargetsOpen
<1> QED
  BY <1>2, <1>3, <1>5, <1>6 DEF Faulty

(* A direct-append tail starts where one of the patterns matched.          *)
LEMMA TailMember ==
  TailStart # 0 =>
    \/ \E id \in {"field_lz", "zstd", "lz"} : TailStart \in ConversionChainTail(id)
    \/ TailStart \in DispatchStringTail
    \/ TailStart \in SplitByStructTail
<1> DEFINE tails == <<ConversionChainTail("field_lz"), ConversionChainTail("zstd"),
                      DispatchStringTail, SplitByStructTail,
                      ConversionChainTail("lz")>>
           found == {k \in 1 .. 5 : tails[k] # {} /\ \A m \in 1 .. k - 1 : tails[m] = {}}
           U == UNION {tails[k] : k \in found}
<1>1. TailStart = IF found = {} THEN 0 ELSE CHOOSE i \in U : TRUE
  BY DEF TailStart
<1>2. /\ tails[1] = ConversionChainTail("field_lz")
      /\ tails[2] = ConversionChainTail("zstd")
      /\ tails[3] = DispatchStringTail
      /\ tails[4] = SplitByStructTail
      /\ tails[5] = ConversionChainTail("lz")
  OBVIOUS
<1> HIDE DEF tails
<1>3. found # {} => U # {}
  OBVIOUS
<1>4. TailStart # 0 => TailStart \in U
  BY <1>1, <1>3
<1>5. \A x \in U : \E k \in 1 .. 5 : x \in tails[k]
  OBVIOUS
<1>6. \A k \in 1 .. 5 : k = 1 \/ k = 2 \/ k = 3 \/ k = 4 \/ k = 5
  OBVIOUS
<1> QED
  BY <1>2, <1>4, <1>5, <1>6

(* The direct-append tail starts at a node of the plan.                    *)
LEMMA TailInPlan == TailStart = 0 \/ TailStart \in DOMAIN plan
<1>1. \A id : ConversionChainTail(id) \subseteq DOMAIN plan
  BY DEF ConversionChainTail
<1>2. DispatchStringTail \subseteq DOMAIN plan /\ SplitByStructTail \subseteq DOMAIN plan
  BY DEF DispatchStringTail, SplitByStructTail
<1> QED
  BY <1>1, <1>2, TailMember

(* Running node m: a table whose only changes are the node's inputs, now   *)
(* empty, and its targets, now holding streams, follows the plan again.    *)
LEMMA TableStep ==
  ASSUME GraphInv, phase = "run", phase' = "run", why' = why,
         UNCHANGED <<nodes, stored, regen, outputs, append, ends, produced, plan>>,
         NEW m \in 1 .. Len(plan), m = next + 1, next' = m,
         DOMAIN slots' = Streams,
         \A s \in ToSet(plan[m].targets) : slots'[s].state # "empty",
         \A s \in NodeInputs(plan[m]) : slots'[s].state = "empty",
         \A s \in Streams : s \notin ToSet(plan[m].targets)
                          /\ s \notin NodeInputs(plan[m])
                          => slots'[s] = slots[s]
  PROVE  GraphInv'
<1>1. /\ TypeOK /\ Validated /\ Resolved /\ InStep /\ Len(ends) = Len(nodes)
      /\ Len(plan) = Len(nodes) /\ Counted /\ NoGraphFault /\ outputs <= Bound
  BY DEF GraphInv, InStep
<1>2. /\ Len(plan) \in Nat /\ next \in Nat /\ Bound \in Nat
  BY <1>1, TypeFacts
<1>3. TypeOK'
  <2>1. plan' \in Seq(PlanNodes) /\ produced' \subseteq Streams /\ ends' \in Seq(Nat)
    BY <1>1 DEF TypeOK
  <2>2. Len(plan') <= Len(nodes) /\ next' \in 0 .. Len(plan') /\ Len(ends') <= Len(nodes)
    BY <1>1, <1>2
  <2> QED
    BY <1>1, <2>1, <2>2, TypeStep
<1>4. Counted'
  BY <1>1, CountedStep
<1>5. NoGraphFault' /\ InStep'
  BY <1>1 DEF NoGraphFault, InStep, Bound
<1>6. Validated' /\ Resolved'
  BY <1>1, KeepsGraph
<1>7. /\ plan[m].start \in Nat /\ plan[m].start = InputStart(m)
      /\ plan[m].count \in Nat /\ ends[m] = plan[m].start + plan[m].count
      /\ InputEnd(plan[m]) = ends[m] /\ ends[m] \in Nat
      /\ plan[m].targets = TargetsOf(m)
      /\ \A s \in ToSet(plan[m].targets) : s >= ends[m]
      /\ \A j \in m + 1 .. Len(plan) :
           ToSet(TargetsOf(j)) \cap ToSet(plan[m].targets) = {}
      /\ \A j \in m .. Len(plan) : \A s \in ToSet(TargetsOf(j)) : s >= ends[m]
  BY <1>1, PlannedNode
<1>8. ASSUME NEW s \in Streams
      PROVE  slots'[s].state = "empty" <=>
               \/ s < ends[m]
               \/ \E j \in m + 1 .. Len(plan) : s \in ToSet(TargetsOf(j))
  <2>1. s \in Nat
    BY <1>2 DEF Streams
  <2>2. CASE s \in ToSet(plan[m].targets)
    <3>1. ~(s < ends[m])
      BY <1>7, <2>1, <2>2
    <3>2. \A j \in m + 1 .. Len(plan) : s \notin ToSet(TargetsOf(j))
      BY <1>7, <2>2
    <3> QED
      BY <2>2, <3>1, <3>2
  <2>3. CASE s \in NodeInputs(plan[m])
    <3>1. s < ends[m]
      BY <2>1, <2>3, <1>7 DEF NodeInputs
    <3> QED
      BY <2>3, <3>1
  <2>4. CASE s \notin ToSet(plan[m].targets) /\ s \notin NodeInputs(plan[m])
    <3>1. slots'[s] = slots[s]
      BY <2>4
    <3>2. s < ends[m] <=> s < InputStart(m)
      BY <2>1, <2>4, <1>7 DEF NodeInputs
    <3>3. (\E j \in m .. Len(plan) : s \in ToSet(TargetsOf(j))) <=>
          (\E j \in m + 1 .. Len(plan) : s \in ToSet(TargetsOf(j)))
      <4>1. \A j \in m .. Len(plan) : j = m \/ j \in m + 1 .. Len(plan)
        BY <1>2
      <4>2. \A j \in m + 1 .. Len(plan) : j \in m .. Len(plan)
        BY <1>2
      <4> QED
        BY <4>1, <4>2, <2>4, <1>7
    <3> QED
      BY <3>1, <3>2, <3>3, EmptySlots
  <2> QED
    BY <2>2, <2>3, <2>4
<1>9. SlotsFollowPlan'
  <2>1. Streams' = Streams /\ \A j : TargetsOf(j)' = TargetsOf(j)
    BY DEF Streams, Bound, TargetsOf
  <2>2. m # 0
    BY <1>2
  <2> QED
    BY <1>8, <2>1, <2>2 DEF SlotsFollowPlan
<1> QED
  BY <1>3, <1>4, <1>5, <1>6, <1>9 DEF GraphInv

(* Running a node (execute_node) preserves the invariant.                  *)
LEMMA ExecuteNodeInv == GraphInv /\ ExecuteNode => GraphInv'
<1> SUFFICES ASSUME GraphInv, ExecuteNode PROVE GraphInv'
  OBVIOUS
<1> USE DEF chunk, validator, runtime
<1> PICK m : m = next + 1
  OBVIOUS
<1> DEFINE e == plan[m]
<1>0. /\ TypeOK /\ Counted /\ phase = "run" /\ next < LoopEnd
      /\ Len(ends) = Len(nodes) /\ Validated /\ Resolved
  BY DEF GraphInv, ExecuteNode, InStep
<1>1. UNCHANGED <<nodes, stored, regen, outputs, append, ends, produced,
                  plan, dst>>
  BY DEF ExecuteNode
<1>2. Len(plan) \in Nat /\ next \in Nat /\ DOMAIN plan = 1 .. Len(plan)
  BY <1>0, TypeFacts, ResolvedPlan
<1>3. m \in 1 .. Len(plan)
  <2>1. LoopEnd \in Nat /\ LoopEnd <= Len(plan)
    BY <1>2, TailInPlan DEF LoopEnd, Appending
  <2> QED
    BY <1>0, <1>2, <2>1
<1>4. ~Faulty(m)
  BY <1>0, <1>3, NodeNotFaulty
<1>5. /\ DOMAIN slots = Streams
      /\ InputsPresent(e)
      /\ \A s \in ToSet(e.targets) : s \in Streams /\ slots[s].state = "empty"
  BY <1>0, <1>3, NextNodeReady DEF GraphInv, SlotsFollowPlan
<1>6. /\ DOMAIN e.targets = 1 .. Len(e.targets)
      /\ e.start \in Nat /\ e.count \in Nat /\ IsInjective(e.targets)
      /\ InputEnd(e) = e.start + e.count
      /\ \A s \in ToSet(e.targets) : s >= InputEnd(e) /\ s \in Nat
  BY <1>0, <1>3, PlannedNode DEF InputEnd, Streams
<1>7. /\ Len(e.targets) \in Nat /\ OutCount(e) = Len(e.targets)
      /\ Moves(e) => e.count = 1 /\ Len(e.targets) = 1
      /\ e.id \in SplitN => Len(e.targets) = 1
  BY <1>0, <1>3, NodeShape
<1>8. \A s \in NodeInputs(e) : s \in Streams /\ s \notin ToSet(e.targets)
  <2>1. \A s \in NodeInputs(e) : s \in Streams
    BY <1>5 DEF InputsPresent
  <2>2. ASSUME NEW s \in NodeInputs(e), s \in ToSet(e.targets)
        PROVE  FALSE
    <3>1. s \in e.start .. InputEnd(e) - 1 /\ InputEnd(e) \in Nat
      BY <1>6 DEF NodeInputs
    <3>2. s >= InputEnd(e)
      BY <1>6, <2>2
    <3> QED
      BY <3>1, <3>2, <1>6
  <2> QED
    BY <2>1, <2>2
<1> HIDE DEF e
<1>9. CASE CodecFails
  <2>1. Fail("codec") /\ UNCHANGED next
    BY <1>9 DEF CodecFails
  <2> QED
    BY <2>1, <1>0, <1>1, FailInv
<1>10. CASE MoveNode(e)
  <2>1. /\ Moves(e) /\ next' = m /\ phase' = "run" /\ why' = why
        /\ slots' = [slots EXCEPT ![e.start] = Empty,
                                  ![e.targets[1]] = Moved(slots[e.start])]
    BY <1>10, <1>0 DEF MoveNode
  <2>2. ToSet(e.targets) = {e.targets[1]} /\ NodeInputs(e) = {e.start}
    BY <2>1, <1>6, <1>7 DEF ToSet, NodeInputs
  <2>3. /\ e.start \in Streams /\ slots[e.start].state # "empty"
        /\ e.targets[1] \in Streams /\ e.targets[1] # e.start
    BY <2>2, <1>5, <1>8 DEF InputsPresent
  <2>4. /\ DOMAIN slots' = Streams
        /\ slots'[e.start] = Empty
        /\ slots'[e.targets[1]] = Moved(slots[e.start])
        /\ \A s \in Streams : s # e.start /\ s # e.targets[1] => slots'[s] = slots[s]
    BY <2>1, <2>3, <1>5
  <2>5. slots'[e.start].state = "empty" /\ slots'[e.targets[1]].state # "empty"
    BY <2>3, <2>4 DEF Empty, Moved
  <2>6. /\ \A s \in ToSet(e.targets) : slots'[s].state # "empty"
        /\ \A s \in NodeInputs(e) : slots'[s].state = "empty"
        /\ \A s \in Streams : s \notin ToSet(e.targets) /\ s \notin NodeInputs(e)
             => slots'[s] = slots[s]
    BY <2>2, <2>4, <2>5
  <2> QED
    BY <2>1, <2>4, <2>6, <1>0, <1>1, <1>3, TableStep DEF e
<1>11. CASE DecodeNode(m)
  <2> DEFINE outs == Decode(m, BytesOf(Inputs(e)))
             new  == Returned(m, OutCount(e))
  <2>1. /\ ~Moves(e)
        /\ \/ /\ slots' = Placed(e, new) /\ next' = m /\ phase' = phase /\ why' = why
           \/ Fail("limit") /\ next' = next
    BY <1>11 DEF DecodeNode, e
  <2>2. CASE Fail("limit") /\ next' = next
    BY <2>2, <1>0, <1>1, FailInv
  <2>3. CASE slots' = Placed(e, new) /\ next' = m /\ phase' = phase /\ why' = why
    <3>1. DOMAIN outs = 1 .. Len(e.targets)
      <4>1. CASE e.id \in SplitN
        BY <4>1, <1>7 DEF Decode, Outputs, e
      <4>2. CASE e.id \notin SplitN
        BY <4>2, <1>7 DEF Decode, Outputs, e
      <4> QED
        BY <4>1, <4>2
    <3>2. \A k \in DOMAIN e.targets : new[k].state = "owned"
      <4>1. new = [k \in DOMAIN outs |-> Owned(outs[k], Strings(e, OutCount(e)))]
        BY DEF Returned, Decode, e
      <4> HIDE DEF new, outs
      <4> QED
        BY <4>1, <3>1, <1>6 DEF Owned
    <3> HIDE DEF new
    <3>3. /\ DOMAIN slots' = Streams
          /\ \A s \in Streams : slots'[s] =
               IF \E k \in DOMAIN e.targets : e.targets[k] = s
                 THEN new[CHOOSE k \in DOMAIN e.targets : e.targets[k] = s]
               ELSE IF s \in NodeInputs(e) THEN Empty ELSE slots[s]
      BY <2>3 DEF Placed
    <3>4. \A s : s \in ToSet(e.targets) <=> \E k \in DOMAIN e.targets : e.targets[k] = s
      BY DEF ToSet
    <3>5. ASSUME NEW s \in ToSet(e.targets) PROVE slots'[s].state # "empty"
      <4>1. s \in Streams /\ \E k \in DOMAIN e.targets : e.targets[k] = s
        BY <1>5, <3>4
      <4> DEFINE c == CHOOSE k \in DOMAIN e.targets : e.targets[k] = s
      <4>2. c \in DOMAIN e.targets
        BY <4>1
      <4>3. slots'[s] = new[c]
        BY <4>1, <3>3
      <4> HIDE DEF c
      <4> QED
        BY <4>2, <4>3, <3>2
    <3>6. ASSUME NEW s \in NodeInputs(e) PROVE slots'[s].state = "empty"
      <4>1. s \in Streams /\ s \notin ToSet(e.targets)
        BY <1>8
      <4>2. slots'[s] = Empty
        BY <4>1, <3>3, <3>4
      <4> QED
        BY <4>2 DEF Empty
    <3>7. \A s \in Streams : s \notin ToSet(e.targets) /\ s \notin NodeInputs(e)
            => slots'[s] = slots[s]
      BY <3>3, <3>4
    <3> QED
      BY <2>3, <3>3, <3>5, <3>6, <3>7, <1>0, <1>1, <1>3, TableStep DEF e
  <2> QED
    BY <2>1, <2>2, <2>3
<1>12. CASE MiscountNode(m)
  <2>1. Fail("count") /\ UNCHANGED next
    BY <1>12 DEF MiscountNode
  <2> QED
    BY <2>1, <1>0, <1>1, FailInv
<1> QED
  BY <1>4, <1>9, <1>10, <1>11, <1>12 DEF ExecuteNode, e

(* Taking the final streams preserves the invariant.                       *)
LEMMA FinishInv == GraphInv /\ Finish => GraphInv'
<1> SUFFICES ASSUME GraphInv, Finish PROVE GraphInv'
  OBVIOUS
<1> USE DEF chunk, validator, runtime
<1>0. /\ TypeOK /\ Counted /\ NoGraphFault /\ phase = "run" /\ next = Len(plan)
      /\ Len(ends) = Len(nodes) /\ Validated /\ Resolved /\ outputs <= Bound
  BY DEF GraphInv, Finish, InStep
<1>1. UNCHANGED <<nodes, stored, regen, outputs, append, ends, produced, plan,
                  slots, next, live, peak, dst>>
  BY DEF Finish
<1>2. /\ Len(plan) \in Nat /\ Bound \in Nat /\ outputs \in Nat
      /\ FirstFinal = Bound - outputs
  BY <1>0, TypeFacts DEF FirstFinal
<1>3. InputStart(next + 1) \in Nat /\ InputStart(next + 1) <= FirstFinal
  <2>1. CASE next = 0
    <3>1. InputStart(next + 1) = 0
      BY <2>1 DEF InputStart
    <3> QED
      BY <3>1, <1>0, <1>2
  <2>2. CASE next # 0
    <3>1. next \in 1 .. Len(plan) /\ next \in 1 .. Len(ends)
      BY <2>2, <1>0, <1>2, ResolvedPlan
    <3>2. InputStart(next + 1) = ends[next]
      BY <3>1, <1>0, <1>2 DEF InputStart
    <3>3. ends[next] \in Nat
      BY <3>1, <1>0, PlannedNode
    <3>4. ends[next] <= FirstFinal
      BY <3>1, <1>0 DEF Validated
    <3> QED
      BY <3>2, <3>3, <3>4
  <2> QED
    BY <2>1, <2>2
<1>4. ASSUME NEW s \in Finals PROVE slots[s].state # "empty"
  <2>1. s \in Streams /\ s \in Nat /\ s >= FirstFinal
    BY <1>0, <1>2 DEF Finals, Final, Streams
  <2>2. ~(s < InputStart(next + 1))
    BY <2>1, <1>2, <1>3
  <2>3. ~ \E j \in next + 1 .. Len(plan) : s \in ToSet(TargetsOf(j))
    BY <1>0, <1>2
  <2> QED
    BY <2>1, <2>2, <2>3, <1>0, EmptySlots
<1>5. phase' = "done" /\ why' = why
  BY <1>4 DEF Finish
<1>6. TypeOK'
  <2>1. plan' \in Seq(PlanNodes) /\ produced' \subseteq Streams /\ ends' \in Seq(Nat)
    BY <1>0, <1>1 DEF TypeOK
  <2>2. Len(plan') <= Len(nodes) /\ next' \in 0 .. Len(plan') /\ Len(ends') <= Len(nodes)
    BY <1>0, <1>1 DEF TypeOK
  <2> QED
    BY <1>0, <1>1, <1>5, <2>1, <2>2, TypeStep
<1> QED
  BY <1>0, <1>1, <1>5, <1>6, CountedStep DEF GraphInv, NoGraphFault, InStep

(* Running a direct-append tail preserves the invariant.                   *)
LEMMA AppendTailInv == GraphInv /\ AppendTail => GraphInv'
<1> SUFFICES ASSUME GraphInv, AppendTail PROVE GraphInv'
  OBVIOUS
<1> USE DEF chunk, validator, runtime
<1> PICK m : m = TailStart
  OBVIOUS
<1>0. /\ TypeOK /\ Counted /\ NoGraphFault /\ phase = "run"
      /\ next = m - 1 /\ m # 0 /\ Len(plan) = Len(nodes)
      /\ Len(ends) = Len(nodes) /\ Validated /\ Resolved
  BY DEF GraphInv, AppendTail, InStep, Appending
<1>1. UNCHANGED <<nodes, stored, regen, outputs, append, ends, produced, plan,
                  next, live, peak>>
  BY DEF AppendTail
<1>2. /\ Len(plan) \in Nat /\ next \in Nat /\ Bound \in Nat
      /\ DOMAIN plan = 1 .. Len(plan)
  BY <1>0, TypeFacts, ResolvedPlan
<1>3. m \in 1 .. Len(plan) /\ m = next + 1
  BY <1>0, <1>2, TailInPlan
<1>4. InputsPresent(plan[m])
  BY <1>0, <1>3, NextNodeReady
<1>5. ASSUME NEW s \in TailInputs(m) PROVE s \in Streams /\ slots[s].state # "empty"
  <2>1. CASE s \in NodeInputs(plan[m])
    BY <2>1, <1>4 DEF InputsPresent
  <2>2. CASE /\ plan[m].id = "split_by_struct"
             /\ s \in NodeInputs(plan[m + 1]) \ {plan[m].targets[1]}
    <3>1. m \in SplitByStructTail
      <4>1. \A id \in {"field_lz", "zstd", "lz"} : m \notin ConversionChainTail(id)
        BY <2>2 DEF ConversionChainTail
      <4>2. m \notin DispatchStringTail
        BY <2>2 DEF DispatchStringTail
      <4> QED
        BY <4>1, <4>2, <1>0, TailMember
    <3>2. m + 1 = Len(plan) /\ Len(plan[m].targets) = 1
      BY <3>1 DEF SplitByStructTail
    <3>3. m + 1 \in 1 .. Len(plan)
      BY <1>3, <3>2
    <3>4. /\ plan[m + 1].start = InputStart(m + 1) /\ plan[m + 1].start \in Nat
          /\ InputEnd(plan[m + 1]) = ends[m + 1] /\ ends[m + 1] \in Nat
          /\ ends[m + 1] < Bound
          /\ \A j \in m + 1 .. Len(plan) : \A x \in ToSet(TargetsOf(j)) : x >= ends[m + 1]
      BY <3>3, <1>0, PlannedNode
    <3>5. /\ plan[m].start = InputStart(m) /\ plan[m].start \in Nat
          /\ plan[m].count \in Nat /\ ends[m] = plan[m].start + plan[m].count
          /\ plan[m].targets = TargetsOf(m)
          /\ DOMAIN plan[m].targets = 1 .. Len(plan[m].targets)
      BY <1>0, <1>3, PlannedNode
    <3>6. InputStart(m + 1) = ends[m]
      BY <1>3, <1>2 DEF InputStart
    <3>7. s \in Nat /\ s >= ends[m] /\ s < ends[m + 1]
      BY <2>2, <3>4, <3>6 DEF NodeInputs
    <3>8. s \in Streams /\ ~(s < InputStart(next + 1))
      BY <3>7, <3>4, <3>5, <1>2, <1>3 DEF Streams
    <3>9. ToSet(TargetsOf(m)) = {plan[m].targets[1]}
      <4>0. 1 .. 1 = {1}
        OBVIOUS
      <4>1. DOMAIN plan[m].targets = {1}
        BY <3>2, <3>5, <4>0, Zenon
      <4>2. ToSet(plan[m].targets) = {plan[m].targets[1]}
        BY <4>1 DEF ToSet
      <4> QED
        BY <4>2, <3>5
    <3>10. \A j \in next + 1 .. Len(plan) : s \notin ToSet(TargetsOf(j))
      <4>1. \A j \in next + 1 .. Len(plan) : j = m \/ j \in m + 1 .. Len(plan)
        BY <1>2, <1>3
      <4>2. \A j \in m + 1 .. Len(plan) : s \notin ToSet(TargetsOf(j))
        BY <3>4, <3>7
      <4> QED
        BY <4>1, <4>2, <3>9, <2>2
    <3> QED
      BY <3>8, <3>10, <1>0, EmptySlots
  <2> QED
    BY <2>1, <2>2 DEF TailInputs
<1>6. CASE Fail("codec")
  BY <1>0, <1>1, <1>6, FailInv
<1>7. CASE phase' = "done" /\ why' = why
  <2>1. plan' \in Seq(PlanNodes) /\ produced' \subseteq Streams /\ ends' \in Seq(Nat)
    BY <1>0, <1>1 DEF TypeOK
  <2>2. Len(plan') <= Len(nodes) /\ next' \in 0 .. Len(plan') /\ Len(ends') <= Len(nodes)
    BY <1>0, <1>1 DEF TypeOK
  <2>3. TypeOK'
    BY <1>0, <1>1, <1>7, <2>1, <2>2, TypeStep
  <2> QED
    BY <1>0, <1>1, <1>7, <2>3, CountedStep DEF GraphInv, NoGraphFault, InStep
<1> QED
  BY <1>5, <1>6, <1>7 DEF AppendTail

-----------------------------------------------------------------------------
(* The inductive invariant and what follows from it.                       *)

(* A step that changes nothing preserves the invariant.                    *)
LEMMA StutterInv == GraphInv /\ UNCHANGED vars => GraphInv'
<1> SUFFICES ASSUME GraphInv, UNCHANGED vars PROVE GraphInv'
  OBVIOUS
<1> USE DEF vars
<1>1. TypeOK'
  BY DEF GraphInv, TypeOK, Streams, Bound
<1>2. Counted'
  BY DEF GraphInv, Counted, RegenBefore, RegenTargets
<1>3. InStep' /\ NoGraphFault'
  BY DEF GraphInv, InStep, NoGraphFault, Bound, TargetsOf
<1>4. (Validated' <=> Validated) /\ (Resolved' <=> Resolved)
  BY KeepsGraph
<1>5. SlotsFollowPlan => SlotsFollowPlan'
  BY DEF SlotsFollowPlan, Streams, Bound, TargetsOf
<1> QED
  BY <1>1, <1>2, <1>3, <1>4, <1>5 DEF GraphInv

(* GraphInv is an invariant of every chunk decode.                         *)
THEOREM GraphInvariant == Spec => []GraphInv
<1>1. GraphInv /\ [Next]_vars => GraphInv'
  BY ParseNodeInv, BeginValidateInv, ValidateSingleInv, ValidateNodeInv,
     EndValidateInv, BuildNodeInv, InitSlotsInv, ExecuteNodeInv, FinishInv,
     AppendTailInv, StutterInv
     DEF Next
<1> QED
  BY <1>1, InitInv, PTL DEF Spec

(* Every variable of a chunk decode keeps its type, whatever node plans    *)
(* the parser accepts: validate.rs, plan.rs and chunk.rs keep the tables   *)
(* they walk in step.                                                      *)
THEOREM TypeCorrect == Spec => []TypeOK
<1>1. GraphInv => TypeOK
  BY DEF GraphInv
<1> QED
  BY <1>1, GraphInvariant, PTL

(* A graph validate.rs accepts never makes plan.rs, slots.rs or chunk.rs   *)
(* report InvalidGraph: inputs are there when a node runs, outputs never   *)
(* land on a stream, no stored stream is left over and no final is missing.*)
THEOREM GraphIsSound == Spec => []NoGraphFault
<1>1. GraphInv => NoGraphFault
  BY DEF GraphInv
<1> QED
  BY <1>1, GraphInvariant, PTL

-----------------------------------------------------------------------------
(* The one-node shortcut.                                                  *)

(* A list of distinct streams has as many of them in a set as it has       *)
(* places that name one.                                                   *)
LEMMA PlacesCount ==
  ASSUME NEW t \in Seq(Nat), IsInjective(t), NEW A,
         NEW K, K = {k \in DOMAIN t : t[k] \in A}
  PROVE  /\ IsFiniteSet(A \cap ToSet(t))
         /\ Cardinality(K) = Cardinality(A \cap ToSet(t))
<1> DEFINE f == [k \in K |-> t[k]]
           R == A \cap ToSet(t)
<1>1. f \in Bijection(K, R)
  BY DEF Bijection, Injection, Surjection, ToSet, IsInjective
<1>2. ExistsBijection(K, R)
  BY <1>1 DEF ExistsBijection
<1>3. IsFiniteSet(K)
  <2> DEFINE m == Len(t)
  <2>1. m \in Nat /\ K \in SUBSET (1 .. m)
    OBVIOUS
  <2> HIDE DEF m
  <2>2. IsFiniteSet(1 .. m)
    BY <2>1, FS_Interval
  <2> QED
    BY <2>1, <2>2, FS_Subset
<1> QED
  BY <1>2, <1>3, FS_Bijection

(* The one-node shortcut of the validator agrees with the general walk, in *)
(* every state of the invariant.                                           *)
LEMMA SingleNodeAgrees == GraphInv => SingleNodeShortcutAgrees
<1> DEFINE n == nodes[1].node
           c == InputCount(n)
           t == Targets(n, c)
           K == {k \in DOMAIN t : t[k] >= FirstFinal}
<1> SUFFICES ASSUME GraphInv, phase = "validate", Len(nodes) = 1
             PROVE  SingleNodeFits(n) <=>
                      /\ NodeFits(n, 0, {}) /\ 1 <= MaxGraphDepth
                      /\ FinalsCovered(ToSet(t))
  BY DEF SingleNodeShortcutAgrees
<1>1. /\ TypeOK /\ outputs <= Bound /\ Bound \in Nat /\ outputs \in Nat
      /\ stored \in Nat /\ FirstFinal = Bound - outputs
  BY TypeFacts DEF GraphInv, InStep, FirstFinal
<1>2. n \in NodePlan /\ c \in Nat
  BY <1>1, ParsedNode, NodeType
<1>3. 0 + c = c
  BY <1>2
<1> HIDE DEF n, c
<1>4. /\ t \in Seq(Nat) /\ DOMAIN t = DOMAIN n.dists
      /\ \A k \in DOMAIN n.dists : t[k] = c + n.dists[k] /\ n.dists[k] \in Nat
  <2>1. n.dists \in Seq(Nat)
    BY <1>2, NodeType
  <2>2. t \in Seq(Nat)
    BY <1>2, TargetsType
  <2>3. t = [k \in DOMAIN n.dists |-> c + n.dists[k]]
    BY DEF Targets
  <2> QED
    BY <2>1, <2>2, <2>3
<1> HIDE DEF t
<1>5. IsInjective(t) <=> IsInjective(n.dists)
  <2>1. \A j, k \in DOMAIN n.dists : t[j] = t[k] <=> n.dists[j] = n.dists[k]
    BY <1>2, <1>4
  <2> QED
    BY <1>4, <2>1 DEF IsInjective
<1>6. NodeFits(n, 0, {}) <=>
        /\ KnownNode(n) /\ InputsAllowed(n) /\ c <= FirstFinal
        /\ OutputsAllowed(n)
        /\ \A k \in DOMAIN t : t[k] < Bound
        /\ IsInjective(n.dists)
  BY <1>3, <1>5 DEF NodeFits, TargetsFree, c, t
<1>7. ASSUME IsInjective(t), \A k \in DOMAIN t : t[k] < Bound
      PROVE  outputs - Cardinality(K) <= stored <=> FinalsCovered(ToSet(t))
  <2>1. K = {k \in DOMAIN t : t[k] \in Finals}
    <3>1. \A k \in DOMAIN t : t[k] \in Nat
      BY <1>4
    <3> QED
      BY <1>1, <1>7, <3>1 DEF Finals, Final
  <2>2. Cardinality(K) = Cardinality(Finals \cap ToSet(t))
    BY <1>4, <1>7, <2>1, PlacesCount
  <2>3. IsFiniteSet(Finals) /\ Cardinality(Finals) = outputs
    <3>1. /\ IsFiniteSet(FirstFinal .. Final)
          /\ Cardinality(FirstFinal .. Final) =
               IF FirstFinal > Final THEN 0 ELSE Final - FirstFinal + 1
      BY <1>1, FS_Interval DEF Final
    <3> QED
      BY <1>1, <3>1 DEF Finals, Final
  <2>4. Cardinality(Finals \ ToSet(t)) =
          Cardinality(Finals) - Cardinality(Finals \cap ToSet(t))
    BY <2>3, FS_Difference
  <2>5. Cardinality(K) \in Nat
    BY <2>2, <2>3, FS_Intersection, FS_CardinalityType
  <2> QED
    BY <1>1, <2>2, <2>3, <2>4, <2>5 DEF FinalsCovered
<1>8. SingleNodeFits(n) <=>
        /\ KnownNode(n) /\ InputsAllowed(n) /\ c <= FirstFinal
        /\ 1 <= MaxGraphDepth /\ OutputsAllowed(n)
        /\ \A k \in DOMAIN t : t[k] < Bound
        /\ IsInjective(n.dists)
        /\ outputs - Cardinality(K) <= stored
  BY DEF SingleNodeFits, c, t
<1> HIDE DEF K
<1> QED
  BY <1>5, <1>6, <1>7, <1>8

(* The one-node shortcut of validate.rs accepts exactly the chunks the     *)
(* general walk over the same node accepts.                                *)
THEOREM SingleNodeShortcutSound == Spec => []SingleNodeShortcutAgrees
  BY SingleNodeAgrees, GraphInvariant, PTL

-----------------------------------------------------------------------------
(* The value of a graph.                                                   *)

(* The graph's state once the validator and the plan agree.                *)
Planned == TypeOK /\ Validated /\ Resolved /\ Len(ends) = Len(nodes)

(* Every regenerated stream has one producer and one place in its targets. *)
LEMMA OneProducer ==
  ASSUME Planned, NEW m \in 1 .. Len(plan),
         NEW k \in 1 .. Len(plan[m].targets)
  PROVE  LET s == plan[m].targets[k]
         IN  /\ s \in RegenTargets /\ s \in Streams
             /\ (CHOOSE j \in DOMAIN plan : s \in ToSet(plan[j].targets)) = m
             /\ (CHOOSE x \in DOMAIN plan[m].targets : plan[m].targets[x] = s) = k
<1> DEFINE s == plan[m].targets[k]
<1>1. /\ DOMAIN plan = 1 .. Len(plan) /\ Len(plan) \in Nat
      /\ DOMAIN plan[m].targets = 1 .. Len(plan[m].targets)
      /\ IsInjective(plan[m].targets)
      /\ ToSet(plan[m].targets) \subseteq Streams
  BY ResolvedPlan, PlannedNode DEF Planned
<1>2. s \in ToSet(plan[m].targets)
  BY <1>1 DEF ToSet
<1>3. ASSUME NEW j \in DOMAIN plan, s \in ToSet(plan[j].targets) PROVE j = m
  <2> SUFFICES ASSUME j # m PROVE FALSE
    OBVIOUS
  <2>1. j \in 1 .. Len(ends) /\ m \in 1 .. Len(ends)
        /\ plan[j].targets = TargetsOf(j) /\ plan[m].targets = TargetsOf(m)
    BY <1>1, ResolvedPlan DEF Planned
  <2>2. j < m \/ m < j
    BY <1>1
  <2>3. ToSet(TargetsOf(j)) \cap ToSet(TargetsOf(m)) = {}
    BY <2>1, <2>2 DEF Planned, Validated
  <2> QED
    BY <1>2, <1>3, <2>1, <2>3
<1>4. s \in RegenTargets /\ s \in Streams
  BY <1>1, <1>2 DEF RegenTargets
<1>5. (CHOOSE j \in DOMAIN plan : s \in ToSet(plan[j].targets)) = m
  BY <1>1, <1>2, <1>3
<1>6. \A x \in DOMAIN plan[m].targets : plan[m].targets[x] = s => x = k
  BY <1>1 DEF IsInjective
<1>7. (CHOOSE x \in DOMAIN plan[m].targets : plan[m].targets[x] = s) = k
  BY <1>1, <1>6
<1> QED
  BY <1>4, <1>5, <1>7

(* What GraphValue says of one stream, given the values of the others.     *)
NodeValue(v, i, k) ==
  LET e == plan[i]
  IN  IF e.id \in Conversions THEN v[e.start]
      ELSE Decode(i, [x \in 1 .. e.count |-> v[InputEnd(e) - x]])[k]
ValueAt(v, s) ==
  IF s \notin RegenTargets THEN <<StoredByte(StoredIndex(s))>>
  ELSE LET i == CHOOSE j \in DOMAIN plan : s \in ToSet(plan[j].targets)
       IN  NodeValue(v, i, CHOOSE x \in DOMAIN plan[i].targets : plan[i].targets[x] = s)

ValuesTo(v, n) == v = [s \in 0 .. n - 1 |-> ValueAt(v, s)]

(* The value at a target is the value of the node that writes it.          *)
LEMMA ValueAtTarget ==
  ASSUME Planned, NEW m \in 1 .. Len(plan),
         NEW k \in 1 .. Len(plan[m].targets), NEW v
  PROVE  ValueAt(v, plan[m].targets[k]) = NodeValue(v, m, k)
<1>1. PICK s : s = plan[m].targets[k]
  OBVIOUS
<1>2. /\ s \in RegenTargets
      /\ (CHOOSE j \in DOMAIN plan : s \in ToSet(plan[j].targets)) = m
      /\ (CHOOSE x \in DOMAIN plan[m].targets : plan[m].targets[x] = s) = k
  BY <1>1, OneProducer
<1>3. ValueAt(v, s) = NodeValue(v, m, k)
  BY <1>2 DEF ValueAt
<1> QED
  BY <1>1, <1>3

(* A node's inputs lie below its targets.                                  *)
LEMMA InputsBelow ==
  ASSUME Planned, NEW m \in 1 .. Len(plan),
         NEW s \in ToSet(plan[m].targets)
  PROVE  /\ \A x \in 1 .. plan[m].count :
              InputEnd(plan[m]) - x \in 0 .. s - 1
         /\ plan[m].id \in Conversions => plan[m].start \in 0 .. s - 1
<1>1. /\ plan[m].start \in Nat /\ plan[m].count \in Nat
      /\ InputEnd(plan[m]) = plan[m].start + plan[m].count
      /\ s >= InputEnd(plan[m]) /\ s \in Nat
  BY PlannedNode DEF Planned, InputEnd, Streams
<1>2. plan[m].id \in Conversions => plan[m].count = 1
  BY NodeShape DEF Planned, Moves
<1> QED
  BY <1>1, <1>2

(* So a value only depends on the values below it.                         *)
LEMMA ValueReadsBelow ==
  ASSUME Planned, NEW s \in Streams, NEW v, NEW w,
         \A r \in 0 .. s - 1 : v[r] = w[r]
  PROVE  ValueAt(v, s) = ValueAt(w, s)
<1>1. CASE s \notin RegenTargets
  BY <1>1 DEF ValueAt
<1>2. CASE s \in RegenTargets
  <2>1. PICK m \in DOMAIN plan : s \in ToSet(plan[m].targets)
    BY <1>2 DEF RegenTargets
  <2>2. m \in 1 .. Len(plan) /\ DOMAIN plan[m].targets = 1 .. Len(plan[m].targets)
    BY <2>1, ResolvedPlan, PlannedNode DEF Planned
  <2>3. PICK k \in 1 .. Len(plan[m].targets) : plan[m].targets[k] = s
    BY <2>1, <2>2 DEF ToSet
  <2>4. \A x \in 1 .. plan[m].count :
          v[InputEnd(plan[m]) - x] = w[InputEnd(plan[m]) - x]
    BY <2>1, <2>2, InputsBelow
  <2>5. [x \in 1 .. plan[m].count |-> v[InputEnd(plan[m]) - x]] =
        [x \in 1 .. plan[m].count |-> w[InputEnd(plan[m]) - x]]
    BY <2>4
  <2>6. plan[m].id \in Conversions => v[plan[m].start] = w[plan[m].start]
    BY <2>1, <2>2, InputsBelow
  <2> DEFINE a == [x \in 1 .. plan[m].count |-> v[InputEnd(plan[m]) - x]]
             b == [x \in 1 .. plan[m].count |-> w[InputEnd(plan[m]) - x]]
  <2>7. /\ ValueAt(v, s) = IF plan[m].id \in Conversions THEN v[plan[m].start]
                           ELSE Decode(m, a)[k]
        /\ ValueAt(w, s) = IF plan[m].id \in Conversions THEN w[plan[m].start]
                           ELSE Decode(m, b)[k]
    BY <2>2, <2>3, ValueAtTarget DEF NodeValue
  <2>8. a = b
    BY <2>5
  <2> HIDE DEF a, b
  <2> QED
    BY <2>6, <2>7, <2>8
<1> QED
  BY <1>1, <1>2

(* There is a function of values that the definition chooses.              *)
LEMMA ValuesExist ==
  ASSUME Planned PROVE \E v : ValuesTo(v, Bound)
<1> DEFINE S == {k \in Nat : \E v : ValuesTo(v, k)}
<1>1. Bound \in Nat
  BY TypeFacts DEF Planned
<1>2. 0 \in S
  <2> DEFINE v == [s \in 0 .. 0 - 1 |-> 0]
  <2>1. 0 .. 0 - 1 = {}
    OBVIOUS
  <2>2. v = [s \in 0 .. 0 - 1 |-> ValueAt(v, s)]
    BY <2>1
  <2> QED
    BY <2>2 DEF ValuesTo
<1>3. ASSUME NEW k \in Nat, k < Bound, k \in S PROVE k + 1 \in S
  <2>1. PICK v : ValuesTo(v, k)
    BY <1>3
  <2> DEFINE w == [s \in 0 .. (k + 1) - 1 |-> IF s = k THEN ValueAt(v, k) ELSE v[s]]
  <2>2. \A s \in 0 .. (k + 1) - 1 : s = k \/ s \in 0 .. k - 1
    BY <1>3
  <2>3. \A s \in 0 .. k - 1 : w[s] = v[s] /\ v[s] = ValueAt(v, s)
    BY SMTT(30), <1>3, <2>1 DEF ValuesTo
  <2>4. w[k] = ValueAt(v, k)
    BY <1>3
  <2>5. w = [s \in 0 .. (k + 1) - 1 |-> w[s]]
    OBVIOUS
  <2> HIDE DEF w
  <2>6. ASSUME NEW s \in 0 .. (k + 1) - 1 PROVE w[s] = ValueAt(w, s)
    <3>1. s \in Streams
      BY <1>1, <1>3, <2>2 DEF Streams
    <3>2. \A r \in 0 .. s - 1 : r \in 0 .. k - 1
      BY <1>3, <2>2
    <3>3. \A r \in 0 .. s - 1 : v[r] = w[r]
      BY <2>3, <3>2
    <3>4. ValueAt(v, s) = ValueAt(w, s)
      BY <3>1, <3>3, ValueReadsBelow
    <3> QED
      BY <2>2, <2>3, <2>4, <3>4
  <2>7. w = [s \in 0 .. (k + 1) - 1 |-> ValueAt(w, s)]
    BY <2>5, <2>6
  <2>8. ValuesTo(w, k + 1)
    BY <2>7 DEF ValuesTo
  <2> QED
    BY <1>3, <2>8
<1> HIDE DEF S
<1>4. Bound \in S
  <2> DEFINE n == Bound
  <2>1. n \in Nat /\ n <= n /\ \A k \in Nat : k < n /\ k \in S => k + 1 \in S
    BY <1>1, <1>3
  <2> HIDE DEF n
  <2>2. n \in S
    BY <1>2, <2>1, BoundedInduction
  <2> QED
    BY <2>2 DEF n
<1> QED
  BY <1>4 DEF S

(* GraphValue satisfies its defining equation.                             *)
LEMMA GraphValueSolves ==
  ASSUME Planned PROVE GraphValue = [s \in Streams |-> ValueAt(GraphValue, s)]
<1>1. PICK v : v = [s \in Streams |-> ValueAt(v, s)]
  BY ValuesExist DEF ValuesTo, Streams
<1>2. GraphValue = CHOOSE value : value = [s \in Streams |-> ValueAt(value, s)]
  BY DEF GraphValue, ValueAt, NodeValue
<1> QED
  BY <1>1, <1>2

(* The graph's values: stored streams, and what each node makes of its     *)
(* inputs' values.                                                         *)
LEMMA GraphValues ==
  ASSUME Planned
  PROVE  /\ \A s \in Streams \ RegenTargets :
              GraphValue[s] = <<StoredByte(StoredIndex(s))>>
         /\ \A m \in 1 .. Len(plan) : \A k \in 1 .. Len(plan[m].targets) :
              GraphValue[plan[m].targets[k]] =
                IF plan[m].id \in Conversions THEN GraphValue[plan[m].start]
                ELSE Decode(m, [x \in 1 .. plan[m].count |->
                                  GraphValue[InputEnd(plan[m]) - x]])[k]
<1> DEFINE V == GraphValue
<1>1. \A s \in Streams : V[s] = ValueAt(V, s)
  BY GraphValueSolves
<1> HIDE DEF V
<1>2. \A s \in Streams \ RegenTargets : V[s] = <<StoredByte(StoredIndex(s))>>
  BY <1>1 DEF ValueAt
<1>3. ASSUME NEW m \in 1 .. Len(plan), NEW k \in 1 .. Len(plan[m].targets)
      PROVE  V[plan[m].targets[k]] =
                IF plan[m].id \in Conversions THEN V[plan[m].start]
                ELSE Decode(m, [x \in 1 .. plan[m].count |->
                                  V[InputEnd(plan[m]) - x]])[k]
  <2>1. plan[m].targets[k] \in Streams
    BY OneProducer
  <2>2. V[plan[m].targets[k]] = NodeValue(V, m, k)
    BY <1>1, <2>1, ValueAtTarget
  <2> QED
    BY <2>2 DEF NodeValue
<1> QED
  BY <1>2, <1>3 DEF V

(* A step that leaves the plan and the streams alone keeps the graph's     *)
(* values and its tail.                                                    *)
LEMMA GraphKept ==
  ASSUME UNCHANGED <<plan, stored, regen>>
  PROVE  GraphValue' = GraphValue /\ RegenTargets' = RegenTargets /\ Streams' = Streams
<1>1. RegenTargets' = RegenTargets
  BY DEF RegenTargets
<1>2. Streams' = Streams
  BY DEF Streams, Bound
<1>3. GraphValue' = GraphValue
  BY <1>1, <1>2 DEF GraphValue, Decode, Outputs, OutCount, StoredIndex
<1> QED
  BY <1>1, <1>2, <1>3

Tails ==
  <<ConversionChainTail("field_lz"), ConversionChainTail("zstd"),
    DispatchStringTail, SplitByStructTail, ConversionChainTail("lz")>>
TailOf(tails) ==
  LET found == {k \in 1 .. 5 : tails[k] # {} /\ \A m \in 1 .. k - 1 : tails[m] = {}}
  IN  IF found = {} THEN 0 ELSE CHOOSE i \in UNION {tails[k] : k \in found} : TRUE

(* What decides whether the last stream is appended.                       *)
LEMMA TailKept ==
  ASSUME UNCHANGED <<plan, stored, regen, append>>
  PROVE  Appending' <=> Appending
<1>1. Final' = Final
  BY DEF Final, Bound
<1>2. \A id : ConversionChainTail(id)' = ConversionChainTail(id)
  BY <1>1 DEF ConversionChainTail, ChainedToFinal
<1>3. DispatchStringTail' = DispatchStringTail
  BY <1>1 DEF DispatchStringTail
<1>4. SplitByStructTail' = SplitByStructTail
  BY <1>1 DEF SplitByStructTail, NodeInputs, InputEnd
<1>5. TailStart' = TailStart
  <2>1. /\ ConversionChainTail("field_lz")' = ConversionChainTail("field_lz")
        /\ ConversionChainTail("zstd")' = ConversionChainTail("zstd")
        /\ ConversionChainTail("lz")' = ConversionChainTail("lz")
    BY <1>2
  <2>2. TailStart = TailOf(Tails)
    BY DEF TailStart, TailOf, Tails
  <2>3. TailStart' = TailOf(Tails')
    BY DEF TailStart, TailOf, Tails
  <2>4. Tails' = Tails
    BY <1>3, <1>4, <2>1 DEF Tails
  <2> QED
    BY <2>2, <2>3, <2>4
<1> QED
  BY <1>5 DEF Appending

(* A slot table whose streams are the graph's values there.                *)
Holds == \A s \in Streams : slots[s].state # "empty" => slots[s].bytes = GraphValue[s]

(* A plan that is being run is a sound one.                                *)
LEMMA PlannedInRun ==
  ASSUME GraphInv, phase \in {"build", "run"}
  PROVE  Planned /\ DOMAIN plan = 1 .. Len(plan)
<1>1. Planned
  BY DEF GraphInv, InStep, Planned
<1> QED
  BY <1>1, ResolvedPlan DEF Planned

(* The stored streams enter the table as their own values.                 *)
LEMMA InitSlotsValues ==
  GraphInv /\ InitSlots => FinalStreamsAreGraphValues'
<1> SUFFICES ASSUME GraphInv, InitSlots, phase' = "run"
             PROVE  Holds'
  BY DEF FinalStreamsAreGraphValues, InitSlots, Fail, Holds
<1>1. Planned
  BY PlannedInRun DEF InitSlots
<1>2. UNCHANGED <<plan, stored, regen>>
  BY DEF InitSlots, chunk
<1>3. slots' = [s \in Streams |->
                  IF s \in RegenTargets THEN Empty
                  ELSE [state |-> "borrowed", lens |-> 0,
                        bytes |-> <<StoredByte(StoredIndex(s))>>]]
  BY DEF InitSlots, Fail
<1>4. ASSUME NEW s \in Streams, slots'[s].state # "empty"
      PROVE  slots'[s].bytes = GraphValue[s]
  <2>1. s \notin RegenTargets
    BY <1>3, <1>4 DEF Empty
  <2>2. slots'[s].bytes = <<StoredByte(StoredIndex(s))>>
    BY <1>3, <2>1
  <2> QED
    BY <1>1, <2>1, <2>2, GraphValues
<1> QED
  BY <1>2, <1>4, GraphKept DEF Holds

(* The inputs a codec is given are the values of its node's inputs.        *)
LEMMA InputValues ==
  ASSUME GraphInv, phase = "run", Holds, NEW m \in 1 .. Len(plan), m = next + 1
  PROVE  BytesOf(Inputs(plan[m])) =
           [x \in 1 .. plan[m].count |-> GraphValue[InputEnd(plan[m]) - x]]
<1> DEFINE e == plan[m]
<1>1. /\ e.start \in Nat /\ e.count \in Nat /\ InputEnd(e) = e.start + e.count
  BY PlannedInRun, PlannedNode DEF Planned, InputEnd
<1>2. InputsPresent(e)
  BY NextNodeReady
<1> HIDE DEF e
<1>3. ASSUME NEW x \in 1 .. e.count
      PROVE  slots[InputEnd(e) - x].bytes = GraphValue[InputEnd(e) - x]
  <2>1. InputEnd(e) - x \in NodeInputs(e)
    BY <1>1 DEF NodeInputs
  <2> QED
    BY <1>2, <2>1 DEF InputsPresent, Holds
<1>4. BytesOf(Inputs(e)) = [x \in 1 .. e.count |-> slots[InputEnd(e) - x].bytes]
  BY DEF BytesOf, Inputs
<1> QED
  BY <1>3, <1>4 DEF e

(* One sequence flattens to itself.                                        *)
LEMMA FlattenOne == ASSUME NEW x PROVE FlattenSeq(<<x>>) = x
<1> DEFINE s == <<x>>
<1>1. Len(s) = 1 /\ s[1] = x
  OBVIOUS
<1> HIDE DEF s
<1>2. PICK g : Flattens(g, s, 1) /\ FlattenSeq(s) = g[1]
  <2>1. Len(s) \in Nat /\ Len(s) # 0
    BY <1>1
  <2>2. \E g : Flattens(g, s, Len(s)) /\ FlattenSeq(s) = g[Len(s)]
    BY <2>1, FlattenUnfolds
  <2> QED
    BY <1>1, <2>2
<1>3. 1 \in 1 .. 1
  OBVIOUS
<1>4. g[1] = s[1]
  BY <1>2, <1>3 DEF Flattens
<1> QED
  BY <1>1, <1>2, <1>4 DEF s

(* A node whose stream is moved has its input's value.                     *)
LEMMA MovedValue ==
  ASSUME Planned, NEW m \in 1 .. Len(plan), Moves(plan[m])
  PROVE  GraphValue[plan[m].targets[1]] = GraphValue[plan[m].start]
<1> DEFINE e == plan[m]
<1>1. e.count = 1 /\ Len(e.targets) = 1 /\ e.start \in Nat
      /\ InputEnd(e) = e.start + 1
  BY NodeShape, PlannedNode DEF Planned, InputEnd
<1>2. 1 \in 1 .. Len(e.targets)
  BY <1>1
<1> DEFINE ins == [x \in 1 .. e.count |-> GraphValue[InputEnd(e) - x]]
<1>3. GraphValue[e.targets[1]] =
        IF e.id \in Conversions THEN GraphValue[e.start] ELSE Decode(m, ins)[1]
  BY <1>2, GraphValues
<1>4. CASE e.id \in Conversions
  BY <1>3, <1>4
<1>5. CASE e.id \notin Conversions
  <2>1. e.id \in SplitN
    BY <1>5 DEF Moves
  <2>2. InputEnd(e) - 1 = e.start
    BY <1>1
  <2>3. ins = <<GraphValue[e.start]>>
    BY <1>1, <2>2
  <2>4. Decode(m, ins)[1] = FlattenSeq(ins)
    BY <2>1 DEF Decode, Outputs
  <2> QED
    BY <1>3, <1>5, <2>3, <2>4, FlattenOne
<1> QED
  BY <1>4, <1>5

(* A node that runs leaves its values at its targets.                      *)
LEMMA MoveNodeValues ==
  ASSUME GraphInv, phase = "run", Holds, NEW m \in 1 .. Len(plan), m = next + 1,
         MoveNode(plan[m]), UNCHANGED <<plan, stored, regen>>
  PROVE  Holds'
<1> DEFINE e == plan[m]
           V == GraphValue
<1>1. Planned /\ DOMAIN slots = Streams
  BY PlannedInRun DEF GraphInv, SlotsFollowPlan
<1>2. /\ Moves(e)
      /\ slots' = [slots EXCEPT ![e.start] = Empty,
                                ![e.targets[1]] = Moved(slots[e.start])]
  BY DEF MoveNode
<1>3. /\ e.count = 1 /\ e.start \in Nat /\ InputEnd(e) = e.start + 1
  BY <1>1, <1>2, NodeShape, PlannedNode DEF Planned, InputEnd
<1>4. e.start \in Streams /\ slots[e.start].state # "empty"
  <2>1. e.start \in NodeInputs(e)
    BY <1>3 DEF NodeInputs
  <2> QED
    BY <2>1, NextNodeReady DEF InputsPresent
<1>5. V[e.targets[1]] = V[e.start]
  BY <1>1, <1>2, MovedValue
<1>6. slots[e.start].bytes = V[e.start]
  BY <1>4 DEF Holds
<1>7. V' = V /\ Streams' = Streams
  BY GraphKept
<1> HIDE DEF e, V
<1>8. ASSUME NEW s \in Streams, slots'[s].state # "empty"
      PROVE  slots'[s].bytes = V[s]
  <2>1. CASE s = e.targets[1]
    <3>1. slots'[s] = Moved(slots[e.start])
      BY <1>1, <1>2, <2>1
    <3> QED
      BY <1>5, <1>6, <2>1, <3>1 DEF Moved
  <2>2. CASE s # e.targets[1]
    <3>1. s # e.start
      BY <1>1, <1>2, <1>8, <2>2 DEF Empty
    <3>2. slots'[s] = slots[s]
      BY <1>1, <1>2, <2>2, <3>1
    <3> QED
      BY <1>8, <3>2 DEF Holds, V
  <2> QED
    BY <2>1, <2>2
<1> QED
  BY <1>7, <1>8 DEF Holds, V

(* A node that decodes puts the values of its targets in their places.     *)
LEMMA DecodeNodeValues ==
  ASSUME GraphInv, phase = "run", Holds, NEW m \in 1 .. Len(plan), m = next + 1,
         DecodeNode(m), phase' = "run", UNCHANGED <<plan, stored, regen>>
  PROVE  Holds'
<1> DEFINE e == plan[m]
           V == GraphValue
           ins == BytesOf(Inputs(e))
           outs == Decode(m, ins)
           new == [k \in DOMAIN outs |-> Owned(outs[k], Strings(e, OutCount(e)))]
<1>1. Planned /\ DOMAIN slots = Streams
  BY PlannedInRun DEF GraphInv, SlotsFollowPlan
<1>2. ~Moves(e) /\ slots' = Placed(e, new)
  <2>1. Returned(m, OutCount(e)) = new
    BY DEF Returned, Decode
  <2> HIDE DEF new
  <2> QED
    BY <2>1 DEF DecodeNode, Fail
<1>3. ins = [x \in 1 .. e.count |-> V[InputEnd(e) - x]]
  BY InputValues
<1>4. DOMAIN e.targets = 1 .. Len(e.targets) /\ OutCount(e) = Len(e.targets)
      /\ (e.id \in SplitN => Len(e.targets) = 1)
  BY <1>1, NodeShape, PlannedNode DEF Planned
<1>5. DOMAIN outs = DOMAIN e.targets
  <2>1. CASE e.id \in SplitN
    BY <1>4, <2>1 DEF Decode, Outputs
  <2>2. CASE e.id \notin SplitN
    BY <1>4, <2>2 DEF Decode, Outputs
  <2> QED
    BY <2>1, <2>2
<1>6. ASSUME NEW k \in DOMAIN e.targets PROVE outs[k] = V[e.targets[k]]
  <2>1. e.id \notin Conversions
    BY <1>2 DEF Moves
  <2> QED
    BY <1>1, <1>3, <1>4, <2>1, GraphValues
<1>7. V' = V /\ Streams' = Streams
  BY GraphKept
<1> HIDE DEF e, V, ins, outs
<1>8. \A k \in DOMAIN e.targets : new[k].bytes = outs[k]
  BY <1>5 DEF Owned
<1> HIDE DEF new
<1>9. ASSUME NEW s \in Streams, slots'[s].state # "empty"
      PROVE  slots'[s].bytes = V[s]
  <2>1. CASE \E k \in DOMAIN e.targets : e.targets[k] = s
    <3>1. PICK k : k = CHOOSE x \in DOMAIN e.targets : e.targets[x] = s
      OBVIOUS
    <3>2. k \in DOMAIN e.targets /\ e.targets[k] = s
      BY <2>1, <3>1
    <3>3. slots'[s] = new[k]
      BY <1>2, <2>1, <3>1 DEF Placed
    <3> QED
      BY <1>6, <1>8, <3>2, <3>3
  <2>2. CASE ~ \E k \in DOMAIN e.targets : e.targets[k] = s
    <3>1. slots'[s] = IF s \in NodeInputs(e) THEN Empty ELSE slots[s]
      BY <1>2, <2>2 DEF Placed
    <3> QED
      BY <1>9, <3>1 DEF Holds, Empty, V
  <2> QED
    BY <2>1, <2>2
<1> QED
  BY <1>7, <1>9 DEF Holds, V

(* Running a node keeps the values of the table.                           *)
LEMMA ExecuteNodeValues ==
  GraphInv /\ FinalStreamsAreGraphValues /\ ExecuteNode => FinalStreamsAreGraphValues'
<1> SUFFICES ASSUME GraphInv, FinalStreamsAreGraphValues, ExecuteNode
             PROVE  FinalStreamsAreGraphValues'
  OBVIOUS
<1> SUFFICES ASSUME phase' = "run" PROVE Holds'
  <2>1. phase = "run"
    BY DEF ExecuteNode
  <2>2. ASSUME NEW i, MoveNode(plan[i]) PROVE phase' = phase
    BY <2>2 DEF MoveNode
  <2>3. ASSUME NEW i, DecodeNode(i) PROVE phase' \in {phase, "failed"}
    BY <2>3 DEF DecodeNode, Fail
  <2>4. phase' # "done"
    BY <2>1, <2>2, <2>3 DEF ExecuteNode, MiscountNode, CodecFails, Fail
  <2> QED
    BY <2>4 DEF FinalStreamsAreGraphValues, Holds
<1> PICK m : m = next + 1
  OBVIOUS
<1>1. /\ phase = "run" /\ next < LoopEnd /\ Holds
      /\ UNCHANGED <<plan, stored, regen>>
  BY DEF ExecuteNode, FinalStreamsAreGraphValues, Holds, chunk
<1>2. m \in 1 .. Len(plan)
  <2>1. Len(plan) \in Nat /\ next \in Nat /\ DOMAIN plan = 1 .. Len(plan)
    BY <1>1, PlannedInRun, TypeFacts DEF Planned
  <2>2. LoopEnd \in Nat /\ LoopEnd <= Len(plan)
    BY <2>1, TailInPlan DEF LoopEnd, Appending
  <2> QED
    BY <1>1, <2>1, <2>2
<1>3. MoveNode(plan[m]) \/ DecodeNode(m)
  BY <1>1, <1>2, NodeNotFaulty DEF ExecuteNode, MiscountNode, CodecFails, Fail
<1> QED
  BY <1>1, <1>2, <1>3, MoveNodeValues, DecodeNodeValues

(* The final streams are taken as they are.                                *)
LEMMA FinishValues ==
  GraphInv /\ FinalStreamsAreGraphValues /\ Finish => FinalStreamsAreGraphValues'
<1> SUFFICES ASSUME GraphInv, FinalStreamsAreGraphValues, Finish
             PROVE  FinalStreamsAreGraphValues'
  OBVIOUS
<1>1. /\ phase = "run" /\ ~Appending /\ Holds /\ outputs <= Bound
      /\ UNCHANGED <<plan, stored, regen, outputs, append, slots>>
  BY DEF Finish, FinalStreamsAreGraphValues, Holds, chunk, runtime, GraphInv, InStep
<1>2. \/ phase' = "failed"
      \/ phase' = "done" /\ \A s \in Finals : slots[s].state # "empty"
  BY DEF Finish, Fail
<1>3. Finals \subseteq Streams
  <2>1. Bound \in Nat /\ outputs \in Nat
    BY TypeFacts DEF GraphInv
  <2> QED
    BY <1>1, <2>1 DEF Finals, FirstFinal, Final, Streams
<1>4. Finals' = Finals /\ GraphValue' = GraphValue /\ ~Appending'
  BY <1>1, GraphKept, TailKept DEF Finals, FirstFinal, Final, Bound
<1>5. phase' = "done" => \A s \in Finals : slots[s].bytes = GraphValue[s]
  BY <1>1, <1>2, <1>3 DEF Holds
<1> QED
  BY <1>1, <1>2, <1>4, <1>5 DEF FinalStreamsAreGraphValues

(* The values along a chain of conversions are all the same.               *)
LEMMA ChainValue ==
  ASSUME Planned, NEW m \in 1 .. Len(plan), ChainedToFinal(m)
  PROVE  GraphValue[Final] = GraphValue[plan[m].targets[1]]
<1> DEFINE V == GraphValue
           n == Len(plan) - m
           T == {k \in Nat : V[plan[m + k].targets[1]] = V[plan[m].targets[1]]}
<1>1. Len(plan) \in Nat /\ n \in Nat /\ m \in Nat
  BY TypeFacts DEF Planned
<1>2. 0 \in T
  BY <1>1
<1>3. ASSUME NEW k \in Nat, k < n, k \in T PROVE k + 1 \in T
  <2> DEFINE j == m + (k + 1)
  <2>1. j \in m + 1 .. Len(plan) /\ j \in 1 .. Len(plan) /\ j - 1 = m + k
    BY <1>1, <1>3
  <2> HIDE DEF j, V
  <2>2. /\ plan[j].id \in Conversions /\ plan[j].start = plan[j - 1].targets[1]
    BY <2>1 DEF ChainedToFinal
  <2>3. V[plan[j].targets[1]] = V[plan[j].start]
    BY <2>1, <2>2, MovedValue DEF Moves, V
  <2>4. V[plan[m + k].targets[1]] = V[plan[m].targets[1]]
    BY <1>3
  <2>5. V[plan[j].targets[1]] = V[plan[m].targets[1]]
    BY <2>1, <2>2, <2>3, <2>4
  <2> QED
    BY <2>5 DEF j
<1> HIDE DEF T
<1>4. n \in T
  <2>1. n <= n /\ \A k \in Nat : k < n /\ k \in T => k + 1 \in T
    BY <1>1, <1>3
  <2> HIDE DEF n
  <2> QED
    BY <1>1, <1>2, <2>1, BoundedInduction
<1>5. V[plan[m + n].targets[1]] = V[plan[m].targets[1]]
  BY <1>4 DEF T
<1>6. m + n = Len(plan)
  BY <1>1
<1>7. Last(plan).targets[1] = Final
  BY DEF ChainedToFinal
<1> QED
  BY <1>5, <1>6, <1>7 DEF Last

(* What a direct-append tail writes is the value of the final stream.      *)
LEMMA AppendTailValues ==
  GraphInv /\ FinalStreamsAreGraphValues /\ AppendTail => FinalStreamsAreGraphValues'
<1> SUFFICES ASSUME GraphInv, FinalStreamsAreGraphValues, AppendTail
             PROVE  FinalStreamsAreGraphValues'
  OBVIOUS
<1> SUFFICES ASSUME phase' = "done" PROVE dst' = GraphValue[Final]
  <2>1. UNCHANGED <<plan, stored, regen, append>> /\ Appending
    BY DEF AppendTail, chunk, Fail
  <2>2. Final' = Final
    BY <2>1 DEF Final, Bound
  <2>3. phase' = "failed" \/ phase' = "done"
    BY DEF AppendTail, Fail
  <2> QED
    BY <2>1, <2>2, <2>3, GraphKept, TailKept DEF FinalStreamsAreGraphValues
<1> PICK m : m = TailStart
  OBVIOUS
<1>1. /\ phase = "run" /\ next = m - 1 /\ m # 0 /\ Holds /\ Planned
  BY PlannedInRun DEF AppendTail, Appending, FinalStreamsAreGraphValues, Holds
<1>2. m \in 1 .. Len(plan) /\ m = next + 1 /\ Len(plan) \in Nat
  <2>1. next \in Nat /\ Len(plan) \in Nat /\ DOMAIN plan = 1 .. Len(plan)
    BY <1>1, PlannedInRun, TypeFacts DEF Planned
  <2> QED
    BY <1>1, <2>1, TailInPlan
<1> DEFINE e == plan[m]
           V == GraphValue
           ins == BytesOf(Inputs(e))
<1>3. dst' = IF e.id = "split_by_struct" THEN SplitByStructAppend(m, ins)
             ELSE Decode(m, ins)[1]
  BY DEF AppendTail, Fail
<1>4. ins = [x \in 1 .. e.count |-> V[InputEnd(e) - x]]
  BY <1>1, <1>2, InputValues
<1>5. ASSUME e.id \notin Conversions, Len(e.targets) = 1
      PROVE  Decode(m, ins)[1] = V[e.targets[1]]
  <2>1. 1 \in 1 .. Len(e.targets)
    BY <1>5
  <2>2. V[e.targets[1]] = Decode(m, [x \in 1 .. e.count |-> V[InputEnd(e) - x]])[1]
    BY <1>1, <1>2, <1>5, <2>1, GraphValues
  <2> QED
    BY <1>4, <2>2
<1> HIDE DEF ins
<1>6. ASSUME NEW id \in {"field_lz", "zstd", "lz"}, m \in ConversionChainTail(id)
      PROVE  dst' = V[Final]
  <2>1. e.id = id /\ Len(e.targets) = 1 /\ ChainedToFinal(m)
    BY <1>6 DEF ConversionChainTail
  <2>2. e.id # "split_by_struct" /\ e.id \notin Conversions
    BY <2>1 DEF Conversions
  <2> QED
    BY <1>1, <1>2, <1>3, <1>5, <2>1, <2>2, ChainValue
<1>7. CASE m \in DispatchStringTail
  <2>1. /\ m + 1 = Len(plan) /\ e.id = "dispatch_string" /\ Len(e.targets) = 1
        /\ plan[m + 1].id = "convert_string_to_serial"
        /\ plan[m + 1].start = e.targets[1]
        /\ plan[m + 1].targets = <<Final>>
    BY <1>7 DEF DispatchStringTail
  <2>2. e.id # "split_by_struct" /\ e.id \notin Conversions
    BY <2>1 DEF Conversions
  <2>3. m + 1 \in 1 .. Len(plan) /\ Moves(plan[m + 1])
    BY <1>2, <2>1 DEF Moves, Conversions
  <2>4. V[plan[m + 1].targets[1]] = V[plan[m + 1].start]
    BY <1>1, <2>3, MovedValue
  <2>5. plan[m + 1].targets[1] = Final
    BY <2>1
  <2> QED
    BY <1>3, <1>5, <2>1, <2>2, <2>4, <2>5
<1>8. CASE m \in SplitByStructTail
  <2> DEFINE f == plan[m + 1]
  <2>1. /\ m + 1 = Len(plan) /\ e.id = "split_by_struct" /\ Len(e.targets) = 1
        /\ f.id \in {"splitn", "splitn_struct"}
        /\ f.targets = <<Final>>
        /\ e.targets[1] \in NodeInputs(f)
    BY <1>8 DEF SplitByStructTail
  <2>2. m + 1 \in 1 .. Len(plan) /\ f.id \in SplitN /\ f.id \notin Conversions
    BY <1>2, <2>1 DEF SplitN, Conversions
  <2>3. /\ f.start = InputStart(m + 1) /\ f.start \in Nat /\ f.count \in Nat
        /\ InputEnd(f) = f.start + f.count
        /\ InputEnd(f) = ends[m + 1] /\ ends[m + 1] < Bound
        /\ \A j \in m + 1 .. Len(plan) : \A x \in ToSet(TargetsOf(j)) : x >= ends[m + 1]
    BY <1>1, <2>2, PlannedNode DEF Planned, InputEnd
  <2>4. /\ e.targets = TargetsOf(m) /\ DOMAIN e.targets = 1 .. Len(e.targets)
        /\ ends[m] \in Nat /\ Bound \in Nat
    BY <1>1, <1>2, PlannedNode, TypeFacts DEF Planned
  <2>5. InputStart(m + 1) = ends[m]
    BY <1>2 DEF InputStart
  <2>6. ToSet(TargetsOf(m)) = {e.targets[1]}
    <3>1. 1 .. 1 = {1}
      OBVIOUS
    <3> QED
      BY <2>1, <2>4, <3>1 DEF ToSet
  <2> HIDE DEF e, f
  <2>7. ASSUME NEW k \in 1 .. f.count
        PROVE  (IF InputEnd(f) - k = e.targets[1] THEN Decode(m, ins)[1]
                ELSE slots[InputEnd(f) - k].bytes) = V[InputEnd(f) - k]
    <3>1. CASE InputEnd(f) - k = e.targets[1]
      <4>1. e.id \notin Conversions
        BY <2>1 DEF Conversions
      <4> QED
        BY <1>5, <2>1, <3>1, <4>1
    <3>2. CASE InputEnd(f) - k # e.targets[1]
      <4>1. PICK s : s = InputEnd(f) - k
        OBVIOUS
      <4>2. s \in Streams /\ s >= ends[m] /\ s < ends[m + 1]
        BY <2>3, <2>4, <2>5, <4>1 DEF Streams
      <4>3. ~(s < InputStart(next + 1))
        <5>1. /\ InputStart(m) \in Nat /\ InputStart(m) <= ends[m]
          <6>1. /\ plan[m].start \in Nat /\ plan[m].count \in Nat
                /\ plan[m].start = InputStart(m)
                /\ ends[m] = plan[m].start + plan[m].count
            BY <1>1, <1>2, PlannedNode DEF Planned
          <6> QED
            BY <6>1
        <5> QED
          BY <1>2, <2>4, <4>2, <5>1 DEF Streams
      <4>4. \A j \in next + 1 .. Len(plan) : s \notin ToSet(TargetsOf(j))
        <5>1. \A j \in next + 1 .. Len(plan) : j = m \/ j \in m + 1 .. Len(plan)
          BY <1>2
        <5>2. \A j \in m + 1 .. Len(plan) : s \notin ToSet(TargetsOf(j))
          <6>1. ends[m + 1] \in Int
            BY <2>3
          <6> QED
            BY <2>3, <4>2, <6>1 DEF Streams
        <5> QED
          BY <2>6, <3>2, <4>1, <5>1, <5>2
      <4>5. slots[s].state # "empty"
        BY <1>1, <4>2, <4>3, <4>4, EmptySlots
      <4> QED
        BY <1>1, <3>2, <4>1, <4>2, <4>5 DEF Holds
    <3> QED
      BY <3>1, <3>2
  <2>8. SplitByStructAppend(m, ins) =
          FlattenSeq([k \in 1 .. f.count |-> V[InputEnd(f) - k]])
    <3>1. SplitByStructAppend(m, ins) =
            FlattenSeq([k \in 1 .. f.count |->
              IF InputEnd(f) - k = e.targets[1] THEN Decode(m, ins)[1]
              ELSE slots[InputEnd(f) - k].bytes])
      BY DEF SplitByStructAppend, e, f
    <3> HIDE DEF V
    <3> QED
      BY <2>7, <3>1
  <2>9. V[f.targets[1]] = Decode(m + 1, [k \in 1 .. f.count |-> V[InputEnd(f) - k]])[1]
    <3>1. 1 \in 1 .. Len(f.targets)
      BY <2>1
    <3> QED
      BY <1>1, <2>2, <3>1, GraphValues DEF f
  <2>10. Decode(m + 1, [k \in 1 .. f.count |-> V[InputEnd(f) - k]])[1] =
           FlattenSeq([k \in 1 .. f.count |-> V[InputEnd(f) - k]])
    BY <2>2 DEF Decode, Outputs, f
  <2>11. f.targets[1] = Final
    BY <2>1
  <2> QED
    BY <1>3, <2>1, <2>8, <2>9, <2>10, <2>11 DEF e
<1> QED
  BY <1>1, <1>6, <1>7, <1>8, TailMember

(* The other steps fill no stream.                                         *)
LEMMA FinalValuesStep ==
  GraphInv /\ FinalStreamsAreGraphValues /\ [Next]_vars => FinalStreamsAreGraphValues'
<1> SUFFICES ASSUME GraphInv, FinalStreamsAreGraphValues, [Next]_vars
             PROVE  FinalStreamsAreGraphValues'
  OBVIOUS
<1>1. ASSUME phase' \notin {"run", "done"} PROVE FinalStreamsAreGraphValues'
  BY <1>1 DEF FinalStreamsAreGraphValues
<1>2. CASE ParseNode
  BY <1>1, <1>2 DEF ParseNode
<1>3. CASE BeginValidate \/ ValidateSingle \/ ValidateNode \/ EndValidate \/ BuildNode
  BY <1>1, <1>3 DEF BeginValidate, ValidateSingle, ValidateNode, EndValidate,
                    BuildNode, Fail
<1>4. CASE UNCHANGED vars
  <2>1. UNCHANGED <<plan, stored, regen, outputs, append, slots, dst, phase>>
    BY <1>4 DEF vars
  <2>2. Finals' = Finals /\ Final' = Final
    BY <2>1 DEF Finals, FirstFinal, Final, Bound
  <2> QED
    BY <2>1, <2>2, GraphKept, TailKept DEF FinalStreamsAreGraphValues
<1> QED
  BY <1>2, <1>3, <1>4, InitSlotsValues, ExecuteNodeValues, FinishValues,
     AppendTailValues DEF Next

(* A chunk that decodes holds, at its final streams, what its graph says   *)
(* the codecs make of the stored streams: slots.rs hands every node its    *)
(* inputs in order, and a direct-append tail (direct_append.rs) writes     *)
(* exactly what the nodes it skips would have left.                        *)
THEOREM GraphValuesDecoded == Spec => []FinalStreamsAreGraphValues
<1>1. Init => FinalStreamsAreGraphValues
  BY DEF Init, FinalStreamsAreGraphValues
<1> QED
  BY <1>1, InitInv, GraphInvariant, FinalValuesStep, PTL DEF Spec

-----------------------------------------------------------------------------
(* Live bytes.                                                             *)

(* The bytes every slot of a table holds.                                  *)
LiveTable == [k \in 1 .. Bound |-> LiveOf(slots[k - 1])]

StreamsTyped ==
  \A s \in Streams : /\ slots[s].bytes \in Seq(ToSet(slots[s].bytes))
                     /\ slots[s].lens \in Nat

(* A sequence is one over its own elements and over any set of them.       *)
LEMMA OwnSequence ==
  ASSUME NEW U, NEW b \in Seq(U) PROVE b \in Seq(ToSet(b))
<1>1. Len(b) \in Nat /\ b = [i \in 1 .. Len(b) |-> b[i]] /\ DOMAIN b = 1 .. Len(b)
  OBVIOUS
<1>2. \A i \in 1 .. Len(b) : b[i] \in ToSet(b)
  BY <1>1 DEF ToSet
<1> QED
  BY <1>1, <1>2, FunctionIsSeq

(* A sequence over a set is one over a larger set.                         *)
LEMMA WiderSequence ==
  ASSUME NEW U, NEW V, U \subseteq V, NEW b \in Seq(U) PROVE b \in Seq(V)
<1>1. Len(b) \in Nat /\ b = [i \in 1 .. Len(b) |-> b[i]] /\ \A i \in 1 .. Len(b) : b[i] \in V
  OBVIOUS
<1> QED
  BY <1>1, FunctionIsSeq

(* A slot holds an integral number of bytes.                               *)
LEMMA LiveOfTyped ==
  ASSUME NEW s, NEW U, s.bytes \in Seq(U), s.lens \in Nat
  PROVE  LiveOf(s) \in Int
<1>1. Len(s.bytes) \in Nat
  OBVIOUS
<1> QED
  BY <1>1 DEF LiveOf

(* The live bytes of a table are the sum over its slots.                   *)
LEMMA LiveSum == SumLive([k \in 1 .. Bound |-> slots[k - 1]]) = Sum(LiveTable)
<1> DEFINE t == [k \in 1 .. Bound |-> slots[k - 1]]
<1>1. [k \in DOMAIN t |-> LiveOf(t[k])] = LiveTable
  BY DEF LiveTable
<1> HIDE DEF t
<1> QED
  BY <1>1 DEF SumLive, Sum, t

(* The sum the property makes of the slots, after a step.                  *)
LEMMA LiveSumNext ==
  SumLive([k \in 1 .. Bound' |-> slots'[k - 1]]) = Sum(LiveTable')
<1> DEFINE t == [k \in 1 .. Bound' |-> slots'[k - 1]]
<1>1. [k \in DOMAIN t |-> LiveOf(t[k])] = LiveTable'
  BY DEF LiveTable, LiveOf
<1> HIDE DEF t
<1> QED
  BY <1>1 DEF SumLive, Sum, t

(* The table has a number for every stream.                                *)
LEMMA TableTyped ==
  ASSUME TypeOK, StreamsTyped
  PROVE  /\ LiveTable \in Seq(Int) /\ Len(LiveTable) = Bound
         /\ DOMAIN LiveTable = 1 .. Bound
         /\ \A s \in Streams : s + 1 \in 1 .. Bound /\ LiveTable[s + 1] = LiveOf(slots[s])
<1>1. Bound \in Nat
  BY TypeFacts
<1>2. \A k \in 1 .. Bound : k - 1 \in Streams
  BY <1>1 DEF Streams
<1>3. \A k \in 1 .. Bound : LiveOf(slots[k - 1]) \in Int
  BY <1>2, LiveOfTyped DEF StreamsTyped
<1>4. LiveTable = [k \in 1 .. Bound |-> LiveTable[k]] /\ DOMAIN LiveTable = 1 .. Bound
  BY DEF LiveTable
<1>5. \A k \in 1 .. Bound : LiveTable[k] \in Int
  BY <1>3 DEF LiveTable
<1>6. LiveTable \in Seq(Int) /\ Len(LiveTable) = Bound
  BY <1>1, <1>4, <1>5, FunctionIsSeq
<1>7. ASSUME NEW s \in Streams
      PROVE  s + 1 \in 1 .. Bound /\ LiveTable[s + 1] = LiveOf(slots[s])
  <2>1. s + 1 \in 1 .. Bound /\ (s + 1) - 1 = s
    BY <1>1 DEF Streams
  <2> QED
    BY <2>1 DEF LiveTable
<1> QED
  BY <1>4, <1>6, <1>7

(* Stored streams are the caller's: a fresh table owns nothing.            *)
LEMMA InitSlotsLive ==
  GraphInv /\ LiveBytesExact /\ InitSlots => LiveBytesExact'
<1> SUFFICES ASSUME GraphInv, LiveBytesExact, InitSlots PROVE LiveBytesExact'
  OBVIOUS
<1>1. phase = "build" /\ live' = live /\ live = 0 /\ phase' \in {"run", "failed"}
      /\ UNCHANGED <<stored, regen>>
  BY DEF InitSlots, LiveBytesExact, Fail, chunk
<1> SUFFICES ASSUME phase' = "run"
             PROVE  StreamsTyped' /\ 0 = Sum(LiveTable)'
  BY <1>1, LiveSumNext DEF LiveBytesExact, StreamsTyped
<1>2. slots' = [s \in Streams |->
                  IF s \in RegenTargets THEN Empty
                  ELSE [state |-> "borrowed", lens |-> 0,
                        bytes |-> <<StoredByte(StoredIndex(s))>>]]
  BY DEF InitSlots, Fail
<1>3. Streams' = Streams /\ Bound' = Bound /\ Bound \in Nat
  BY <1>1, TypeFacts DEF Streams, Bound, GraphInv
<1>4. ASSUME NEW s \in Streams
      PROVE  /\ slots'[s].bytes \in Seq(ToSet(slots'[s].bytes))
             /\ slots'[s].lens \in Nat /\ LiveOf(slots'[s]) = 0
  <2>1. CASE s \in RegenTargets
    <3>1. slots'[s] = Empty
      BY <1>2, <2>1
    <3>2. <<>> \in Seq(ToSet(<<>>))
      BY EmptySeq
    <3> QED
      BY <3>1, <3>2 DEF Empty, LiveOf
  <2>2. CASE s \notin RegenTargets
    <3>1. PICK x : x = StoredByte(StoredIndex(s))
      OBVIOUS
    <3>2. slots'[s] = [state |-> "borrowed", lens |-> 0, bytes |-> <<x>>]
      BY <1>2, <2>2, <3>1
    <3>3. <<x>> \in Seq({x})
      OBVIOUS
    <3>4. <<x>> \in Seq(ToSet(<<x>>))
      BY <3>3, OwnSequence
    <3> QED
      BY <3>2, <3>4 DEF LiveOf
  <2> QED
    BY <2>1, <2>2
<1>5. StreamsTyped'
  BY <1>3, <1>4 DEF StreamsTyped
<1>6. LiveTable' = [k \in 1 .. Bound |-> 0]
  <2>1. \A k \in 1 .. Bound : k - 1 \in Streams
    BY <1>3 DEF Streams
  <2>2. LiveTable' = [k \in 1 .. Bound |-> LiveOf(slots'[k - 1])]
    BY <1>3 DEF LiveTable, LiveOf
  <2> QED
    BY <1>4, <2>1, <2>2
<1>7. Sum(LiveTable') = 0
  BY <1>3, <1>6, SumZero
<1> QED
  BY <1>5, <1>7

(* A move releases the string lengths of the stream it moves.              *)
LEMMA MoveNodeLive ==
  ASSUME GraphInv, phase = "run", StreamsTyped, live = Sum(LiveTable),
         NEW m \in 1 .. Len(plan), m = next + 1, MoveNode(plan[m]),
         UNCHANGED <<plan, stored, regen>>
  PROVE  StreamsTyped' /\ live' = Sum(LiveTable')
<1> DEFINE e == plan[m]
           a == e.start
           z == e.targets[1]
           from == slots[a]
           L == LiveTable
<1>1. /\ Planned /\ DOMAIN slots = Streams /\ TypeOK
      /\ Streams' = Streams /\ Bound' = Bound /\ Bound \in Nat
  BY PlannedInRun, TypeFacts DEF GraphInv, SlotsFollowPlan, Streams, Bound
<1>2. /\ Moves(e) /\ live' = live - ReleasedByMove(from)
      /\ slots' = [slots EXCEPT ![a] = Empty, ![z] = Moved(from)]
  BY DEF MoveNode
<1>3. e.count = 1 /\ Len(e.targets) = 1 /\ e.start \in Nat /\ InputEnd(e) = e.start + 1
  BY <1>1, <1>2, NodeShape, PlannedNode DEF Planned, InputEnd
<1>4. a \in Streams /\ from.state # "empty"
  <2>1. a \in NodeInputs(e)
    BY <1>3 DEF NodeInputs
  <2> QED
    BY <2>1, NextNodeReady DEF InputsPresent
<1>5. z \in Streams /\ slots[z].state = "empty" /\ z # a
  <2>1. z \in ToSet(e.targets)
    <3>1. DOMAIN e.targets = 1 .. Len(e.targets)
      BY <1>1, PlannedNode DEF Planned
    <3> QED
      BY <1>3, <3>1 DEF ToSet
  <2> QED
    BY <1>4, <2>1, NextNodeReady
<1> HIDE DEF e, a, z, from, L
<1>6. /\ slots'[a] = Empty /\ slots'[z] = Moved(from)
      /\ \A s \in Streams : s # a /\ s # z => slots'[s] = slots[s]
  BY <1>1, <1>2, <1>4, <1>5
<1>7. /\ from.bytes \in Seq(ToSet(from.bytes)) /\ from.lens \in Nat
      /\ Len(from.bytes) \in Nat
  BY <1>4 DEF StreamsTyped, from
<1>8. StreamsTyped'
  <2>1. ASSUME NEW s \in Streams
        PROVE  slots'[s].bytes \in Seq(ToSet(slots'[s].bytes)) /\ slots'[s].lens \in Nat
    <3>1. CASE s = a
      <4>1. <<>> \in Seq(ToSet(<<>>))
        BY EmptySeq
      <4>2. slots'[s] = Empty
        BY <1>6, <3>1
      <4> QED
        BY <4>1, <4>2 DEF Empty
    <3>2. CASE s = z
      BY <1>6, <1>7, <3>2 DEF Moved
    <3>3. CASE s # a /\ s # z
      BY <1>6, <3>3 DEF StreamsTyped
    <3> QED
      BY <3>1, <3>2, <3>3
  <2> QED
    BY <1>1, <2>1 DEF StreamsTyped
<1>9. /\ L \in Seq(Int) /\ DOMAIN L = 1 .. Bound /\ Len(L) = Bound
      /\ a + 1 \in 1 .. Bound /\ z + 1 \in 1 .. Bound /\ a + 1 # z + 1
      /\ L[a + 1] = LiveOf(from) /\ L[z + 1] = 0
  <2>1. LiveOf(slots[z]) = 0
    BY <1>5 DEF LiveOf
  <2>2. a \in Nat /\ z \in Nat
    BY <1>1, <1>4, <1>5 DEF Streams
  <2> QED
    BY <1>1, <1>4, <1>5, <2>1, <2>2, TableTyped DEF L, from
<1> DEFINE x == LiveOf(from)
           y == LiveOf(Moved(from))
           M == [L EXCEPT ![a + 1] = 0]
<1>10. x \in Int /\ y \in Int /\ x - ReleasedByMove(from) = y /\ ReleasedByMove(from) \in Int
  BY <1>7 DEF LiveOf, Moved, ReleasedByMove
<1>11. LiveTable' = [M EXCEPT ![z + 1] = y]
  <2>1. \A k \in 1 .. Bound : k - 1 \in Streams /\ (k - 1) + 1 = k
    BY <1>1 DEF Streams
  <2>2. LiveTable' = [k \in 1 .. Bound |-> LiveOf(slots'[k - 1])]
    BY <1>1 DEF LiveTable, LiveOf
  <2>3. LiveOf(slots'[a]) = 0 /\ LiveOf(slots'[z]) = y
    BY <1>6 DEF LiveOf, Empty
  <2>4. ASSUME NEW k \in 1 .. Bound
        PROVE  LiveOf(slots'[k - 1]) = [M EXCEPT ![z + 1] = y][k]
    <3>1. CASE k - 1 = a
      <4>1. k = a + 1 /\ k # z + 1
        BY <1>9, <2>1, <3>1
      <4> QED
        BY <1>9, <2>3, <3>1, <4>1
    <3>2. CASE k - 1 = z
      <4>1. k = z + 1
        BY <2>1, <3>2
      <4> QED
        BY <1>9, <2>3, <3>2, <4>1
    <3>3. CASE k - 1 # a /\ k - 1 # z
      <4>1. LiveOf(slots'[k - 1]) = L[k]
        BY <1>6, <2>1, <3>3 DEF L, LiveTable
      <4>2. k # a + 1 /\ k # z + 1
        BY <1>1, <1>4, <1>5, <3>3 DEF Streams
      <4> QED
        BY <1>9, <4>1, <4>2
    <3> QED
      BY <3>1, <3>2, <3>3
  <2>5. [M EXCEPT ![z + 1] = y] = [k \in 1 .. Bound |-> [M EXCEPT ![z + 1] = y][k]]
    BY <1>9
  <2> HIDE DEF M, y
  <2> QED
    BY <2>2, <2>4, <2>5
<1> HIDE DEF x, y
<1>12. Sum(M) = (Sum(L) - x) + 0
  <2>1. PICK i : i = a + 1
    OBVIOUS
  <2>2. i \in DOMAIN L /\ L[i] = x /\ 0 \in Int
    BY <1>9, <2>1 DEF x
  <2>3. Sum([L EXCEPT ![i] = 0]) = (Sum(L) - L[i]) + 0
    BY <1>9, <2>2, SumReplaced
  <2> QED
    BY <2>1, <2>2, <2>3
<1>13. M \in Seq(Int) /\ z + 1 \in DOMAIN M /\ M[z + 1] = 0
  <2>1. a + 1 \in 1 .. Len(L) /\ 0 \in Int
    BY <1>9
  <2>2. M \in Seq(Int)
    BY <1>9, <2>1, ExceptSeq
  <2>3. DOMAIN M = DOMAIN L /\ (z + 1 \in DOMAIN L => M[z + 1] = L[z + 1])
    <3>1. PICK i, j : i = a + 1 /\ j = z + 1 /\ i # j
      BY <1>9
    <3>2. DOMAIN [L EXCEPT ![i] = 0] = DOMAIN L
      OBVIOUS
    <3>3. j \in DOMAIN L => [L EXCEPT ![i] = 0][j] = L[j]
      BY <3>1
    <3> QED
      BY <3>1, <3>2, <3>3
  <2> HIDE DEF M
  <2> QED
    BY <1>9, <2>2, <2>3
<1> HIDE DEF M
<1>14. Sum([M EXCEPT ![z + 1] = y]) = (Sum(M) - 0) + y
  BY <1>10, <1>13, SumReplaced
<1>15. Sum(L) \in Int
  BY <1>9, SumTyped
<1>16. live' = Sum(LiveTable')
  <2>1. PICK u, r : u = Sum(L) /\ r = ReleasedByMove(from)
    OBVIOUS
  <2>2. live' = u - r
    BY <1>2, <2>1 DEF L
  <2>3. Sum(LiveTable') = (((u - x) + 0) - 0) + y
    BY <1>11, <1>12, <1>14, <2>1
  <2>4. u \in Int /\ r \in Int /\ x \in Int /\ y = x - r
    BY <1>10, <1>15, <2>1 DEF x, y
  <2>5. (((u - x) + 0) - 0) + y = u - r
    BY <2>4
  <2> QED
    BY <2>2, <2>3, <2>5
<1> QED
  BY <1>8, <1>16

(* What a codec returns: as many outputs as its node has targets, each a   *)
(* sequence of bytes.                                                      *)
LEMMA CodecOutputs ==
  ASSUME Planned, NEW m \in 1 .. Len(plan), NEW ins,
         ins = [k \in 1 .. plan[m].count |-> ins[k]],
         \A k \in DOMAIN ins : ins[k] \in Seq(ToSet(ins[k]))
  PROVE  LET outs == Decode(m, ins)
         IN  /\ DOMAIN outs = DOMAIN plan[m].targets
             /\ \A k \in DOMAIN outs : outs[k] \in Seq(ToSet(outs[k]))
<1> DEFINE e == plan[m]
           outs == Decode(m, ins)
<1>1. /\ DOMAIN e.targets = 1 .. Len(e.targets) /\ OutCount(e) = Len(e.targets)
      /\ (e.id \in SplitN => Len(e.targets) = 1) /\ e.count \in Nat
  BY NodeShape, PlannedNode DEF Planned
<1>2. CASE e.id \in SplitN
  <2> DEFINE b == FlattenSeq(ins)
             U == UNION {ToSet(ins[k]) : k \in 1 .. e.count}
  <2>1. outs = <<b>>
    BY <1>2 DEF Decode, Outputs
  <2>2. ins \in Seq(Seq(U))
    <3>1. ASSUME NEW k \in 1 .. e.count PROVE ins[k] \in Seq(U)
      <4>1. ToSet(ins[k]) \subseteq U
        OBVIOUS
      <4>2. k \in DOMAIN ins
        OBVIOUS
      <4>3. ins[k] \in Seq(ToSet(ins[k]))
        BY <4>2
      <4> HIDE DEF U
      <4> QED
        BY <4>1, <4>3, WiderSequence
    <3>2. ins = [k \in 1 .. e.count |-> ins[k]]
      OBVIOUS
    <3> HIDE DEF U
    <3> QED
      BY <1>1, <3>1, <3>2, FunctionIsSeq
  <2> HIDE DEF U
  <2>3. b \in Seq(U)
    BY <2>2, FlattenType
  <2>4. b \in Seq(ToSet(b))
    BY <2>3, OwnSequence
  <2> HIDE DEF b, outs
  <2>5. DOMAIN outs = 1 .. 1 /\ outs[1] = b
    BY <2>1
  <2>6. DOMAIN outs = DOMAIN e.targets
    BY <1>1, <1>2, <2>5
  <2>7. \A k \in DOMAIN outs : k = 1
    BY <2>5
  <2>8. \A k \in DOMAIN outs : outs[k] \in Seq(ToSet(outs[k]))
    BY <2>4, <2>5, <2>7
  <2> QED
    BY <2>6, <2>8 DEF outs
<1>3. CASE e.id = "dedup_num"
  <2>1. outs = [k \in 1 .. Len(e.targets) |-> ins[1]]
    BY <1>1, <1>3 DEF Decode, Outputs, SplitN
  <2>2. 1 \in DOMAIN ins
    <3>1. e.count = 1
      BY <1>3, FanOutInput DEF Planned
    <3> QED
      BY <3>1
  <2>3. ins[1] \in Seq(ToSet(ins[1]))
    BY <2>2
  <2> HIDE DEF outs, e
  <2> QED
    BY <1>1, <2>1, <2>3 DEF outs, e
<1>4. CASE e.id \notin SplitN /\ e.id # "dedup_num"
  <2>1. outs = [k \in 1 .. Len(e.targets) |->
                  [b \in 1 .. OutLen[e.id] |-> <<m, k, b, ins>>]]
    BY <1>1, <1>4 DEF Decode, Outputs
  <2>2. OutLen[e.id] \in Nat
    <3>1. m \in 1 .. Len(ends) /\ e.id = nodes[m].node.id
      BY ResolvedPlan DEF Planned
    <3>2. KnownNode(nodes[m].node)
      BY <3>1 DEF Planned, Validated
    <3> QED
      BY <3>1, <3>2, OutLenAssumption DEF KnownNode
  <2>3. ASSUME NEW k \in 1 .. Len(e.targets)
        PROVE  outs[k] \in Seq(ToSet(outs[k]))
    <3> DEFINE c == [b \in 1 .. OutLen[e.id] |-> <<m, k, b, ins>>]
    <3>1. outs[k] = c
      BY <2>1
    <3>2. c = [b \in 1 .. OutLen[e.id] |-> c[b]] /\ DOMAIN c = 1 .. OutLen[e.id]
      OBVIOUS
    <3> HIDE DEF c, outs
    <3>3. \A b \in 1 .. OutLen[e.id] : c[b] \in ToSet(c)
      BY <3>2 DEF ToSet
    <3>4. c \in Seq(ToSet(c))
      BY <2>2, <3>2, <3>3, FunctionIsSeq
    <3> QED
      BY <3>1, <3>4
  <2> QED
    BY <1>1, <2>1, <2>3
<1> QED
  BY <1>2, <1>3, <1>4

(* Every output of a codec has a number of string lengths.                 *)
LEMMA StringCounts ==
  ASSUME NEW e, NEW n \in Nat, n \in Counts(e),
         e.id = "interleave_string" => Inputs(e)[1].lens \in Nat
  PROVE  Strings(e, n) \in Nat
<1>1. CASE e.id = "interleave_string"
  <2>1. n > 0 /\ Inputs(e)[1].lens \in Nat
    BY <1>1, HeaderAssumption DEF Counts
  <2>2. PICK a : a = Inputs(e)[1].lens
    OBVIOUS
  <2>3. a \div n \in Nat
    BY <2>1, <2>2
  <2> QED
    BY <1>1, <2>2, <2>3 DEF Strings
<1>2. CASE e.id # "interleave_string"
  BY <1>2 DEF Strings
<1> QED
  BY <1>1, <1>2

(* A codec's inputs leave the table and its outputs enter it.              *)
LEMMA DecodeNodeLive ==
  ASSUME GraphInv, phase = "run", StreamsTyped, live = Sum(LiveTable),
         NEW m \in 1 .. Len(plan), m = next + 1, DecodeNode(m), phase' = "run",
         UNCHANGED <<plan, stored, regen>>
  PROVE  StreamsTyped' /\ live' = Sum(LiveTable')
<1> DEFINE e == plan[m]
           t == e.targets
           N == NodeInputs(e)
           inp == Inputs(e)
           outs == Decode(m, BytesOf(inp))
           strings == Strings(e, OutCount(e))
           new == [k \in DOMAIN outs |-> Owned(outs[k], strings)]
           L == LiveTable
           c == e.count
           end == InputEnd(e)
           p == [k \in 1 .. c |-> (end - k) + 1]
           q == [k \in 1 .. Len(t) |-> t[k] + 1]
           M == [k \in 1 .. Bound |-> IF k - 1 \in N THEN 0 ELSE L[k]]
           a == [k \in 1 .. c |-> LiveOf(inp[k])]
           d == [k \in 1 .. Len(t) |-> LiveOf(new[k])]
<1>1. /\ Planned /\ DOMAIN slots = Streams /\ TypeOK
      /\ Streams' = Streams /\ Bound' = Bound /\ Bound \in Nat
  BY PlannedInRun, TypeFacts DEF GraphInv, SlotsFollowPlan, Streams, Bound
<1>2. /\ ~Moves(e) /\ slots' = Placed(e, new)
      /\ live' = live - SumLive(inp) + SumLive(new)
      /\ OutCount(e) \in Counts(e)
  <2>1. Returned(m, OutCount(e)) = new
    BY DEF Returned, Decode
  <2> HIDE DEF new
  <2> QED
    BY <2>1 DEF DecodeNode, Fail
<1>3. /\ e.start \in Nat /\ c \in Nat /\ end = e.start + c /\ IsInjective(t)
      /\ DOMAIN t = 1 .. Len(t) /\ Len(t) \in Nat
      /\ \A s \in ToSet(t) : s >= end /\ s \in Streams
  BY <1>1, NodeShape, PlannedNode DEF Planned, InputEnd
<1>4. \A s \in N : s \in Streams /\ s < end
  BY <1>3, NextNodeReady DEF InputsPresent, NodeInputs
<1>5. \A k \in 1 .. c : end - k \in N /\ inp[k] = slots[end - k]
  BY <1>3 DEF NodeInputs, Inputs
<1>6. \A s \in ToSet(t) : slots[s].state = "empty" /\ s \notin N
  <2>1. \A s \in ToSet(t) : slots[s].state = "empty"
    BY NextNodeReady
  <2>2. \A s \in ToSet(t) : s \notin N
    BY <1>3, <1>4 DEF Streams
  <2> QED
    BY <2>1, <2>2
<1>7. /\ DOMAIN outs = 1 .. Len(t)
      /\ \A k \in 1 .. Len(t) : outs[k] \in Seq(ToSet(outs[k]))
  <2> DEFINE ins == BytesOf(inp)
  <2>1. /\ DOMAIN ins = 1 .. c /\ \A k \in 1 .. c : ins[k] = inp[k].bytes
        /\ ins = [k \in 1 .. c |-> ins[k]]
    BY DEF BytesOf, Inputs
  <2>2. \A k \in 1 .. c : inp[k].bytes \in Seq(ToSet(inp[k].bytes))
    BY <1>4, <1>5 DEF StreamsTyped
  <2> HIDE DEF ins, inp
  <2>3. \A k \in DOMAIN ins : ins[k] \in Seq(ToSet(ins[k]))
    BY <2>1, <2>2
  <2>4. /\ DOMAIN Decode(m, ins) = DOMAIN t
        /\ \A k \in DOMAIN Decode(m, ins) :
             Decode(m, ins)[k] \in Seq(ToSet(Decode(m, ins)[k]))
    BY <1>1, <2>1, <2>3, CodecOutputs
  <2> QED
    BY <1>3, <2>4 DEF ins
<1>8. DOMAIN inp = 1 .. c
  BY DEF Inputs
<1>8a. strings \in Nat
  <2>1. OutCount(e) \in Nat
    BY <1>1, NodeShape DEF Planned
  <2>2. e.id = "interleave_string" => Inputs(e)[1].lens \in Nat
    <3> SUFFICES ASSUME e.id = "interleave_string" PROVE inp[1].lens \in Nat
      OBVIOUS
    <3>1. c = 1
      BY <1>1, FanOutInput DEF Planned
    <3>2. inp[1] = slots[end - 1] /\ end - 1 \in Streams
      BY <1>4, <1>5, <3>1
    <3> QED
      BY <3>2 DEF StreamsTyped
  <2> QED
    BY <1>2, <2>1, <2>2, StringCounts
<1> HIDE DEF inp, outs, strings, c, end, N
<1>9. /\ DOMAIN new = 1 .. Len(t)
      /\ \A k \in 1 .. Len(t) : /\ new[k].bytes \in Seq(ToSet(new[k].bytes))
                                /\ new[k].lens \in Nat
  BY <1>7, <1>8a DEF Owned
<1>10. SumLive(inp) = Sum(a) /\ SumLive(new) = Sum(d)
  <2> HIDE DEF new
  <2> QED
    BY <1>8, <1>9 DEF SumLive, Sum
<1> HIDE DEF new
<1>11. ASSUME NEW s \in Streams
       PROVE  slots'[s] = IF \E k \in 1 .. Len(t) : t[k] = s
                            THEN new[CHOOSE k \in DOMAIN t : t[k] = s]
                          ELSE IF s \in N THEN Empty ELSE slots[s]
  BY <1>2, <1>3 DEF Placed, N
<1>12. \A k \in 1 .. Len(t) : t[k] \in ToSet(t) /\ slots'[t[k]] = new[k]
  <2> TAKE k \in 1 .. Len(t)
  <2>1. t[k] \in ToSet(t)
    BY <1>3 DEF ToSet
  <2>2. \A j \in DOMAIN t : t[j] = t[k] => j = k
    BY <1>3 DEF IsInjective
  <2>3. (CHOOSE j \in DOMAIN t : t[j] = t[k]) = k
    BY <1>3, <2>2
  <2>4. t[k] \in Streams
    BY <1>3, <2>1
  <2> QED
    BY <1>11, <2>1, <2>3, <2>4
<1>13. StreamsTyped'
  <2>1. ASSUME NEW s \in Streams
        PROVE  slots'[s].bytes \in Seq(ToSet(slots'[s].bytes)) /\ slots'[s].lens \in Nat
    <3>1. CASE \E k \in 1 .. Len(t) : t[k] = s
      BY <1>9, <1>12, <3>1
    <3>2. CASE s \in N /\ ~ \E k \in 1 .. Len(t) : t[k] = s
      <4>1. slots'[s] = Empty
        BY <1>11, <3>2
      <4>2. <<>> \in Seq(ToSet(<<>>))
        BY EmptySeq
      <4> QED
        BY <4>1, <4>2 DEF Empty
    <3>3. CASE s \notin N /\ ~ \E k \in 1 .. Len(t) : t[k] = s
      <4>1. slots'[s] = slots[s]
        BY <1>11, <3>3
      <4> QED
        BY <4>1 DEF StreamsTyped
    <3> QED
      BY <3>1, <3>2, <3>3
  <2> QED
    BY <1>1, <2>1 DEF StreamsTyped
<1> HIDE DEF L, e
<1>14. /\ L \in Seq(Int) /\ Len(L) = Bound /\ DOMAIN L = 1 .. Bound
       /\ \A s \in Streams : s + 1 \in 1 .. Bound /\ L[s + 1] = LiveOf(slots[s])
  BY <1>1, TableTyped DEF L
<1>15. /\ M \in Seq(Int) /\ Len(M) = Bound /\ DOMAIN M = 1 .. Bound
       /\ \A k \in 1 .. Bound : M[k] = IF k - 1 \in N THEN 0 ELSE L[k]
  <2>1. \A k \in 1 .. Bound : M[k] = IF k - 1 \in N THEN 0 ELSE L[k]
    OBVIOUS
  <2>2. M = [k \in 1 .. Bound |-> M[k]] /\ DOMAIN M = 1 .. Bound
    OBVIOUS
  <2> HIDE DEF M
  <2>3. \A k \in 1 .. Bound : M[k] \in Int
    BY <1>14, <2>1
  <2> QED
    BY <1>1, <2>1, <2>2, <2>3, FunctionIsSeq
<1> HIDE DEF M
<1>16. Sum(M) = (Sum(L) - Sum(a)) + 0
  <2>2. /\ p = [k \in 1 .. c |-> p[k]] /\ DOMAIN p = 1 .. c
        /\ \A k \in 1 .. c : p[k] = (end - k) + 1
    OBVIOUS
  <2> HIDE DEF p
  <2>0. \A k \in 1 .. c : end - k \in Streams /\ end \in Int
    BY <1>3, <1>4, <1>5
  <2>1. /\ \A k \in 1 .. c : p[k] = (end - k) + 1 /\ p[k] \in 1 .. Bound
        /\ \A k \in 1 .. c : p[k] - 1 = end - k
    BY <1>1, <2>0, <2>2 DEF Streams
  <2>3. p \in Seq(1 .. Len(L))
    BY <1>3, <1>14, <2>1, <2>2, FunctionIsSeq
  <2>4. IsInjective(p)
    BY <1>3, <2>1, <2>2 DEF IsInjective
  <2>5. ASSUME NEW i \in 1 .. Len(L), \A k \in DOMAIN p : p[k] # i
        PROVE  M[i] = L[i]
    <3>1. SUFFICES ASSUME i - 1 \in N PROVE FALSE
      BY <1>14, <1>15
    <3>2. end - (i - 1) \in 1 .. c
      BY <1>1, <1>3, <1>14, <3>1 DEF N, NodeInputs, end, c
    <3>3. PICK j : j = end - (i - 1)
      OBVIOUS
    <3>4. j \in 1 .. c /\ (end - j) + 1 = i
      BY <1>1, <1>3, <1>14, <3>2, <3>3
    <3>5. p[j] = i
      BY <2>2, <3>4
    <3> QED
      BY <2>2, <2>5, <3>4, <3>5
  <2>6. a = [k \in DOMAIN p |-> L[p[k]]]
    <3>1. ASSUME NEW k \in 1 .. c PROVE LiveOf(inp[k]) = L[p[k]]
      BY <1>4, <1>5, <1>14, <2>1
    <3> QED
      BY <2>2, <3>1
  <2> DEFINE b == [k \in DOMAIN p |-> M[p[k]]]
  <2>7. b = [k \in 1 .. c |-> 0]
    <3>1. ASSUME NEW k \in 1 .. c PROVE M[p[k]] = 0
      BY <1>5, <1>15, <2>1
    <3> QED
      BY <2>2, <3>1
  <2>8. Sum(b) = 0
    <3> HIDE DEF b
    <3> QED
      BY <1>3, <2>7, SumZero
  <2> HIDE DEF a
  <2> HIDE DEF b
  <2>10. \A i \in 1 .. Len(L) : (\A k \in DOMAIN p : p[k] # i) => M[i] = L[i]
    BY <2>5
  <2>11. b = [k \in DOMAIN p |-> M[p[k]]]
    BY DEF b
  <2>12. Len(M) = Len(L)
    BY <1>14, <1>15
  <2>9. Sum(M) = (Sum(L) - Sum(a)) + Sum(b)
    <3>1. Spread(L, M, p, a, b)
      BY <1>14, <1>15, <2>3, <2>4, <2>6, <2>10, <2>11, <2>12 DEF Spread
    <3> QED
      BY <3>1, SumSpread
  <2> QED
    BY <2>8, <2>9
<1>17. Sum(LiveTable') = (Sum(M) - 0) + Sum(d)
  <2> DEFINE Z == LiveTable'
  <2>0. \A k \in 1 .. Bound : k - 1 \in Streams /\ (k - 1) + 1 = k
    BY <1>1 DEF Streams
  <2>1. Z = [k \in 1 .. Bound |-> LiveOf(slots'[k - 1])]
    BY <1>1 DEF LiveTable, LiveOf
  <2>2. ASSUME NEW k \in 1 .. Bound PROVE LiveOf(slots'[k - 1]) \in Int
    <3>1. k - 1 \in Streams'
      BY <1>1, <2>0
    <3> QED
      BY <1>13, <3>1, LiveOfTyped DEF StreamsTyped
  <2> HIDE DEF Z
  <2>3. \A k \in 1 .. Bound : Z[k] = LiveOf(slots'[k - 1])
    BY <2>1
  <2>4. Z \in Seq(Int) /\ Len(Z) = Bound
    <3>1. Z = [k \in 1 .. Bound |-> Z[k]]
      BY <2>1
    <3>2. \A k \in 1 .. Bound : Z[k] \in Int
      BY <2>2, <2>3
    <3> QED
      BY <1>1, <3>1, <3>2, FunctionIsSeq
  <2>5. \A k \in 1 .. Len(t) : q[k] = t[k] + 1 /\ q[k] \in 1 .. Bound /\ q[k] - 1 = t[k]
    <3>1. \A k \in 1 .. Len(t) : t[k] \in Streams
      BY <1>3, <1>12
    <3> QED
      BY <1>1, <3>1 DEF Streams
  <2>6. q = [k \in 1 .. Len(t) |-> q[k]] /\ DOMAIN q = 1 .. Len(t)
    OBVIOUS
  <2> HIDE DEF q
  <2>7. q \in Seq(1 .. Len(M))
    BY <1>3, <1>15, <2>5, <2>6, FunctionIsSeq
  <2>8. IsInjective(q)
    <3>1. \A j, k \in 1 .. Len(t) : q[j] = q[k] => t[j] = t[k]
      BY <2>5
    <3> QED
      BY <1>3, <2>6, <3>1 DEF IsInjective
  <2>9. ASSUME NEW i \in 1 .. Len(M), \A k \in DOMAIN q : q[k] # i
        PROVE  Z[i] = M[i]
    <3>1. i \in 1 .. Bound /\ i - 1 \in Streams /\ (i - 1) + 1 = i
      BY <1>15, <2>0
    <3>2. ~ \E k \in 1 .. Len(t) : t[k] = i - 1
      BY <2>5, <2>6, <2>9, <3>1
    <3>3. slots'[i - 1] = IF i - 1 \in N THEN Empty ELSE slots[i - 1]
      BY <1>11, <3>1, <3>2
    <3>4. L[i] = LiveOf(slots[i - 1])
      BY <1>14, <3>1
    <3> QED
      BY SMTT(30), <1>15, <2>3, <3>1, <3>3, <3>4 DEF Empty, LiveOf
  <2> DEFINE b == [k \in DOMAIN q |-> M[q[k]]]
  <2>10. b = [k \in 1 .. Len(t) |-> 0]
    <3>1. ASSUME NEW k \in 1 .. Len(t) PROVE M[q[k]] = 0
      <4>1. t[k] \in ToSet(t) /\ t[k] \in Streams
        BY <1>3, <1>12
      <4>2. LiveOf(slots[t[k]]) = 0
        BY <1>6, <4>1 DEF LiveOf
      <4> QED
        BY SMTT(30), <1>14, <1>15, <2>5, <4>1, <4>2
    <3> QED
      BY <2>6, <3>1
  <2>11. Sum(b) = 0
    <3> HIDE DEF b
    <3> QED
      BY <1>3, <2>10, SumZero
  <2>12. d = [k \in DOMAIN q |-> Z[q[k]]]
    <3>1. ASSUME NEW k \in 1 .. Len(t) PROVE LiveOf(new[k]) = Z[q[k]]
      BY <1>12, <2>3, <2>5
    <3> QED
      BY <2>6, <3>1
  <2> HIDE DEF b, d
  <2>13. b = [k \in DOMAIN q |-> M[q[k]]]
    BY DEF b
  <2>14. Len(Z) = Len(M)
    BY <1>15, <2>4
  <2>16. \A i \in 1 .. Len(M) : (\A k \in DOMAIN q : q[k] # i) => Z[i] = M[i]
    BY <2>9
  <2>15. Sum(Z) = (Sum(M) - Sum(b)) + Sum(d)
    <3>1. Spread(M, Z, q, b, d)
      BY <1>15, <2>4, <2>7, <2>8, <2>12, <2>13, <2>14, <2>16 DEF Spread
    <3> QED
      BY <3>1, SumSpread
  <2> QED
    BY <2>11, <2>15 DEF Z
<1>18. Sum(L) \in Int /\ Sum(a) \in Int /\ Sum(d) \in Int
  <2>1. a \in Seq(Int)
    <3>1. \A k \in 1 .. c : LiveOf(inp[k]) \in Int
      <4> TAKE k \in 1 .. c
      <4>1. inp[k] = slots[end - k] /\ end - k \in Streams
        BY <1>4, <1>5
      <4>2. inp[k].bytes \in Seq(ToSet(inp[k].bytes)) /\ inp[k].lens \in Nat
        BY <4>1 DEF StreamsTyped
      <4> QED
        BY <4>2, LiveOfTyped
    <3>2. a = [k \in 1 .. c |-> a[k]] /\ \A k \in 1 .. c : a[k] = LiveOf(inp[k])
      OBVIOUS
    <3> HIDE DEF a
    <3> QED
      BY <1>3, <3>1, <3>2, FunctionIsSeq
  <2>2. d \in Seq(Int)
    <3>1. \A k \in 1 .. Len(t) : LiveOf(new[k]) \in Int
      BY <1>9, LiveOfTyped
    <3>2. d = [k \in 1 .. Len(t) |-> d[k]] /\ \A k \in 1 .. Len(t) : d[k] = LiveOf(new[k])
      OBVIOUS
    <3> HIDE DEF d, t
    <3>3. \A k \in 1 .. Len(t) : d[k] \in Int
      BY <3>1, <3>2
    <3> QED
      BY <1>3, <3>2, <3>3, FunctionIsSeq
  <2> HIDE DEF a, d
  <2> QED
    BY <1>14, <2>1, <2>2, SumTyped
<1> HIDE DEF a, d
<1>19. live' = Sum(LiveTable')
  <2>1. PICK x, y, z : x = Sum(L) /\ y = Sum(a) /\ z = Sum(d)
    OBVIOUS
  <2>2. x \in Int /\ y \in Int /\ z \in Int
    BY <1>18, <2>1
  <2>3. live' = x - y + z
    BY <1>2, <1>10, <2>1 DEF L
  <2>4. Sum(LiveTable') = (((x - y) + 0) - 0) + z
    BY <1>16, <1>17, <2>1
  <2>5. x - y + z = (((x - y) + 0) - 0) + z
    BY <2>2
  <2> QED
    BY <2>3, <2>4, <2>5
<1> QED
  BY <1>13, <1>19

(* A node frees what it has read and adds what it has written.             *)
LEMMA ExecuteNodeLive ==
  GraphInv /\ LiveBytesExact /\ ExecuteNode => LiveBytesExact'
<1> SUFFICES ASSUME GraphInv, LiveBytesExact, ExecuteNode PROVE LiveBytesExact'
  OBVIOUS
<1> PICK m : m = next + 1
  OBVIOUS
<1>1. /\ phase = "run" /\ next < LoopEnd
      /\ UNCHANGED <<plan, stored, regen>>
  BY DEF ExecuteNode, chunk
<1>2. StreamsTyped /\ live = Sum(LiveTable)
  BY <1>1, LiveSum DEF LiveBytesExact, StreamsTyped
<1>3. phase' \in {"run", "failed"}
  <2>1. ASSUME NEW i, MoveNode(plan[i]) PROVE phase' = phase
    BY <2>1 DEF MoveNode
  <2>2. ASSUME NEW i, DecodeNode(i) PROVE phase' \in {phase, "failed"}
    BY <2>2 DEF DecodeNode, Fail
  <2> QED
    BY <1>1, <2>1, <2>2 DEF ExecuteNode, MiscountNode, CodecFails, Fail
<1> SUFFICES ASSUME phase' = "run" PROVE StreamsTyped' /\ live' = Sum(LiveTable')
  BY <1>3, LiveSumNext DEF LiveBytesExact, StreamsTyped
<1>4. m \in 1 .. Len(plan)
  <2>1. Len(plan) \in Nat /\ next \in Nat /\ DOMAIN plan = 1 .. Len(plan)
    BY <1>1, PlannedInRun, TypeFacts DEF Planned
  <2>2. LoopEnd \in Nat /\ LoopEnd <= Len(plan)
    BY <2>1, TailInPlan DEF LoopEnd, Appending
  <2> QED
    BY <1>1, <2>1, <2>2
<1>5. MoveNode(plan[m]) \/ DecodeNode(m)
  BY <1>1, <1>4, NodeNotFaulty DEF ExecuteNode, MiscountNode, CodecFails, Fail
<1> QED
  BY <1>1, <1>2, <1>4, <1>5, MoveNodeLive, DecodeNodeLive

(* Every step keeps the live bytes exact.                                  *)
LEMMA LiveBytesStep ==
  GraphInv /\ LiveBytesExact /\ [Next]_vars => LiveBytesExact'
<1> SUFFICES ASSUME GraphInv, LiveBytesExact, [Next]_vars PROVE LiveBytesExact'
  OBVIOUS
<1>1. CASE ParseNode \/ BeginValidate \/ ValidateSingle \/ ValidateNode
           \/ EndValidate \/ BuildNode
  <2>1. /\ phase \in {"parse", "validate", "build"} /\ phase' # "run"
        /\ live' = live
    BY <1>1 DEF ParseNode, BeginValidate, ValidateSingle, ValidateNode,
                EndValidate, BuildNode, Fail, runtime
  <2> QED
    BY <2>1 DEF LiveBytesExact
<1>2. CASE Finish \/ AppendTail
  <2>1. phase' \in {"done", "failed"}
    BY <1>2 DEF Finish, AppendTail, Fail
  <2> QED
    BY <2>1 DEF LiveBytesExact
<1>3. CASE UNCHANGED vars
  <2>1. UNCHANGED <<stored, regen, slots, live, phase>>
    BY <1>3 DEF vars
  <2>2. LiveTable' = LiveTable /\ Streams' = Streams
    BY <2>1 DEF LiveTable, LiveOf, Bound, Streams
  <2>3. phase = "run" => StreamsTyped' /\ live' = Sum(LiveTable')
    BY <2>1, <2>2, LiveSum DEF LiveBytesExact, StreamsTyped
  <2> QED
    BY <2>1, <2>3, LiveSumNext DEF LiveBytesExact, StreamsTyped
<1> QED
  BY <1>1, <1>2, <1>3, InitSlotsLive, ExecuteNodeLive DEF Next

(* LiveBytes::current (execute/slots.rs) is at all times exactly what the  *)
(* owned streams of the table hold: no path charges a stream twice, or     *)
(* forgets the string lengths a move drops.                                *)
THEOREM LiveBytesCounted == Spec => []LiveBytesExact
<1>1. Init => LiveBytesExact
  BY DEF Init, LiveBytesExact
<1> QED
  BY <1>1, InitInv, GraphInvariant, LiveBytesStep, PTL DEF Spec

-----------------------------------------------------------------------------
(* Depths.                                                                 *)

(* A node the loop accepts lies deeper than its inputs, and its targets    *)
(* are above every input read so far and below no earlier node.            *)
LEMMA ValidateNodeDepths ==
  GraphInv /\ DepthsFollowNodes /\ ValidateNode => DepthsFollowNodes'
<1> SUFFICES ASSUME GraphInv, DepthsFollowNodes, ValidateNode, phase' # "failed"
             PROVE  DepthsFollowNodes'
  BY DEF DepthsFollowNodes
<1> PICK m : m = Len(ends) + 1
  OBVIOUS
<1> PICK n : n = nodes[m].node
  OBVIOUS
<1> PICK end : end = Cursor + InputCount(n)
  OBVIOUS
<1> PICK t : t = Targets(n, end)
  OBVIOUS
<1> PICK d : d = OutputDepth(Cursor, end)
  OBVIOUS
<1>0. /\ TypeOK /\ phase = "validate" /\ Len(nodes) # 1 /\ Len(ends) < Len(nodes)
      /\ Validated
      /\ produced = UNION {ToSet(TargetsOf(i)) : i \in 1 .. Len(ends)}
      /\ Bound \in Nat /\ FirstFinal <= Bound /\ FirstFinal \in Int
  BY TypeFacts DEF GraphInv, ValidateNode, InStep, FirstFinal
<1>1. /\ NodeFits(n, Cursor, produced) /\ d <= MaxGraphDepth
      /\ ends' = Append(ends, end)
      /\ depths' = [s \in Streams |-> IF s \in ToSet(t) THEN d ELSE depths[s]]
      /\ UNCHANGED <<nodes, stored, regen>>
  BY DEF ValidateNode, Fail, chunk
<1>2. Streams' = Streams
  BY <1>1 DEF Streams, Bound
<1>3. /\ m \in 1 .. Len(nodes) /\ Len(ends) \in Nat /\ n \in NodePlan
      /\ Cursor \in Nat /\ end \in Nat /\ Cursor <= end
      /\ Len(ends') = m /\ ends'[m] = end
      /\ \A i \in 1 .. Len(ends) : /\ ends'[i] = ends[i] /\ ends[i] \in Nat
                                   /\ InputStart(i)' = InputStart(i)
                                   /\ InputStart(i) \in Nat
                                   /\ TargetsOf(i)' = TargetsOf(i)
      /\ InputStart(m)' = Cursor /\ TargetsOf(m)' = t
  BY <1>0, <1>1, EndAppended
<1>4. end <= Bound /\ TargetsFree(t, produced)
  <2>1. end <= FirstFinal /\ TargetsFree(t, produced)
    BY <1>1 DEF NodeFits
  <2> QED
    BY <1>0, <1>3, <2>1
<1>5. /\ \A s \in ToSet(t) : s \in Nat /\ s >= end /\ s \notin produced /\ s < Bound
  <2>1. \A s \in ToSet(t) : s \in Nat /\ s >= end
    BY <1>3, TargetsType
  <2>2. \A s \in ToSet(t) : s \notin produced /\ s < Bound
    BY <1>4 DEF TargetsFree, ToSet
  <2> QED
    BY <2>1, <2>2
<1>6. depths \in [Streams -> 0 .. MaxGraphDepth] /\ MaxGraphDepth \in Nat
  BY <1>0, BoundsAssumption DEF DepthsFollowNodes
<1>7. \A s \in Cursor .. end - 1 : s \in Streams
  BY <1>0, <1>3, <1>4 DEF Streams
<1> DEFINE X == {0} \cup {depths[s] : s \in Cursor .. end - 1}
<1>8. d = 1 + Max(X)
  BY DEF OutputDepth
<1>9. X \in SUBSET (0 .. MaxGraphDepth) /\ X # {}
  <2>1. \A s \in Cursor .. end - 1 : depths[s] \in 0 .. MaxGraphDepth
    BY <1>6, <1>7
  <2> QED
    BY <1>6, <2>1
<1>10. \A s \in Cursor .. end - 1 : depths[s] \in X
  OBVIOUS
<1> HIDE DEF X
<1>11. Max(X) \in X /\ \A x \in X : x <= Max(X)
  BY <1>6, <1>9, MaxFacts
<1>12. /\ d \in 1 .. MaxGraphDepth
       /\ \A s \in Cursor .. end - 1 : depths[s] < d
  <2>1. PICK x : x = Max(X)
    OBVIOUS
  <2>2. x \in 0 .. MaxGraphDepth /\ d = 1 + x
    BY <1>8, <1>9, <1>11, <2>1
  <2>3. \A s \in Cursor .. end - 1 : depths[s] <= x /\ depths[s] \in 0 .. MaxGraphDepth
    BY <1>9, <1>10, <1>11, <2>1
  <2> QED
    BY <1>1, <1>6, <2>2, <2>3
<1>13. \A s \in Streams : /\ s \in ToSet(t) => depths'[s] = d
                          /\ s \notin ToSet(t) => depths'[s] = depths[s]
  BY <1>1
<1>14. \A s \in ToSet(t) : s \in Streams
  BY <1>0, <1>5 DEF Streams
<1>15. depths' \in [Streams' -> 0 .. MaxGraphDepth]
  <2>1. ASSUME NEW s \in Streams PROVE depths'[s] \in 0 .. MaxGraphDepth
    BY <1>6, <1>12, <1>13
  <2>2. depths' = [s \in Streams |-> depths'[s]]
    BY <1>1
  <2> QED
    BY <1>2, <2>1, <2>2
<1>16. DepthOf(m, d)'
  <2>1. \A s \in Cursor .. end - 1 : depths'[s] < d
    <3>1. \A s \in Cursor .. end - 1 : s \notin ToSet(t)
      BY <1>3, <1>5
    <3> QED
      BY <1>7, <1>12, <1>13, <3>1
  <2>2. \A s \in ToSet(t) : depths'[s] = d
    BY <1>13, <1>14
  <2> QED
    BY <1>3, <2>1, <2>2 DEF DepthOf
<1>17. ASSUME NEW i \in 1 .. Len(ends) PROVE \E c \in 1 .. MaxGraphDepth : DepthOf(i, c)'
  <2>1. PICK c \in 1 .. MaxGraphDepth : DepthOf(i, c)
    BY <1>0 DEF DepthsFollowNodes
  <2>2. ends[i] <= Cursor
    <3>1. CASE i = Len(ends)
      BY <1>3, <3>1 DEF Cursor, Last
    <3>2. CASE i < Len(ends)
      BY <1>0, <1>3, <3>2 DEF Cursor, Last, Validated
    <3> QED
      BY <1>3, <3>1, <3>2
  <2>3. ASSUME NEW s \in InputStart(i) .. ends[i] - 1 PROVE depths'[s] < c
    <3>1. s \in Streams /\ s < end
      BY <1>0, <1>3, <1>4, <2>2 DEF Streams
    <3>2. s \notin ToSet(t)
      BY <1>3, <1>5, <3>1 DEF Streams
    <3>3. depths[s] < c
      BY <2>1 DEF DepthOf
    <3> QED
      BY <1>13, <3>1, <3>2, <3>3
  <2>4. ASSUME NEW s \in ToSet(TargetsOf(i)) PROVE depths'[s] = c
    <3>1. s \in produced
      BY <1>0
    <3>2. s \in Streams /\ s \notin ToSet(t)
      BY <1>0, <1>5, <3>1 DEF TypeOK
    <3>3. depths[s] = c
      BY <2>1 DEF DepthOf
    <3> QED
      BY <1>13, <3>2, <3>3
  <2>5. DepthOf(i, c)'
    BY <1>3, <2>3, <2>4 DEF DepthOf
  <2> QED
    BY <2>5
<1>18. \A i \in 1 .. Len(ends') : i = m \/ i \in 1 .. Len(ends)
  BY <1>3
<1>19. \A i \in 1 .. Len(ends') : \E c \in 1 .. MaxGraphDepth : DepthOf(i, c)'
  BY <1>12, <1>16, <1>17, <1>18
<1> QED
  BY <1>0, <1>1, <1>15, <1>19 DEF DepthsFollowNodes

(* Every step keeps the depths those of the nodes planned so far.          *)
LEMMA DepthsStep ==
  GraphInv /\ DepthsFollowNodes /\ [Next]_vars => DepthsFollowNodes'
<1> SUFFICES ASSUME GraphInv, DepthsFollowNodes, [Next]_vars
             PROVE  DepthsFollowNodes'
  OBVIOUS
<1>1. CASE ParseNode
  BY <1>1 DEF ParseNode, DepthsFollowNodes
<1>2. CASE BeginValidate
  <2> SUFFICES ASSUME phase' # "failed" PROVE DepthsFollowNodes'
    BY DEF DepthsFollowNodes
  <2>1. /\ depths' = [s \in Streams |-> 0] /\ ends' = ends /\ ends = <<>>
        /\ Streams' = Streams /\ 0 \in 0 .. MaxGraphDepth
    BY <1>2, BoundsAssumption
       DEF BeginValidate, Fail, GraphInv, InStep, chunk, Streams, Bound
  <2>2. depths' \in [Streams' -> 0 .. MaxGraphDepth] /\ Len(ends') = 0
    BY <2>1
  <2> QED
    BY <2>1, <2>2 DEF DepthsFollowNodes
<1>3. CASE ValidateSingle
  <2> SUFFICES ASSUME phase' # "failed" PROVE DepthsFollowNodes'
    BY DEF DepthsFollowNodes
  <2>1. /\ phase = "validate" /\ Len(nodes) = 1 /\ 1 <= MaxGraphDepth
        /\ UNCHANGED <<nodes, depths, stored, regen>>
    BY <1>3 DEF ValidateSingle, SingleNodeFits, Fail, chunk
  <2>2. Streams' = Streams
    BY <2>1 DEF Streams, Bound
  <2> QED
    BY <2>1, <2>2 DEF DepthsFollowNodes
<1>4. ASSUME UNCHANGED <<nodes, stored, regen, ends, depths>>,
             phase' \in {"validate", "build", "run"} =>
                phase \in {"validate", "build", "run"}
      PROVE  DepthsFollowNodes'
  <2>1. Streams' = Streams
    BY <1>4 DEF Streams, Bound
  <2>2. \A i, d : DepthOf(i, d)' <=> DepthOf(i, d)
    BY <1>4 DEF DepthOf, InputStart, TargetsOf
  <2> QED
    BY <1>4, <2>1, <2>2 DEF DepthsFollowNodes
<1>5. CASE EndValidate \/ BuildNode \/ InitSlots \/ ExecuteNode \/ Finish \/ AppendTail
  <2>1. /\ phase \in {"validate", "build", "run"}
        /\ UNCHANGED <<nodes, stored, regen, ends, depths>>
    BY <1>5 DEF EndValidate, BuildNode, InitSlots, ExecuteNode, Finish, AppendTail,
                chunk, validator
  <2> QED
    BY <1>4, <2>1
<1>6. CASE UNCHANGED vars
  BY <1>4, <1>6 DEF vars
<1> QED
  BY <1>1, <1>2, <1>3, <1>5, <1>6, ValidateNodeDepths DEF Next

(* What NodeDepth says of one node, given the depths of those before it.   *)
Feeders(i) == {j \in 1 .. i - 1 :
                 \E s \in NodeInputs(plan[i]) : s \in ToSet(plan[j].targets)}
DepthAt(v, i) == 1 + Max({0} \cup {v[j] : j \in Feeders(i)})
DepthsTo(v, n) == v = [i \in 1 .. n |-> DepthAt(v, i)]

(* The depth of a node depends on earlier nodes only.                      *)
LEMMA DepthReadsBelow ==
  ASSUME NEW i, NEW v, NEW w, \A j \in 1 .. i - 1 : v[j] = w[j]
  PROVE  DepthAt(v, i) = DepthAt(w, i)
<1> DEFINE X == {0} \cup {v[j] : j \in Feeders(i)}
           Y == {0} \cup {w[j] : j \in Feeders(i)}
<1>1. \A j \in Feeders(i) : v[j] = w[j]
  BY DEF Feeders
<1>2. X = Y
  BY <1>1
<1>3. DepthAt(v, i) = 1 + Max(X) /\ DepthAt(w, i) = 1 + Max(Y)
  BY DEF DepthAt
<1> HIDE DEF X, Y
<1> QED
  BY <1>2, <1>3

(* There is a function of depths that the definition chooses.              *)
LEMMA DepthsExist ==
  ASSUME NEW n \in Nat PROVE \E v : DepthsTo(v, n)
<1> DEFINE S == {k \in Nat : \E v : DepthsTo(v, k)}
<1>1. 0 \in S
  <2> DEFINE v == [i \in 1 .. 0 |-> 0]
  <2>1. v = [i \in 1 .. 0 |-> DepthAt(v, i)]
    BY 1 .. 0 = {}
  <2> QED
    BY <2>1 DEF DepthsTo
<1>2. ASSUME NEW k \in Nat, k < n, k \in S PROVE k + 1 \in S
  <2>1. PICK v : DepthsTo(v, k)
    BY <1>2
  <2> DEFINE w == [i \in 1 .. (k + 1) |-> IF i = k + 1 THEN DepthAt(v, k + 1) ELSE v[i]]
  <2>2. \A i \in 1 .. (k + 1) : i = k + 1 \/ i \in 1 .. k
    OBVIOUS
  <2>3. \A i \in 1 .. k : w[i] = v[i] /\ v[i] = DepthAt(v, i)
    BY <2>1 DEF DepthsTo
  <2>4. w[k + 1] = DepthAt(v, k + 1)
    OBVIOUS
  <2>5. w = [i \in 1 .. (k + 1) |-> w[i]]
    OBVIOUS
  <2> HIDE DEF w
  <2>6. ASSUME NEW i \in 1 .. (k + 1) PROVE w[i] = DepthAt(w, i)
    <3>1. \A j \in 1 .. i - 1 : j \in 1 .. k
      OBVIOUS
    <3>2. \A j \in 1 .. i - 1 : v[j] = w[j]
      BY <2>3, <3>1
    <3>3. DepthAt(v, i) = DepthAt(w, i)
      BY <3>2, DepthReadsBelow
    <3> QED
      BY <2>2, <2>3, <2>4, <3>3
  <2>7. w = [i \in 1 .. (k + 1) |-> DepthAt(w, i)]
    BY <2>5, <2>6
  <2>8. DepthsTo(w, k + 1)
    BY <2>7 DEF DepthsTo
  <2> QED
    BY <2>8
<1> HIDE DEF S
<1>3. n \in S
  <2>1. n <= n /\ \A k \in Nat : k < n /\ k \in S => k + 1 \in S
    BY <1>2
  <2> QED
    BY <1>1, <2>1, BoundedInduction
<1> QED
  BY <1>3 DEF S

(* NodeDepth satisfies its defining equation.                              *)
LEMMA NodeDepthSolves ==
  ASSUME Planned
  PROVE  \A i \in 1 .. Len(plan) : NodeDepth[i] = DepthAt(NodeDepth, i)
<1>1. DOMAIN plan = 1 .. Len(plan) /\ Len(plan) \in Nat
  BY ResolvedPlan DEF Planned
<1>2. PICK v : v = [i \in DOMAIN plan |-> DepthAt(v, i)]
  BY <1>1, DepthsExist DEF DepthsTo
<1>3. NodeDepth = CHOOSE depth : depth = [i \in DOMAIN plan |-> DepthAt(depth, i)]
  BY DEF NodeDepth, DepthAt, Feeders
<1>4. NodeDepth = [i \in DOMAIN plan |-> DepthAt(NodeDepth, i)]
  BY <1>2, <1>3
<1> DEFINE N == NodeDepth
<1>5. N = [i \in DOMAIN plan |-> DepthAt(N, i)]
  BY <1>4
<1> HIDE DEF N
<1>6. \A i \in 1 .. Len(plan) : N[i] = DepthAt(N, i)
  BY <1>1, <1>5
<1> QED
  BY <1>6 DEF N

(* A bound on every node that grows along the graph's edges bounds the     *)
(* longest chain of nodes.                                                 *)
LEMMA NodeDepthWithin ==
  ASSUME Planned, NEW c,
         \A i \in 1 .. Len(plan) : /\ c[i] \in 1 .. MaxGraphDepth
                                   /\ \A j \in Feeders(i) : c[j] < c[i]
  PROVE  \A i \in 1 .. Len(plan) : NodeDepth[i] \in 1 .. c[i]
<1> DEFINE n == Len(plan)
           N == NodeDepth
           S == {k \in Nat : \A i \in 1 .. k : N[i] \in 1 .. c[i]}
<1>1. n \in Nat /\ MaxGraphDepth \in Nat
  BY ResolvedPlan, BoundsAssumption DEF Planned
<1>2. \A i \in 1 .. n : N[i] = DepthAt(N, i)
  BY NodeDepthSolves
<1> HIDE DEF N, n
<1>3. 0 \in S
  OBVIOUS
<1>4. ASSUME NEW k \in Nat, k < n, k \in S PROVE k + 1 \in S
  <2> DEFINE i == k + 1
             X == {0} \cup {N[j] : j \in Feeders(i)}
  <2>1. i \in 1 .. n /\ c[i] \in 1 .. MaxGraphDepth
    BY <1>1, <1>4 DEF n
  <2>2. \A j \in Feeders(i) : /\ j \in 1 .. k /\ c[j] < c[i]
                              /\ c[j] \in 1 .. MaxGraphDepth
    <3>1. \A j \in Feeders(i) : j \in 1 .. k
      BY DEF Feeders
    <3>2. \A j \in Feeders(i) : c[j] < c[i]
      BY <2>1 DEF n
    <3>3. \A j \in 1 .. k : c[j] \in 1 .. MaxGraphDepth
      BY <1>1, <1>4 DEF n
    <3> QED
      BY <3>1, <3>2, <3>3
  <2>3. PICK u : u = c[i] - 1
    OBVIOUS
  <2>4. u \in Nat /\ u + 1 = c[i]
    BY <1>1, <2>1, <2>3
  <2>5. ASSUME NEW j \in Feeders(i) PROVE N[j] \in 0 .. u
    <3>1. N[j] \in 1 .. c[j]
      BY <1>4, <2>2
    <3>2. c[j] \in Nat /\ c[j] <= u
      BY <1>1, <2>1, <2>2, <2>3
    <3> QED
      BY <2>4, <3>1, <3>2
  <2>6. X \in SUBSET (0 .. u) /\ X # {}
    BY <2>4, <2>5
  <2>7. N[i] = 1 + Max(X)
    BY <1>2, <2>1 DEF DepthAt
  <2> HIDE DEF X
  <2>8. Max(X) \in 0 .. u
    BY <2>4, <2>6, MaxFacts
  <2>9. N[i] \in 1 .. c[i]
    <3>1. PICK x : x = Max(X)
      OBVIOUS
    <3>2. x \in 0 .. u /\ N[i] = 1 + x
      BY <2>7, <2>8, <3>1
    <3>3. 1 + x \in 1 .. (u + 1)
      BY <2>4, <3>2
    <3> QED
      BY <2>4, <3>2, <3>3
  <2>10. \A j \in 1 .. (k + 1) : j = i \/ j \in 1 .. k
    OBVIOUS
  <2> HIDE DEF i
  <2>11. \A j \in 1 .. (k + 1) : N[j] \in 1 .. c[j]
    BY <1>4, <2>9, <2>10
  <2> QED
    BY <2>11
<1> HIDE DEF S
<1>5. n \in S
  <2>1. n <= n /\ \A k \in Nat : k < n /\ k \in S => k + 1 \in S
    BY <1>1, <1>4
  <2> QED
    BY <1>1, <1>3, <2>1, BoundedInduction
<1> QED
  BY <1>5 DEF S, n, N

(* The depths that were checked are those of the nodes.                    *)
LEMMA DepthsBound == GraphInv /\ DepthsFollowNodes => DepthBounded
<1> SUFFICES ASSUME GraphInv, DepthsFollowNodes, phase = "run",
                    NEW i \in DOMAIN plan
             PROVE  NodeDepth[i] <= MaxGraphDepth
  BY DEF DepthBounded
<1>1. Planned /\ Len(plan) = Len(nodes) /\ Len(ends) = Len(nodes)
  BY PlannedInRun DEF GraphInv, InStep
<1>2. /\ DOMAIN plan = 1 .. Len(plan) /\ Len(plan) \in Nat /\ MaxGraphDepth \in Nat
      /\ \A j \in 1 .. Len(plan) : /\ j \in 1 .. Len(ends)
                                   /\ plan[j].targets = TargetsOf(j)
                                   /\ NodeInputs(plan[j]) = InputStart(j) .. ends[j] - 1
  BY <1>1, ResolvedPlan, BoundsAssumption DEF Planned, NodeInputs
<1>3. CASE Len(nodes) = 1
  <2>1. 1 <= MaxGraphDepth
    BY <1>1, <1>3 DEF DepthsFollowNodes
  <2> DEFINE c == [j \in 1 .. 1 |-> 1]
  <2>2. \A j \in 1 .. Len(plan) : c[j] \in 1 .. MaxGraphDepth /\ Feeders(j) = {}
    BY <1>1, <1>2, <1>3, <2>1 DEF Feeders
  <2> HIDE DEF c
  <2>3. NodeDepth[i] \in 1 .. c[i] /\ c[i] \in 1 .. MaxGraphDepth
    BY <1>1, <1>2, <2>2, NodeDepthWithin
  <2> QED
    BY <1>2, <2>3
<1>4. CASE Len(nodes) # 1
  <2>1. \A j \in 1 .. Len(plan) : \E d \in 1 .. MaxGraphDepth : DepthOf(j, d)
    BY <1>1, <1>2, <1>4 DEF DepthsFollowNodes
  <2> DEFINE c == [j \in 1 .. Len(plan) |->
                     CHOOSE d \in 1 .. MaxGraphDepth : DepthOf(j, d)]
  <2>2. \A j \in 1 .. Len(plan) : c[j] \in 1 .. MaxGraphDepth /\ DepthOf(j, c[j])
    BY <2>1
  <2> HIDE DEF c
  <2>3. ASSUME NEW m \in 1 .. Len(plan), NEW j \in Feeders(m) PROVE c[j] < c[m]
    <3>1. j \in 1 .. Len(plan)
      BY <1>2 DEF Feeders
    <3>2. PICK s \in NodeInputs(plan[m]) : s \in ToSet(plan[j].targets)
      BY DEF Feeders
    <3>3. depths[s] < c[m] /\ depths[s] = c[j]
      BY <1>2, <2>2, <3>1, <3>2 DEF DepthOf
    <3> QED
      BY <3>3
  <2>4. NodeDepth[i] \in 1 .. c[i] /\ c[i] \in 1 .. MaxGraphDepth
    BY <1>1, <1>2, <2>2, <2>3, NodeDepthWithin
  <2> QED
    BY <1>2, <2>4
<1> QED
  BY <1>3, <1>4

(* The longest chain of nodes in a graph validate.rs accepts is at most    *)
(* max_graph_depth: the one number it keeps per stream is enough.          *)
THEOREM DepthStaysBounded == Spec => []DepthBounded
<1>1. Init => DepthsFollowNodes
  BY DEF Init, DepthsFollowNodes
<1>2. Spec => []DepthsFollowNodes
  BY <1>1, GraphInvariant, DepthsStep, PTL DEF Spec
<1> QED
  BY <1>2, GraphInvariant, DepthsBound, PTL
=============================================================================
