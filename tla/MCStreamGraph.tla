--------------------------- MODULE MCStreamGraph ---------------------------
(* Small instances of StreamGraph for TLC.                                 *)
EXTENDS StreamGraph

Node(id, v, d) ==
  [id |-> id, vars |-> v, dists |-> d, dict |-> FALSE]

OneOut(id, vs, ds) == {Node(id, v, <<d>>) : v \in vs, d \in ds}

(* Three-node graphs: conversions, a codec, splitn, split_by_struct and a  *)
(* string codec in every arrangement of streams.                           *)
TailPlans ==
  OneOut("convert_struct_to_serial", {0}, 0 .. 1) \cup
  OneOut("convert_string_to_serial", {0}, 0 .. 1) \cup
  OneOut("zstd", {0}, 0 .. 1) \cup
  OneOut("splitn", 1 .. 2, 0 .. 1) \cup
  OneOut("split_by_struct", {1, 2}, 0 .. 1) \cup
  OneOut("dispatch_string", {0}, 0 .. 1)

(* Graphs with fan-out, joins, empty nodes and every malformed node:       *)
(* unknown ids, unexpected variable inputs, too few or too many outputs,   *)
(* repeated targets, a dictionary where none is allowed; deep enough for   *)
(* the depth limit.  interleave_string gets its strings from parse_int and *)
(* its header may name another number of outputs than the graph.           *)
ShapePlans ==
  UNION {OneOut("zstd", {0}, 0 .. 2), OneOut("zstd", {1}, {0}),
         OneOut("splitn", 0 .. 2, 0 .. 2),
         OneOut("tokenize_fixed", {0}, 0 .. 2),
         {Node("dedup_num", 0, d) : d \in {<<>>, <<0, 1, 2>>} \cup [1 .. 2 -> 0 .. 2]},
         {Node("mux_lengths", 0, d) : d \in {<<0>>, <<0, 1>>, <<1, 1>>, <<2, 0>>}},
         OneOut("parse_int", {0}, {0}),
         {Node("interleave_string", 0, d) : d \in {<<0>>, <<0, 1>>}},
         {Node("convert_serial_to_struct", 0, <<0, 1>>), Node("custom", 0, <<0>>)},
         {[id |-> id, vars |-> 0, dists |-> <<0>>, dict |-> TRUE] :
            id \in {"zstd", "bitunpack"}}}

(* Chains and joins for the live bytes.                                    *)
ChainPlans ==
  OneOut("zstd", {0}, 0 .. 2) \cup OneOut("tokenize_fixed", {0}, 0 .. 2) \cup
  {Node("dedup_num", 0, <<0, 1>>), Node("dedup_num", 0, <<1, 0>>)}

(* splitn and dedup_num take their outputs' bytes from their inputs.       *)
OutLenBy ==
  [id \in StandardNodes |->
     CASE id \in {"zstd", "split_by_struct"} -> 2 [] OTHER -> 1]
=============================================================================
