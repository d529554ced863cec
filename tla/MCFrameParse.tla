---------------------------- MODULE MCFrameParse ----------------------------
(***************************************************************************)
(* Small instances of FrameParse for TLC: what the fields of an input say. *)
(***************************************************************************)
EXTENDS FrameParse

Node(id, size, regens, dict, plain) ==
  [id |-> id, header |-> size, regens |-> regens, dict |-> dict, plain |-> plain]

(* "new" appeared with v20; "custom" stands for every node no version has. *)
Ids == [id \in {"zstd", "new"} |-> IF id = "zstd" THEN 8 .. 27 ELSE 20 .. 27]

PlainZstd == Node("zstd", 0, 1, {}, TRUE)

(* One node that differs from a plain zstd node in each of its fields.     *)
AnyNode == {PlainZstd, Node("zstd", 1, 1, {}, TRUE), Node("zstd", 0, 4, {}, TRUE),
            Node("zstd", 0, 1, {}, FALSE), Node("zstd", 0, 1, {1}, TRUE),
            Node("zstd", 0, 1, {2}, TRUE), Node("new", 0, 1, {}, TRUE),
            Node("custom", 0, 1, {}, TRUE), Node("new", 4, 3, {}, FALSE)}

TwoNodes == {Node("new", 2, 1, {}, FALSE), Node("zstd", 1, 2, {}, TRUE)}

Lists == {<<>>, <<"Serial">>, <<"String">>, <<"Numeric">>, <<"String", "Serial">>,
          <<"Serial", "Serial", "Serial", "Serial">>}

OneFlag == {{}, {"decoded"}, {"encoded"}, {"bundle"}, {"comment"}}

(* Headers of every kind, over the version gates 8, 14, 15, 21 and 25; one *)
(* chunk of at most one node, away from a single zstd node in one field.   *)
OneNode ==
  [flags |-> OneFlag, types |-> Lists, size |-> {0, 1, 4}, strings |-> {2},
   comment |-> {0, 1, 4}, nodes |-> {0, 1}, streams |-> {1, 2},
   graph |-> AnyNode, stored |-> {1, 2, 3}]

(* One serial output; chunks of several nodes and streams, under the rules *)
(* for checksums before v21 and since.                                     *)
Chunks ==
  [flags |-> {{"encoded"}, {"decoded", "encoded"}}, types |-> {<<"Serial">>},
   size |-> {1}, strings |-> {2}, comment |-> {1}, nodes |-> {0, 1, 2, 257},
   streams |-> {0, 2}, graph |-> TwoNodes, stored |-> {0, 2}]

(* After the first chunk only a plain node follows in the first family.    *)
AllVersions == {7, 14, 15, 16, 21, 22, 25}
AllValues ==
  [x \in AllVersions \X {"first", "later"} |->
     IF x[1] \in {16, 22} THEN Chunks
     ELSE IF x[2] = "later" THEN [OneNode EXCEPT !.graph = {PlainZstd}, !.stored = {1}] ELSE OneNode]
=============================================================================
