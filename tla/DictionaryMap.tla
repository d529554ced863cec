---------------------------- MODULE DictionaryMap ----------------------------
(***************************************************************************)
(* What a decoder promises about dictionaries (lib.rs): the loaded bundles *)
(* are a map from IDs to dictionaries, a load that fails leaves the map as *)
(* it was, and a node that names a bundle and an index is served that      *)
(* dictionary as it was loaded last, however often it was used before.     *)
(***************************************************************************)
EXTENDS Naturals, Sequences

CONSTANTS
  Ids,
  Holdings,   \* what bundles may hold: sequences of dictionaries
  Indices

VARIABLES
  map,        \* the loaded bundles: ID -> sequence of dictionaries
  given,      \* the bundle the last step took, <<id, dictionaries>>, or <<>>
  served,     \* [id, index, dict] for each use by the call under way
  outcome     \* of the last call: "pending", "Loaded", "Ok" or an error

vars == <<map, given, served, outcome>>

Init == map = <<>> /\ given = <<>> /\ served = <<>> /\ outcome = "none"

(* A bundle becomes or replaces the one of its ID.                         *)
Put(id, dicts) ==
  /\ map' = [i \in DOMAIN map \cup {id} |-> IF i = id THEN dicts ELSE map[i]]
  /\ given' = <<id, dicts>>
  /\ outcome' \in {"Loaded", "pending"}
  /\ UNCHANGED served

Forget == map' = <<>> /\ given' = <<>> /\ outcome' = "none" /\ UNCHANGED served

Begin == /\ outcome' = "pending" /\ served' = <<>> /\ given' = <<>>
         /\ UNCHANGED map

Serve(id, index) ==
  /\ outcome = "pending" /\ id \in DOMAIN map /\ index + 1 \in DOMAIN map[id]
  /\ served' = Append(served, [id |-> id, index |-> index,
                               dict |-> map[id][index + 1]])
  /\ given' = <<>>
  /\ UNCHANGED <<map, outcome>>

(* A call goes on without a change, or ends, and leaves the map alone.     *)
Proceed == given' = <<>> /\ UNCHANGED <<map, served, outcome>>

End ==
  /\ outcome' \notin {"pending", "Loaded"} /\ given' = <<>> /\ served' = <<>>
  /\ UNCHANGED map

Next ==
  \/ \E id \in Ids, dicts \in Holdings : Put(id, dicts)
  \/ Forget \/ Begin \/ Proceed \/ End
  \/ \E id \in Ids, index \in Indices : Serve(id, index)

Spec == Init /\ [][Next]_vars
=============================================================================
