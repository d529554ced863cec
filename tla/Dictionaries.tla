---------------------------- MODULE Dictionaries ----------------------------
(***************************************************************************)
(* The dictionary store of a Decoder (dict.rs), the provider it asks on    *)
(* demand (lib.rs, provider.rs), and the zstd nodes that use dictionaries  *)
(* (execute/codecs/zstd.rs).                                               *)
(*                                                                         *)
(* A loaded dictionary waits in `dict` until a node first uses it; then it *)
(* moves into `context`, the decompressor built around it.                 *)
(***************************************************************************)
EXTENDS Integers, Sequences, SequencesExt

CONSTANTS
  Ids,              \* bundle IDs of 32 bytes
  ShortIds,         \* what a frame may name that is no 32-byte ID
  Dicts,            \* what dictionaries hold
  Bundles,          \* the byte strings a caller or a provider may hand over
  Frames,           \* the frames that get past the parser
  None,
  MaxDictionaries,      \* Limits::max_dictionaries
  MaxDictionaryBytes,   \* Limits::max_dictionary_bytes
  MaxDictsPerBundle     \* MAX_DICTS_PER_BUNDLE

(* An encoded bundle: what its magic, ID and flag read as, its ID, size,   *)
(* dictionaries (each sound or failing in its own way; one that is missing *)
(* is "Truncated"), and whether bytes follow the last.                     *)
Bundle == [header : {"Ok", "Truncated", "Malformed", "Unsupported"},
           id : Ids, bytes : Nat,
           dicts : Seq([verdict : {"Ok", "Truncated", "Malformed", "Unsupported"},
                        dict : Dicts]),
           trailing : BOOLEAN]

(* The bundle a frame names, and its zstd nodes in the order they run: a   *)
(* node names a dictionary or none.                                        *)
Frame == [names : Ids \cup ShortIds \cup {None}, nodes : Seq(Nat \cup {None})]

ASSUME DictionaryAssumption ==
  /\ {MaxDictionaries, MaxDictionaryBytes, MaxDictsPerBundle} \subseteq Nat
  /\ Bundles \subseteq Bundle /\ Frames \subseteq Frame
  /\ Ids \cap ShortIds = {} /\ None \notin Ids \cup ShortIds \cup Dicts \cup Nat

VARIABLES
  bundles,     \* DictionaryStore::bundles
  provider,    \* whether the decoder has a provider
  phase,       \* idle, asking or decoding
  frame,       \* the frame of the decode under way
  node,        \* the node it has come to
  used,        \* what its nodes were given
  result,      \* of the last call
  given,       \* history: the bundle the last step took into the store
  supplied     \* history: IDs the provider gave since they were last cleared

vars == <<bundles, provider, phase, frame, node, used, result, given, supplied>>

NoFrame == [names |-> None, nodes |-> <<>>]

Init ==
  /\ bundles = <<>> /\ provider = FALSE /\ phase = "idle" /\ frame = NoFrame
  /\ node = 1 /\ used = <<>> /\ result = "none"
  /\ given = <<>> /\ supplied = {}
-----------------------------------------------------------------------------
At(store, id)             == {i \in DOMAIN store : store[i].id = id}
ContainsBundle(store, id) == At(store, id) # {}

(* Iterator::find: the first bundle with this ID.                          *)
Position(store, id) ==
  CHOOSE i \in At(store, id) : \A j \in At(store, id) : i <= j

(* A bundle with the same ID is replaced, so it does not count.            *)
OthersMutant(id) == {}
Others(id) == {i \in DOMAIN bundles : bundles[i].id # id}

(* What the bundles at these places hold together.                         *)
DictsAt(places) ==
  FoldLeft(+, 0, [i \in DOMAIN bundles |->
                    IF i \in places THEN Len(bundles[i].dicts) ELSE 0])
BytesAt(places) ==
  FoldLeft(+, 0, [i \in DOMAIN bundles |->
                    IF i \in places THEN bundles[i].bytes ELSE 0])

DictTotal(b) == Len(b.dicts) + DictsAt(Others(b.id))
ByteTotal(b) == b.bytes + BytesAt(Others(b.id))

Unsound(b) == {i \in DOMAIN b.dicts : b.dicts[i].verdict # "Ok"}

(* parse_fat_bundle: the limits are checked before any dictionary is read. *)
ParseError(b) ==
  IF b.header # "Ok" THEN b.header
  ELSE IF Len(b.dicts) > MaxDictsPerBundle THEN "Malformed"
  ELSE IF DictTotal(b) > MaxDictionaries THEN "LimitExceeded"
  ELSE IF ByteTotal(b) > MaxDictionaryBytes THEN "LimitExceeded"
  ELSE IF Unsound(b) # {}
       THEN b.dicts[CHOOSE i \in Unsound(b) : \A j \in Unsound(b) : i <= j].verdict
  ELSE IF b.trailing THEN "Malformed"
  ELSE "Ok"

Parsed(b) ==
  [id |-> b.id, bytes |-> b.bytes,
   dicts |-> [i \in DOMAIN b.dicts |-> [dict |-> b.dicts[i].dict, context |-> None]]]

Given(b) == <<b.id, [i \in DOMAIN b.dicts |-> b.dicts[i].dict]>>

(* DictionaryStore::insert.                                                *)
InsertMutant(store, b) == Append(store, b)
Insert(store, b) ==
  IF ContainsBundle(store, b.id) THEN [store EXCEPT ![Position(store, b.id)] = b]
  ELSE Append(store, b)
-----------------------------------------------------------------------------
(* load_dictionary_bundle; memory may also run out.                        *)
Load(b) ==
  /\ phase = "idle"
  /\ \/ /\ ParseError(b) = "Ok"
        /\ bundles' = Insert(bundles, Parsed(b)) /\ result' = "Loaded"
        /\ given' = Given(b)
     \/ /\ result' \in {ParseError(b), "AllocationFailed"} \ {"Ok"}
        /\ given' = <<>>
        /\ UNCHANGED bundles
  /\ UNCHANGED <<provider, phase, frame, node, used, supplied>>

ClearBundles ==
  /\ phase = "idle"
  /\ bundles' = <<>> /\ supplied' = {} /\ result' = "none" /\ given' = <<>>
  /\ UNCHANGED <<provider, phase, frame, node, used>>

(* Bundles an earlier provider supplied stay loaded.                       *)
SetProvider(on) ==
  /\ phase = "idle"
  /\ provider' = on /\ result' = "none" /\ given' = <<>>
  /\ UNCHANGED <<bundles, phase, frame, node, used, supplied>>

(* The head of decode_into, decode_chunks and decode_outputs_into after    *)
(* the frame is parsed: fetch_dictionary_bundle up to the provider's call. *)
AsksMutant(f) == provider /\ f.names # None
Asks(f) == provider /\ f.names # None /\ ~ContainsBundle(bundles, f.names)

Decode(f) ==
  /\ phase = "idle"
  /\ frame' = f /\ node' = 1 /\ used' = <<>> /\ result' = "pending"
  /\ given' = <<>>
  /\ phase' = IF ~Asks(f) THEN "decoding"
              ELSE IF f.names \in Ids THEN "asking" ELSE "failed"
  /\ UNCHANGED <<bundles, provider, supplied>>

(* Every decode ends here; what it was about is forgotten.                 *)
End(kind) ==
  /\ result' = kind /\ phase' = "idle" /\ given' = <<>>
  /\ frame' = NoFrame /\ node' = 1 /\ used' = <<>>
  /\ UNCHANGED <<bundles, provider, supplied>>

(* A named ID of another length is refused before the provider is asked.   *)
RefuseName == phase = "failed" /\ End("Malformed")

(* The provider answers with an error, or has no such bundle; the decode   *)
(* then goes on without it.                                                *)
ProviderFails == phase = "asking" /\ End("provider")
ProviderHasNone ==
  /\ phase = "asking" /\ phase' = "decoding" /\ given' = <<>>
  /\ UNCHANGED <<bundles, provider, frame, node, used, result, supplied>>

(* load_provided_bundle: a bundle with another ID is refused.              *)
ProviderSuppliesMutant(b) ==
  /\ phase = "asking" /\ ParseError(b) = "Ok"
  /\ bundles' = Insert(bundles, Parsed(b)) /\ supplied' = supplied \cup {b.id}
  /\ phase' = "decoding" /\ given' = Given(b)
  /\ UNCHANGED <<provider, frame, node, used, result>>
ProviderSupplies(b) ==
  /\ phase = "asking" /\ ParseError(b) = "Ok" /\ b.id = frame.names
  /\ bundles' = Insert(bundles, Parsed(b)) /\ supplied' = supplied \cup {b.id}
  /\ phase' = "decoding" /\ given' = Given(b)
  /\ UNCHANGED <<provider, frame, node, used, result>>

ProvidedBundleFails(b) ==
  /\ phase = "asking"
  /\ \E kind \in {"AllocationFailed",
                  IF ParseError(b) = "Ok" /\ b.id # frame.names
                  THEN "Malformed" ELSE ParseError(b)} \ {"Ok"} : End(kind)
-----------------------------------------------------------------------------
Current == frame.nodes[node]

(* zstd_context: why a node gets no dictionary.                            *)
ContextError ==
  IF frame.names = None \/ frame.names \in ShortIds THEN "Malformed"
  ELSE IF ~ContainsBundle(bundles, frame.names) THEN "Unsupported"
  ELSE IF Current + 1 \notin DOMAIN bundles[Position(bundles, frame.names)].dicts
       THEN "Unsupported"
  ELSE "Ok"

(* Option::take moves the dictionary into its context on the first use.    *)
CloneMutant(d) == IF d.dict = None THEN d ELSE [d EXCEPT !.context = d.dict]
Built(d) == IF d.dict = None THEN d ELSE [dict |-> None, context |-> d.dict]

(* A zstd node that names a dictionary.                                    *)
UseDictionary ==
  /\ phase = "decoding" /\ node \in DOMAIN frame.nodes /\ Current # None
  /\ ContextError = "Ok"
  /\ LET p == Position(bundles, frame.names)
         d == Built(bundles[p].dicts[Current + 1])
     IN  /\ bundles' = [bundles EXCEPT ![p].dicts[Current + 1] = d]
         /\ used' = Append(used, [id |-> frame.names, index |-> Current,
                                  dict |-> d.context])
  /\ node' = node + 1 /\ given' = <<>>
  /\ UNCHANGED <<provider, phase, frame, result, supplied>>

MissDictionary ==
  /\ phase = "decoding" /\ node \in DOMAIN frame.nodes /\ Current # None
  /\ ContextError # "Ok" /\ End(ContextError)

(* A node without a dictionary; it may fail, like every node.              *)
RunPlainNode ==
  /\ phase = "decoding" /\ node \in DOMAIN frame.nodes /\ Current = None
  /\ node' = node + 1 /\ given' = <<>>
  /\ UNCHANGED <<bundles, provider, phase, frame, used, result, supplied>>

NodeFails == phase = "decoding" /\ End("node")

Finish ==
  /\ phase = "decoding" /\ node \notin DOMAIN frame.nodes
  /\ End("Ok")
-----------------------------------------------------------------------------
Next ==
  \/ \E b \in Bundles : Load(b) \/ ProviderSupplies(b) \/ ProvidedBundleFails(b)
  \/ \E on \in BOOLEAN : SetProvider(on)
  \/ \E f \in Frames : Decode(f)
  \/ ClearBundles \/ RefuseName \/ ProviderFails \/ ProviderHasNone
  \/ UseDictionary \/ MissDictionary \/ RunPlainNode \/ NodeFails \/ Finish

Spec == Init /\ [][Next]_vars
-----------------------------------------------------------------------------
LoadedDict == [dict : Dicts \cup {None}, context : Dicts \cup {None}]
LoadedBundle == [id : Ids, bytes : Nat, dicts : Seq(LoadedDict)]

(* Every variable has the type its field has in the code.                  *)
TypeOK ==
  /\ bundles \in Seq(LoadedBundle) /\ provider \in BOOLEAN
  /\ phase \in {"idle", "asking", "failed", "decoding"}
  /\ frame \in Frames \cup {NoFrame} /\ node \in Nat \ {0} /\ supplied \subseteq Ids
  /\ used \in Seq([id : Ids, index : Nat, dict : Dicts])

(* insert keeps one bundle for each ID, so a lookup by ID and a            *)
(* replacement by ID can never mean two bundles.                           *)
IdsDistinct ==
  \A i, j \in DOMAIN bundles : bundles[i].id = bundles[j].id => i = j

(* A loaded dictionary waits or is in its context, never both and never    *)
(* neither: the error "dictionary context is missing" cannot happen.       *)
DictionaryInOnePlace ==
  \A i \in DOMAIN bundles : \A k \in DOMAIN bundles[i].dicts :
    LET d == bundles[i].dicts[k]
    IN  d.dict = None <=> d.context # None

(* Limits::max_dictionaries and max_dictionary_bytes bound all loaded      *)
(* bundles together, whatever was replaced, supplied or refused.           *)
WithinLimits ==
  /\ DictsAt(DOMAIN bundles) <= MaxDictionaries
  /\ BytesAt(DOMAIN bundles) <= MaxDictionaryBytes

(* The provider is asked for a bundle once until clear_dictionary_bundles: *)
(* never again for one it has supplied, through all loads in between.      *)
AsksOnce == phase = "asking" => frame.names \notin supplied

IdsIn(store) == {store[i].id : i \in DOMAIN store}
LoadedIds == IdsIn(bundles)

(* While a decode runs, the only bundle that may join the store is the one *)
(* its frame names, and none leaves it.                                    *)
DecodeLoadsOnlyNamed ==
  [][phase # "idle" =>
       LoadedIds \subseteq LoadedIds' /\ LoadedIds' \subseteq LoadedIds \cup {frame.names}]_vars

Contents(b) == [k \in DOMAIN b.dicts |->
                  IF b.dicts[k].dict # None THEN b.dicts[k].dict ELSE b.dicts[k].context]

MapOf(store) == [id \in IdsIn(store) |-> Contents(store[Position(store, id)])]

Named(f) == {f.nodes[k] : k \in DOMAIN f.nodes} \ {None}

DMap == INSTANCE DictionaryMap WITH
          Holdings <- {Given(b)[2] : b \in Bundles},
          Indices  <- UNION {Named(f) : f \in Frames},
          map      <- MapOf(bundles),
          served   <- used,
          outcome  <- result

(* The store with its contexts built on demand is a map from IDs to        *)
(* dictionaries: nodes get what was loaded last under the ID.              *)
ImplementsDictionaryMap == DMap!Spec

(* The inductive invariant.                                                *)
StoreInv ==
  /\ TypeOK /\ IdsDistinct /\ DictionaryInOnePlace /\ supplied \subseteq LoadedIds
  /\ phase = "asking" => frame.names \in Ids \ LoadedIds
  /\ IF phase = "idle" THEN used = <<>> ELSE result = "pending"
=============================================================================
