------------------------- MODULE DictionariesProofs -------------------------
(***************************************************************************)
(* Proofs about Dictionaries for every set of bundles, frames and limits:  *)
(* the store keeps one bundle for each ID and every dictionary in one      *)
(* place, the provider is never asked for what it has supplied, the store  *)
(* implements a map from IDs to dictionaries, and all bundles together     *)
(* stay within the limits.                                                 *)
(*                                                                         *)
(* The first rest on what inserting a bundle and building a context do to  *)
(* the store as a map (InsertIsPut, BuildKeepsMap), the last on what they  *)
(* do to the sums over its bundles (InsertWeighs, UseWeighs).              *)
(***************************************************************************)
EXTENDS Dictionaries, DataInduction

InOnePlace(b) ==
  \A k \in DOMAIN b.dicts : b.dicts[k].dict = None <=> b.dicts[k].context # None

Good(store) ==
  /\ store \in Seq(LoadedBundle)
  /\ \A i, j \in DOMAIN store : store[i].id = store[j].id => i = j
  /\ \A i \in DOMAIN store : InOnePlace(store[i])

(* The store after a bundle is put at position p.                          *)
PutAt(store, p, b, after) ==
  /\ p \in DOMAIN after /\ after[p] = b
  /\ \A i \in DOMAIN after \ {p} :
       i \in DOMAIN store /\ after[i] = store[i] /\ store[i].id # b.id
  /\ \A i \in DOMAIN store :
       i \in DOMAIN after /\ (i = p => store[i].id = b.id)
-----------------------------------------------------------------------------
(* With distinct IDs, a lookup finds the bundle of that ID.                *)
LEMMA UniquePosition ==
  ASSUME NEW store, Good(store), NEW i \in DOMAIN store
  PROVE  /\ Position(store, store[i].id) = i
         /\ At(store, store[i].id) = {i}
<1>1. At(store, store[i].id) = {i} BY DEF At, Good
<1>2. i \in Nat BY DEF Good
<1> QED BY <1>1, <1>2 DEF Position

(* The store as a map, bundle by bundle.                                   *)
LEMMA MapAt ==
  ASSUME NEW store, Good(store)
  PROVE  /\ DOMAIN MapOf(store) = IdsIn(store)
         /\ \A i \in DOMAIN store :
              MapOf(store)[store[i].id] = Contents(store[i])
<1>1. \A i \in DOMAIN store : store[i].id \in IdsIn(store) BY DEF IdsIn
<1>2. \A i \in DOMAIN store : Position(store, store[i].id) = i
  BY UniquePosition
<1> QED BY <1>1, <1>2 DEF MapOf

(* Two stores of the same IDs and contents are the same map.               *)
LEMMA SameMap ==
  ASSUME NEW store, NEW f, Good(store),
         f = [id \in IdsIn(store) |-> f[id]],
         \A i \in DOMAIN store : f[store[i].id] = Contents(store[i])
  PROVE  MapOf(store) = f
<1>1. \A id \in IdsIn(store) : MapOf(store)[id] = f[id]
  <2> SUFFICES ASSUME NEW id \in IdsIn(store) PROVE MapOf(store)[id] = f[id]
    OBVIOUS
  <2>1. PICK i \in DOMAIN store : store[i].id = id BY DEF IdsIn
  <2>2. MapOf(store)[id] = Contents(store[i]) BY <2>1, MapAt
  <2> QED BY <2>1, <2>2
<1>2. MapOf(store) = [id \in IdsIn(store) |-> MapOf(store)[id]] BY DEF MapOf
<1> QED BY <1>1, <1>2

(* insert puts the bundle at the position of its ID, or at the end.        *)
LEMMA InsertPuts ==
  ASSUME NEW store, Good(store), NEW b \in LoadedBundle
  PROVE  /\ Insert(store, b) \in Seq(LoadedBundle)
         /\ \E p : PutAt(store, p, b, Insert(store, b))
<1>0. store \in Seq(LoadedBundle) /\ DOMAIN store = 1 .. Len(store)
  BY DEF Good
<1>1. CASE ContainsBundle(store, b.id)
  <2>1. PICK p \in DOMAIN store : store[p].id = b.id
    BY <1>1 DEF ContainsBundle, At
  <2>2. Position(store, b.id) = p /\ At(store, b.id) = {p}
    BY <2>1, UniquePosition
  <2>3. Insert(store, b) = [store EXCEPT ![p] = b]
    BY <1>1, <2>2 DEF Insert
  <2>4. Insert(store, b) \in Seq(LoadedBundle)
    BY <1>0, <2>1, <2>3, ExceptSeq
  <2>5. PutAt(store, p, b, Insert(store, b))
    BY <1>0, <2>1, <2>2, <2>3 DEF PutAt, At
  <2> QED BY <2>4, <2>5
<1>2. CASE ~ContainsBundle(store, b.id)
  <2>1. Insert(store, b) = Append(store, b) BY <1>2 DEF Insert
  <2>2. /\ Insert(store, b) \in Seq(LoadedBundle)
        /\ Len(Insert(store, b)) = Len(store) + 1
        /\ \A i \in 1 .. Len(store) : Insert(store, b)[i] = store[i]
        /\ Insert(store, b)[Len(store) + 1] = b
    BY <1>0, <2>1, AppendProperties
  <2>3. \A i \in DOMAIN store : store[i].id # b.id
    BY <1>2 DEF ContainsBundle, At
  <2>4. DOMAIN Insert(store, b) = 1 .. Len(store) + 1 BY <2>2
  <2>5. PutAt(store, Len(store) + 1, b, Insert(store, b))
    BY <1>0, <2>2, <2>3, <2>4 DEF PutAt
  <2> QED BY <2>2, <2>5
<1> QED BY <1>1, <1>2

(* Inserting a bundle puts it into the map, and keeps the store good.      *)
LEMMA InsertIsPut ==
  ASSUME NEW store, Good(store), NEW b \in LoadedBundle, InOnePlace(b)
  PROVE  /\ Good(Insert(store, b))
         /\ IdsIn(Insert(store, b)) = IdsIn(store) \cup {b.id}
         /\ MapOf(Insert(store, b)) =
              [id \in IdsIn(store) \cup {b.id} |->
                 IF id = b.id THEN Contents(b) ELSE MapOf(store)[id]]
<1> DEFINE after == Insert(store, b)
           f == [id \in IdsIn(store) \cup {b.id} |->
                   IF id = b.id THEN Contents(b) ELSE MapOf(store)[id]]
<1>1. after \in Seq(LoadedBundle) BY InsertPuts
<1>2. PICK p : PutAt(store, p, b, after) BY InsertPuts
<1> HIDE DEF after
<1>3. Good(after) BY <1>1, <1>2 DEF Good, PutAt
<1>4. IdsIn(after) = IdsIn(store) \cup {b.id}
  <2>1. \A i \in DOMAIN after : after[i].id \in IdsIn(store) \cup {b.id}
    BY <1>2 DEF PutAt, IdsIn
  <2>2. \A i \in DOMAIN store : store[i].id \in IdsIn(after)
    <3> SUFFICES ASSUME NEW i \in DOMAIN store
                 PROVE  \E j \in DOMAIN after : after[j].id = store[i].id
      BY DEF IdsIn
    <3>1. CASE i = p BY <1>2, <3>1 DEF PutAt
    <3>2. CASE i # p BY <1>2, <3>2 DEF PutAt
    <3> QED BY <3>1, <3>2
  <2>3. b.id \in IdsIn(after) BY <1>2 DEF PutAt, IdsIn
  <2> QED BY <2>1, <2>2, <2>3 DEF IdsIn
<1>5. \A i \in DOMAIN after : f[after[i].id] = Contents(after[i])
  <2> SUFFICES ASSUME NEW i \in DOMAIN after
               PROVE  f[after[i].id] = Contents(after[i])
    OBVIOUS
  <2>1. CASE i = p BY <1>2, <2>1 DEF PutAt
  <2>2. CASE i # p
    <3>1. i \in DOMAIN store /\ after[i] = store[i] /\ store[i].id # b.id
      BY <1>2, <2>2 DEF PutAt
    <3>2. MapOf(store)[store[i].id] = Contents(store[i]) BY <3>1, MapAt
    <3>3. store[i].id \in IdsIn(store) BY <3>1 DEF IdsIn
    <3> QED BY <3>1, <3>2, <3>3
  <2> QED BY <2>1, <2>2
<1>6. f = [id \in IdsIn(after) |-> f[id]] BY <1>4
<1> HIDE DEF f
<1>7. MapOf(after) = f BY <1>3, <1>5, <1>6, SameMap
<1> QED BY <1>3, <1>4, <1>7 DEF f, after

(* A parsed bundle holds every dictionary it was given, none built yet.    *)
LEMMA ParsedIsGiven ==
  ASSUME NEW b \in Bundles
  PROVE  /\ Parsed(b) \in LoadedBundle /\ Parsed(b).id = b.id /\ b.id \in Ids
         /\ InOnePlace(Parsed(b))
         /\ Contents(Parsed(b)) = Given(b)[2] /\ Given(b)[1] = b.id
<1>1. b \in Bundle BY DictionaryAssumption
<1> DEFINE Encoded == [verdict : {"Ok", "Truncated", "Malformed", "Unsupported"},
                       dict : Dicts]
<1>2. b.id \in Ids /\ b.bytes \in Nat /\ b.dicts \in Seq(Encoded)
  BY <1>1 DEF Bundle
<1>3. \A k \in DOMAIN b.dicts : b.dicts[k].dict \in Dicts
  <2>1. \A k \in 1 .. Len(b.dicts) : b.dicts[k] \in Encoded
    <3> HIDE DEF Encoded
    <3> QED BY <1>2, ElementOfSeq
  <2> QED BY <1>2, <2>1
<1>4. None \notin Dicts BY DictionaryAssumption
<1> DEFINE d == [k \in DOMAIN b.dicts |-> [dict |-> b.dicts[k].dict, context |-> None]]
<1>5. d \in Seq(LoadedDict)
  <2>1. DOMAIN b.dicts = 1 .. Len(b.dicts) /\ Len(b.dicts) \in Nat BY <1>2
  <2>2. \A k \in 1 .. Len(b.dicts) : d[k] \in LoadedDict
    BY <1>3, <2>1 DEF LoadedDict
  <2>3. d = [k \in 1 .. Len(b.dicts) |-> d[k]] BY <2>1
  <2> HIDE DEF d
  <2> QED BY <2>1, <2>2, <2>3, IsASeq
<1>6. Parsed(b) = [id |-> b.id, bytes |-> b.bytes, dicts |-> d] BY DEF Parsed
<1>7. DOMAIN d = DOMAIN b.dicts
      /\ \A k \in DOMAIN d : d[k].dict = b.dicts[k].dict /\ d[k].context = None
  OBVIOUS
<1>8. /\ DOMAIN Parsed(b).dicts = DOMAIN b.dicts
      /\ \A k \in DOMAIN b.dicts : /\ Parsed(b).dicts[k].dict = b.dicts[k].dict
                                   /\ Parsed(b).dicts[k].context = None
                                   /\ b.dicts[k].dict # None
  BY <1>3, <1>4, <1>6, <1>7
<1> HIDE DEF d
<1>9. Parsed(b) \in LoadedBundle /\ Parsed(b).id = b.id
  BY <1>2, <1>5, <1>6 DEF LoadedBundle
<1>10. InOnePlace(Parsed(b)) BY <1>8 DEF InOnePlace
<1>11. Contents(Parsed(b)) = [k \in DOMAIN b.dicts |-> b.dicts[k].dict]
  BY <1>8 DEF Contents
<1> QED BY <1>2, <1>9, <1>10, <1>11 DEF Given

(* Building a context moves the dictionary and changes nothing else; what  *)
(* a node is given is what the bundle holds at its index.                  *)
LEMMA BuildKeepsMap ==
  ASSUME NEW store, Good(store), NEW p \in DOMAIN store,
         NEW k \in DOMAIN store[p].dicts
  PROVE  LET d     == Built(store[p].dicts[k])
             after == [store EXCEPT ![p].dicts[k] = d]
         IN  /\ Good(after) /\ IdsIn(after) = IdsIn(store)
             /\ MapOf(after) = MapOf(store)
             /\ d.context \in Dicts /\ d.context = Contents(store[p])[k]
<1> DEFINE old == store[p].dicts[k]
           d == Built(old)
           held == [store[p].dicts EXCEPT ![k] = d]
           b == [store[p] EXCEPT !.dicts = held]
           after == [store EXCEPT ![p] = b]
<1>0. None \notin Dicts BY DictionaryAssumption
<1>1. store \in Seq(LoadedBundle) /\ DOMAIN store = 1 .. Len(store)
  BY DEF Good
<1>2. store[p] \in LoadedBundle BY <1>1, ElementOfSeq
<1>3. store[p].dicts \in Seq(LoadedDict) /\ store[p].id \in Ids /\ store[p].bytes \in Nat
  BY <1>2 DEF LoadedBundle
<1>4. old \in LoadedDict
  <2>1. k \in 1 .. Len(store[p].dicts) BY <1>3
  <2> QED BY <1>3, <2>1, ElementOfSeq
<1>5. old.dict = None <=> old.context # None BY DEF Good, InOnePlace
<1>6. /\ d \in LoadedDict /\ d.dict = None /\ d.context # None
      /\ d.context \in Dicts
      /\ d.context = IF old.dict # None THEN old.dict ELSE old.context
  BY <1>0, <1>4, <1>5 DEF Built, LoadedDict
<1>7. /\ held \in Seq(LoadedDict) /\ DOMAIN held = DOMAIN store[p].dicts
      /\ held[k] = d
      /\ \A i \in DOMAIN held \ {k} : held[i] = store[p].dicts[i]
  <2> HIDE DEF d
  <2> QED BY <1>3, <1>6, ExceptSeq
<1>8. b = [id |-> store[p].id, bytes |-> store[p].bytes, dicts |-> held]
  <2> HIDE DEF held
  <2> QED BY <1>2 DEF LoadedBundle
<1> HIDE DEF held
<1>9. b \in LoadedBundle /\ b.id = store[p].id /\ b.dicts = held
  BY <1>3, <1>7, <1>8 DEF LoadedBundle
<1>10. /\ after \in Seq(LoadedBundle) /\ DOMAIN after = DOMAIN store
       /\ after[p] = b
       /\ \A i \in DOMAIN store \ {p} : after[i] = store[i]
  <2> HIDE DEF b
  <2> QED BY <1>1, <1>9, ExceptSeq
<1>11. [store EXCEPT ![p].dicts[k] = Built(store[p].dicts[k])] = after
  BY DEF held
<1> HIDE DEF b, after
<1>12. \A i \in DOMAIN store : after[i].id = store[i].id BY <1>9, <1>10
<1>13. IdsIn(after) = IdsIn(store) BY <1>10, <1>12 DEF IdsIn
<1>14. InOnePlace(b)
  <2> SUFFICES ASSUME NEW i \in DOMAIN held
               PROVE  held[i].dict = None <=> held[i].context # None
    BY <1>9 DEF InOnePlace
  <2>1. CASE i = k
    <3> HIDE DEF d
    <3> QED BY <2>1, <1>6, <1>7
  <2>2. CASE i # k BY <2>2, <1>7 DEF Good, InOnePlace
  <2> QED BY <2>1, <2>2
<1>15. Good(after)
  <2>1. \A i \in DOMAIN after : InOnePlace(after[i])
    <3> SUFFICES ASSUME NEW i \in DOMAIN after PROVE InOnePlace(after[i])
      OBVIOUS
    <3>1. CASE i = p BY <3>1, <1>10, <1>14
    <3>2. CASE i # p
      <4>1. after[i] = store[i] /\ i \in DOMAIN store BY <3>2, <1>10
      <4> QED BY <4>1 DEF Good
    <3> QED BY <3>1, <3>2
  <2>2. \A i, j \in DOMAIN after : after[i].id = after[j].id => i = j
    BY <1>10, <1>12 DEF Good
  <2> QED BY <1>10, <2>1, <2>2 DEF Good
<1>16. Contents(b) = Contents(store[p])
  <2>1. \A i \in DOMAIN held :
          (IF held[i].dict # None THEN held[i].dict ELSE held[i].context)
          = (IF store[p].dicts[i].dict # None THEN store[p].dicts[i].dict
             ELSE store[p].dicts[i].context)
    <3> HIDE DEF d
    <3> QED BY <1>6, <1>7
  <2> QED BY <2>1, <1>7, <1>9 DEF Contents
<1>17. \A i \in DOMAIN after : MapOf(store)[after[i].id] = Contents(after[i])
  <2> SUFFICES ASSUME NEW i \in DOMAIN after
               PROVE  MapOf(store)[after[i].id] = Contents(after[i])
    OBVIOUS
  <2>1. MapOf(store)[store[i].id] = Contents(store[i]) BY <1>10, MapAt
  <2>2. Contents(after[i]) = Contents(store[i])
    <3>1. CASE i = p BY <3>1, <1>10, <1>16
    <3>2. CASE i # p BY <3>2, <1>10
    <3> QED BY <3>1, <3>2
  <2> QED BY <2>1, <2>2, <1>10, <1>12
<1>18. MapOf(store) = [id \in IdsIn(after) |-> MapOf(store)[id]]
  BY <1>13 DEF MapOf
<1>19. MapOf(after) = MapOf(store) BY <1>15, <1>17, <1>18, SameMap
<1>20. d.context = Contents(store[p])[k]
  <2> HIDE DEF d
  <2> QED BY <1>6 DEF Contents
<1> HIDE DEF d
<1> QED BY <1>6, <1>11, <1>13, <1>15, <1>19, <1>20 DEF d
-----------------------------------------------------------------------------
(* The parts of StoreInv that are about the store.                         *)
LEMMA GoodStore == StoreInv => Good(bundles)
BY DEF StoreInv, TypeOK, IdsDistinct, DictionaryInOnePlace, InOnePlace, Good

(* What a load makes of the loaded bundles.                                *)
LEMMA LoadedStore ==
  ASSUME StoreInv, NEW b \in Bundles
  PROVE  LET after == Insert(bundles, Parsed(b))
         IN  Good(after) /\ IdsIn(after) = IdsIn(bundles) \cup {b.id} /\ b.id \in Ids
<1> DEFINE loaded == Parsed(b)
           after  == Insert(bundles, loaded)
<1>1. Good(bundles) BY GoodStore
<1>2. /\ loaded \in LoadedBundle /\ loaded.id = b.id /\ b.id \in Ids
      /\ InOnePlace(loaded)
  BY ParsedIsGiven
<1> HIDE DEF loaded
<1>3. Good(after) /\ IdsIn(after) = IdsIn(bundles) \cup {loaded.id}
  BY <1>1, <1>2, InsertIsPut
<1> HIDE DEF after
<1>4. Good(after) /\ IdsIn(after) = IdsIn(bundles) \cup {b.id} /\ b.id \in Ids
  BY <1>2, <1>3
<1> QED BY <1>4 DEF after, loaded

(* What a node that builds a context makes of them.                        *)
LEMMA BuiltStore ==
  ASSUME StoreInv, NEW p \in DOMAIN bundles, NEW k \in DOMAIN bundles[p].dicts,
         bundles' = [bundles EXCEPT ![p].dicts[k] = Built(bundles[p].dicts[k])]
  PROVE  /\ Good(bundles') /\ IdsIn(bundles') = IdsIn(bundles)
         /\ MapOf(bundles') = MapOf(bundles)
         /\ Built(bundles[p].dicts[k]).context \in Dicts
         /\ Built(bundles[p].dicts[k]).context = Contents(bundles[p])[k]
<1> DEFINE d     == Built(bundles[p].dicts[k])
           after == [bundles EXCEPT ![p].dicts[k] = d]
<1>1. Good(bundles) BY GoodStore
<1>2. /\ Good(after) /\ IdsIn(after) = IdsIn(bundles)
      /\ MapOf(after) = MapOf(bundles)
      /\ d.context \in Dicts /\ d.context = Contents(bundles[p])[k]
  BY ONLY <1>1, p \in DOMAIN bundles, k \in DOMAIN bundles[p].dicts, BuildKeepsMap
<1>3. bundles' = after OBVIOUS
<1> HIDE DEF after, d
<1>4. /\ Good(bundles') /\ IdsIn(bundles') = IdsIn(bundles)
      /\ MapOf(bundles') = MapOf(bundles)
      /\ d.context \in Dicts /\ d.context = Contents(bundles[p])[k]
  BY <1>2, <1>3
<1> QED BY <1>4 DEF d

(* A good store has the three parts of the invariant.                      *)
LEMMA StoreIsGood ==
  ASSUME Good(bundles)'
  PROVE  /\ bundles' \in Seq(LoadedBundle) /\ IdsDistinct' /\ DictionaryInOnePlace'
BY DEF IdsDistinct, DictionaryInOnePlace, InOnePlace, Good

(* A store starts empty.                                                   *)
LEMMA InitialStore == Init => StoreInv
<1> SUFFICES ASSUME Init PROVE StoreInv OBVIOUS
<1>1. bundles = <<>> /\ used = <<>> /\ DOMAIN bundles = {} BY DEF Init
<1>2. bundles \in Seq(LoadedBundle) BY <1>1, EmptySeq
<1>3. used \in Seq([id : Ids, index : Nat, dict : Dicts]) BY <1>1, EmptySeq
<1>4. TypeOK
  <2>1. /\ phase = "idle" /\ frame = NoFrame /\ node = 1 /\ supplied = {}
    BY DEF Init
  <2>2. provider \in BOOLEAN BY Zenon DEF Init
  <2> QED BY <1>2, <1>3, <2>1, <2>2 DEF TypeOK
<1>5. IdsDistinct /\ DictionaryInOnePlace
  BY <1>1 DEF IdsDistinct, DictionaryInOnePlace
<1>6. phase = "idle" /\ used = <<>> /\ supplied = {} BY DEF Init
<1> QED BY <1>4, <1>5, <1>6 DEF StoreInv

(* load_dictionary_bundle.                                                 *)
LEMMA LoadKeeps ==
  ASSUME StoreInv, NEW b \in Bundles, Load(b) PROVE StoreInv'
<1>0. /\ UNCHANGED <<provider, phase, frame, node, used, supplied>>
      /\ phase = "idle"
  BY DEF Load
<1>1. CASE bundles' = Insert(bundles, Parsed(b))
  <2>1. Good(bundles') /\ IdsIn(bundles') = IdsIn(bundles) \cup {b.id}
    BY <1>1, LoadedStore
  <2>2. /\ bundles' \in Seq(LoadedBundle) /\ IdsDistinct' /\ DictionaryInOnePlace'
    BY <2>1, StoreIsGood
  <2> QED BY <1>0, <2>1, <2>2 DEF StoreInv, TypeOK, LoadedIds
<1>2. CASE UNCHANGED bundles
  BY <1>0, <1>2
     DEF StoreInv, TypeOK, IdsDistinct, DictionaryInOnePlace, LoadedIds
<1> QED BY <1>1, <1>2 DEF Load

(* clear_dictionary_bundles.                                               *)
LEMMA ClearKeeps ==
  ASSUME StoreInv, ClearBundles PROVE StoreInv'
<1>1. bundles' = <<>> /\ supplied' = {} /\ phase = "idle"
      /\ UNCHANGED <<provider, phase, frame, node, used>>
  BY DEF ClearBundles
<1>2. bundles' \in Seq(LoadedBundle) BY <1>1, EmptySeq
<1>3. IdsDistinct' /\ DictionaryInOnePlace'
  BY <1>1 DEF IdsDistinct, DictionaryInOnePlace
<1> QED BY <1>1, <1>2, <1>3 DEF StoreInv, TypeOK

(* A decode asks only for a bundle that is not loaded.                     *)
LEMMA DecodeKeeps ==
  ASSUME StoreInv, NEW f \in Frames, Decode(f) PROVE StoreInv'
<1>1. /\ UNCHANGED <<bundles, provider, supplied>>
      /\ frame' = f /\ node' = 1 /\ used' = <<>> /\ result' = "pending"
      /\ phase' \in {"decoding", "asking", "failed"}
      /\ phase' = "asking" => Asks(f) /\ f.names \in Ids
  BY DEF Decode
<1>2. Asks(f) => f.names \notin LoadedIds
  BY DEF Asks, ContainsBundle, At, LoadedIds, IdsIn
<1>3. used' \in Seq([id : Ids, index : Nat, dict : Dicts]) BY <1>1, EmptySeq
<1>4. TypeOK'
  BY <1>1, <1>3 DEF StoreInv, TypeOK
<1>5. IdsDistinct' /\ DictionaryInOnePlace' /\ LoadedIds' = LoadedIds
  BY <1>1 DEF StoreInv, IdsDistinct, DictionaryInOnePlace, LoadedIds
<1> QED BY <1>1, <1>2, <1>4, <1>5 DEF StoreInv

(* However a decode ends, the store stays.                                 *)
LEMMA EndKeeps ==
  ASSUME StoreInv, NEW kind, End(kind) PROVE StoreInv'
<1>1. /\ UNCHANGED <<bundles, provider, supplied>>
      /\ phase' = "idle" /\ frame' = NoFrame /\ node' = 1 /\ used' = <<>>
  BY DEF End
<1>2. used' \in Seq([id : Ids, index : Nat, dict : Dicts]) BY <1>1, EmptySeq
<1> QED BY <1>1, <1>2
        DEF StoreInv, TypeOK, IdsDistinct, DictionaryInOnePlace, LoadedIds

(* load_provided_bundle.                                                   *)
LEMMA SupplyKeeps ==
  ASSUME StoreInv, NEW b \in Bundles, ProviderSupplies(b) PROVE StoreInv'
<1>1. /\ bundles' = Insert(bundles, Parsed(b)) /\ supplied' = supplied \cup {b.id}
      /\ phase' = "decoding" /\ UNCHANGED <<provider, frame, node, used, result>>
      /\ phase = "asking"
  BY DEF ProviderSupplies
<1>2. /\ Good(bundles') /\ IdsIn(bundles') = IdsIn(bundles) \cup {b.id}
      /\ b.id \in Ids
  BY <1>1, LoadedStore
<1>3. /\ bundles' \in Seq(LoadedBundle) /\ IdsDistinct' /\ DictionaryInOnePlace'
  BY <1>2, StoreIsGood
<1> QED BY <1>1, <1>2, <1>3 DEF StoreInv, TypeOK, LoadedIds

(* The bundle a node's dictionary comes from, and its index in it.         *)
LEMMA NodeDictionary ==
  ASSUME StoreInv, node \in DOMAIN frame.nodes, Current # None, ContextError = "Ok"
  PROVE  LET p == Position(bundles, frame.names)
         IN  /\ p \in DOMAIN bundles /\ bundles[p].id = frame.names
             /\ Current + 1 \in DOMAIN bundles[p].dicts
             /\ frame.names \in LoadedIds /\ frame.names \in Ids
             /\ Current \in Nat /\ Current \in UNION {Named(f) : f \in Frames}
<1>1. /\ ContainsBundle(bundles, frame.names)
      /\ Current + 1 \in DOMAIN bundles[Position(bundles, frame.names)].dicts
  BY DEF ContextError
<1>2. PICK p \in DOMAIN bundles : bundles[p].id = frame.names
  BY <1>1 DEF ContainsBundle, At
<1>3. Position(bundles, frame.names) = p BY <1>2, GoodStore, UniquePosition
<1>4. frame.names \in LoadedIds BY <1>2 DEF LoadedIds, IdsIn
<1>5. bundles[p] \in LoadedBundle
  <2>1. bundles \in Seq(LoadedBundle) BY DEF StoreInv, TypeOK
  <2>2. p \in 1 .. Len(bundles) BY <1>2, <2>1
  <2> QED BY <2>1, <2>2, ElementOfSeq
<1>6. frame.names \in Ids BY <1>2, <1>5 DEF LoadedBundle
<1>7. frame \in Frames
  <2>1. DOMAIN NoFrame.nodes = {} BY DEF NoFrame
  <2> QED BY <2>1 DEF StoreInv, TypeOK
<1>8. frame.nodes \in Seq(Nat \cup {None}) /\ frame.names \in Ids \cup ShortIds \cup {None}
  BY <1>7, DictionaryAssumption DEF Frame
<1>9. Current \in Nat
  <2>1. node \in 1 .. Len(frame.nodes) BY <1>8
  <2> QED BY <1>8, <2>1, ElementOfSeq DEF Current
<1>10. Current \in Named(frame) BY DEF Named, Current
<1> QED BY <1>1, <1>2, <1>3, <1>4, <1>6, <1>7, <1>9, <1>10

(* zstd_context.                                                           *)
LEMMA UseKeeps ==
  ASSUME StoreInv, UseDictionary PROVE StoreInv'
<1> DEFINE p == Position(bundles, frame.names)
           d == Built(bundles[p].dicts[Current + 1])
           use == [id |-> frame.names, index |-> Current, dict |-> d.context]
<1>1. /\ node \in DOMAIN frame.nodes /\ Current # None /\ ContextError = "Ok"
      /\ bundles' = [bundles EXCEPT ![p].dicts[Current + 1] = d]
      /\ used' = Append(used, use) /\ node' = node + 1 /\ phase = "decoding"
      /\ UNCHANGED <<provider, phase, frame, result, supplied>>
  BY DEF UseDictionary
<1>2. /\ p \in DOMAIN bundles /\ Current + 1 \in DOMAIN bundles[p].dicts
      /\ frame.names \in Ids /\ Current \in Nat
  BY <1>1, NodeDictionary
<1>3. Good(bundles') /\ IdsIn(bundles') = IdsIn(bundles) /\ d.context \in Dicts
  BY <1>1, <1>2, BuiltStore
<1>4. /\ bundles' \in Seq(LoadedBundle) /\ IdsDistinct' /\ DictionaryInOnePlace'
  BY <1>3, StoreIsGood
<1> HIDE DEF d
<1>5. used' \in Seq([id : Ids, index : Nat, dict : Dicts])
  <2>1. use \in [id : Ids, index : Nat, dict : Dicts] BY <1>2, <1>3
  <2>2. used \in Seq([id : Ids, index : Nat, dict : Dicts])
    BY DEF StoreInv, TypeOK
  <2> HIDE DEF use
  <2> QED BY <1>1, <2>1, <2>2, AppendProperties
<1>6. node' \in Nat \ {0} BY <1>1 DEF StoreInv, TypeOK
<1> QED BY <1>1, <1>3, <1>4, <1>5, <1>6 DEF StoreInv, TypeOK, LoadedIds

(* The steps that leave the store, the frame and the IDs supplied alone.   *)
LEMMA QuietKeeps ==
  ASSUME StoreInv, UNCHANGED <<bundles, frame, used, supplied>>,
         provider' \in BOOLEAN, node' \in Nat \ {0},
         \/ phase = "idle" /\ phase' = "idle"
         \/ phase # "idle" /\ phase' \in {phase, "decoding"} /\ result' = result
  PROVE  StoreInv'
BY DEF StoreInv, TypeOK, IdsDistinct, DictionaryInOnePlace, LoadedIds

(* Every operation on the store keeps it good.                             *)
LEMMA NextKeeps == StoreInv /\ [Next]_vars => StoreInv'
<1> SUFFICES ASSUME StoreInv, [Next]_vars PROVE StoreInv' OBVIOUS
<1>0. provider \in BOOLEAN /\ node \in Nat \ {0} BY DEF StoreInv, TypeOK
<1>1. ASSUME NEW b \in Bundles, Load(b) PROVE StoreInv' BY <1>1, LoadKeeps
<1>2. ASSUME NEW b \in Bundles, ProviderSupplies(b) PROVE StoreInv'
  BY <1>2, SupplyKeeps
<1>3. ASSUME NEW b \in Bundles, ProvidedBundleFails(b) PROVE StoreInv'
  BY <1>3, EndKeeps DEF ProvidedBundleFails
<1>4. ASSUME NEW on \in BOOLEAN, SetProvider(on) PROVE StoreInv'
  BY <1>0, <1>4, QuietKeeps DEF SetProvider
<1>5. ASSUME NEW f \in Frames, Decode(f) PROVE StoreInv' BY <1>5, DecodeKeeps
<1>6. CASE ClearBundles BY <1>6, ClearKeeps
<1>7. CASE RefuseName \/ ProviderFails \/ NodeFails \/ MissDictionary \/ Finish
  BY <1>7, EndKeeps DEF RefuseName, ProviderFails, NodeFails, MissDictionary, Finish
<1>8. CASE ProviderHasNone
  BY <1>0, <1>8, QuietKeeps DEF ProviderHasNone
<1>9. CASE UseDictionary BY <1>9, UseKeeps
<1>10. CASE RunPlainNode
  BY <1>0, <1>10, QuietKeeps DEF RunPlainNode
<1>11. CASE UNCHANGED vars
  BY <1>0, <1>11, QuietKeeps DEF vars, StoreInv
<1> QED BY <1>1, <1>2, <1>3, <1>4, <1>5, <1>6, <1>7, <1>8, <1>9, <1>10, <1>11 DEF Next

(* The store of a decoder, through every sequence of loads, clears,        *)
(* provider answers and decodes, keeps one bundle for each ID, every       *)
(* dictionary in exactly one place, and all the provider supplied.         *)
THEOREM StoreInvariant == Spec => []StoreInv
<1>1. Init => StoreInv BY InitialStore
<1>2. StoreInv /\ [Next]_vars => StoreInv' BY NextKeeps
<1> QED BY <1>1, <1>2, PTL DEF Spec

(* The provider is never asked for a bundle it supplied since the last     *)
(* clear_dictionary_bundles.                                               *)
THEOREM ProviderAskedOnce == Spec => []AsksOnce
<1>1. StoreInv => AsksOnce BY DEF StoreInv, AsksOnce
<1> QED BY <1>1, StoreInvariant, PTL

(* While a decode runs, the store gains at most the bundle its frame       *)
(* names, and loses none.                                                  *)
THEOREM OnlyTheNamedBundle == Spec => DecodeLoadsOnlyNamed
<1> DEFINE Only == phase # "idle" =>
                     /\ LoadedIds \subseteq LoadedIds'
                     /\ LoadedIds' \subseteq LoadedIds \cup {frame.names}
<1>1. StoreInv /\ [Next]_vars => [Only]_vars
  <2> SUFFICES ASSUME StoreInv, Next, phase # "idle" PROVE Only OBVIOUS
  <2>1. ASSUME NEW b \in Bundles, ProviderSupplies(b) PROVE Only
    <3>1. bundles' = Insert(bundles, Parsed(b)) /\ b.id = frame.names
      BY <2>1 DEF ProviderSupplies
    <3>2. IdsIn(bundles') = IdsIn(bundles) \cup {b.id}
      BY <3>1, LoadedStore
    <3> QED BY <3>1, <3>2 DEF LoadedIds
  <2>2. CASE UseDictionary
    <3> DEFINE p == Position(bundles, frame.names)
    <3>1. /\ node \in DOMAIN frame.nodes /\ Current # None /\ ContextError = "Ok"
          /\ bundles' = [bundles EXCEPT ![p].dicts[Current + 1] =
                           Built(bundles[p].dicts[Current + 1])]
      BY <2>2 DEF UseDictionary
    <3>2. p \in DOMAIN bundles /\ Current + 1 \in DOMAIN bundles[p].dicts
      BY <3>1, NodeDictionary
    <3>3. IdsIn(bundles') = IdsIn(bundles)
      BY <3>1, <3>2, BuiltStore
    <3> QED BY <3>3 DEF LoadedIds
  <2>3. ASSUME UNCHANGED bundles PROVE Only BY <2>3 DEF LoadedIds
  <2> QED BY <2>1, <2>2, <2>3
          DEF Next, Load, SetProvider, Decode, ClearBundles, ProvidedBundleFails,
              RefuseName, ProviderFails, ProviderHasNone, MissDictionary,
              RunPlainNode, NodeFails, Finish, End
<1> QED BY <1>1, StoreInvariant, PTL DEF Spec, DecodeLoadsOnlyNamed
-----------------------------------------------------------------------------
(* The initial store is the empty map.                                     *)
LEMMA EmptyMap == MapOf(<<>>) = <<>>
<1> DEFINE e(id) == Contents(<<>>[Position(<<>>, id)])
<1>1. IdsIn(<<>>) = 1 .. 0 BY DEF IdsIn
<1>2. MapOf(<<>>) = [id \in 1 .. 0 |-> e(id)] BY <1>1 DEF MapOf
<1> HIDE DEF e
<1>3. MapOf(<<>>) \in Seq({}) /\ Len(MapOf(<<>>)) = 0
  <2>1. 0 \in Nat /\ \A k \in 1 .. 0 : e(k) \in {} OBVIOUS
  <2>2. [id \in 1 .. 0 |-> e(id)] \in Seq({}) BY <2>1, IsASeq
  <2>3. MapOf(<<>>) \in Seq({}) /\ DOMAIN MapOf(<<>>) = 1 .. 0 BY <1>2, <2>2
  <2>4. Len(MapOf(<<>>)) \in Nat /\ 1 .. Len(MapOf(<<>>)) = 1 .. 0
    BY <2>3, LenProperties
  <2>5. ASSUME NEW n \in Nat, 1 .. n = 1 .. 0 PROVE n = 0
    <3>1. n # 0 => 1 \in 1 .. n OBVIOUS
    <3> QED BY <2>5, <3>1
  <2> QED BY <2>3, <2>4, <2>5
<1> QED BY <1>3, EmptySeq

(* A bundle that enters the store is put into the map.                     *)
LEMMA LoadIsPut ==
  ASSUME StoreInv, NEW b \in Bundles, bundles' = Insert(bundles, Parsed(b)),
         given' = Given(b), used' = used, result' \in {"Loaded", "pending"}
  PROVE  DMap!Next
<1> DEFINE map == MapOf(bundles)
           dicts == Given(b)[2]
<1>1. /\ DOMAIN map = IdsIn(bundles) /\ b.id \in Ids
      /\ MapOf(bundles') = [id \in IdsIn(bundles) \cup {b.id} |->
                              IF id = b.id THEN dicts ELSE map[id]]
  <2>1. Good(bundles) BY GoodStore
  <2>2. /\ Parsed(b) \in LoadedBundle /\ Parsed(b).id = b.id /\ b.id \in Ids
        /\ InOnePlace(Parsed(b)) /\ Contents(Parsed(b)) = dicts
    BY ParsedIsGiven
  <2>3. MapOf(bundles') = [id \in IdsIn(bundles) \cup {Parsed(b).id} |->
                            IF id = Parsed(b).id THEN Contents(Parsed(b))
                            ELSE MapOf(bundles)[id]]
    BY <2>1, <2>2, InsertIsPut
  <2>4. DOMAIN map = IdsIn(bundles) BY <2>1, MapAt
  <2> HIDE DEF dicts
  <2> QED BY <2>2, <2>3, <2>4
<1>2. given' = <<b.id, dicts>> BY ParsedIsGiven DEF Given
<1>3. DMap!Put(b.id, dicts) BY <1>1, <1>2 DEF DMap!Put
<1> QED BY <1>1, <1>3 DEF DMap!Next

(* A load fails with an error, never with what would look like success.    *)
LEMMA ParseErrors ==
  ASSUME NEW b \in Bundles
  PROVE  ParseError(b) \notin {"pending", "Loaded"}
<1> DEFINE Verdicts == {"Ok", "Truncated", "Malformed", "Unsupported"}
           Encoded == [verdict : Verdicts, dict : Dicts]
           first == CHOOSE i \in Unsound(b) : \A j \in Unsound(b) : i <= j
<1>1. b \in Bundle BY DictionaryAssumption
<1>2. b.header \in Verdicts /\ b.dicts \in Seq(Encoded) BY <1>1 DEF Bundle
<1>3. Unsound(b) # {} => first \in Unsound(b)
  <2> SUFFICES ASSUME Unsound(b) # {}
               PROVE  \E i \in Unsound(b) : \A j \in Unsound(b) : i <= j
    OBVIOUS
  <2>1. DOMAIN b.dicts \subseteq Nat
    <3> HIDE DEF Encoded
    <3> QED BY <1>2
  <2>2. Unsound(b) \subseteq Nat BY <2>1 DEF Unsound
  <2>3. PICK x \in Unsound(b) : \A y \in Unsound(b) : ~(<<y, x>> \in OpToRel(<, Nat))
    BY <2>2, NatLessThanWellFounded, WFMin
  <2>4. \A y \in Unsound(b) : ~(y < x) BY <2>2, <2>3 DEF OpToRel
  <2> QED BY <2>2, <2>4
<1>4. Unsound(b) # {} => b.dicts[first].verdict \in Verdicts
  <2>1. \A i \in DOMAIN b.dicts : b.dicts[i] \in Encoded
    <3> HIDE DEF Encoded
    <3>1. DOMAIN b.dicts = 1 .. Len(b.dicts) BY <1>2
    <3> QED BY <1>2, <3>1, ElementOfSeq
  <2> HIDE DEF first
  <2> QED BY <1>3, <2>1 DEF Unsound
<1> HIDE DEF first
<1> QED BY <1>2, <1>4 DEF ParseError, first

(* Every step of the store is a step of the map.                           *)
LEMMA StepIsMapStep == StoreInv /\ [Next]_vars => [DMap!Next]_(DMap!vars)
<1> SUFFICES ASSUME StoreInv, [Next]_vars PROVE [DMap!Next]_(DMap!vars)
  OBVIOUS
<1>1. ASSUME NEW kind, End(kind), kind \notin {"pending", "Loaded"} PROVE DMap!Next
  BY <1>1 DEF End, DMap!Next, DMap!End
<1>2. ASSUME NEW b \in Bundles, Load(b) PROVE DMap!Next
  <2>1. CASE bundles' = Insert(bundles, Parsed(b)) /\ given' = Given(b) /\ result' = "Loaded"
    BY <1>2, <2>1, LoadIsPut DEF Load
  <2>2. CASE /\ result' \in {ParseError(b), "AllocationFailed"} \ {"Ok"}
             /\ given' = <<>> /\ UNCHANGED bundles
    <3>1. used = <<>> /\ used' = used BY <1>2 DEF StoreInv, Load
    <3>2. result' \notin {"pending", "Loaded"} BY <2>2, ParseErrors
    <3> QED BY <2>2, <3>1, <3>2 DEF DMap!Next, DMap!End
  <2> QED BY <1>2, <2>1, <2>2 DEF Load
<1>3. ASSUME NEW b \in Bundles, ProviderSupplies(b) PROVE DMap!Next
  <2>1. /\ bundles' = Insert(bundles, Parsed(b)) /\ given' = Given(b)
        /\ used' = used /\ result' = result /\ phase = "asking"
    BY <1>3 DEF ProviderSupplies
  <2>2. result' = "pending" BY <2>1 DEF StoreInv
  <2> QED BY <2>1, <2>2, LoadIsPut
<1>4. ASSUME NEW b \in Bundles, ProvidedBundleFails(b) PROVE DMap!Next
  BY <1>1, <1>4, ParseErrors DEF ProvidedBundleFails
<1>5. ASSUME NEW on \in BOOLEAN, SetProvider(on) PROVE DMap!Next
  BY <1>5 DEF SetProvider, StoreInv, DMap!Next, DMap!End
<1>6. ASSUME NEW f \in Frames, Decode(f) PROVE DMap!Next
  BY <1>6 DEF Decode, DMap!Next, DMap!Begin
<1>7. CASE ClearBundles
  <2>1. used = <<>> /\ used' = used BY <1>7 DEF StoreInv, ClearBundles
  <2>2. MapOf(bundles') = <<>> /\ given' = <<>> /\ result' = "none"
    BY <1>7, EmptyMap DEF ClearBundles
  <2> QED BY <2>1, <2>2 DEF DMap!Next, DMap!Forget
<1>8. CASE RefuseName \/ ProviderFails \/ NodeFails \/ Finish
  BY <1>1, <1>8 DEF RefuseName, ProviderFails, NodeFails, Finish
<1>9. CASE MissDictionary
  <2>1. ContextError \notin {"pending", "Loaded"} BY DEF ContextError
  <2> QED BY <1>1, <1>9, <2>1 DEF MissDictionary
<1>10. CASE ProviderHasNone
  BY <1>10 DEF ProviderHasNone, DMap!Next, DMap!Proceed
<1>11. CASE RunPlainNode
  BY <1>11 DEF RunPlainNode, DMap!Next, DMap!Proceed
<1>12. CASE UseDictionary
  <2> DEFINE p == Position(bundles, frame.names)
             d == Built(bundles[p].dicts[Current + 1])
             held == MapOf(bundles)[frame.names]
  <2>1. /\ node \in DOMAIN frame.nodes /\ Current # None /\ ContextError = "Ok"
        /\ bundles' = [bundles EXCEPT ![p].dicts[Current + 1] = d]
        /\ used' = Append(used, [id |-> frame.names, index |-> Current,
                                  dict |-> d.context])
        /\ given' = <<>> /\ result' = result /\ phase = "decoding"
    BY <1>12 DEF UseDictionary
  <2>2. /\ p \in DOMAIN bundles /\ bundles[p].id = frame.names
        /\ Current + 1 \in DOMAIN bundles[p].dicts
        /\ frame.names \in IdsIn(bundles) /\ frame.names \in Ids
        /\ Current \in UNION {Named(f) : f \in Frames}
    BY <2>1, NodeDictionary DEF LoadedIds
  <2>3. MapOf(bundles') = MapOf(bundles) /\ d.context = Contents(bundles[p])[Current + 1]
    BY <2>1, <2>2, BuiltStore
  <2>4. DOMAIN MapOf(bundles) = IdsIn(bundles) /\ held = Contents(bundles[p])
    BY <2>2, GoodStore, MapAt
  <2>5. Current + 1 \in DOMAIN held BY <2>2, <2>4 DEF Contents
  <2>6. result = "pending" BY <2>1 DEF StoreInv
  <2> HIDE DEF d, p
  <2>7. DMap!Serve(frame.names, Current)
    BY <2>1, <2>2, <2>3, <2>4, <2>5, <2>6 DEF DMap!Serve
  <2> QED BY <2>2, <2>7 DEF DMap!Next
<1>13. CASE UNCHANGED vars BY <1>13 DEF vars, DMap!vars
<1> QED BY <1>2, <1>3, <1>4, <1>5, <1>6, <1>7, <1>8, <1>9, <1>10, <1>11, <1>12, <1>13
        DEF Next

(* The dictionary store, which builds contexts on demand and replaces      *)
(* bundles in place, implements a map from IDs to dictionaries: a node is  *)
(* given what was loaded last under its frame's ID, and a failed load      *)
(* changes nothing.                                                        *)
THEOREM StoreIsAMap == Spec => ImplementsDictionaryMap
<1>1. Init => DMap!Init
  BY EmptyMap DEF Init, DMap!Init
<1>2. StoreInv /\ [Next]_vars => [DMap!Next]_(DMap!vars) BY StepIsMapStep
<1> QED BY <1>1, <1>2, StoreInvariant, PTL DEF Spec, ImplementsDictionaryMap, DMap!Spec
-----------------------------------------------------------------------------
(* The limits.                                                             *)

(* What the bundles of a store weigh, by dictionaries and by bytes.        *)
Counts(store) == [i \in DOMAIN store |-> Len(store[i].dicts)]
Sizes(store)  == [i \in DOMAIN store |-> store[i].bytes]

(* The counts and the sizes of the bundles are numbers.                    *)
LEMMA WeightsTyped ==
  ASSUME NEW store \in Seq(LoadedBundle)
  PROVE  /\ DOMAIN store = 1 .. Len(store) /\ Len(store) \in Nat
         /\ Counts(store) \in Seq(Nat) /\ DOMAIN Counts(store) = DOMAIN store
         /\ Sizes(store) \in Seq(Nat) /\ DOMAIN Sizes(store) = DOMAIN store
         /\ \A i \in DOMAIN store : /\ Counts(store)[i] = Len(store[i].dicts)
                                    /\ Sizes(store)[i] = store[i].bytes
<1>1. DOMAIN store = 1 .. Len(store) /\ Len(store) \in Nat
  OBVIOUS
<1>2. ASSUME NEW i \in 1 .. Len(store)
      PROVE  Len(store[i].dicts) \in Nat /\ store[i].bytes \in Nat
  <2>1. store[i] \in LoadedBundle
    BY <1>1, ElementOfSeq
  <2>2. store[i].dicts \in Seq(LoadedDict) /\ store[i].bytes \in Nat
    BY <2>1 DEF LoadedBundle
  <2> QED
    BY <2>2
<1>3. /\ Counts(store) = [i \in 1 .. Len(store) |-> Counts(store)[i]]
      /\ Sizes(store) = [i \in 1 .. Len(store) |-> Sizes(store)[i]]
      /\ \A i \in DOMAIN store : /\ Counts(store)[i] = Len(store[i].dicts)
                                 /\ Sizes(store)[i] = store[i].bytes
  BY <1>1 DEF Counts, Sizes
<1>4. \A i \in 1 .. Len(store) : Counts(store)[i] \in Nat /\ Sizes(store)[i] \in Nat
  BY <1>1, <1>2, <1>3
<1>5. Counts(store) \in Seq(Nat) /\ Sizes(store) \in Seq(Nat)
  <2> DEFINE c == Counts(store)
             z == Sizes(store)
  <2>1. /\ c = [i \in 1 .. Len(store) |-> c[i]] /\ z = [i \in 1 .. Len(store) |-> z[i]]
        /\ \A i \in 1 .. Len(store) : c[i] \in Nat /\ z[i] \in Nat
    BY <1>3, <1>4
  <2> HIDE DEF c, z
  <2>2. c \in Seq(Nat) /\ z \in Seq(Nat)
    BY <1>1, <2>1, FunctionIsSeq
  <2> QED
    BY <2>2 DEF c, z
<1> QED
  BY <1>1, <1>3, <1>5 DEF Counts, Sizes

(* Equal ranges from 1 have equal ends.                                    *)
LEMMA SameBounds ==
  ASSUME NEW m \in Nat, NEW n \in Nat, 1 .. m = 1 .. n
  PROVE  m = n
<1>1. CASE m = 0
  <2>1. n \notin 1 .. n BY <1>1
  <2> QED BY <1>1, <2>1
<1>2. CASE m # 0
  <2>1. m \in 1 .. n BY <1>2
  <2>2. n \in 1 .. m BY <2>1
  <2> QED BY <2>1, <2>2
<1> QED BY <1>1, <1>2

(* A range with one more number has the next one.                          *)
LEMMA OneBeyond ==
  ASSUME NEW n \in Nat, NEW k \in Nat, NEW p \in 1 .. k, p \notin 1 .. n,
         \A i \in 1 .. k : i # p => i \in 1 .. n,
         \A i \in 1 .. n : i \in 1 .. k
  PROVE  p = n + 1 /\ k = n + 1
<1>1. p > n /\ k >= p
  OBVIOUS
<1>2. n + 1 \in 1 .. k
  BY <1>1
<1>3. n + 1 = p
  BY <1>2
<1>4. k \in 1 .. k /\ (k # p => k <= n)
  BY <1>1
<1> QED
  BY <1>1, <1>3, <1>4

(* Inserting a bundle replaces the weight of the bundle with its ID, or    *)
(* adds one: s are the weights before, o those of the others alone.        *)
Weighed(store, b, p, after, n, k, s, o, t, x) ==
  /\ PutAt(store, p, b, after)
  /\ n \in Nat /\ DOMAIN store = 1 .. n /\ k \in Nat /\ DOMAIN after = 1 .. k
  /\ \A i \in 1 .. n : store[i].id = b.id => i = p
  /\ s \in Seq(Nat) /\ DOMAIN s = 1 .. n
  /\ o = [i \in 1 .. n |-> IF store[i].id # b.id THEN s[i] ELSE 0]
  /\ t \in Seq(Nat) /\ DOMAIN t = 1 .. k /\ t[p] = x /\ x \in Nat
  /\ \A i \in 1 .. k : i # p => t[i] = s[i]

(* A bundle that is put in adds its weight to those that stay.             *)
LEMMA InsertWeighs ==
  ASSUME NEW store, NEW b, NEW p, NEW after, NEW n, NEW k, NEW s, NEW o, NEW t, NEW x,
         Weighed(store, b, p, after, n, k, s, o, t, x)
  PROVE  Sum(t) = x + Sum(o)
<1> USE DEF Weighed
<1>0. Sum(s) \in Int /\ s \in Seq(Int) /\ t \in Seq(Int)
  BY SumTyped
<1>1. /\ p \in 1 .. k
      /\ \A i \in 1 .. k : i # p => i \in 1 .. n /\ store[i].id # b.id
      /\ \A i \in 1 .. n : i \in 1 .. k /\ (i = p => store[i].id = b.id)
  BY DEF PutAt
<1>2. CASE p \in 1 .. n
  <2>1. k = n
    <3>1. \A i \in 1 .. k : i \in 1 .. n
      BY <1>1, <1>2
    <3>2. \A i \in 1 .. n : i \in 1 .. k
      BY <1>1
    <3>3. 1 .. k = 1 .. n
      BY <3>1, <3>2
    <3> QED
      BY <3>3, SameBounds
  <2>2. /\ s = [i \in 1 .. n |-> s[i]] /\ t = [i \in 1 .. n |-> t[i]] /\ DOMAIN o = 1 .. n
        /\ \A i \in 1 .. n : o[i] = IF i = p THEN 0 ELSE s[i]
    BY <1>1, <2>1
  <2>3. t = [s EXCEPT ![p] = x]
    BY <1>2, <2>1, <2>2
  <2>4. o = [s EXCEPT ![p] = 0]
    BY <1>2, <2>2
  <2>5. Sum(t) = (Sum(s) - s[p]) + x /\ Sum(o) = (Sum(s) - s[p]) + 0
    <3>1. p \in DOMAIN s /\ x \in Int /\ 0 \in Int
      BY <1>2
    <3>2. /\ Sum([s EXCEPT ![p] = x]) = (Sum(s) - s[p]) + x
          /\ Sum([s EXCEPT ![p] = 0]) = (Sum(s) - s[p]) + 0
      BY <1>0, <3>1, SumReplaced
    <3> QED
      BY <2>3, <2>4, <3>2
  <2>6. PICK u, v : u = Sum(s) /\ v = s[p]
    OBVIOUS
  <2>7. u \in Int /\ v \in Int
    BY <1>0, <1>2, <2>6
  <2>8. (u - v) + x = x + ((u - v) + 0)
    BY <2>7
  <2> QED
    BY <2>5, <2>6, <2>8
<1>3. CASE p \notin 1 .. n
  <2>1. p = n + 1 /\ k = n + 1
    <3>1. n \in Nat /\ k \in Nat
      OBVIOUS
    <3> HIDE DEF Weighed
    <3> QED
      BY <1>1, <1>3, <3>1, OneBeyond
  <2>2. \A i \in 1 .. n : t[i] = s[i] /\ o[i] = s[i]
    BY <1>1, <1>3
  <2>3. o = s
    <3>1. s = [i \in 1 .. n |-> s[i]]
      OBVIOUS
    <3> QED
      BY <2>2, <3>1
  <2>4. Sum(t) = Sum(s) + t[n + 1]
    BY <2>1, <2>2, SumLast
  <2>5. PICK u : u = Sum(s)
    OBVIOUS
  <2> QED
    <3>1. u + x = x + u
      BY <1>0, <2>5
    <3>2. Sum(t) = u + x
      BY <2>1, <2>4, <2>5
    <3> QED
      BY <2>3, <2>5, <3>1, <3>2
<1> QED
  BY <1>2, <1>3

(* The totals of the limits are those sums.                                *)
Masked(w, store, id) == [i \in DOMAIN store |-> IF store[i].id # id THEN w[i] ELSE 0]

(* What enforce_limits adds up are sums over the store's bundles.          *)
LEMMA TotalsAreSums ==
  ASSUME NEW id
  PROVE  /\ DictsAt(Others(id)) = Sum(Masked(Counts(bundles), bundles, id))
         /\ BytesAt(Others(id)) = Sum(Masked(Sizes(bundles), bundles, id))
         /\ DictsAt(DOMAIN bundles) = Sum(Counts(bundles))
         /\ BytesAt(DOMAIN bundles) = Sum(Sizes(bundles))
<1>1. /\ Masked(Counts(bundles), bundles, id) =
           [i \in DOMAIN bundles |->
              IF i \in Others(id) THEN Len(bundles[i].dicts) ELSE 0]
      /\ Masked(Sizes(bundles), bundles, id) =
           [i \in DOMAIN bundles |-> IF i \in Others(id) THEN bundles[i].bytes ELSE 0]
  BY DEF Masked, Counts, Sizes, Others
<1>2. /\ Counts(bundles) =
           [i \in DOMAIN bundles |->
              IF i \in DOMAIN bundles THEN Len(bundles[i].dicts) ELSE 0]
      /\ Sizes(bundles) =
           [i \in DOMAIN bundles |-> IF i \in DOMAIN bundles THEN bundles[i].bytes ELSE 0]
  BY DEF Counts, Sizes
<1> QED
  BY <1>1, <1>2 DEF DictsAt, BytesAt, Sum

(* The limits bound the two sums.                                          *)
LEMMA LimitsAreSums ==
  WithinLimits <=> /\ Sum(Counts(bundles)) <= MaxDictionaries
                   /\ Sum(Sizes(bundles)) <= MaxDictionaryBytes
BY TotalsAreSums DEF WithinLimits

(* A bundle is loaded only if the others and it are within the limits.     *)
LEMMA LoadWeighs ==
  ASSUME StoreInv, NEW b \in Bundles, ParseError(b) = "Ok",
         bundles' = Insert(bundles, Parsed(b))
  PROVE  WithinLimits'
<1> PICK c : c = Parsed(b)
  OBVIOUS
<1> PICK after : after = Insert(bundles, c)
  OBVIOUS
<1>1. Good(bundles) /\ bundles \in Seq(LoadedBundle)
  BY GoodStore DEF Good
<1>2. c \in LoadedBundle /\ c.id = b.id /\ c.bytes = b.bytes /\ Len(c.dicts) = Len(b.dicts)
  <2>1. c \in LoadedBundle /\ c.id = b.id
    BY ParsedIsGiven
  <2>2. c.bytes = b.bytes /\ DOMAIN c.dicts = DOMAIN b.dicts
    BY DEF Parsed
  <2>3. b.dicts \in Seq([verdict : {"Ok", "Truncated", "Malformed", "Unsupported"},
                         dict : Dicts])
    BY DictionaryAssumption DEF Bundle
  <2>4. c.dicts \in Seq(LoadedDict)
    BY <2>1 DEF LoadedBundle
  <2>5. Len(c.dicts) = Len(b.dicts)
    <3>1. PICK f, g : f = c.dicts /\ g = b.dicts
      OBVIOUS
    <3>2. DOMAIN f = DOMAIN g /\ DOMAIN f = 1 .. Len(f) /\ DOMAIN g = 1 .. Len(g)
          /\ Len(f) \in Nat /\ Len(g) \in Nat
      BY <2>2, <2>3, <2>4, <3>1
    <3>3. Len(f) = Len(g)
      BY <3>2, SameBounds
    <3> QED
      BY <3>1, <3>3
  <2> QED
    BY <2>1, <2>2, <2>5
<1>3. after \in Seq(LoadedBundle) /\ \E p : PutAt(bundles, p, c, after)
  BY <1>1, <1>2, InsertPuts
<1>4. PICK p : PutAt(bundles, p, c, after)
  BY <1>3
<1> DEFINE n  == Len(bundles)
           dO == Masked(Counts(bundles), bundles, c.id)
           bO == Masked(Sizes(bundles), bundles, c.id)
           k  == Len(after)
<1>5. /\ n \in Nat /\ DOMAIN bundles = 1 .. n
      /\ Counts(bundles) \in Seq(Nat) /\ DOMAIN Counts(bundles) = 1 .. n
      /\ Sizes(bundles) \in Seq(Nat) /\ DOMAIN Sizes(bundles) = 1 .. n
      /\ \A i \in 1 .. n : /\ Counts(bundles)[i] = Len(bundles[i].dicts)
                           /\ Sizes(bundles)[i] = bundles[i].bytes
  BY <1>1, WeightsTyped
<1>6. /\ k \in Nat /\ DOMAIN after = 1 .. k
      /\ Counts(after) \in Seq(Nat) /\ DOMAIN Counts(after) = 1 .. k
      /\ Sizes(after) \in Seq(Nat) /\ DOMAIN Sizes(after) = 1 .. k
      /\ \A i \in 1 .. k : /\ Counts(after)[i] = Len(after[i].dicts)
                           /\ Sizes(after)[i] = after[i].bytes
  BY <1>3, WeightsTyped
<1>7. Len(c.dicts) \in Nat /\ c.bytes \in Nat
  <2>1. c.dicts \in Seq(LoadedDict) /\ c.bytes \in Nat
    BY <1>2 DEF LoadedBundle
  <2> QED
    BY <2>1
<1>8. \A i \in 1 .. n : bundles[i].id = c.id => i = p
  <2> SUFFICES ASSUME NEW i \in 1 .. n, bundles[i].id = c.id, i # p PROVE FALSE
    OBVIOUS
  <2>1. i \in DOMAIN after \ {p}
    BY <1>4, <1>5 DEF PutAt
  <2> QED
    BY <1>4, <2>1 DEF PutAt
<1>9. /\ dO = [i \in 1 .. n |-> IF bundles[i].id # c.id THEN Counts(bundles)[i] ELSE 0]
      /\ bO = [i \in 1 .. n |-> IF bundles[i].id # c.id THEN Sizes(bundles)[i] ELSE 0]
  BY <1>5 DEF Masked
<1>10. /\ p \in 1 .. k /\ after[p] = c
       /\ \A i \in 1 .. k : i # p => i \in 1 .. n /\ after[i] = bundles[i]
  BY <1>4, <1>5, <1>6 DEF PutAt
<1>11. /\ Counts(after)[p] = Len(c.dicts) /\ Sizes(after)[p] = c.bytes
       /\ \A i \in 1 .. k : i # p => /\ Counts(after)[i] = Counts(bundles)[i]
                                     /\ Sizes(after)[i] = Sizes(bundles)[i]
  <2>1. p \in 1 .. k /\ after[p] = c
    BY <1>10
  <2>2. \A i \in 1 .. k : i # p => i \in 1 .. n /\ after[i] = bundles[i]
    BY <1>10
  <2>3. Counts(after)[p] = Len(c.dicts) /\ Sizes(after)[p] = c.bytes
    BY <1>6, <2>1
  <2> HIDE DEF n, k
  <2>4. ASSUME NEW i \in 1 .. k, i # p
        PROVE  Counts(after)[i] = Counts(bundles)[i] /\ Sizes(after)[i] = Sizes(bundles)[i]
    <3>1. i \in 1 .. n /\ after[i] = bundles[i]
      BY <2>2, <2>4
    <3>2. Counts(after)[i] = Len(after[i].dicts) /\ Sizes(after)[i] = after[i].bytes
      BY <1>6
    <3>3. Counts(bundles)[i] = Len(bundles[i].dicts) /\ Sizes(bundles)[i] = bundles[i].bytes
      BY <1>5, <3>1
    <3> QED
      BY <3>1, <3>2, <3>3
  <2> QED
    BY <2>3, <2>4
<1>12. dO \in Seq(Int) /\ bO \in Seq(Int)
  <2>1. /\ dO = [i \in 1 .. n |-> dO[i]] /\ bO = [i \in 1 .. n |-> bO[i]]
        /\ \A i \in 1 .. n : dO[i] \in Int /\ bO[i] \in Int
    <3>1. \A i \in 1 .. n : Counts(bundles)[i] \in Int /\ Sizes(bundles)[i] \in Int
      BY <1>5
    <3> QED
      BY <1>9, <3>1
  <2> HIDE DEF dO, bO
  <2> QED
    BY <1>5, <2>1, FunctionIsSeq
<1> HIDE DEF n, k, dO, bO
<1>13. Sum(dO) \in Int /\ Sum(bO) \in Int
  BY <1>12, SumTyped
<1>14. Sum(Counts(after)) = Len(c.dicts) + Sum(dO)
  <2> DEFINE s == Counts(bundles)
             t == Counts(after)
             x == Len(c.dicts)
  <2>1. /\ s \in Seq(Nat) /\ DOMAIN s = 1 .. n /\ t \in Seq(Nat) /\ DOMAIN t = 1 .. k
        /\ x \in Nat /\ t[p] = x /\ \A i \in 1 .. k : i # p => t[i] = s[i]
        /\ dO = [i \in 1 .. n |-> IF bundles[i].id # c.id THEN s[i] ELSE 0]
    BY <1>5, <1>6, <1>7, <1>9, <1>11
  <2> HIDE DEF s, t, x
  <2>2. Sum(t) = x + Sum(dO)
    <3>1. Weighed(bundles, c, p, after, n, k, s, dO, t, x)
      BY <1>4, <1>5, <1>6, <1>8, <2>1 DEF Weighed
    <3> QED
      BY <3>1, InsertWeighs
  <2> QED
    BY <2>2 DEF t, x
<1>15. Sum(Sizes(after)) = c.bytes + Sum(bO)
  <2> DEFINE s == Sizes(bundles)
             t == Sizes(after)
             x == c.bytes
  <2>1. /\ s \in Seq(Nat) /\ DOMAIN s = 1 .. n /\ t \in Seq(Nat) /\ DOMAIN t = 1 .. k
        /\ x \in Nat /\ t[p] = x /\ \A i \in 1 .. k : i # p => t[i] = s[i]
        /\ bO = [i \in 1 .. n |-> IF bundles[i].id # c.id THEN s[i] ELSE 0]
    BY <1>5, <1>6, <1>7, <1>9, <1>11
  <2> HIDE DEF s, t, x
  <2>2. Sum(t) = x + Sum(bO)
    <3>1. Weighed(bundles, c, p, after, n, k, s, bO, t, x)
      BY <1>4, <1>5, <1>6, <1>8, <2>1 DEF Weighed
    <3> QED
      BY <3>1, InsertWeighs
  <2> QED
    BY <2>2 DEF t, x
<1>16. /\ Len(c.dicts) + Sum(dO) <= MaxDictionaries
       /\ c.bytes + Sum(bO) <= MaxDictionaryBytes
  <2>1. PICK u, v : u = Len(c.dicts) + Sum(dO) /\ v = c.bytes + Sum(bO)
    OBVIOUS
  <2>2. u \in Int /\ v \in Int /\ MaxDictionaries \in Nat /\ MaxDictionaryBytes \in Nat
    BY <1>7, <1>13, <2>1, DictionaryAssumption
  <2>3. DictTotal(b) = u /\ ByteTotal(b) = v
    BY <1>2, <2>1, TotalsAreSums DEF DictTotal, ByteTotal, dO, bO
  <2>4. ~(u > MaxDictionaries) /\ ~(v > MaxDictionaryBytes)
    BY <2>3 DEF ParseError
  <2> QED
    BY <2>1, <2>2, <2>4
<1>17. bundles' = after
  OBVIOUS
<1> QED
  <2>1. WithinLimits' <=> (/\ Sum(Counts(bundles)) <= MaxDictionaries
                          /\ Sum(Sizes(bundles)) <= MaxDictionaryBytes)'
    BY LimitsAreSums, PTL
  <2> QED
    BY <1>14, <1>15, <1>16, <1>17, <2>1

(* Building a context moves a dictionary, and no bundle grows.             *)
LEMMA UseWeighs ==
  ASSUME StoreInv, WithinLimits, UseDictionary PROVE WithinLimits'
<1> DEFINE p == Position(bundles, frame.names)
           d == Built(bundles[p].dicts[Current + 1])
<1>1. /\ bundles' = [bundles EXCEPT ![p].dicts[Current + 1] = d]
      /\ node \in DOMAIN frame.nodes /\ Current # None /\ ContextError = "Ok"
  BY DEF UseDictionary
<1>2. p \in DOMAIN bundles /\ Current + 1 \in DOMAIN bundles[p].dicts
  BY <1>1, NodeDictionary
<1>3. /\ bundles \in Seq(LoadedBundle)
      /\ bundles[p].dicts \in Seq(LoadedDict)
  <2>1. bundles \in Seq(LoadedBundle)
    BY DEF StoreInv, TypeOK
  <2>2. bundles[p] \in LoadedBundle
    BY <1>2, <2>1, WeightsTyped, ElementOfSeq
  <2> QED
    BY <2>1, <2>2 DEF LoadedBundle
<1> PICK j : j = Current + 1
  OBVIOUS
<1> PICK q : q = p
  OBVIOUS
<1> PICK c : c = d
  OBVIOUS
<1> PICK held : held = [bundles[q].dicts EXCEPT ![j] = c]
  OBVIOUS
<1>4. bundles' = [bundles EXCEPT ![q].dicts[j] = c] /\ q \in DOMAIN bundles
      /\ j \in DOMAIN bundles[q].dicts /\ bundles[q].dicts \in Seq(LoadedDict)
  BY <1>1, <1>2, <1>3
<1> HIDE DEF p, d
<1>5. Len(held) = Len(bundles[q].dicts)
  BY <1>4, ExceptSeq
<1>6. /\ DOMAIN bundles' = DOMAIN bundles
      /\ bundles'[q].dicts = held /\ bundles'[q].bytes = bundles[q].bytes
      /\ \A i \in DOMAIN bundles : i # q => bundles'[i] = bundles[i]
  <2>1. bundles' = [bundles EXCEPT ![q] = [bundles[q] EXCEPT !.dicts = held]]
    BY <1>4
  <2>2. [bundles[q] EXCEPT !.dicts = held].dicts = held
        /\ [bundles[q] EXCEPT !.dicts = held].bytes = bundles[q].bytes
    BY <1>3, <1>4 DEF LoadedBundle
  <2> QED
    BY <1>4, <2>1, <2>2
<1>7. Counts(bundles') = Counts(bundles) /\ Sizes(bundles') = Sizes(bundles)
  <2>1. \A i \in DOMAIN bundles : /\ Len(bundles'[i].dicts) = Len(bundles[i].dicts)
                                 /\ bundles'[i].bytes = bundles[i].bytes
    BY <1>5, <1>6
  <2> QED
    BY <1>6, <2>1 DEF Counts, Sizes
<1>8. WithinLimits' <=> (/\ Sum(Counts(bundles)) <= MaxDictionaries
                        /\ Sum(Sizes(bundles)) <= MaxDictionaryBytes)'
  BY LimitsAreSums, PTL
<1> QED
  BY <1>7, <1>8, LimitsAreSums

(* An empty store is within any limits.                                    *)
LEMMA NothingWeighs ==
  bundles = <<>> => WithinLimits
<1> SUFFICES ASSUME bundles = <<>> PROVE WithinLimits
  OBVIOUS
<1>1. DOMAIN Counts(bundles) = {} /\ DOMAIN Sizes(bundles) = {}
  BY DEF Counts, Sizes
<1>2. Sum(Counts(bundles)) = 0 /\ Sum(Sizes(bundles)) = 0
  BY <1>1, SumEmpty
<1> QED
  BY <1>2, DictionaryAssumption, LimitsAreSums

(* No operation leaves a store beyond its limits.                          *)
LEMMA LimitsKept ==
  StoreInv /\ WithinLimits /\ [Next]_vars => WithinLimits'
<1> SUFFICES ASSUME StoreInv, WithinLimits, [Next]_vars PROVE WithinLimits'
  OBVIOUS
<1>1. ASSUME UNCHANGED bundles PROVE WithinLimits'
  <2>1. WithinLimits' <=> (/\ Sum(Counts(bundles)) <= MaxDictionaries
                          /\ Sum(Sizes(bundles)) <= MaxDictionaryBytes)'
    BY LimitsAreSums, PTL
  <2> QED
    BY <1>1, <2>1, LimitsAreSums DEF Counts, Sizes
<1>2. ASSUME NEW b \in Bundles, Load(b) \/ ProviderSupplies(b) PROVE WithinLimits'
  BY <1>1, <1>2, LoadWeighs DEF Load, ProviderSupplies
<1>3. CASE ClearBundles
  <2>1. bundles' = <<>>
    BY <1>3 DEF ClearBundles
  <2>2. (bundles = <<>>)' => WithinLimits'
    BY NothingWeighs, PTL
  <2> QED
    BY <2>1, <2>2
<1>4. CASE UseDictionary
  BY <1>4, UseWeighs
<1> QED
  BY <1>1, <1>2, <1>3, <1>4
     DEF Next, vars, ProvidedBundleFails, SetProvider, Decode, RefuseName, ProviderFails,
         ProviderHasNone, MissDictionary, RunPlainNode, NodeFails, Finish, End

(* check_dictionary_limits, made once before a bundle is read, keeps all   *)
(* loaded bundles together within max_dictionaries and                     *)
(* max_dictionary_bytes, whatever is replaced, supplied or refused.        *)
THEOREM LimitsHold == Spec => []WithinLimits
<1>1. Init => WithinLimits
  BY NothingWeighs DEF Init
<1> QED
  BY <1>1, StoreInvariant, LimitsKept, PTL DEF Spec
=============================================================================
