---------------------------- MODULE KernelProofs ----------------------------
(***************************************************************************)
(* Proofs about Rolz and BitStreams, the two codecs with loops of their    *)
(* own that NodeKernels composes, and about StringNodes.                   *)
(***************************************************************************)
EXTENDS Rolz, BitStreams, StringNodes, FiniteSetTheorems, DataInduction

-----------------------------------------------------------------------------
(***************************************************************************)
(* Rolz, for every call, value, hash and table size: each row              *)
(* lists positions already decoded, behind its two bytes, newest first, so *)
(* a match never copies from its own position or one after it, and what is *)
(* decoded never outgrows the declared size.                               *)
(*                                                                         *)
(* RolzInv is inductive.  A position is inserted only if it is after every *)
(* position inserted before (InStep says where `at` can be), and Put moves *)
(* each entry of its row one slot down.                                    *)
(*                                                                         *)
(* That a call also decodes what its sequences define is at the end of the *)
(* module: Following keeps the decoder in step with the definition.        *)
(***************************************************************************)

-----------------------------------------------------------------------------
(* Rows, and numbers.                                                      *)

(* The two bytes behind a position select a row.                           *)
LEMMA HasRow ==
  ASSUME RolzAssumption, NEW s \in Seq(Byte), NEW pos \in Nat, pos >= 2, pos <= Len(s)
  PROVE  RowAt(s, pos) \in Rows
<1>1. pos - 1 \in 1 .. Len(s) /\ pos \in 1 .. Len(s)
  BY LenProperties
<1>2. s[pos - 1] \in Byte /\ s[pos] \in Byte
  BY <1>1, ElementOfSeq
<1> QED
  BY <1>2 DEF RowAt, RolzAssumption

(* The larger of two numbers.                                              *)
LEMMA LargerOf ==
  ASSUME NEW a \in Nat, NEW b \in Nat
  PROVE  /\ Larger(a, b) \in Nat /\ Larger(a, b) >= a /\ Larger(a, b) >= b
         /\ Larger(a, b) \in {a, b}
BY DEF Larger
-----------------------------------------------------------------------------
(* The table.                                                              *)

TableTypes ==
  /\ heads \in [Rows -> 0 .. RowSize - 1]
  /\ entries \in [Rows -> [0 .. RowSize - 1 -> Entry]]

(* A slot is inside the row.                                               *)
LEMMA SlotInRow ==
  ASSUME RolzAssumption, TableTypes, NEW r \in Rows, NEW i \in 0 .. RowSize - 1
  PROVE  Slot(r, i) \in 0 .. RowSize - 1 /\ EntryAt(r, i) \in Entry
<1>1. heads[r] \in 0 .. RowSize - 1 /\ RowSize \in Nat
  BY DEF TableTypes, RolzAssumption
<1>2. Slot(r, i) \in 0 .. RowSize - 1
  BY <1>1 DEF Slot
<1> QED
  BY <1>2 DEF TableTypes, EntryAt

(* An entry holds a position if it is filled.                              *)
LEMMA EntryTypes ==
  ASSUME RolzAssumption, TableTypes, NEW r \in Rows, NEW i \in 0 .. RowSize - 1
  PROVE  /\ EntryAt(r, i).predicted \in Nat
         /\ Position(r, i) \in Int
         /\ Filled(r, i) => Position(r, i) \in Nat
BY SlotInRow DEF Entry, Position, Filled

(* What put changes, with the row named.                                   *)
PutIn(row, pos, length) ==
  /\ heads' = [heads EXCEPT ![row] = HeadBefore(row)]
  /\ entries' = [entries EXCEPT ![row][HeadBefore(row)] =
                   [index |-> pos + 1, predicted |-> Smaller(length, MaxPredicted)]]

(* put: the new entry is the first of its row, the others move down one    *)
(* slot, and no other row changes.                                         *)
LEMMA PutMoves ==
  ASSUME RolzAssumption, TableTypes, NEW row \in Rows, NEW pos \in Nat, NEW length \in Nat,
         PutIn(row, pos, length)
  PROVE  /\ TableTypes'
         /\ EntryAt(row, 0)' = [index |-> pos + 1, predicted |-> Smaller(length, MaxPredicted)]
         /\ EntryAt(row, 0)'.index = pos + 1
         /\ \A i \in 1 .. RowSize - 1 : EntryAt(row, i)' = EntryAt(row, i - 1)
         /\ \A r \in Rows \ {row} : \A i \in 0 .. RowSize - 1 :
              EntryAt(r, i)' = EntryAt(r, i)
<1> DEFINE head == HeadBefore(row)
           new == [index |-> pos + 1, predicted |-> Smaller(length, MaxPredicted)]
<1>1. RowSize \in Nat \ {0} /\ heads[row] \in 0 .. RowSize - 1
  BY DEF RolzAssumption, TableTypes
<1>2. head \in 0 .. RowSize - 1
  BY <1>1 DEF HeadBefore
<1>3. new \in Entry
  BY DEF Entry, Smaller, RolzAssumption
<1>4. /\ heads' = [heads EXCEPT ![row] = head]
      /\ entries' = [entries EXCEPT ![row][head] = new]
  BY DEF PutIn
<1>5. TableTypes'
  BY <1>2, <1>3, <1>4 DEF TableTypes
<1>6. heads'[row] = head /\ \A r \in Rows \ {row} : heads'[r] = heads[r]
  BY <1>4 DEF TableTypes
<1>7. /\ entries'[row][head] = new
      /\ \A k \in 0 .. RowSize - 1 : k # head => entries'[row][k] = entries[row][k]
      /\ \A r \in Rows \ {row} : entries'[r] = entries[r]
  BY <1>2, <1>4 DEF TableTypes
<1>8. EntryAt(row, 0)' = new
  <2>1. Slot(row, 0)' = head
    BY <1>1, <1>2, <1>6 DEF Slot
  <2>2. EntryAt(row, 0)' = entries'[row][Slot(row, 0)']
    BY DEF EntryAt
  <2> QED
    BY <2>1, <2>2, <1>7
<1>9. ASSUME NEW i \in 1 .. RowSize - 1
      PROVE  EntryAt(row, i)' = EntryAt(row, i - 1)
  <2>1. /\ Slot(row, i)' = Slot(row, i - 1) /\ Slot(row, i - 1) # head
        /\ Slot(row, i - 1) \in 0 .. RowSize - 1
    BY <1>1, <1>2, <1>6 DEF Slot, HeadBefore
  <2> QED
    BY <2>1, <1>7 DEF EntryAt
<1>10. ASSUME NEW r \in Rows \ {row}, NEW i \in 0 .. RowSize - 1
       PROVE  EntryAt(r, i)' = EntryAt(r, i)
  <2>1. heads'[r] = heads[r] /\ entries'[r] = entries[r]
    BY <1>6, <1>7
  <2>2. Slot(r, i)' = Slot(r, i)
    BY <2>1 DEF Slot
  <2> QED
    BY <2>1, <2>2 DEF EntryAt
<1>11. EntryAt(row, 0)'.index = pos + 1
  BY <1>8
<1> HIDE DEF head
<1> QED
  BY <1>5, <1>8, <1>9, <1>10, <1>11
-----------------------------------------------------------------------------
(* Positions before `pos`.                                                 *)
Before(pos) ==
  \A r \in Rows : \A i \in 0 .. RowSize - 1 : Filled(r, i) => Position(r, i) < pos

(* What is decoded grows at its end.                                       *)
Grows ==
  /\ out \in Seq(Byte) /\ out' \in Seq(Byte) /\ Len(out) <= Len(out')
  /\ \A i \in 1 .. Len(out) : out'[i] = out[i]

(* A position that was behind its two bytes stays so.                      *)
LEMMA RowStays ==
  ASSUME Grows, NEW pos \in Nat, pos >= 2, pos <= Len(out)
  PROVE  RowAt(out', pos) = RowAt(out, pos)
<1>1. Len(out) \in Nat
  BY LenProperties DEF Grows
<1>2. pos - 1 \in 1 .. Len(out) /\ pos \in 1 .. Len(out)
  BY <1>1
<1>3. out'[pos - 1] = out[pos - 1] /\ out'[pos] = out[pos]
  BY <1>2 DEF Grows
<1> QED
  BY <1>3 DEF RowAt

(* A table that nothing is put in keeps its order.                         *)
LEMMA TableStays ==
  ASSUME RolzAssumption, TableTypes, Grows, PointsBack, NewestFirst,
         UNCHANGED <<heads, entries>>
  PROVE  /\ TableTypes' /\ PointsBack' /\ NewestFirst'
         /\ \A pos : Before(pos) => Before(pos)'
<1>1. TableTypes'
  BY DEF TableTypes
<1>2. ASSUME NEW r \in Rows, NEW i \in 0 .. RowSize - 1
      PROVE  /\ EntryAt(r, i)' = EntryAt(r, i)
             /\ Filled(r, i)' = Filled(r, i) /\ Position(r, i)' = Position(r, i)
  BY DEF EntryAt, Slot, Filled, Position
<1>3. PointsBack'
  <2>1. SUFFICES ASSUME NEW r \in Rows, NEW i \in 0 .. RowSize - 1, Filled(r, i)'
                 PROVE  /\ Position(r, i)' \in ContextDepth .. Len(out') - 1
                        /\ RowAt(out', Position(r, i)') = r
    BY DEF PointsBack
  <2>2. /\ Position(r, i) \in ContextDepth .. Len(out) - 1
        /\ RowAt(out, Position(r, i)) = r
    BY <1>2, <2>1 DEF PointsBack
  <2>3. Len(out) \in Nat /\ Len(out') \in Nat /\ Len(out) <= Len(out')
    BY LenProperties DEF Grows
  <2>4. /\ Position(r, i) \in Nat /\ Position(r, i) >= 2 /\ Position(r, i) <= Len(out)
        /\ Position(r, i) \in ContextDepth .. Len(out') - 1
    BY <2>2, <2>3 DEF ContextDepth
  <2>5. RowAt(out', Position(r, i)) = r
    BY <2>2, <2>4, RowStays
  <2> QED
    BY <1>2, <2>4, <2>5
<1>4. NewestFirst'
  BY <1>2 DEF NewestFirst
<1>5. ASSUME NEW pos, Before(pos)
      PROVE  Before(pos)'
  BY <1>2, <1>5 DEF Before
<1> QED
  BY <1>1, <1>3, <1>4, <1>5

(* A position after all others becomes the newest of its row.              *)
LEMMA PutKeepsOrder ==
  ASSUME RolzAssumption, TableTypes, Grows, PointsBack, NewestFirst,
         NEW pos \in Nat, NEW length \in Nat, Before(pos),
         pos >= 2, pos <= Len(out), pos <= Len(out') - 1, Put(out, pos, length)
  PROVE  TableTypes' /\ PointsBack' /\ NewestFirst' /\ Before(pos + 1)'
<1>0. RowAt(out, pos) \in Rows
  BY HasRow DEF Grows
<1>1. PICK row \in Rows : row = RowAt(out, pos)
  BY <1>0
<1>2. RowSize \in Nat \ {0} /\ Len(out) \in Nat /\ Len(out') \in Nat
  BY LenProperties DEF Grows, RolzAssumption
<1>3. /\ TableTypes'
      /\ EntryAt(row, 0)'.index = pos + 1
      /\ \A i \in 1 .. RowSize - 1 : EntryAt(row, i)' = EntryAt(row, i - 1)
      /\ \A r \in Rows \ {row} : \A i \in 0 .. RowSize - 1 : EntryAt(r, i)' = EntryAt(r, i)
  <2>1. PutIn(row, pos, length)
    BY <1>1 DEF Put, PutIn
  <2> QED
    BY <2>1, PutMoves
<1>4. Filled(row, 0)' /\ Position(row, 0)' = pos
  BY <1>3 DEF Filled, Position
<1>5. ASSUME NEW i \in 1 .. RowSize - 1
      PROVE  /\ Filled(row, i)' = Filled(row, i - 1)
             /\ Position(row, i)' = Position(row, i - 1)
  BY <1>3 DEF Filled, Position
<1>6. ASSUME NEW r \in Rows \ {row}, NEW i \in 0 .. RowSize - 1
      PROVE  Filled(r, i)' = Filled(r, i) /\ Position(r, i)' = Position(r, i)
  BY <1>3 DEF Filled, Position
(* What is true of the new position and of every old one is true of all.   *)
<1>7. ASSUME NEW r \in Rows, NEW i \in 0 .. RowSize - 1, Filled(r, i)'
      PROVE  \/ r = row /\ Position(r, i)' = pos
             \/ \E k \in 0 .. RowSize - 1 : Filled(r, k) /\ Position(r, i)' = Position(r, k)
  <2>1. CASE r = row /\ i = 0
    BY <2>1, <1>4
  <2>2. CASE r = row /\ i # 0
    <3>1. i \in 1 .. RowSize - 1 /\ i - 1 \in 0 .. RowSize - 1
      BY <2>2, <1>2
    <3>2. Filled(r, i - 1) /\ Position(r, i)' = Position(r, i - 1)
      BY <2>2, <3>1, <1>5, <1>7
    <3> QED
      BY <3>1, <3>2
  <2>3. CASE r # row
    <3>1. Filled(r, i) /\ Position(r, i)' = Position(r, i)
      BY <2>3, <1>6, <1>7
    <3> QED
      BY <3>1
  <2> QED
    BY <2>1, <2>2, <2>3
<1>8. ASSUME NEW r \in Rows, NEW k \in 0 .. RowSize - 1, Filled(r, k)
      PROVE  /\ Position(r, k) \in Nat /\ Position(r, k) >= 2 /\ Position(r, k) <= Len(out) - 1
             /\ Position(r, k) < pos /\ RowAt(out', Position(r, k)) = r
  <2>1. /\ Position(r, k) \in ContextDepth .. Len(out) - 1
        /\ RowAt(out, Position(r, k)) = r /\ Position(r, k) < pos
    BY <1>8 DEF PointsBack, Before
  <2>2. Position(r, k) \in Nat /\ Position(r, k) >= 2 /\ Position(r, k) <= Len(out) - 1
    BY <2>1, <1>2 DEF ContextDepth
  <2>3. Position(r, k) <= Len(out)
    BY <2>2, <1>2
  <2> QED
    BY <2>1, <2>2, <2>3, RowStays
<1>9. RowAt(out', pos) = row
  BY <1>1, RowStays
<1>10. PointsBack'
  <2>1. SUFFICES ASSUME NEW r \in Rows, NEW i \in 0 .. RowSize - 1, Filled(r, i)'
                 PROVE  /\ Position(r, i)' \in ContextDepth .. Len(out') - 1
                        /\ RowAt(out', Position(r, i)') = r
    BY DEF PointsBack
  <2>2. CASE r = row /\ Position(r, i)' = pos
    BY <2>2, <1>2, <1>9 DEF ContextDepth
  <2>3. CASE \E k \in 0 .. RowSize - 1 : Filled(r, k) /\ Position(r, i)' = Position(r, k)
    <3>1. PICK k \in 0 .. RowSize - 1 : Filled(r, k) /\ Position(r, i)' = Position(r, k)
      BY <2>3
    <3>2. /\ Position(r, k) \in Nat /\ Position(r, k) >= 2 /\ Position(r, k) < pos
          /\ RowAt(out', Position(r, k)) = r
      BY <3>1, <1>8
    <3>3. Position(r, k) \in ContextDepth .. Len(out') - 1
      BY <3>2, <1>2 DEF ContextDepth
    <3> QED
      BY <3>1, <3>2, <3>3
  <2> QED
    BY <2>1, <2>2, <2>3, <1>7
<1>11. Before(pos + 1)'
  <2>1. SUFFICES ASSUME NEW r \in Rows, NEW i \in 0 .. RowSize - 1, Filled(r, i)'
                 PROVE  Position(r, i)' < pos + 1
    BY DEF Before
  <2>2. CASE Position(r, i)' = pos
    BY <2>2
  <2>3. CASE \E k \in 0 .. RowSize - 1 : Filled(r, k) /\ Position(r, i)' = Position(r, k)
    <3>1. PICK k \in 0 .. RowSize - 1 : Filled(r, k) /\ Position(r, i)' = Position(r, k)
      BY <2>3
    <3>2. Position(r, k) \in Nat /\ Position(r, k) < pos
      BY <3>1, <1>8
    <3> QED
      BY <3>1, <3>2
  <2> QED
    BY <2>1, <2>2, <2>3, <1>7
<1>12. NewestFirst'
  <2>1. SUFFICES ASSUME NEW r \in Rows, NEW i \in 0 .. RowSize - 1, NEW j \in 0 .. RowSize - 1,
                        i < j, Filled(r, j)'
                 PROVE  Filled(r, i)' /\ Position(r, j)' < Position(r, i)'
    BY DEF NewestFirst
  <2>2. CASE r # row
    <3>1. Filled(r, j)
      BY <2>1, <2>2, <1>6
    <3>2. Filled(r, i) /\ Position(r, j) < Position(r, i)
      BY <2>1, <3>1 DEF NewestFirst
    <3> QED
      BY <2>2, <3>2, <1>6
  <2>3. CASE r = row
    <3>1. j \in 1 .. RowSize - 1 /\ j - 1 \in 0 .. RowSize - 1
      BY <2>1, <1>2
    <3>2. Filled(r, j - 1) /\ Position(r, j)' = Position(r, j - 1)
      BY <2>1, <2>3, <3>1, <1>5
    <3>3. CASE i = 0
      <4>1. Position(r, j - 1) < pos
        BY <3>1, <3>2, <1>8
      <4> QED
        BY <3>2, <3>3, <4>1, <2>3, <1>4
    <3>4. CASE i # 0
      <4>1. i \in 1 .. RowSize - 1 /\ i - 1 \in 0 .. RowSize - 1 /\ i - 1 < j - 1
        BY <2>1, <3>4, <1>2
      <4>2. Filled(r, i - 1) /\ Position(r, j - 1) < Position(r, i - 1)
        BY <3>1, <3>2, <4>1 DEF NewestFirst
      <4> QED
        BY <2>3, <3>2, <4>1, <4>2, <1>5
    <3> QED
      BY <3>3, <3>4
  <2> QED
    BY <2>2, <2>3
<1> QED
  BY <1>3, <1>10, <1>11, <1>12
-----------------------------------------------------------------------------
(* Matches.                                                                *)

(* A call's types and literals, and what is read for a sequence.           *)
LEMMA JobTypes ==
  ASSUME RolzAssumption, RolzTypes
  PROVE  /\ job \in Job /\ job.size \in Nat /\ job.types \in Seq(TypeLz .. TypeRep)
         /\ Streams \in Seq(Seq(Byte))
         /\ \A n \in 1 .. Len(job.types) : job.types[n] \in TypeLz .. TypeRep
         /\ Len(out) \in Nat /\ Len(read) \in Nat
<1>1. job \in Job
  BY DEF RolzAssumption, RolzTypes
<1>2. /\ job.size \in Nat /\ job.types \in Seq(TypeLz .. TypeRep) /\ Streams \in Seq(Seq(Byte))
  BY <1>1 DEF Job, Literals, Streams
<1> QED
  BY <1>1, <1>2, ElementOfSeq, LenProperties DEF RolzTypes

(* What a sequence reads is a value.                                       *)
LEMMA LastIsValue ==
  ASSUME RolzTypes, Len(read) > 0
  PROVE  Last(read) \in Value
BY ElementOfSeq, LenProperties DEF RolzTypes, Last

(* The bytes of a match come from what is decoded.                         *)
LEMMA MatchIsBytes ==
  ASSUME out \in Seq(Byte), NEW offset \in 1 .. Len(out), NEW length \in Nat
  PROVE  MatchBytes(offset, length) \in Seq(Byte) /\ Len(MatchBytes(offset, length)) = length
<1>1. Len(out) \in Nat
  BY LenProperties
<1>2. ASSUME NEW i \in 1 .. length
      PROVE  out[Len(out) - offset + 1 + ((i - 1) % offset)] \in Byte
  <2>1. (i - 1) % offset \in 0 .. offset - 1
    <3>1. i - 1 \in Nat /\ offset \in Nat \ {0}
      BY <1>1
    <3> QED
      BY ONLY <3>1, ModRange
  <2> DEFINE d == (i - 1) % offset
  <2>2. Len(out) - offset + 1 + d \in 1 .. Len(out)
    <3> HIDE DEF d
    <3>1. d \in 0 .. offset - 1
      BY <2>1 DEF d
    <3> QED
      BY <1>1, <3>1
  <2> QED
    BY <2>2, ElementOfSeq
<1>3. MatchBytes(offset, length) \in [1 .. length -> Byte]
  BY <1>2 DEF MatchBytes
<1> QED
  BY <1>3

(* A match has a byte, and more than one if it is not from the table.      *)
LEMMA MatchHasBytes ==
  ASSUME RolzAssumption, RolzTypes, NEW type \in TypeLz .. TypeRep, NEW v \in Value,
         type = TypeRolz => Len(out) >= ContextDepth /\ v.code < RowSize
  PROVE  /\ LengthOf(type, v) \in Nat \ {0}
         /\ type # TypeRolz => LengthOf(type, v) >= 2
<1>1. /\ v.len \in Nat /\ v.code \in Nat /\ MinLength \in Nat \ {0} /\ RowSize \in Nat
      /\ LzMinLength \in Nat \ {0, 1} /\ RepMinLength \in Nat \ {0, 1}
  BY DEF Value, RolzAssumption
<1>2. CASE type = TypeRolz
  <2>1. RowAt(out, Len(out)) \in Rows
    BY <1>2, HasRow, LenProperties DEF RolzTypes, ContextDepth
  <2>2. TableTypes /\ v.code \in 0 .. RowSize - 1
    BY <1>1, <1>2 DEF RolzTypes, TableTypes
  <2>3. TableEntry(v.code).predicted \in Nat
    BY <2>1, <2>2, EntryTypes DEF TableEntry
  <2>4. MatchLength(TableEntry(v.code).predicted, v.len) \in Nat \ {0}
    BY <1>1, <2>3 DEF MatchLength
  <2> QED
    BY <1>2, <2>4 DEF LengthOf, TypeRolz, TypeLz
<1>3. CASE type # TypeRolz
  BY <1>1, <1>3 DEF LengthOf
<1> QED
  BY <1>2, <1>3

(* An entry of the row that looks it up lies before the position.          *)
LEMMA TableOffset ==
  ASSUME RolzAssumption, RolzTypes, PointsBack, NEW v \in Value, Resolves(TypeRolz, v)
  PROVE  OffsetOf(TypeRolz, v) > 0
<1>1. /\ Len(out) >= 2 /\ v.code < RowSize /\ TableEntry(v.code).index # 0
  BY DEF Resolves, TypeRolz, TypeLz, ContextDepth
<1>2. RowAt(out, Len(out)) \in Rows /\ Len(out) \in Nat
  BY <1>1, HasRow, LenProperties DEF RolzTypes
<1>3. v.code \in 0 .. RowSize - 1
  BY <1>1 DEF Value, RolzAssumption
<1>4. Filled(RowAt(out, Len(out)), v.code)
  BY <1>1 DEF Filled, TableEntry
<1>5. Position(RowAt(out, Len(out)), v.code) \in ContextDepth .. Len(out) - 1
  BY <1>2, <1>3, <1>4 DEF PointsBack
<1>6. OffsetOf(TypeRolz, v) = Len(out) - Position(RowAt(out, Len(out)), v.code)
  BY DEF OffsetOf, TableEntry, Position, TypeRolz, TypeLz
<1> QED
  BY <1>2, <1>5, <1>6 DEF ContextDepth

(* The recent offsets stay numbers.                                        *)
LEMMA RepsAreNumbers ==
  ASSUME reps \in Nat \X Nat \X Nat, NEW type, NEW v, NEW offset \in Nat
  PROVE  RepsAfter(type, v, offset) \in Nat \X Nat \X Nat
BY DEF RepsAfter
-----------------------------------------------------------------------------
(* The inductive invariant, one action at a time.                          *)

(* A table and an output that do not change keep their order.              *)
LEMMA Rests ==
  ASSUME RolzInv, RolzAssumption, UNCHANGED <<out, heads, entries>>
  PROVE  /\ TableTypes' /\ PointsBack' /\ NewestFirst' /\ Grows
         /\ \A pos : Before(pos) => Before(pos)'
<1>1. TableTypes /\ PointsBack /\ NewestFirst
  BY DEF RolzInv, RolzTypes, TableTypes
<1>2. Grows
  BY LenProperties DEF RolzInv, RolzTypes, Grows
<1> QED
  BY <1>1, <1>2, TableStays

(* A refused call.                                                         *)
LEMMA FailKeeps ==
  ASSUME RolzInv, RolzAssumption, NEW kind \in Results \ {"Redundant"}, Fail(kind),
         read' \in Seq(Value), Len(read') <= Len(job.types)
  PROVE  RolzInv'
<1>1. PointsBack' /\ NewestFirst'
  BY Rests DEF Fail
<1>2. RolzTypes'
  BY DEF RolzInv, RolzTypes, Fail, Streams
<1>3. InStep'
  BY DEF RolzInv, InStep, Fail
<1> QED
  BY <1>1, <1>2, <1>3 DEF RolzInv, Fail, Results

(* The checks of the header leave the tables alone.                        *)
LEMMA BeginKeeps ==
  ASSUME RolzInv, RolzAssumption, Begin
  PROVE  RolzInv'
<1>0. read' \in Seq(Value) /\ Len(read') <= Len(job.types)
  BY DEF Begin, RolzInv, RolzTypes
<1>1. CASE \E kind \in {"Unsupported", "Unparsed", "LimitExceeded", "AllocationFailed"} : Fail(kind)
  BY <1>0, <1>1, FailKeeps DEF Results
<1>2. CASE /\ phase' = "sequence" /\ phase = "begin"
           /\ UNCHANGED <<job, out, taken, left, at, reps, heads, entries, read, matched, result>>
  <2>1. PointsBack' /\ NewestFirst'
    BY <1>2, Rests
  <2>2. RolzTypes'
    BY <1>2 DEF RolzInv, RolzTypes, Streams
  <2>3. InStep'
    BY <1>2 DEF RolzInv, InStep
  <2> QED
    BY <1>2, <2>1, <2>2, <2>3 DEF RolzInv
<1> QED
  BY <1>1, <1>2 DEF Begin

(* A sequence is read, the tables stay.                                    *)
LEMMA ReadSequenceKeeps ==
  ASSUME RolzInv, RolzAssumption, ReadSequence
  PROVE  RolzInv'
<1>1. PICK v \in Values[job.types[Len(read) + 1]] :
        /\ read' = Append(read, v)
        /\ IF Len(out) + v.lit > job.size \/ v.lit > Remaining THEN Fail("Malformed")
           ELSE /\ left' = v.lit /\ at' = Larger(Len(out), ContextDepth)
                /\ phase' = "literals"
                /\ UNCHANGED <<job, out, taken, reps, heads, entries, matched, result>>
  BY DEF ReadSequence
<1>2. /\ Len(read) < Len(job.types) /\ Len(read) \in Nat /\ Len(out) \in Nat
      /\ job.size \in Nat /\ job.types[Len(read) + 1] \in TypeLz .. TypeRep
  <2>1. RolzTypes /\ Len(read) < Len(job.types)
    BY DEF RolzInv, ReadSequence
  <2>2. Len(read) + 1 \in 1 .. Len(job.types)
    BY <2>1, JobTypes, LenProperties
  <2> QED
    BY <2>1, <2>2, JobTypes
<1>3. v \in Value
  BY <1>2 DEF RolzAssumption
<1>4. /\ read' \in Seq(Value) /\ Len(read') = Len(read) + 1 /\ Len(read') <= Len(job.types)
  <2>1. read \in Seq(Value)
    BY DEF RolzInv, RolzTypes
  <2> QED
    BY <1>1, <1>2, <1>3, <2>1, AppendProperties
<1>5. CASE Fail("Malformed")
  BY <1>4, <1>5, FailKeeps DEF Results
<1>6. CASE /\ left' = v.lit /\ at' = Larger(Len(out), ContextDepth)
           /\ phase' = "literals" /\ Len(out) + v.lit <= job.size
           /\ UNCHANGED <<job, out, taken, reps, heads, entries, matched, result>>
  <2>1. PointsBack' /\ NewestFirst'
    BY <1>6, Rests
  <2>2. /\ v.lit \in Nat /\ at' \in Nat /\ at' >= 2 /\ at' >= Len(out)
        /\ at' = Larger(Len(out'), ContextDepth)
    BY <1>2, <1>3, <1>6, LargerOf DEF Value, ContextDepth
  <2>3. RolzTypes'
    BY <1>4, <1>6, <2>2 DEF RolzInv, RolzTypes, Streams
  <2>4. ASSUME NEW r \in Rows, NEW i \in 0 .. RowSize - 1, Filled(r, i)'
        PROVE  Position(r, i)' < at'
    <3>1. Position(r, i)' \in ContextDepth .. Len(out') - 1
      BY <2>1, <2>4 DEF PointsBack
    <3> QED
      BY <3>1, <1>2, <1>6, <2>2 DEF ContextDepth
  <2>5. InStep'
    BY <1>2, <1>4, <1>6, <2>2, <2>4 DEF InStep, ContextDepth
  <2> QED
    BY <1>6, <2>1, <2>3, <2>5 DEF RolzInv
<1>7. Len(out) + v.lit <= job.size \/ Len(out) + v.lit > job.size
  BY <1>2, <1>3 DEF Value
<1> QED
  BY <1>1, <1>5, <1>6, <1>7

(* A literal is appended behind all positions of the table.                *)
LEMMA AppendLiteralKeeps ==
  ASSUME RolzInv, RolzAssumption, AppendLiteral
  PROVE  RolzInv'
<1> DEFINE context == IF out = <<>> THEN 0 ELSE Last(out)
           k == job.literals.cluster[context]
<1>0. read' \in Seq(Value) /\ Len(read') <= Len(job.types)
  BY DEF AppendLiteral, RolzInv, RolzTypes
<1>1. CASE Fail("Malformed")
  BY <1>0, <1>1, FailKeeps DEF Results
<1>2. CASE /\ ~(context > job.literals.max \/ taken[k] = Len(Streams[k]))
           /\ out' = Append(out, Streams[k][taken[k] + 1])
           /\ taken' = [taken EXCEPT ![k] = @ + 1]
           /\ left' = left - 1 /\ phase \in {"literals", "rest"} /\ left > 0
           /\ UNCHANGED <<job, phase, at, reps, heads, entries, read, matched, result>>
  <2>1. RolzTypes /\ out \in Seq(Byte) /\ Len(out) \in Nat /\ left \in Nat
    BY LenProperties DEF RolzInv, RolzTypes
  <2>2. context \in Byte
    <3>1. CASE out = <<>>
      BY <3>1 DEF RolzAssumption
    <3>2. CASE out # <<>>
      <4>1. Len(out) \in 1 .. Len(out)
        BY <2>1, <3>2, EmptySeq
      <4> QED
        BY <2>1, <3>2, <4>1, ElementOfSeq DEF Last
    <3> QED
      BY <3>1, <3>2
  <2>3. k \in DOMAIN Streams
    <3>1. context <= job.literals.max
      <4>1. job \in Job /\ context \in Nat
        BY <2>1, <2>2, JobTypes DEF RolzAssumption
      <4>2. job.literals.max \in Nat
        <5>1. job.literals \in Literals
          BY <4>1 DEF Job
        <5> QED
          BY ONLY <5>1 DEF Literals
      <4>3. ~(context > job.literals.max)
        BY <1>2
      <4> HIDE DEF context
      <4> QED
        BY ONLY <4>1, <4>2, <4>3
    <3>2. job \in Jobs
      BY <2>1 DEF RolzTypes
    <3> QED
      BY <2>2, <3>1, <3>2 DEF RolzAssumption, Streams
  <2> HIDE DEF k
  <2>4. /\ taken[k] \in Nat /\ taken[k] + 1 \in 1 .. Len(Streams[k])
        /\ Streams[k] \in Seq(Byte)
    <3>1. Streams[k] \in Seq(Byte)
      BY <2>1, <2>3, JobTypes, ElementOfSeq, LenProperties
    <3>2. taken[k] \in Nat /\ taken[k] <= Len(Streams[k]) /\ taken[k] # Len(Streams[k])
      BY <1>2, <2>1, <2>3 DEF RolzTypes
    <3>3. Len(Streams[k]) \in Nat
      BY <3>1, LenProperties
    <3> QED
      BY <3>1, <3>2, <3>3
  <2>5. Streams[k][taken[k] + 1] \in Byte
    BY <2>4, ElementOfSeq
  <2>6. /\ out' \in Seq(Byte) /\ Len(out') = Len(out) + 1
        /\ \A i \in 1 .. Len(out) : out'[i] = out[i]
    BY <1>2, <2>1, <2>5, AppendProperties
  <2>7. Grows
    BY <2>1, <2>6 DEF Grows
  <2>8. PointsBack' /\ NewestFirst' /\ (Before(at) => \A r \in Rows : \A i \in 0 .. RowSize - 1 :
                                                    Filled(r, i)' => Position(r, i)' < at)
    <3>1. TableTypes /\ PointsBack /\ NewestFirst /\ UNCHANGED <<heads, entries>>
      BY <1>2 DEF RolzInv, RolzTypes, TableTypes
    <3>2. \A pos : Before(pos) => Before(pos)'
      BY <3>1, <2>7, TableStays
    <3> QED
      BY <3>1, <3>2, <2>7, TableStays DEF Before
  <2>9. RolzTypes'
    <3>1. /\ taken' \in [DOMAIN Streams -> Nat]
          /\ \A j \in DOMAIN Streams : taken'[j] <= Len(Streams[j])
      <4>1. /\ taken \in [DOMAIN Streams -> Nat]
            /\ \A j \in DOMAIN Streams : taken[j] <= Len(Streams[j])
        BY <2>1 DEF RolzTypes
      <4>2. taken' = [taken EXCEPT ![k] = @ + 1] /\ taken[k] + 1 <= Len(Streams[k])
        BY <1>2, <2>4
      <4> QED
        BY <2>3, <2>4, <4>1, <4>2
    <3>2. Streams' = Streams /\ left' \in Nat
      BY <1>2, <2>1 DEF Streams
    <3> QED
      BY <1>2, <2>1, <2>6, <3>1, <3>2 DEF RolzTypes
  <2>10. InStep'
    <3>1. Len(out') + left' <= job.size
      BY <1>2, <2>1, <2>6, JobTypes DEF RolzInv, InStep
    <3>2. phase = "literals" =>
            /\ at >= ContextDepth /\ Before(at) /\ Len(read) > 0
            /\ at <= Larger(Len(out), ContextDepth)
      BY DEF RolzInv, InStep, Before
    <3>3. at <= Larger(Len(out), ContextDepth) => at <= Larger(Len(out'), ContextDepth)
      BY <2>1, <2>6 DEF Larger, ContextDepth, RolzTypes
    <3> QED
      BY <1>2, <2>8, <3>1, <3>2, <3>3 DEF InStep
  <2> QED
    BY <1>2, <2>8, <2>9, <2>10 DEF RolzInv
<1> QED
  BY <1>1, <1>2 DEF AppendLiteral

(* The last literal of a sequence.                                         *)
LEMMA EndLiteralsKeeps ==
  ASSUME RolzInv, RolzAssumption, EndLiterals
  PROVE  RolzInv'
<1>1. PointsBack' /\ NewestFirst' /\ \A pos : Before(pos) => Before(pos)'
  BY Rests DEF EndLiterals
<1>2. RolzTypes'
  BY DEF EndLiterals, RolzInv, RolzTypes, Results, Streams
<1>3. phase' # "extend" /\ phase' \in {"done", "insert", "match"}
  BY DEF EndLiterals
<1>4. ASSUME phase' # "done"
      PROVE  /\ at >= ContextDepth /\ Before(at) /\ Len(read) > 0
             /\ at <= Larger(Len(out), ContextDepth)
  <2>1. phase = "literals"
    BY <1>4 DEF EndLiterals
  <2> QED
    BY <2>1 DEF RolzInv, InStep, Before
<1>5. Len(out') + left' <= job'.size /\ left' = 0
  BY DEF EndLiterals, RolzInv, InStep
<1>6. Before(at) => \A r \in Rows : \A i \in 0 .. RowSize - 1 : Filled(r, i)' => Position(r, i)' < at
  BY DEF Before, EndLiterals, Filled, Position, EntryAt, Slot
<1>7. InStep'
  BY <1>3, <1>4, <1>5, <1>6 DEF InStep, EndLiterals
<1>8. result' # "Redundant"
  BY DEF EndLiterals, RolzInv
<1> QED
  BY <1>1, <1>2, <1>7, <1>8 DEF RolzInv

(* A position of the literals enters the table.                            *)
LEMMA InsertLiteralKeeps ==
  ASSUME RolzInv, RolzAssumption, InsertLiteral
  PROVE  RolzInv'
<1>1. /\ RolzTypes /\ phase = "insert" /\ at >= 2 /\ at \in Nat /\ Len(out) \in Nat
      /\ Before(at) /\ at <= Larger(Len(out), ContextDepth) /\ Len(read) > 0 /\ left = 0
      /\ TableTypes /\ PointsBack /\ NewestFirst
  BY LenProperties DEF InsertLiteral, RolzInv, InStep, RolzTypes, TableTypes, Before, ContextDepth
<1>2. CASE at < Len(out)
  <2>1. Put(out, at, 0) /\ at' = at + 1 /\ phase' = phase
        /\ UNCHANGED <<job, out, taken, left, reps, read, matched, result>>
    BY <1>2 DEF InsertLiteral
  <2>2. PICK pos \in Nat : pos = at
    BY <1>1
  <2>3. Grows
    BY <1>1, <2>1 DEF Grows, RolzTypes
  <2>4. TableTypes' /\ PointsBack' /\ NewestFirst' /\ Before(pos + 1)'
    <3>1. Put(out, pos, 0) /\ Before(pos)
      BY <1>1, <2>1, <2>2
    <3>2. pos >= 2 /\ pos <= Len(out) /\ pos <= Len(out') - 1
      BY <1>1, <1>2, <2>1, <2>2
    <3> QED
      BY <1>1, <2>3, <3>1, <3>2, PutKeepsOrder
  <2>5. RolzTypes'
    BY <1>1, <2>1, <2>4 DEF RolzTypes, TableTypes, Streams
  <2>6. \A r \in Rows : \A i \in 0 .. RowSize - 1 : Filled(r, i)' => Position(r, i)' < at'
    BY <2>1, <2>2, <2>4 DEF Before
  <2>7. at' <= Larger(Len(out), ContextDepth) /\ at' >= 2
    BY <1>1, <1>2, <2>1 DEF Larger, ContextDepth
  <2>8. Len(out') + left' <= job'.size
    BY <2>1 DEF RolzInv, InStep
  <2>9. InStep'
    BY <1>1, <2>1, <2>6, <2>7, <2>8 DEF InStep, ContextDepth
  <2> QED
    BY <2>1, <2>4, <2>5, <2>9 DEF RolzInv
<1>3. CASE ~(at < Len(out))
  <2>1. /\ phase' = "match"
        /\ UNCHANGED <<job, out, taken, left, at, reps, heads, entries, read, matched, result>>
    BY <1>3 DEF InsertLiteral
  <2>2. PointsBack' /\ NewestFirst'
    BY <2>1, Rests
  <2>3. RolzTypes'
    BY <1>1, <2>1 DEF RolzTypes, Streams
  <2>4. InStep'
    BY <1>1, <2>1 DEF RolzInv, InStep
  <2> QED
    BY <2>1, <2>2, <2>3, <2>4 DEF RolzInv
<1> QED
  BY <1>2, <1>3

(* A position of the match enters the table.                               *)
LEMMA InsertMatchKeeps ==
  ASSUME RolzInv, RolzAssumption, InsertMatch
  PROVE  RolzInv'
<1>1. /\ RolzTypes /\ phase = "extend" /\ at >= 2 /\ at \in Nat /\ Len(out) \in Nat
      /\ Before(at) /\ Len(read) > 0 /\ left = 0 /\ matched \in Nat /\ matched >= 2
      /\ TableTypes /\ PointsBack /\ NewestFirst
  BY LenProperties DEF InsertMatch, RolzInv, InStep, RolzTypes, TableTypes, Before, ContextDepth
<1>2. /\ Put(out, at, Len(out) - at) /\ at' = at + 1
      /\ phase' = IF at = LastInsert THEN "sequence" ELSE "extend"
      /\ UNCHANGED <<job, out, taken, left, reps, read, matched, result>>
  BY DEF InsertMatch
<1>3. at \in {LastInsert - 1, LastInsert} /\ LastInsert = Len(out) - matched + 1
  BY <1>1 DEF RolzInv, InStep, LastInsert
<1>4. at <= Len(out) - 1
  BY <1>1, <1>3
<1>5. PICK pos \in Nat : pos = at
  BY <1>1
<1>6. PICK length \in Nat : length = Len(out) - pos
  BY <1>1, <1>4, <1>5
<1>7. Grows
  BY <1>1, <1>2 DEF Grows, RolzTypes
<1>8. TableTypes' /\ PointsBack' /\ NewestFirst' /\ Before(pos + 1)'
  <2>1. Put(out, pos, length) /\ Before(pos)
    BY <1>1, <1>2, <1>5, <1>6
  <2>2. pos >= 2 /\ pos <= Len(out) /\ pos <= Len(out') - 1
    BY <1>1, <1>2, <1>4, <1>5
  <2> QED
    BY <1>1, <1>7, <2>1, <2>2, PutKeepsOrder
<1>9. RolzTypes'
  BY <1>1, <1>2, <1>8 DEF RolzTypes, TableTypes, Streams
<1>10. \A r \in Rows : \A i \in 0 .. RowSize - 1 : Filled(r, i)' => Position(r, i)' < at'
  BY <1>2, <1>5, <1>8 DEF Before
<1>11. phase' = "extend" => at' \in {LastInsert' - 1, LastInsert'}
  <2>1. LastInsert' = LastInsert /\ LastInsert \in Int
    BY <1>1, <1>2, <1>3 DEF LastInsert
  <2>2. at # LastInsert => at = LastInsert - 1
    BY <1>3
  <2> QED
    BY <1>1, <1>2, <2>1, <2>2
<1>12. Len(out') + left' <= job'.size
  BY <1>2 DEF RolzInv, InStep
<1>13. InStep'
  BY <1>1, <1>2, <1>10, <1>11, <1>12 DEF InStep, ContextDepth
<1> QED
  BY <1>2, <1>8, <1>9, <1>13 DEF RolzInv

(* The end of the call leaves the tables alone.                            *)
LEMMA FinishKeeps ==
  ASSUME RolzInv, RolzAssumption, Finish
  PROVE  RolzInv'
<1>0. read' \in Seq(Value) /\ Len(read') <= Len(job.types)
  BY DEF Finish, RolzInv, RolzTypes
<1>1. CASE Fail("Malformed")
  BY <1>0, <1>1, FailKeeps DEF Results
<1>2. CASE /\ left' = job.size - Len(out) /\ phase' = "rest"
           /\ UNCHANGED <<job, out, taken, at, reps, heads, entries, read, matched, result>>
  <2>1. PointsBack' /\ NewestFirst'
    BY <1>2, Rests
  <2>2. left' \in Nat /\ Len(out') + left' <= job'.size
    <3>1. Len(out) \in Nat /\ left \in Nat /\ job.size \in Nat /\ Len(out) + left <= job.size
      BY JobTypes DEF RolzInv, InStep, RolzTypes
    <3> QED
      BY <1>2, <3>1
  <2>3. RolzTypes'
    BY <1>2, <2>2 DEF RolzInv, RolzTypes, Streams
  <2>4. InStep'
    BY <1>2, <2>2 DEF InStep
  <2> QED
    BY <1>2, <2>1, <2>3, <2>4 DEF RolzInv
<1> QED
  BY <1>1, <1>2 DEF Finish

(* A match from the table, inserted where it begins.                       *)
LEMMA TableMatchKeeps ==
  ASSUME RolzInv, RolzAssumption, phase = "match", Len(out) >= 2,
         NEW bytes \in Seq(Byte), Len(bytes) > 0, NEW length \in Nat,
         Put(out, Len(out), length), out' = out \o bytes
  PROVE  TableTypes' /\ PointsBack' /\ NewestFirst' /\ out' \in Seq(Byte)
<1>1. /\ out \in Seq(Byte) /\ Len(out) \in Nat /\ Len(bytes) \in Nat
      /\ TableTypes /\ PointsBack /\ NewestFirst
  BY LenProperties DEF RolzInv, RolzTypes, TableTypes
<1>2. /\ out' \in Seq(Byte) /\ Len(out') = Len(out) + Len(bytes)
      /\ \A i \in 1 .. Len(out) : out'[i] = out[i]
  BY <1>1, Extended
<1>3. Grows
  BY <1>1, <1>2 DEF Grows
<1>4. PICK pos \in Nat : pos = Len(out)
  BY <1>1
<1>5. Before(pos)
  <2>1. SUFFICES ASSUME NEW r \in Rows, NEW i \in 0 .. RowSize - 1, Filled(r, i)
                 PROVE  Position(r, i) < pos
    BY DEF Before
  <2>2. Position(r, i) \in ContextDepth .. Len(out) - 1
    BY <1>1, <2>1 DEF PointsBack
  <2> QED
    BY <2>2, <1>1, <1>4 DEF ContextDepth
<1>6. Put(out, pos, length) /\ pos >= 2 /\ pos <= Len(out) /\ pos <= Len(out') - 1
  BY <1>1, <1>2, <1>4
<1>7. TableTypes' /\ PointsBack' /\ NewestFirst'
  BY <1>1, <1>3, <1>5, <1>6, PutKeepsOrder
<1> QED
  BY <1>2, <1>7

(* A match of another type leaves the table for the steps after it.        *)
LEMMA OtherMatchKeeps ==
  ASSUME RolzInv, RolzAssumption, phase = "match",
         NEW bytes \in Seq(Byte), UNCHANGED <<heads, entries>>, out' = out \o bytes
  PROVE  /\ TableTypes' /\ PointsBack' /\ NewestFirst' /\ out' \in Seq(Byte)
         /\ \A r \in Rows : \A i \in 0 .. RowSize - 1 : Filled(r, i)' => Position(r, i)' < Len(out)
<1>1. /\ out \in Seq(Byte) /\ Len(out) \in Nat /\ Len(bytes) \in Nat
      /\ TableTypes /\ PointsBack /\ NewestFirst
  BY LenProperties DEF RolzInv, RolzTypes, TableTypes
<1>2. /\ out' \in Seq(Byte) /\ Len(out') = Len(out) + Len(bytes)
      /\ \A i \in 1 .. Len(out) : out'[i] = out[i]
  BY <1>1, Extended
<1>3. Grows
  BY <1>1, <1>2 DEF Grows
<1>4. TableTypes' /\ PointsBack' /\ NewestFirst'
  BY <1>1, <1>3, TableStays
<1>5. ASSUME NEW r \in Rows, NEW i \in 0 .. RowSize - 1, Filled(r, i)'
      PROVE  Position(r, i)' < Len(out)
  <2>1. Filled(r, i) /\ Position(r, i)' = Position(r, i)
    BY <1>5 DEF Filled, Position, EntryAt, Slot
  <2>2. Position(r, i) \in ContextDepth .. Len(out) - 1
    BY <1>1, <2>1 DEF PointsBack
  <2> QED
    BY <2>1, <2>2, <1>1 DEF ContextDepth
<1> QED
  BY <1>2, <1>4, <1>5

(* A match copies from a position of the table, which lies behind.         *)
LEMMA AppendMatchKeeps ==
  ASSUME RolzInv, RolzAssumption, AppendMatch
  PROVE  RolzInv'
<1>0. /\ RolzTypes /\ phase = "match" /\ Len(out) \in Nat /\ Len(read) > 0 /\ left = 0
      /\ Len(read) \in 1 .. Len(job.types) /\ job.size \in Nat /\ PointsBack
      /\ read' = read
  <2>1. phase = "match" /\ read' = read
    BY DEF AppendMatch
  <2>2. RolzTypes /\ PointsBack /\ Len(read) > 0 /\ left = 0
    BY <2>1 DEF RolzInv, InStep
  <2>3. Len(out) \in Nat /\ Len(read) \in Nat /\ job.size \in Nat /\ Len(job.types) \in Nat
    BY <2>2, JobTypes, LenProperties
  <2>4. Len(read) <= Len(job.types)
    BY <2>2 DEF RolzTypes
  <2> QED
    BY <2>1, <2>2, <2>3, <2>4
<1>1. PICK type \in TypeLz .. TypeRep : type = job.types[Len(read)]
  BY <1>0, JobTypes
<1>2. PICK v \in Value : v = Last(read)
  BY <1>0, LastIsValue
<1> DEFINE offset == OffsetOf(type, v)
           length == LengthOf(type, v)
<1>3. \/ ~Resolves(type, v) /\ Fail("Malformed")
      \/ Resolves(type, v) /\ type = TypeRolz /\ offset <= 0
      \/ Fail("Malformed")
      \/ /\ Resolves(type, v)
         /\ ~(offset \notin 1 .. Len(out) \/ Len(out) + length > job.size)
         /\ out' = out \o MatchBytes(offset, length)
         /\ reps' = RepsAfter(type, v, offset)
         /\ IF type = TypeRolz THEN Put(out, Len(out), length)
            ELSE UNCHANGED <<heads, entries>>
         /\ matched' = length /\ at' = Len(out)
         /\ phase' = IF type # TypeRolz /\ HasTable /\ Len(out) >= ContextDepth
                     THEN "extend" ELSE "sequence"
         /\ UNCHANGED <<job, taken, left, result>>
  BY <1>1, <1>2 DEF AppendMatch
<1>4. CASE Fail("Malformed")
  BY <1>0, <1>4, FailKeeps DEF Results, RolzTypes
<1>5. CASE Resolves(type, v) /\ type = TypeRolz /\ offset <= 0
  <2>1. offset > 0 /\ offset \in Int
    <3>1. Resolves(TypeRolz, v) /\ offset = OffsetOf(TypeRolz, v)
      BY <1>5
    <3>2. OffsetOf(TypeRolz, v) > 0
      BY <1>0, <3>1, TableOffset
    <3>3. OffsetOf(TypeRolz, v) \in Int
      <4>1. RowAt(out, Len(out)) \in Rows
        BY <1>0, <3>1, HasRow DEF Resolves, RolzTypes, TypeRolz, TypeLz, ContextDepth
      <4>2. v.code \in 0 .. RowSize - 1
        BY <3>1 DEF Resolves, TypeRolz, TypeLz, Value, RolzAssumption
      <4>3. TableTypes
        BY <1>0 DEF RolzTypes, TableTypes
      <4>4. TableEntry(v.code) \in Entry
        BY <4>1, <4>2, <4>3, SlotInRow DEF TableEntry
      <4> QED
        BY <1>0, <4>4 DEF OffsetOf, Entry, TypeRolz, TypeLz
    <3> QED
      BY <3>1, <3>2, <3>3
  <2> QED
    BY <1>5, <2>1
<1>6. CASE /\ Resolves(type, v)
           /\ ~(offset \notin 1 .. Len(out) \/ Len(out) + length > job.size)
           /\ out' = out \o MatchBytes(offset, length)
           /\ reps' = RepsAfter(type, v, offset)
           /\ IF type = TypeRolz THEN Put(out, Len(out), length)
              ELSE UNCHANGED <<heads, entries>>
           /\ matched' = length /\ at' = Len(out)
           /\ phase' = IF type # TypeRolz /\ HasTable /\ Len(out) >= ContextDepth
                       THEN "extend" ELSE "sequence"
           /\ UNCHANGED <<job, taken, left, result>>
  <2>1. type = TypeRolz => Len(out) >= ContextDepth /\ v.code < RowSize
    BY <1>6 DEF Resolves, TypeRolz, TypeLz
  <2>2. length \in Nat \ {0} /\ (type # TypeRolz => length >= 2)
    BY <1>0, <2>1, MatchHasBytes
  <2>3. offset \in 1 .. Len(out) /\ offset \in Nat
    BY <1>0, <1>6
  <2>4. MatchBytes(offset, length) \in Seq(Byte) /\ Len(MatchBytes(offset, length)) = length
    <3> HIDE DEF offset, length
    <3> QED
      BY <1>0, <2>2, <2>3, MatchIsBytes DEF RolzTypes
  <2>5. reps' \in Nat \X Nat \X Nat
    BY <1>0, <1>6, <2>3, RepsAreNumbers DEF RolzTypes
  <2> HIDE DEF offset, length
  <2>6. TableTypes' /\ PointsBack' /\ NewestFirst' /\ out' \in Seq(Byte)
    <3>1. CASE type = TypeRolz
      <4>1. Len(out) >= 2 /\ Put(out, Len(out), length)
        BY <1>6, <2>1, <3>1 DEF ContextDepth
      <4>2. Len(MatchBytes(offset, length)) > 0 /\ length \in Nat
        BY <2>2, <2>4
      <4> QED
        BY <1>0, <1>6, <2>4, <4>1, <4>2, TableMatchKeeps
    <3>2. CASE type # TypeRolz
      BY <1>0, <1>6, <2>4, <3>2, OtherMatchKeeps
    <3> QED
      BY <3>1, <3>2
  <2>7. RolzTypes'
    <3>1. at' \in Nat /\ matched' \in Nat /\ phase' \in {"extend", "sequence"}
      BY <1>0, <1>6, <2>2
    <3>2. UNCHANGED <<job, taken, left, read, result, Streams>>
      BY <1>0, <1>6 DEF Streams
    <3>3. /\ job \in Jobs /\ taken \in [DOMAIN Streams -> Nat] /\ left \in Nat
          /\ \A j \in DOMAIN Streams : taken[j] <= Len(Streams[j])
          /\ read \in Seq(Value) /\ Len(read) <= Len(job.types) /\ result \in Results
      BY <1>0 DEF RolzTypes
    <3> QED
      BY <2>5, <2>6, <3>1, <3>2, <3>3 DEF RolzTypes, TableTypes
  <2>8. Len(out') = Len(out) + length
    <3>1. out \in Seq(Byte) /\ out' = out \o MatchBytes(offset, length)
      BY <1>0, <1>6 DEF RolzTypes
    <3> QED
      BY ONLY <2>4, <3>1, Extended
  <2>9. Len(out') + left' <= job'.size
    BY <1>0, <1>6, <2>2, <2>8
  <2>10. ASSUME phase' = "extend"
         PROVE  /\ at' >= ContextDepth /\ at' \in {LastInsert' - 1, LastInsert'} /\ matched' >= 2
                /\ \A r \in Rows : \A i \in 0 .. RowSize - 1 : Filled(r, i)' => Position(r, i)' < at'
    <3>1. type # TypeRolz /\ Len(out) >= ContextDepth /\ at' = Len(out) /\ matched' = length
      BY <1>6, <2>10
    <3>2. matched' >= 2 /\ LastInsert' = Len(out) + 1
      BY <1>0, <2>2, <2>8, <3>1 DEF LastInsert
    <3>3. \A r \in Rows : \A i \in 0 .. RowSize - 1 : Filled(r, i)' => Position(r, i)' < Len(out)
      BY <1>0, <1>6, <2>4, <3>1, OtherMatchKeeps
    <3>4. at' \in {LastInsert' - 1, LastInsert'}
      BY <1>0, <3>1, <3>2
    <3> QED
      BY <3>1, <3>2, <3>3, <3>4
  <2>11. InStep'
    <3>1. phase' \in {"extend", "sequence"} /\ left' = 0 /\ Len(read') > 0
      BY <1>0, <1>6
    <3> QED
      BY <3>1, <2>9, <2>10 DEF InStep
  <2>12. result' # "Redundant"
    BY <1>6 DEF RolzInv
  <2> QED
    BY <2>6, <2>7, <2>11, <2>12 DEF RolzInv
<1> HIDE DEF offset, length
<1> QED
  BY <1>3, <1>4, <1>5, <1>6
-----------------------------------------------------------------------------
(* The tables start empty.                                                 *)
LEMMA RolzInitInv ==
  ASSUME RolzAssumption, RolzInit
  PROVE  RolzInv
<1>1. Jobs \subseteq Job /\ RowSize \in Nat \ {0} /\ job \in Jobs
  BY DEF RolzAssumption, RolzInit
<1>2. job.size \in Nat /\ job.types \in Seq(TypeLz .. TypeRep) /\ Streams \in Seq(Seq(Byte))
  BY <1>1 DEF Job, Literals, Streams
<1>3. \A r \in Rows : \A i \in 0 .. RowSize - 1 : EntryAt(r, i) = Empty /\ ~Filled(r, i)
  BY <1>1 DEF RolzInit, EntryAt, Slot, Filled, Empty
<1>4. RolzTypes
  <2>1. Empty \in Entry
    BY DEF Empty, Entry
  <2>2. \A k \in DOMAIN Streams : Len(Streams[k]) \in Nat
    BY <1>2, ElementOfSeq, LenProperties
  <2>3. out = <<>> /\ read = <<>> /\ Len(read) = 0 /\ out \in Seq(Byte) /\ read \in Seq(Value)
    BY EmptySeq DEF RolzInit
  <2>4. Len(job.types) \in Nat
    BY <1>2, LenProperties
  <2>5. taken \in [DOMAIN Streams -> Nat] /\ \A k \in DOMAIN Streams : taken[k] <= Len(Streams[k])
    BY <2>2 DEF RolzInit, Streams
  <2>6. /\ heads \in [Rows -> 0 .. RowSize - 1]
        /\ entries \in [Rows -> [0 .. RowSize - 1 -> Entry]]
    BY <1>1, <2>1 DEF RolzInit
  <2>7. /\ left \in Nat /\ at \in Nat /\ reps \in Nat \X Nat \X Nat /\ matched \in Nat
        /\ phase = "begin" /\ result \in Results
    BY DEF RolzInit, Results
  <2> QED
    BY <1>1, <2>3, <2>4, <2>5, <2>6, <2>7 DEF RolzTypes
<1>5. PointsBack /\ NewestFirst
  BY <1>3 DEF PointsBack, NewestFirst
<1>6. InStep
  BY <1>2 DEF RolzInit, InStep
<1> QED
  BY <1>4, <1>5, <1>6 DEF RolzInv, RolzInit

(* Each row of the table lists the positions behind its two bytes, newest  *)
(* first; every match from it copies from before its own position, and the *)
(* output stays within the declared size.                                  *)
THEOREM RolzInvariant == RolzSpec => []RolzInv
<1>1. RolzInit => RolzInv
  BY RolzInitInv, RolzAssumption
<1>2. RolzInv /\ [RolzNext]_rolzVars => RolzInv'
  <2>1. SUFFICES ASSUME RolzInv, [RolzNext]_rolzVars
                 PROVE  RolzInv'
    OBVIOUS
  <2>2. CASE UNCHANGED rolzVars
    <3>1. PointsBack' /\ NewestFirst'
      BY <2>1, <2>2, Rests, RolzAssumption DEF rolzVars
    <3>2. RolzTypes'
      BY <2>1, <2>2 DEF RolzInv, RolzTypes, Streams, rolzVars
    <3>3. InStep'
      BY <2>1, <2>2 DEF RolzInv, InStep, rolzVars, LastInsert, Filled, Position, EntryAt, Slot
    <3> QED
      BY <2>1, <2>2, <3>1, <3>2, <3>3 DEF RolzInv, rolzVars
  <2> QED
    BY <2>1, <2>2, RolzAssumption, BeginKeeps, ReadSequenceKeeps, AppendLiteralKeeps,
       EndLiteralsKeeps, InsertLiteralKeeps, AppendMatchKeeps, InsertMatchKeeps, FinishKeeps
       DEF RolzNext
<1> QED
  BY <1>1, <1>2, PTL DEF RolzSpec

-----------------------------------------------------------------------------
(***************************************************************************)
(* BitStreams, for every source, register and sequence of                  *)
(* reads: a read gives the next bits of the source, whichever of the words *)
(* and bytes loaded them.                                                  *)
(*                                                                         *)
(* The register mirrors the source from Consumed on (Mirrors): a load does *)
(* not move Consumed, and what it ORs over the bits already there is the   *)
(* same.  BitInv adds why a read is refused only at the end: after a load  *)
(* the bits wanted are there, or no byte is left (Loads).                  *)
(***************************************************************************)

-----------------------------------------------------------------------------
(* Sizes.                                                                  *)

(* The sizes of the register.                                              *)
LEMMA Sizes ==
  ASSUME BitAssumption
  PROVE  /\ BitsPerByte \in Nat \ {0} /\ RegisterBytes \in Nat
         /\ RegisterBits \in Nat /\ LargestTake \in Nat /\ RegisterBits >= 1
         /\ LargestTake + BitsPerByte = RegisterBits
         /\ FirstTake \in Nat /\ FirstTake <= LargestTake
         /\ RegisterBits - FirstTake <= LargestTake
<1>1. BitsPerByte \in Nat \ {0} /\ RegisterBytes \in Nat \ {0, 1}
  BY DEF BitAssumption
<1>2. BitsPerByte * 2 <= BitsPerByte * RegisterBytes
  BY <1>1, ProductsOrdered
<1>3. BitsPerByte * RegisterBytes \in Nat
  BY <1>1, Products
<1> QED
  BY <1>1, <1>2, <1>3 DEF BitAssumption, RegisterBits, LargestTake
-----------------------------------------------------------------------------
(* The inductive invariant.                                                *)

(* After a load the bits wanted are there, or every byte is.               *)
Loads ==
  /\ step # "end" => answer = "none"
  /\ step = "give" => available >= want \/ nextByte = source.size

BitInv == BitsAsRead /\ Loads

(* What the types say, in one place.                                       *)
LEMMA Typed ==
  ASSUME BitAssumption, BitTypes
  PROVE  /\ source.size \in Nat /\ source.ones \subseteq Nat
         /\ nextByte \in Nat /\ available \in Nat /\ available <= RegisterBits
         /\ want \in Nat /\ want <= LargestTake /\ later \in Nat /\ later <= LargestTake
         /\ from \in Nat /\ got \in Nat
         /\ \A k \in container : k \in Nat /\ k < RegisterBits
         /\ BitsPerByte * nextByte \in Nat
<1>1. source \in Source
  BY DEF BitTypes, BitAssumption
<1>2. source.size \in Nat /\ source.ones \subseteq Nat
  BY <1>1 DEF Source
<1>3. nextByte \in Nat /\ BitsPerByte \in Nat
  BY DEF BitTypes, BitAssumption
<1>4. BitsPerByte * nextByte \in Nat
  BY <1>3, Products
<1> QED
  BY <1>2, <1>3, <1>4, Sizes DEF BitTypes

(* Loading `n` bytes keeps the mirror and the bits consumed.               *)
LEMMA LoadMirrors ==
  ASSUME BitAssumption, BitTypes, Mirrors, NEW length \in Nat, NEW n \in Nat,
         BitsPerByte * n <= length, available + BitsPerByte * n <= RegisterBits,
         container' = Merged(nextByte, length), nextByte' = nextByte + n,
         available' = available + BitsPerByte * n, source' = source
  PROVE  /\ Consumed' = Consumed /\ Mirrors'
         /\ container' \in SUBSET (0 .. RegisterBits - 1) /\ available' \in 0 .. RegisterBits
<1>1. /\ nextByte \in Nat /\ available \in Nat /\ RegisterBits \in Nat /\ BitsPerByte \in Nat
      /\ BitsPerByte * nextByte \in Nat /\ BitsPerByte * n \in Nat
  BY Typed, Sizes, Products
<1>2. BitsPerByte * (nextByte + n) = BitsPerByte * nextByte + BitsPerByte * n
  BY <1>1, Products
<1>3. Consumed' = Consumed /\ Consumed \in Int /\ Consumed >= 0
  <2>1. Consumed = BitsPerByte * nextByte - available
    BY DEF Consumed
  <2>2. Consumed' = (BitsPerByte * nextByte + BitsPerByte * n) - (available + BitsPerByte * n)
    BY <1>2 DEF Consumed
  <2>3. Consumed >= 0
    BY DEF Mirrors
  <2> QED
    BY <1>1, <2>1, <2>2, <2>3
<1>4. \A k \in 0 .. RegisterBits - 1 :
        BitsPerByte * nextByte + (k - available) = Consumed + k
  BY <1>1 DEF Consumed
<1>5. \A k : k \in container' <=>
        /\ k \in 0 .. RegisterBits - 1
        /\ \/ k \in container
           \/ available <= k /\ k < available + length /\ Consumed + k \in source.ones
  BY <1>4 DEF Merged
<1>6. \A k \in container' : Consumed + k \in source.ones
  BY <1>5 DEF Mirrors
<1>7. ASSUME NEW k \in 0 .. RegisterBits - 1, k < available', Consumed + k \in source.ones
      PROVE  k \in container'
  <2>1. k < available => k \in container
    BY <1>7 DEF Mirrors
  <2>2. k < available + length
    BY <1>1, <1>7
  <2> QED
    BY <1>1, <1>5, <1>7, <2>1, <2>2
<1>8. Mirrors'
  BY <1>3, <1>6, <1>7 DEF Mirrors
<1>9. container' \in SUBSET (0 .. RegisterBits - 1)
  BY <1>5
<1>10. available' \in 0 .. RegisterBits
  BY <1>1
<1> QED
  BY <1>3, <1>8, <1>9, <1>10

(* A step that loads and takes nothing.                                    *)
LEMMA StillMirrors ==
  ASSUME Mirrors, UNCHANGED <<source, nextByte, container, available>>
  PROVE  Mirrors' /\ Consumed' = Consumed
BY DEF Mirrors, Consumed
-----------------------------------------------------------------------------
(* A request starts a read.                                                *)
LEMMA AskKeeps ==
  ASSUME BitAssumption, BitInv, NEW bits \in Reads, Ask(bits)
  PROVE  BitInv'
<1>1. Mirrors' /\ Consumed' = Consumed
  BY StillMirrors DEF Ask, BitInv, BitsAsRead
<1>2. bits \in Nat /\ bits <= RegisterBits
  BY DEF Ask, BitAssumption
<1>3. want' \in 0 .. LargestTake /\ later' \in Nat /\ later' <= LargestTake
  BY <1>2, Sizes DEF Ask
<1>4. Consumed \in Nat
  BY Typed DEF BitInv, BitsAsRead, Mirrors, Consumed
<1>5. /\ step' = "take" /\ from' = Consumed /\ value' = {} /\ got' = 0 /\ answer' = answer
      /\ step = "idle" /\ UNCHANGED <<source, nextByte, container, available>>
  BY DEF Ask
<1>6. BitTypes'
  BY <1>3, <1>4, <1>5 DEF BitInv, BitsAsRead, BitTypes
<1>7. answer = "none"
  BY <1>5 DEF BitInv, Loads
<1>8. ReadsBits'
  <2>1. from' + got' = Consumed'
    BY <1>1, <1>4, <1>5
  <2>2. value' = {k \in 0 .. got' - 1 : from' + k \in source'.ones}
    BY <1>5
  <2> QED
    BY <1>5, <1>7, <2>1, <2>2 DEF ReadsBits
<1> QED
  BY <1>1, <1>5, <1>6, <1>7, <1>8 DEF BitInv, BitsAsRead, Loads

(* A request for more bits than a read gives.                              *)
LEMMA AskTooMuchKeeps ==
  ASSUME BitInv, NEW bits, AskTooMuch(bits)
  PROVE  BitInv'
<1>1. Mirrors' /\ Consumed' = Consumed
  BY StillMirrors DEF AskTooMuch, BitInv, BitsAsRead
<1>2. BitTypes'
  BY DEF AskTooMuch, BitInv, BitsAsRead, BitTypes
<1>3. ReadsBits'
  BY <1>1 DEF AskTooMuch, BitInv, BitsAsRead, ReadsBits
<1> QED
  BY <1>1, <1>2, <1>3 DEF AskTooMuch, BitInv, BitsAsRead, Loads

(* A step towards `give` or `bytes` that leaves the read as it is.         *)
LEMMA GoesOn ==
  ASSUME BitInv, Consumed' = Consumed, step \in {"take", "bytes"},
         step' \in {"bytes", "give"},
         UNCHANGED <<source, from, later, want, value, got, answer>>
  PROVE  ReadsBits' /\ answer' = "none"
BY DEF BitInv, BitsAsRead, ReadsBits, Loads

(* A whole word goes into the container.                                   *)
LEMMA LoadWordKeeps ==
  ASSUME BitAssumption, BitInv, LoadWord
  PROVE  BitInv'
<1>1. BitTypes /\ Mirrors
  BY DEF BitInv, BitsAsRead
<1>2. /\ step = "take" /\ available < want /\ nextByte + RegisterBytes <= source.size
      /\ container' = Merged(nextByte, RegisterBits) /\ nextByte' = nextByte + Loaded
      /\ available' = available + BitsPerByte * Loaded /\ step' = "give"
      /\ UNCHANGED <<source, from, later, want, value, got, answer>>
  BY DEF LoadWord, Fits, Reading
<1>3. /\ RegisterBits - 1 - available \in Nat /\ RegisterBits \in Nat /\ available \in Nat
      /\ BitsPerByte \in Nat \ {0} /\ RegisterBytes \in Nat /\ want \in Nat /\ want <= LargestTake
      /\ LargestTake + BitsPerByte = RegisterBits /\ LargestTake \in Nat
      /\ nextByte \in Nat /\ source.size \in Nat
  BY <1>1, <1>2, Typed, Sizes
<1>4. PICK a \in Nat : a = RegisterBits - 1 - available
  BY <1>3
<1>5. PICK n : n = Loaded
  OBVIOUS
<1>6. n \in Nat /\ BitsPerByte * n <= a /\ a < BitsPerByte * n + BitsPerByte
  BY <1>3, <1>4, <1>5, Quotient DEF Loaded
<1>7. BitsPerByte * n \in Nat
  BY <1>3, <1>6, Products
<1>8. BitsPerByte * n <= RegisterBits /\ available + BitsPerByte * n <= RegisterBits
  BY <1>3, <1>4, <1>6, <1>7
<1>9. /\ Consumed' = Consumed /\ Mirrors'
      /\ container' \in SUBSET (0 .. RegisterBits - 1) /\ available' \in 0 .. RegisterBits
  BY <1>1, <1>2, <1>3, <1>5, <1>6, <1>8, LoadMirrors
<1>10. n <= RegisterBytes
  <2>1. SUFFICES ASSUME RegisterBytes + 1 <= n
                 PROVE  FALSE
    BY <1>3, <1>6
  <2>2. BitsPerByte * (RegisterBytes + 1) <= BitsPerByte * n
    BY <2>1, <1>3, <1>6, ProductsOrdered
  <2>3. BitsPerByte * (RegisterBytes + 1) = RegisterBits + BitsPerByte
    BY <1>3, Products DEF RegisterBits
  <2> QED
    BY <2>2, <2>3, <1>3, <1>7, <1>8
<1>11. BitTypes'
  <2>1. nextByte' \in Nat /\ nextByte' <= source.size
    BY <1>2, <1>3, <1>5, <1>6, <1>10
  <2> QED
    BY <1>1, <1>2, <1>9, <2>1 DEF BitTypes
<1>12. available' >= want'
  BY <1>2, <1>3, <1>4, <1>5, <1>6, <1>7
<1>13. ReadsBits' /\ answer' = "none"
  BY <1>2, <1>9, GoesOn
<1> QED
  BY <1>9, <1>11, <1>12, <1>13 DEF BitInv, BitsAsRead, Loads

(* One byte goes into the container.                                       *)
LEMMA LoadOneKeeps ==
  ASSUME BitAssumption, BitInv, LoadOne
  PROVE  BitInv'
<1>1. BitTypes /\ Mirrors
  BY DEF BitInv, BitsAsRead
<1>2. /\ step = "bytes" /\ available <= LargestTake /\ nextByte < source.size
      /\ container' = Merged(nextByte, BitsPerByte) /\ nextByte' = nextByte + 1
      /\ available' = available + BitsPerByte /\ step' = "bytes"
      /\ UNCHANGED <<source, from, later, want, value, got, answer>>
  BY DEF LoadOne, LoadByteMore, Reading
<1>3. /\ available \in Nat /\ BitsPerByte \in Nat /\ LargestTake \in Nat
      /\ LargestTake + BitsPerByte = RegisterBits /\ nextByte \in Nat /\ source.size \in Nat
  BY <1>1, Typed, Sizes
<1>4. BitsPerByte * 1 = BitsPerByte
  BY <1>3
<1>5. /\ Consumed' = Consumed /\ Mirrors'
      /\ container' \in SUBSET (0 .. RegisterBits - 1) /\ available' \in 0 .. RegisterBits
  <2>1. /\ BitsPerByte * 1 <= BitsPerByte /\ available + BitsPerByte * 1 <= RegisterBits
        /\ available' = available + BitsPerByte * 1
    BY <1>2, <1>3, <1>4
  <2> QED
    BY <1>1, <1>2, <1>3, <2>1, LoadMirrors
<1>6. BitTypes'
  BY <1>1, <1>2, <1>3, <1>5 DEF BitTypes
<1>7. ReadsBits' /\ answer' = "none"
  BY <1>2, <1>5, GoesOn
<1> QED
  BY <1>2, <1>5, <1>6, <1>7 DEF BitInv, BitsAsRead, Loads

(* The steps that only decide how to go on.                                *)
LEMMA LoadsNothingKeeps ==
  ASSUME BitAssumption, BitInv, EnterBytes \/ EndBytes \/ Enough
  PROVE  BitInv'
<1>1. /\ step \in {"take", "bytes"} /\ step' \in {"bytes", "give"}
      /\ UNCHANGED <<source, from, later, want, value, got, answer, nextByte, container, available>>
  BY DEF EnterBytes, EndBytes, Enough, Reading
<1>2. Mirrors' /\ Consumed' = Consumed
  BY <1>1, StillMirrors DEF BitInv, BitsAsRead
<1>3. ReadsBits' /\ answer' = "none"
  BY <1>1, <1>2, GoesOn
<1>4. BitTypes'
  BY <1>1 DEF BitInv, BitsAsRead, BitTypes
<1>5. step' = "give" => available >= want \/ nextByte = source.size
  <2>1. /\ available \in Nat /\ want \in Nat /\ want <= LargestTake /\ LargestTake \in Nat
        /\ nextByte \in Nat /\ source.size \in Nat /\ nextByte <= source.size
    BY Typed, Sizes DEF BitInv, BitsAsRead, BitTypes
  <2> QED
    BY <2>1 DEF EnterBytes, EndBytes, Enough, LoadByteMore
<1> QED
  BY <1>1, <1>2, <1>3, <1>4, <1>5 DEF BitInv, BitsAsRead, Loads

(* The bits asked for leave the container.                                 *)
LEMMA GiveKeeps ==
  ASSUME BitAssumption, BitInv, Give
  PROVE  BitInv'
<1>1. BitTypes /\ Mirrors /\ ReadsBits
  BY DEF BitInv, BitsAsRead
<1>2. /\ step = "give" /\ available >= want
      /\ value' = value \cup {got + k : k \in Mask} /\ got' = got + want
      /\ container' = {k \in 0 .. RegisterBits - 1 : k + want \in container}
      /\ available' = available - want /\ want' = later /\ later' = 0
      /\ step' \in {"idle", "take"} /\ UNCHANGED <<source, nextByte, from, answer>>
  BY DEF Give
<1>3. /\ nextByte \in Nat /\ available \in Nat /\ available <= RegisterBits /\ RegisterBits \in Nat
      /\ want \in Nat /\ later \in Nat /\ later <= LargestTake /\ from \in Nat /\ got \in Nat
      /\ BitsPerByte * nextByte \in Nat /\ \A k \in container : k \in Nat /\ k < RegisterBits
  BY <1>1, Typed, Sizes
<1>4. Consumed = from + got /\ answer = "none"
  BY <1>1, <1>2 DEF ReadsBits, BitInv, Loads
<1>5. Consumed' = Consumed + want /\ Consumed \in Nat
  BY <1>2, <1>3, <1>4 DEF Consumed
<1>6. /\ \A k \in container : Consumed + k \in source.ones
      /\ \A k \in 0 .. RegisterBits - 1 :
           k < available /\ Consumed + k \in source.ones => k \in container
  BY <1>1 DEF Mirrors
<1>7. Mirrors'
  <2>1. ASSUME NEW k \in container'
        PROVE  Consumed' + k \in source'.ones
    <3>1. k \in Nat /\ k + want \in container
      BY <1>2, <1>3, <2>1
    <3>2. Consumed + (k + want) \in source.ones /\ Consumed + (k + want) = Consumed' + k
      BY <1>3, <1>5, <1>6, <3>1
    <3> QED
      BY <1>2, <3>2
  <2>2. ASSUME NEW k \in 0 .. RegisterBits - 1, k < available', Consumed' + k \in source'.ones
        PROVE  k \in container'
    <3>1. k + want < available /\ k + want \in 0 .. RegisterBits - 1
      BY <1>2, <1>3, <2>2
    <3>2. Consumed' + k = Consumed + (k + want)
      BY <1>3, <1>5
    <3>3. k + want \in container
      BY <1>2, <1>6, <2>2, <3>1, <3>2
    <3> QED
      BY <1>2, <3>3
  <2>3. Consumed' >= 0
    BY <1>3, <1>5
  <2> QED
    BY <2>1, <2>2, <2>3 DEF Mirrors
<1>8. value' = {k \in 0 .. got' - 1 : from' + k \in source'.ones}
  <2>1. value = {k \in 0 .. got - 1 : from + k \in source.ones}
    BY <1>1 DEF ReadsBits
  <2>2. ASSUME NEW k \in value'
        PROVE  k \in 0 .. got' - 1 /\ from + k \in source.ones
    <3>1. CASE k \in value
      BY <1>2, <1>3, <2>1, <3>1
    <3>2. CASE k \in {got + j : j \in Mask}
      <4>1. PICK j \in container : j < want /\ k = got + j
        BY <3>2 DEF Mask
      <4>2. Consumed + j \in source.ones /\ j \in Nat
        BY <1>3, <1>6, <4>1
      <4>3. Consumed + j = from + k
        BY <1>3, <1>4, <4>1, <4>2
      <4> QED
        BY <1>2, <1>3, <4>1, <4>2, <4>3
    <3> QED
      BY <1>2, <3>1, <3>2
  <2>3. ASSUME NEW k \in 0 .. got' - 1, from + k \in source.ones
        PROVE  k \in value'
    <3>1. CASE k < got
      BY <1>2, <1>3, <2>1, <2>3, <3>1
    <3>2. CASE k >= got
      <4>1. PICK j \in 0 .. want - 1 : k = got + j
        <5>1. k - got \in 0 .. want - 1 /\ k = got + (k - got)
          BY <1>2, <1>3, <2>3, <3>2
        <5> QED
          BY <5>1
      <4>2. j \in 0 .. RegisterBits - 1 /\ j < available
        BY <1>2, <1>3
      <4>3. Consumed + j \in source.ones
        BY <1>3, <1>4, <2>3, <4>1
      <4>4. j \in Mask
        BY <1>3, <1>6, <4>2, <4>3 DEF Mask
      <4> QED
        BY <1>2, <4>1, <4>4
    <3>3. k \in Int
      BY <2>3
    <3> QED
      BY <1>3, <3>1, <3>2, <3>3
  <2>4. \A k : k \in value' <=> k \in 0 .. got' - 1 /\ from + k \in source.ones
    BY <2>2, <2>3
  <2> QED
    BY <1>2, <2>4
<1>9. BitTypes'
  <2>1. got' \in Nat /\ available' \in 0 .. RegisterBits /\ want' \in 0 .. LargestTake
    BY <1>2, <1>3, Sizes
  <2>2. value' \in SUBSET Nat
    BY <1>3, <1>8, <2>1
  <2>3. container' \in SUBSET (0 .. RegisterBits - 1)
    BY <1>2
  <2>4. later' \in Nat /\ later' <= LargestTake /\ from' \in Nat
    BY <1>2, <1>3, Sizes
  <2> QED
    BY <1>1, <1>2, <2>1, <2>2, <2>3, <2>4 DEF BitTypes
<1>10. ReadsBits'
  <2>1. from' + got' = Consumed'
    BY <1>2, <1>3, <1>4, <1>5
  <2> QED
    BY <1>2, <1>4, <1>8, <2>1 DEF ReadsBits
<1> QED
  BY <1>2, <1>4, <1>7, <1>9, <1>10 DEF BitInv, BitsAsRead, Loads

(* Fewer bits than asked for are left.                                     *)
LEMMA TruncatedKeeps ==
  ASSUME BitAssumption, BitInv, Truncated
  PROVE  BitInv'
<1>1. /\ step = "give" /\ available < want /\ step' = "end" /\ answer' = "Truncated"
      /\ UNCHANGED <<source, nextByte, container, available, from, want, later, value, got>>
  BY DEF Truncated, Reading
<1>2. Mirrors' /\ Consumed' = Consumed
  BY <1>1, StillMirrors DEF BitInv, BitsAsRead
<1>3. BitTypes'
  BY <1>1 DEF BitInv, BitsAsRead, BitTypes
<1>4. from + got + want > Size
  <2>1. /\ available \in Nat /\ want \in Nat /\ from \in Nat /\ got \in Nat
        /\ BitsPerByte * nextByte \in Nat
    BY Typed DEF BitInv, BitsAsRead
  <2>2. nextByte = source.size
    BY <1>1, <2>1 DEF BitInv, Loads
  <2>3. from + got = BitsPerByte * nextByte - available
    BY <1>1 DEF BitInv, BitsAsRead, ReadsBits, Consumed
  <2> QED
    BY <1>1, <2>1, <2>2, <2>3 DEF Size
<1>5. ReadsBits'
  BY <1>1, <1>4 DEF BitInv, BitsAsRead, ReadsBits, Size
<1> QED
  BY <1>1, <1>2, <1>3, <1>5 DEF BitInv, BitsAsRead, Loads

(* The padding is looked at, nothing moves.                                *)
LEMMA FinishReadKeeps ==
  ASSUME BitAssumption, BitInv, FinishZeroPadding
  PROVE  BitInv'
<1>1. /\ step = "idle" /\ step' = "end" /\ answer' = IF Clean THEN "Zero" ELSE "Padding"
      /\ UNCHANGED <<source, nextByte, container, available, from, want, later, value, got>>
  BY DEF FinishZeroPadding, Reading
<1>2. Mirrors' /\ Consumed' = Consumed
  BY <1>1, StillMirrors DEF BitInv, BitsAsRead
<1>3. BitTypes'
  BY <1>1 DEF BitInv, BitsAsRead, BitTypes
<1>4. /\ available \in Nat /\ available <= RegisterBits /\ RegisterBits \in Nat
      /\ BitsPerByte * nextByte \in Nat /\ source.ones \subseteq Nat
      /\ \A k \in container : k \in Nat
      /\ Consumed = BitsPerByte * nextByte - available
  BY Typed, Sizes DEF BitInv, BitsAsRead, Consumed
<1>5. /\ \A k \in container : Consumed + k \in source.ones
      /\ \A k \in 0 .. RegisterBits - 1 :
           k < available /\ Consumed + k \in source.ones => k \in container
      /\ Consumed >= 0
  BY DEF BitInv, BitsAsRead, Mirrors
<1>6. ASSUME Clean, NEW k \in source.ones
      PROVE  k < Consumed
  <2>1. k \in Nat /\ k < BitsPerByte * nextByte
    BY <1>4, <1>6 DEF Clean
  <2>2. ASSUME k >= Consumed
        PROVE  FALSE
    <3>1. PICK j \in 0 .. RegisterBits - 1 : j < available /\ Consumed + j = k
      <4>1. /\ k - Consumed \in 0 .. RegisterBits - 1 /\ k - Consumed < available
            /\ Consumed + (k - Consumed) = k
        BY <1>4, <2>1, <2>2
      <4> QED
        BY <4>1
    <3>2. j \in container
      BY <1>5, <1>6, <3>1
    <3> QED
      BY <1>4, <1>6, <3>1, <3>2 DEF Clean
  <2> QED
    BY <1>4, <2>1, <2>2
<1>7. ASSUME ~Clean
      PROVE  \E k \in source.ones : k >= Consumed
  <2>1. CASE \E k \in container : ~(k >= available)
    <3>1. PICK k \in container : ~(k >= available)
      BY <2>1
    <3>2. Consumed + k \in source.ones /\ Consumed + k >= Consumed
      BY <1>4, <1>5, <3>1
    <3> QED
      BY <3>2
  <2>2. CASE \E k \in source.ones : ~(k < BitsPerByte * nextByte)
    <3>1. PICK k \in source.ones : ~(k < BitsPerByte * nextByte)
      BY <2>2
    <3>2. k >= Consumed
      BY <1>4, <3>1
    <3> QED
      BY <3>2
  <2> QED
    BY <1>7, <2>1, <2>2 DEF Clean
<1>8. ReadsBits'
  BY <1>1, <1>2, <1>6, <1>7 DEF BitInv, BitsAsRead, ReadsBits
<1> QED
  BY <1>1, <1>2, <1>3, <1>8 DEF BitInv, BitsAsRead, Loads

(* A stream starts with nothing loaded.                                    *)
LEMMA BitInitInv ==
  ASSUME BitAssumption, BitInit
  PROVE  BitInv
<1>1. source \in Source
  BY DEF BitInit, BitAssumption
<1>2. source.size \in Nat /\ BitsPerByte \in Nat /\ RegisterBits \in Nat /\ LargestTake \in Nat
  BY <1>1, Sizes DEF Source
<1>3. Consumed = 0
  BY <1>2 DEF BitInit, Consumed
<1>4. BitTypes
  BY <1>2 DEF BitInit, BitTypes
<1>5. Mirrors
  BY <1>2, <1>3 DEF BitInit, Mirrors
<1>6. ReadsBits
  BY <1>3 DEF BitInit, ReadsBits
<1> QED
  BY <1>4, <1>5, <1>6 DEF BitInit, BitInv, BitsAsRead, Loads

(* Every read gives the bits that follow those read before, a read is      *)
(* refused only if there are fewer, and padding is reported only if a one  *)
(* is left: whatever was loaded as words or as bytes.                      *)
THEOREM ReadsGiveTheBits == BitSpec => []BitsAsRead
<1>1. BitInit => BitInv
  BY BitInitInv, BitAssumption
<1>2. BitInv /\ [BitNext]_bitVars => BitInv'
  <2>1. SUFFICES ASSUME BitInv, [BitNext]_bitVars
                 PROVE  BitInv'
    OBVIOUS
  <2>2. CASE UNCHANGED bitVars
    <3>1. Mirrors' /\ Consumed' = Consumed
      BY <2>1, <2>2, StillMirrors DEF BitInv, BitsAsRead, bitVars
    <3>2. BitTypes'
      BY <2>1, <2>2 DEF BitInv, BitsAsRead, BitTypes, bitVars
    <3>3. ReadsBits'
      BY <2>1, <2>2, <3>1 DEF BitInv, BitsAsRead, ReadsBits, bitVars, Size
    <3>4. Loads'
      BY <2>1, <2>2 DEF BitInv, Loads, bitVars
    <3> QED
      BY <3>1, <3>2, <3>3, <3>4 DEF BitInv, BitsAsRead
  <2> QED
    BY <2>1, <2>2, BitAssumption, AskKeeps, AskTooMuchKeeps, LoadWordKeeps, LoadOneKeeps,
       LoadsNothingKeeps, GiveKeeps, TruncatedKeeps, FinishReadKeeps DEF BitNext
<1>3. BitInv => BitsAsRead
  BY DEF BitInv
<1> QED
  BY <1>1, <1>2, <1>3, PTL DEF BitSpec

-----------------------------------------------------------------------------
(***************************************************************************)
(* StringNodes, for every call (any number of sources, lengths, indices,   *)
(* tags and segments) and every limit: the loops of the string nodes read, *)
(* slice and append without checking what was checked before them, never   *)
(* meet an error there, and end with the strings their inputs describe.    *)
(*                                                                         *)
(* StringInv is inductive.  It says of each loop how far it is in numbers: *)
(* the bytes taken of a source and held by an output are sums of lengths   *)
(* over the places the loop has passed (SumOn), the check before the loop  *)
(* is the sum over all the places, and a part adds up to no more.          *)
(*                                                                         *)
(* RestoreInv adds what the loop has made so far: every output holds its   *)
(* first strings of Contents, as many as it has got by now.                *)
(***************************************************************************)

(* What SubSeq cuts from a sequence of numbers, and its sum.               *)
LEMMA CutFacts ==
  ASSUME NEW s \in Seq(Nat), NEW a \in Nat, NEW n \in Nat, a + n <= Len(s)
  PROVE  /\ Cut(s, a, n) \in Seq(Nat) /\ Len(Cut(s, a, n)) = n
         /\ \A i \in 1 .. n : Cut(s, a, n)[i] = s[a + i]
<1>1. Len(s) \in Nat /\ \A i \in 1 .. Len(s) : s[i] \in Nat
  OBVIOUS
<1>2. \A i \in (a + 1) .. (a + n) : s[i] \in Nat
  BY <1>1
<1>3. Cut(s, a, n) = [i \in 1 .. n |-> s[a + i]]
  <2>1. SubSeq(s, a + 1, a + n) = [i \in 1 .. (a + n) - (a + 1) + 1 |-> s[i + (a + 1) - 1]]
    OBVIOUS
  <2>2. (a + n) - (a + 1) + 1 = n /\ \A i \in Int : i + (a + 1) - 1 = a + i
    OBVIOUS
  <2> QED
    BY <2>1, <2>2 DEF Cut
<1>4. \A i \in 1 .. n : s[a + i] \in Nat
  BY <1>2
<1> QED
  BY <1>3, <1>4

(* The sum up to the end of a cut.                                         *)
LEMMA CutSum ==
  ASSUME NEW s \in Seq(Nat), NEW a \in Nat, NEW n \in Nat, a + n <= Len(s)
  PROVE  SumOn(s, 1 .. (a + n)) = SumOn(s, 1 .. a) + SumFunction(Cut(s, a, n))
<1> DEFINE t == Cut(s, a, n)
           T == {k \in Nat : SumOn(s, 1 .. (a + k)) = SumOn(s, 1 .. a) + SumOn(t, 1 .. k)}
<1>1. /\ t \in Seq(Nat) /\ Len(t) = n /\ DOMAIN t = 1 .. n
      /\ \A i \in 1 .. n : t[i] = s[a + i]
  <2>1. /\ t \in Seq(Nat) /\ Len(t) = n
        /\ \A i \in 1 .. n : t[i] = s[a + i]
    BY CutFacts
  <2> HIDE DEF t
  <2> QED
    BY <2>1
<1>2. Len(s) \in Nat /\ DOMAIN s = 1 .. Len(s) /\ \A i \in DOMAIN s : s[i] \in Nat
  OBVIOUS
<1>3. \A i \in DOMAIN t : t[i] \in Nat
  BY <1>1
<1> HIDE DEF t
<1>4. SumOn(t, 1 .. 0) = 0 /\ SumFunction(t) = SumOn(t, 1 .. n)
  BY <1>1, <1>3, FirstSums
<1>5. 0 \in T
  <2>1. SumOn(s, 1 .. a) \in Nat
    <3>1. a \in 0 .. Len(s)
      BY <1>2
    <3> QED
      BY <1>2, <3>1, FirstSums
  <2> QED
    BY <1>4, <2>1
<1>6. ASSUME NEW k \in Nat, k < n, k \in T PROVE k + 1 \in T
  <2>1. a + k \in 0 .. Len(s) - 1 /\ k \in 0 .. n - 1 /\ (a + k) + 1 = a + (k + 1)
    BY <1>2, <1>6
  <2>2. SumOn(s, 1 .. (a + (k + 1))) = SumOn(s, 1 .. (a + k)) + s[a + (k + 1)]
    <3>1. SumOn(s, 1 .. ((a + k) + 1)) = SumOn(s, 1 .. (a + k)) + s[(a + k) + 1]
      BY <1>2, <2>1, FirstSums
    <3> QED
      BY <2>1, <3>1
  <2>3. SumOn(t, 1 .. (k + 1)) = SumOn(t, 1 .. k) + t[k + 1]
    BY <1>1, <1>3, <2>1, FirstSums
  <2>4. t[k + 1] = s[a + (k + 1)] /\ t[k + 1] \in Nat
    <3>1. k + 1 \in 1 .. n
      BY <2>1
    <3> QED
      BY <1>1, <1>3, <3>1
  <2>5. SumOn(t, 1 .. k) \in Nat /\ SumOn(s, 1 .. a) \in Nat
    <3>1. a \in 0 .. Len(s) /\ k \in 0 .. n
      BY <1>2, <1>6
    <3> QED
      BY <1>1, <1>2, <1>3, <3>1, FirstSums
  <2>6. SumOn(s, 1 .. (a + k)) = SumOn(s, 1 .. a) + SumOn(t, 1 .. k)
    BY <1>6
  <2> QED
    BY <2>2, <2>3, <2>4, <2>5, <2>6
<1> HIDE DEF T
<1>7. \A k \in Nat : k <= n => k \in T
  <2>1. \A k \in Nat : k < n /\ k \in T => k + 1 \in T
    BY <1>6
  <2> QED
    BY <1>5, <2>1, BoundedInduction
<1>8. n \in T
  BY <1>7
<1> QED
  BY <1>4, <1>8 DEF T, t

(* The sum of the first n numbers, as the code makes it.                   *)
LEMMA FirstsCut ==
  ASSUME NEW s \in Seq(Nat), NEW n \in 0 .. Len(s)
  PROVE  SumFunction(SubSeq(s, 1, n)) = SumOn(s, 1 .. n)
<1>1. 0 + n <= Len(s) /\ n \in Nat /\ 0 + n = n /\ 0 + 1 = 1
  OBVIOUS
<1>2. SumOn(s, 1 .. (0 + n)) = SumOn(s, 1 .. 0) + SumFunction(Cut(s, 0, n))
  BY <1>1, CutSum
<1>3. SumOn(s, 1 .. 0) = 0
  <2>1. 1 .. 0 = {}
    OBVIOUS
  <2> QED
    BY <2>1, SumOfNone
<1>4. SumFunction(Cut(s, 0, n)) \in Nat
  <2>1. Cut(s, 0, n) \in Seq(Nat)
    BY <1>1, CutFacts
  <2> DEFINE t == Cut(s, 0, n)
  <2>2. Len(t) \in Nat /\ DOMAIN t = 1 .. Len(t) /\ \A i \in DOMAIN t : t[i] \in Nat
    BY <2>1
  <2> HIDE DEF t
  <2>3. SumFunction(t) \in Nat
    <3>1. Len(t) \in 0 .. Len(t)
      BY <2>2
    <3>2. SumOn(t, 1 .. Len(t)) \in Nat /\ SumFunction(t) = SumOn(t, 1 .. Len(t))
      BY <2>2, <3>1, FirstSums
    <3> QED
      BY <3>2
  <2> QED
    BY <2>3 DEF t
<1> QED
  BY <1>1, <1>2, <1>3, <1>4 DEF Cut

-----------------------------------------------------------------------------
(* The loops of StringNodes.                                               *)

(* What a string takes of the output of prefix and tokenize.               *)
PrefixLengths == [i \in DOMAIN call.idx |-> PrefixLength(i)]
TokenLengths == [i \in DOMAIN call.idx |-> Strings[call.idx[i]]]

(* The strings that output o has of the first n.                           *)
DealtOf(o, n) == {i \in 1 .. n : (i - 1) % call.count = o - 1}

Dispatches == call.kind \in {"strings", "serial", "tags"}

(* What each loop has done so far, in numbers: how long its outputs are    *)
(* and where it stands in its sources.                                     *)
DispatchDone ==
  Dispatches => Len(outs[1].bytes) = call.base + SumFunction(bytePosition)
TagsDone ==
  call.kind = "tags" =>
    /\ index <= Len(call.idx) + 1
    /\ \A s \in DOMAIN call.src : bytePosition[s] = SumOn(call.sizes, Uses(s, index - 1))
PrefixDone ==
  call.kind = "prefix" =>
    /\ index <= Len(call.idx) + 1
    /\ Len(outs[1].lens) = index - 1
    /\ \A i \in 1 .. index - 1 : outs[1].lens[i] = PrefixLength(i)
    /\ Len(outs[1].bytes) = SumOn(PrefixLengths, 1 .. index - 1)
    /\ bytePosition[1] = SumOn(Strings, 1 .. index - 1)
TokensDone ==
  call.kind = "tokenize" =>
    /\ index <= Len(call.idx) + 1
    /\ Len(outs[1].bytes) = SumOn(TokenLengths, 1 .. index - 1)
DealDone ==
  call.kind = "interleave" =>
    /\ index <= Len(Strings) + 1
    /\ bytePosition[1] = SumOn(Strings, 1 .. index - 1)
    /\ \A o \in 1 .. call.count : Len(outs[o].bytes) = SumOn(Strings, DealtOf(o, index - 1))
ComponentsDone ==
  call.kind = "components" /\ index = 1 => outs[1].bytes = <<>> /\ bytePosition[1] = 0

LoopInv ==
  /\ InputsFit /\ ~TooLarge /\ SegmentsFit /\ (call.kind # "serial" => csvRow = 0)
  /\ DispatchDone /\ TagsDone /\ PrefixDone /\ TokensDone /\ DealDone /\ ComponentsDone

Capacities ==
  /\ call.kind # "concat" /\ (outs # <<>> \/ stage = "loop") =>
       Len(outs) = Len(Room) /\ \A o \in DOMAIN outs : outs[o].cap = Room[o].cap
  /\ call.kind = "concat" => \A o \in DOMAIN outs : outs[o].cap = Len(outs[o].bytes)

Untouched ==
  /\ index = 1 /\ csvRow = 0 /\ outs = <<>> /\ outcome = "none"
  /\ position = [s \in DOMAIN call.src |-> 0] /\ bytePosition = [s \in DOMAIN call.src |-> 0]

StringInv ==
  /\ TypeOK /\ call \in Calls /\ outcome # "Redundant" /\ Capacities
  /\ stage = "begin" => Untouched
  /\ stage = "loop" => LoopInv

(* The parts of a call.                                                    *)
LEMMA SeqOfNumbers ==
  ASSUME NEW s \in Seq(Nat)
  PROVE  Len(s) \in Nat /\ DOMAIN s = 1 .. Len(s) /\ \A i \in DOMAIN s : s[i] \in Nat
OBVIOUS

(* The parts of a call have their types, and the loops over the strings of *)
(* one source have one.                                                    *)
LEMMA CallFacts ==
  ASSUME CallAssumption, call \in Calls
  PROVE  /\ call \in Call /\ call.kind \in Kinds /\ call.base \in Nat /\ call.count \in Nat
         /\ call.idx \in Seq(Nat) /\ call.sizes \in Seq(Nat)
         /\ Len(call.src) \in Nat /\ DOMAIN call.src = 1 .. Len(call.src)
         /\ IsFiniteSet(DOMAIN call.src)
         /\ \A s \in DOMAIN call.src :
              call.src[s].lens \in Seq(Nat) /\ call.src[s].bytes \in Seq(Nat)
         /\ call.kind # "serial" => call.base = 0
         /\ ~Dispatches => DOMAIN call.src = {1} /\ Strings \in Seq(Nat) /\ Bytes \in Seq(Nat)
<1>1. /\ call \in Call
      /\ call.kind \notin {"strings", "serial", "tags"} => Len(call.src) = 1
      /\ call.kind # "serial" => call.base = 0
  BY DEF CallAssumption
<1>2. /\ call.kind \in Kinds /\ call.base \in Nat /\ call.count \in Nat
      /\ call.idx \in Seq(Nat) /\ call.sizes \in Seq(Nat) /\ call.src \in Seq(Stream)
  BY <1>1 DEF Call
<1>3. /\ Len(call.src) \in Nat /\ DOMAIN call.src = 1 .. Len(call.src)
      /\ \A s \in DOMAIN call.src : call.src[s] \in Stream
  BY <1>2
<1>4. \A s \in DOMAIN call.src :
        call.src[s].lens \in Seq(Nat) /\ call.src[s].bytes \in Seq(Nat)
  BY <1>3 DEF Stream
<1>5. IsFiniteSet(DOMAIN call.src)
  BY <1>3, FS_Interval
<1>6. ASSUME ~Dispatches
      PROVE  DOMAIN call.src = {1} /\ Strings \in Seq(Nat) /\ Bytes \in Seq(Nat)
  <2>1. Len(call.src) = 1
    BY <1>1, <1>6 DEF Dispatches
  <2>2. DOMAIN call.src = {1}
    BY <1>3, <2>1
  <2> QED
    BY <1>4, <2>2 DEF Strings, Bytes
<1> QED
  BY <1>1, <1>2, <1>3, <1>4, <1>5, <1>6

(* All the content of the sources.                                         *)
ContentLengths == [s \in DOMAIN call.src |-> Len(call.src[s].bytes)]

(* The length of the content of all the sources.                           *)
LEMMA AllBytesFacts ==
  ASSUME CallAssumption, call \in Calls
  PROVE  /\ AllBytes = SumOn(ContentLengths, DOMAIN call.src) /\ AllBytes \in Nat
         /\ \A s \in DOMAIN call.src :
              ContentLengths[s] = Len(call.src[s].bytes) /\ ContentLengths[s] \in Nat
<1>1. \A s \in DOMAIN call.src :
        ContentLengths[s] = Len(call.src[s].bytes) /\ ContentLengths[s] \in Nat
  <2>1. \A s \in DOMAIN call.src : Len(call.src[s].bytes) \in Nat
    BY CallFacts, SeqOfNumbers
  <2> QED
    BY <2>1 DEF ContentLengths
<1>2. AllBytes = SumOn(ContentLengths, DOMAIN call.src)
  BY DEF AllBytes, SumFunction, SumOn, ContentLengths
<1>3. IsFiniteSet(DOMAIN call.src)
  BY CallFacts
<1>4. SumOn(ContentLengths, DOMAIN call.src) \in Nat
  BY <1>1, <1>3, SumOfMore
<1> QED
  BY <1>1, <1>2, <1>4

(* The lengths of strings in the output are numbers.                       *)
LEMMA PrefixFacts ==
  ASSUME CallAssumption, call \in Calls, call.kind = "prefix", InputsFit
  PROVE  /\ Len(call.idx) \in Nat /\ DOMAIN PrefixLengths = 1 .. Len(call.idx)
         /\ Len(call.idx) = Len(Strings) /\ Strings \in Seq(Nat) /\ call.idx \in Seq(Nat)
         /\ \A i \in 1 .. Len(call.idx) :
              /\ PrefixLengths[i] = PrefixLength(i) /\ PrefixLengths[i] \in Nat
              /\ call.idx[i] \in Nat /\ Strings[i] \in Nat /\ MatchFits(i)
              /\ PrefixLength(i) = call.idx[i] + Strings[i]
         /\ OutputSize = SumFunction(PrefixLengths) /\ SumsMatch(call.src[1])
<1>1. call.idx \in Seq(Nat) /\ Strings \in Seq(Nat)
  BY CallFacts DEF Dispatches
<1>2. PrefixFits
  BY DEF InputsFit
<1>3. Len(call.idx) \in Nat /\ DOMAIN call.idx = 1 .. Len(call.idx) /\ Len(call.idx) = Len(Strings)
  BY <1>1, <1>2 DEF PrefixFits
<1>4. \A i \in 1 .. Len(call.idx) : call.idx[i] \in Nat /\ Strings[i] \in Nat
  BY <1>1, <1>3
<1>5. OutputSize = SumFunction(PrefixLengths)
  BY DEF OutputSize, PrefixLengths
<1>6. \A i \in 1 .. Len(call.idx) :
        PrefixLengths[i] = PrefixLength(i) /\ PrefixLength(i) = call.idx[i] + Strings[i]
  BY <1>3 DEF PrefixLengths, PrefixLength
<1>7. \A i \in 1 .. Len(call.idx) : MatchFits(i)
  BY <1>2, <1>3 DEF PrefixFits
<1>8. DOMAIN PrefixLengths = 1 .. Len(call.idx) /\ SumsMatch(call.src[1])
  BY <1>2, <1>3 DEF PrefixFits, PrefixLengths
<1> QED
  BY <1>1, <1>3, <1>4, <1>5, <1>6, <1>7, <1>8

(* The lengths of the tokens in the output are numbers, if in the alphabet.*)
LEMMA TokenFacts ==
  ASSUME CallAssumption, call \in Calls, call.kind = "tokenize", InputsFit
  PROVE  /\ Len(call.idx) \in Nat /\ DOMAIN TokenLengths = 1 .. Len(call.idx)
         /\ Strings \in Seq(Nat) /\ call.idx \in Seq(Nat)
         /\ \A i \in 1 .. Len(call.idx) :
              /\ TokenLengths[i] = Strings[call.idx[i]] /\ TokenLengths[i] \in Nat
              /\ call.idx[i] \in DOMAIN Strings
         /\ OutputSize = SumFunction(TokenLengths) /\ SumsMatch(call.src[1])
<1>1. call.idx \in Seq(Nat) /\ Strings \in Seq(Nat)
  BY CallFacts DEF Dispatches
<1>2. TokensFit
  BY DEF InputsFit
<1>3. Len(call.idx) \in Nat /\ DOMAIN call.idx = 1 .. Len(call.idx)
  BY <1>1
<1>4. \A i \in 1 .. Len(call.idx) : call.idx[i] \in DOMAIN Strings
  BY <1>2, <1>3 DEF TokensFit
<1>5. \A i \in DOMAIN Strings : Strings[i] \in Nat
  BY <1>1
<1>6. OutputSize = SumFunction(TokenLengths)
  BY DEF OutputSize, TokenLengths
<1> QED
  BY <1>1, <1>2, <1>3, <1>4, <1>5, <1>6 DEF TokensFit, TokenLengths

(* What a node that checks its inputs announces is a number.               *)
LEMMA SizeIsNat ==
  ASSUME CallAssumption, call \in Calls, InputsFit
  PROVE  OutputSize \in Nat
<1>1. ASSUME NEW s, NEW m \in Nat, DOMAIN s = 1 .. m, \A i \in DOMAIN s : s[i] \in Nat
      PROVE  SumFunction(s) \in Nat
  <2>1. m \in 0 .. m
    OBVIOUS
  <2> QED
    BY <1>1, <2>1, FirstSums
<1>2. CASE call.kind = "prefix"
  BY <1>1, <1>2, PrefixFacts
<1>3. CASE call.kind = "tokenize"
  BY <1>1, <1>3, TokenFacts
<1>4. CASE call.kind \notin {"prefix", "tokenize"}
  BY <1>4, AllBytesFacts DEF OutputSize
<1> QED
  BY <1>2, <1>3, <1>4

(* What is reserved.                                                       *)
LEMMA EmptyIsOutput ==
  ASSUME NEW n \in Nat
  PROVE  /\ EmptyOutput(n) \in Output /\ EmptyOutput(n).cap = n
         /\ EmptyOutput(n).bytes = <<>> /\ EmptyOutput(n).lens = <<>>
BY DEF EmptyOutput, Output

(* What is reserved is numbers.                                            *)
LEMMA RoomFacts ==
  ASSUME CallAssumption, call \in Calls, InputsFit, ~TooLarge
  PROVE  /\ Room \in Seq(Output)
         /\ call.kind \notin {"concat", "interleave"} =>
              /\ Len(Room) = 1 /\ Room[1].lens = <<>>
              /\ Room[1].cap = call.base + OutputSize /\ Len(Room[1].bytes) = call.base
              /\ call.kind # "serial" => Room[1].bytes = <<>>
         /\ call.kind = "interleave" =>
              /\ Len(Room) = call.count
              /\ \A o \in 1 .. call.count : Room[o] = EmptyOutput(SumOn(Strings, Dealt(o)))
         /\ call.kind # "concat" => Room # <<>>
<1>1. OutputSize \in Nat /\ call.base \in Nat /\ call.count \in Nat
  BY SizeIsNat, CallFacts
<1>2. CASE call.kind = "concat"
  BY <1>2 DEF Room
<1>3. CASE call.kind = "interleave"
  <2>1. Room = [o \in 1 .. call.count |-> EmptyOutput(SumOn(Strings, Dealt(o)))]
    BY <1>3 DEF Room, SumOn
  <2>2. call.count > 0
    BY <1>3 DEF InputsFit
  <2>3. ASSUME NEW o \in 1 .. call.count PROVE EmptyOutput(SumOn(Strings, Dealt(o))) \in Output
    <3>1. Strings \in Seq(Nat)
      BY <1>3, CallFacts DEF Dispatches
    <3>2. /\ Len(Strings) \in Nat /\ DOMAIN Strings = 1 .. Len(Strings)
          /\ \A i \in DOMAIN Strings : Strings[i] \in Nat
      BY <3>1, SeqOfNumbers
    <3>3. Dealt(o) \in SUBSET (1 .. Len(Strings)) /\ IsFiniteSet(1 .. Len(Strings))
      BY <3>2, FS_Interval DEF Dealt
    <3>4. IsFiniteSet(Dealt(o))
      BY <3>3, FS_Subset
    <3>5. \A i \in Dealt(o) : Strings[i] \in Nat
      BY <3>2, <3>3
    <3>6. SumOn(Strings, Dealt(o)) \in Nat
      BY <3>4, <3>5, SumOfMore
    <3> QED
      BY <3>6, EmptyIsOutput
  <2> QED
    BY <1>1, <1>3, <2>1, <2>2, <2>3
<1>4. CASE call.kind = "serial"
  <2> DEFINE old == [i \in 1 .. call.base |-> Old]
             all == [bytes |-> old, lens |-> <<>>, cap |-> call.base + OutputSize]
  <2>1. Room = <<all>>
    BY <1>4 DEF Room
  <2>2. old \in Seq(Nat) /\ Len(old) = call.base
    BY <1>1 DEF Old
  <2> HIDE DEF old
  <2>3. all \in Output
    BY <1>1, <2>2 DEF Output
  <2> QED
    BY <1>4, <2>1, <2>2, <2>3
<1>5. CASE call.kind \notin {"concat", "interleave", "serial"}
  <2>1. Room = <<EmptyOutput(OutputSize)>>
    BY <1>5 DEF Room
  <2>2. EmptyOutput(OutputSize) \in Output
    BY <1>1, EmptyIsOutput
  <2>3. call.base = 0
    BY <1>5, CallFacts
  <2> QED
    BY <1>1, <1>5, <2>1, <2>2, <2>3, EmptyIsOutput
<1> QED
  BY <1>2, <1>3, <1>4, <1>5

(* The call stays, and with it what is said about it alone.                *)
LEMMA SameCall ==
  ASSUME call' = call
  PROVE  /\ InputsFit' <=> InputsFit
         /\ TooLarge' <=> TooLarge
         /\ SegmentsFit' <=> SegmentsFit
         /\ Room' = Room /\ PrefixLengths' = PrefixLengths /\ TokenLengths' = TokenLengths
         /\ Strings' = Strings /\ Bytes' = Bytes
         /\ Dispatches' <=> Dispatches
<1>1. Strings' = Strings /\ Bytes' = Bytes /\ (Dispatches' <=> Dispatches)
  BY DEF Strings, Bytes, Dispatches
<1>2. PrefixLengths' = PrefixLengths /\ TokenLengths' = TokenLengths
  BY <1>1 DEF PrefixLengths, TokenLengths, PrefixLength
<1>3. AllBytes' = AllBytes
  BY DEF AllBytes
<1>4. OutputSize' = OutputSize
  BY <1>1, <1>2, <1>3 DEF OutputSize, PrefixLength
<1>5. SegmentsFit' <=> SegmentsFit
  BY DEF SegmentsFit
<1>6. TooLarge' <=> TooLarge
  BY <1>4 DEF TooLarge
<1>7. Room' = Room
  BY <1>1, <1>4 DEF Room, Dealt
<1>8. /\ DispatchFits' <=> DispatchFits
      /\ TagsFit' <=> TagsFit
      /\ ConcatFits' <=> ConcatFits
      /\ InterleaveFits' <=> InterleaveFits
      /\ ComponentsFit' <=> ComponentsFit
  BY <1>1 DEF DispatchFits, SumsMatch, TagsFit, ConcatFits, InterleaveFits, ComponentsFit
<1>9. (PrefixFits' <=> PrefixFits) /\ (TokensFit' <=> TokensFit)
  BY <1>1 DEF PrefixFits, TokensFit, SumsMatch, MatchFits, PrefixLength
<1>10. InputsFit' <=> InputsFit
  BY <1>8, <1>9 DEF InputsFit
<1> QED
  BY <1>1, <1>2, <1>5, <1>6, <1>7, <1>10

(* An output with bytes appended, and with a string appended.              *)
LEMMA HeldFacts ==
  ASSUME NEW dest \in Output, NEW bytes \in Seq(Nat), NEW held \in Nat
  PROVE  /\ Held(dest, bytes, held) \in Output
         /\ Held(dest, bytes, held).bytes = dest.bytes \o bytes
         /\ Held(dest, bytes, held).lens = dest.lens
         /\ Held(dest, bytes, held).cap = IF held > dest.cap THEN held ELSE dest.cap
         /\ Len(Held(dest, bytes, held).bytes) = Len(dest.bytes) + Len(bytes)
<1>1. dest.bytes \in Seq(Nat) /\ dest.lens \in Seq(Nat) /\ dest.cap \in Nat
  BY DEF Output
<1> DEFINE all == dest.bytes \o bytes
           room == IF held > dest.cap THEN held ELSE dest.cap
<1>3. all \in Seq(Nat) /\ Len(all) = Len(dest.bytes) + Len(bytes) /\ room \in Nat
  BY <1>1
<1>4. Held(dest, bytes, held) = [bytes |-> all, lens |-> dest.lens, cap |-> room]
  <2>1. DOMAIN dest = {"bytes", "lens", "cap"}
    BY DEF Output
  <2> DEFINE more == [dest EXCEPT !.bytes = all]
  <2>2. Held(dest, bytes, held) = [more EXCEPT !.cap = room]
    <3>1. more.cap = dest.cap
      BY <2>1
    <3> QED
      BY <3>1 DEF Held
  <2> HIDE DEF all, room
  <2>3. more = [bytes |-> all, lens |-> dest.lens, cap |-> dest.cap]
    BY DEF Output
  <2> HIDE DEF more
  <2> QED
    BY <2>2, <2>3
<1> HIDE DEF all, room
<1>5. Held(dest, bytes, held) \in Output
  BY <1>1, <1>3, <1>4 DEF Output
<1> QED
  BY <1>3, <1>4, <1>5 DEF all, room

(* An output with a string appended.                                       *)
LEMMA AddFacts ==
  ASSUME NEW dest \in Output, NEW bytes \in Seq(Nat)
  PROVE  /\ Add(dest, bytes) \in Output
         /\ Add(dest, bytes).bytes = dest.bytes \o bytes
         /\ Add(dest, bytes).lens = Append(dest.lens, Len(bytes))
         /\ Len(Add(dest, bytes).bytes) = Len(dest.bytes) + Len(bytes)
         /\ Len(dest.bytes) + Len(bytes) <= dest.cap => Add(dest, bytes).cap = dest.cap
<1> DEFINE more == [dest EXCEPT !.lens = Append(@, Len(bytes))]
           held == Len(dest.bytes) + Len(bytes)
<1>1. dest.bytes \in Seq(Nat) /\ dest.lens \in Seq(Nat) /\ dest.cap \in Nat /\ Len(bytes) \in Nat
  BY DEF Output
<1>2. /\ more \in Output /\ more.bytes = dest.bytes /\ more.cap = dest.cap
      /\ more.lens = Append(dest.lens, Len(bytes))
  <2>1. Append(dest.lens, Len(bytes)) \in Seq(Nat)
    BY <1>1
  <2> QED
    BY <2>1 DEF Output
<1>3. held \in Nat
  BY <1>1
<1>4. Add(dest, bytes) = Held(more, bytes, held)
  BY DEF Add
<1> HIDE DEF more, held
<1>5. /\ Held(more, bytes, held) \in Output
      /\ Held(more, bytes, held).bytes = more.bytes \o bytes
      /\ Held(more, bytes, held).lens = more.lens
      /\ Held(more, bytes, held).cap = IF held > more.cap THEN held ELSE more.cap
      /\ Len(Held(more, bytes, held).bytes) = Len(more.bytes) + Len(bytes)
  BY <1>2, <1>3, HeldFacts
<1>6. held <= dest.cap => ~ (held > more.cap)
  BY <1>1, <1>2, <1>3
<1> QED
  BY <1>2, <1>4, <1>5, <1>6 DEF held

-----------------------------------------------------------------------------
(* What every step keeps.                                                  *)
LEMMA InitialString == ASSUME CallAssumption, BoundAssumption, Init PROVE StringInv
<1>1. call \in Calls
  BY DEF Init
<1>2. Untouched
  BY DEF Init, Untouched
<1>3. TypeOK
  <2>1. call \in Call
    BY <1>1, CallFacts
  <2>2. \A s \in DOMAIN call.src :
          /\ position[s] = 0 /\ bytePosition[s] = 0
          /\ 0 \in 0 .. Len(call.src[s].lens) /\ 0 \in 0 .. Len(call.src[s].bytes)
          /\ SumFunction(SubSeq(call.src[s].lens, 1, 0)) = 0
    <3> TAKE s \in DOMAIN call.src
    <3>1. call.src[s].lens \in Seq(Nat) /\ call.src[s].bytes \in Seq(Nat)
      BY <1>1, CallFacts
    <3>2. 0 \in 0 .. Len(call.src[s].lens) /\ 0 \in 0 .. Len(call.src[s].bytes)
      BY <3>1
    <3>3. SumFunction(SubSeq(call.src[s].lens, 1, 0)) = SumOn(call.src[s].lens, 1 .. 0)
      BY <3>1, <3>2, FirstsCut
    <3>4. 1 .. 0 = {}
      OBVIOUS
    <3>5. SumOn(call.src[s].lens, 1 .. 0) = 0
      BY <3>4, SumOfNone
    <3> QED
      BY <3>2, <3>3, <3>5 DEF Init
  <2>3. 0 \in 0 .. Len(CsvPattern)
    BY DEF BoundAssumption
  <2>4. outs \in Seq(Output)
    BY DEF Init
  <2> QED
    BY <2>1, <2>2, <2>3, <2>4 DEF Init, TypeOK, Outcomes
<1>4. Capacities
  BY DEF Init, Capacities
<1> QED
  BY <1>1, <1>2, <1>3, <1>4 DEF Init, StringInv

(* Stopping, with whatever result but the one the checks rule out.         *)
LEMMA StopKeeps ==
  ASSUME StringInv, NEW kind \in Outcomes, kind # "Redundant", stage' = "done", outcome' = kind,
         UNCHANGED <<call, index, csvRow, position, bytePosition, outs>>
  PROVE  StringInv'
<1>1. TypeOK'
  BY DEF StringInv, TypeOK
<1>2. Capacities'
  BY SameCall DEF StringInv, Capacities
<1> QED
  BY <1>1, <1>2 DEF StringInv

(* A step of the loop.                                                     *)
LEMMA LoopKeeps ==
  ASSUME StringInv, stage = "loop", UNCHANGED <<call, stage, outcome>>, TypeOK', Capacities',
         call.kind # "serial" => csvRow' = 0,
         DispatchDone', TagsDone', PrefixDone', TokensDone', DealDone', ComponentsDone'
  PROVE  StringInv'
BY SameCall DEF StringInv, LoopInv

(* The checks before the loop.                                             *)
LEMMA StartKeeps ==
  ASSUME CallAssumption, BoundAssumption, StringInv, StartNode
  PROVE  StringInv'
<1>1. CASE \E kind \in {"Malformed", "LimitExceeded", "AllocationFailed"} : Refuse(kind)
  <2>1. PICK kind \in {"Malformed", "LimitExceeded", "AllocationFailed"} : Refuse(kind)
    BY <1>1
  <2>2. kind \in Outcomes /\ kind # "Redundant"
    BY DEF Outcomes
  <2> QED
    BY <2>1, <2>2, StopKeeps DEF Refuse
<1>2. CASE /\ InputsFit /\ ~TooLarge /\ SegmentsFit
           /\ stage' = "loop" /\ outs' = Room
           /\ UNCHANGED <<call, index, csvRow, position, bytePosition, outcome>>
  <2>1. stage = "begin" /\ Untouched /\ TypeOK /\ call \in Calls
    BY DEF StartNode, StringInv
  <2>2. call' = call /\ index' = 1 /\ csvRow' = 0 /\ bytePosition' = [s \in DOMAIN call.src |-> 0]
    BY <1>2, <2>1 DEF Untouched
  <2>3. /\ Room' = Room /\ Strings' = Strings /\ PrefixLengths' = PrefixLengths
        /\ TokenLengths' = TokenLengths /\ (InputsFit' <=> InputsFit)
        /\ (TooLarge' <=> TooLarge) /\ (SegmentsFit' <=> SegmentsFit)
        /\ (Dispatches' <=> Dispatches)
    BY <2>2, SameCall
  <2>4. Room \in Seq(Output)
    BY <1>2, <2>1, RoomFacts
  <2>5. TypeOK'
    BY <1>2, <2>1, <2>4 DEF TypeOK
  <2>6. Capacities'
    <3>1. call.kind = "concat" => outs' = <<>>
      BY <1>2 DEF Room
    <3> QED
      BY <1>2, <2>2, <2>3, <3>1 DEF Capacities
  <2>7. 1 .. index' - 1 = {} /\ index' = 1 /\ \A s : SumOn(s, {}) = 0
    BY <2>2, SumOfNone
  <2>8. DispatchDone'
    <3> SUFFICES ASSUME Dispatches PROVE Len(Room[1].bytes) = call.base + SumFunction(bytePosition)
      BY <1>2, <2>1, <2>3, <2>2 DEF DispatchDone, Untouched
    <3>1. Len(Room[1].bytes) = call.base /\ call.base \in Nat
      BY <1>2, <2>1, RoomFacts, CallFacts DEF Dispatches
    <3>2. SumFunction(bytePosition) = 0
      <4>1. /\ IsFiniteSet(DOMAIN call.src) /\ DOMAIN bytePosition = DOMAIN call.src
            /\ \A s \in DOMAIN call.src : bytePosition[s] = 0
        BY <2>1, CallFacts DEF Untouched
      <4>2. SumOn(bytePosition, DOMAIN call.src) = 0
        BY <4>1, SumOfZeros
      <4> QED
        BY <4>1, <4>2 DEF SumFunction, SumOn
    <3> QED
      BY <3>1, <3>2
  <2>9. TagsDone'
    <3> SUFFICES ASSUME call.kind = "tags"
                 PROVE  /\ 1 <= Len(call.idx) + 1
                        /\ \A s \in DOMAIN call.src : SumOn(call.sizes, Uses(s, 0)) = 0
      BY <2>2, <2>7 DEF TagsDone, Uses
    <3>1. \A s : Uses(s, 0) = {}
      BY DEF Uses
    <3>2. Len(call.idx) \in Nat
      BY <2>1, CallFacts, SeqOfNumbers
    <3>3. \A s \in DOMAIN call.src : SumOn(call.sizes, Uses(s, 0)) = 0
      <4> TAKE s \in DOMAIN call.src
      <4> QED
        BY <3>1, SumOfNone
    <3> QED
      BY <3>2, <3>3
  <2>10. PrefixDone' /\ TokensDone' /\ ComponentsDone'
    <3>1. call.kind \in {"prefix", "tokenize", "components"} =>
            /\ Room[1].bytes = <<>> /\ Room[1].lens = <<>> /\ DOMAIN call.src = {1}
      BY <1>2, <2>1, RoomFacts, CallFacts DEF Dispatches
    <3>2. Len(call.idx) \in Nat
      BY <2>1, CallFacts, SeqOfNumbers
    <3>3. PrefixDone'
      BY <1>2, <2>2, <2>3, <2>7, <3>1, <3>2 DEF PrefixDone
    <3> QED
      BY <1>2, <2>2, <2>3, <2>7, <3>1, <3>2, <3>3 DEF TokensDone, ComponentsDone
  <2>11. DealDone'
    <3> SUFFICES ASSUME call.kind = "interleave" PROVE DealDone'
      BY <2>2 DEF DealDone
    <3>1. /\ DOMAIN call.src = {1} /\ Len(Strings) \in Nat
          /\ \A o \in 1 .. call.count : Room[o] = EmptyOutput(SumOn(Strings, Dealt(o)))
      BY <1>2, <2>1, RoomFacts, CallFacts, SeqOfNumbers DEF Dispatches
    <3>2. \A o \in 1 .. call.count : Len(Room[o].bytes) = 0
      <4> TAKE o \in 1 .. call.count
      <4>1. EmptyOutput(SumOn(Strings, Dealt(o))).bytes = <<>>
        BY DEF EmptyOutput
      <4> QED
        BY <3>1, <4>1
    <3>3. index' <= Len(Strings') + 1 /\ bytePosition'[1] = SumOn(Strings', 1 .. index' - 1)
      BY <2>2, <2>3, <2>7, <3>1
    <3>4. ASSUME NEW o \in 1 .. call.count
          PROVE  Len(outs'[o].bytes) = SumOn(Strings', DealtOf(o, index - 1)')
      <4>1. DealtOf(o, index - 1)' = {}
        BY <2>7 DEF DealtOf
      <4>2. SumOn(Strings', DealtOf(o, index - 1)') = 0
        BY <4>1, SumOfNone
      <4> QED
        BY <1>2, <3>2, <4>2
    <3> QED
      BY <2>2, <3>3, <3>4 DEF DealDone
  <2>12. LoopInv'
    BY <1>2, <2>2, <2>3, <2>8, <2>9, <2>10, <2>11 DEF LoopInv
  <2> QED
    BY <1>2, <2>1, <2>5, <2>6, <2>12 DEF StringInv, Untouched
<1> QED
  BY <1>1, <1>2 DEF StartNode

(* The loops with one output.                                              *)
LEMMA OneOutput ==
  ASSUME CallAssumption, StringInv, stage = "loop", call.kind \notin {"concat", "interleave"}
  PROVE  /\ outs = <<outs[1]>> /\ outs[1] \in Output /\ outs[1].cap = call.base + OutputSize
         /\ outs[1].bytes \in Seq(Nat) /\ Len(outs[1].bytes) \in Nat /\ outs[1].cap \in Nat
         /\ OutputSize \in Nat /\ call.base \in Nat
<1>1. call \in Calls /\ InputsFit /\ ~TooLarge /\ outs \in Seq(Output) /\ Capacities
  BY DEF StringInv, LoopInv, TypeOK
<1>2. Len(Room) = 1 /\ Room[1].cap = call.base + OutputSize
  BY <1>1, RoomFacts
<1>3. Len(outs) = 1 /\ \A o \in DOMAIN outs : outs[o].cap = Room[o].cap
  BY <1>1, <1>2 DEF Capacities
<1>4. DOMAIN outs = {1} /\ outs[1] \in Output /\ outs = <<outs[1]>>
  BY <1>1, <1>3
<1>5. outs[1].bytes \in Seq(Nat) /\ Len(outs[1].bytes) \in Nat /\ outs[1].cap \in Nat
  BY <1>4 DEF Output
<1>6. OutputSize \in Nat /\ call.base \in Nat
  BY <1>1, SizeIsNat, CallFacts
<1> QED
  BY <1>2, <1>3, <1>4, <1>5, <1>6

(* A step that appends to the one output and stays within its room.        *)
LEMMA OneOutputKeeps ==
  ASSUME CallAssumption, StringInv, stage = "loop", call.kind \notin {"concat", "interleave"},
         call' = call, NEW dest \in Output, dest.cap = outs[1].cap, outs' = <<dest>>
  PROVE  Capacities' /\ outs' \in Seq(Output)
<1>1. call \in Calls /\ InputsFit /\ ~TooLarge /\ Capacities /\ Room' = Room
  BY SameCall DEF StringInv, LoopInv
<1>2. Len(Room) = 1 /\ outs = <<outs[1]>>
  BY <1>1, OneOutput, RoomFacts
<1>3. outs[1].cap = Room[1].cap
  BY <1>1, <1>2 DEF Capacities
<1>4. Len(outs') = 1 /\ DOMAIN outs' = {1} /\ outs'[1] = dest
  OBVIOUS
<1> QED
  BY <1>1, <1>2, <1>3, <1>4 DEF Capacities

(* A source that has given len bytes more.                                 *)
LEMMA SourceMoves ==
  ASSUME CallAssumption, StringInv, NEW s \in DOMAIN call.src, NEW len \in Nat,
         bytePosition[s] + len <= Len(call.src[s].bytes),
         bytePosition' = [bytePosition EXCEPT ![s] = @ + len]
  PROVE  /\ SumFunction(bytePosition) \in Nat
         /\ SumFunction(bytePosition') = SumFunction(bytePosition) + len
         /\ SumFunction(bytePosition') <= AllBytes
         /\ DOMAIN bytePosition' = DOMAIN call.src
         /\ bytePosition'[s] \in 0 .. Len(call.src[s].bytes)
<1> DEFINE D == DOMAIN call.src
           new == [bytePosition EXCEPT ![s] = @ + len]
<1>1. call \in Calls /\ DOMAIN bytePosition = D
  BY DEF StringInv, TypeOK
<1>2. IsFiniteSet(D) /\ \A y \in D : Len(call.src[y].bytes) \in Nat
  BY <1>1, CallFacts, SeqOfNumbers
<1>3. \A y \in D : bytePosition[y] \in Nat /\ bytePosition[y] <= Len(call.src[y].bytes)
  BY <1>2 DEF StringInv, TypeOK
<1>4. /\ DOMAIN new = D /\ new[s] = bytePosition[s] + len
      /\ \A y \in D \ {s} : new[y] = bytePosition[y]
  BY <1>1
<1> HIDE DEF new
<1>5. \A y \in D : new[y] \in Nat /\ new[y] <= Len(call.src[y].bytes)
  BY <1>3, <1>4
<1>6. SumOn(new, D) + bytePosition[s] = SumOn(bytePosition, D) + new[s]
  BY <1>2, <1>3, <1>4, <1>5, SumChanged
<1>7. SumOn(new, D) \in Nat /\ SumOn(bytePosition, D) \in Nat
  BY <1>2, <1>3, <1>5, SumOfMore
<1>8. SumOn(new, D) = SumOn(bytePosition, D) + len
  <2>1. bytePosition[s] \in Nat
    BY <1>3
  <2> QED
    BY <1>4, <1>6, <1>7, <2>1
<1>9. SumOn(new, D) <= AllBytes
  <2>1. \A y \in D : ContentLengths[y] \in Nat /\ new[y] <= ContentLengths[y]
    BY <1>1, <1>5, AllBytesFacts
  <2>2. SumOn(new, D) <= SumOn(ContentLengths, D)
    BY <1>2, <1>5, <2>1, SumsOrdered
  <2> QED
    BY <1>1, <2>2, AllBytesFacts
<1>10. SumFunction(new) = SumOn(new, D) /\ SumFunction(bytePosition) = SumOn(bytePosition, D)
  BY <1>1, <1>4 DEF SumFunction, SumOn
<1>11. bytePosition' = new
  BY DEF new
<1>12. new[s] \in 0 .. Len(call.src[s].bytes)
  BY <1>2, <1>5
<1> QED
  BY <1>4, <1>7, <1>8, <1>9, <1>10, <1>11, <1>12

(* The segments of a tag, one more index at a time.                        *)
LEMMA SegmentSums ==
  ASSUME CallAssumption, call \in Calls, call.kind = "tags", InputsFit, SegmentsFit
  PROVE  /\ Len(call.idx) \in Nat /\ Len(call.sizes) = Len(call.idx)
         /\ \A i \in 1 .. Len(call.idx) : call.sizes[i] \in Nat /\ call.idx[i] \in DOMAIN call.src
         /\ \A s \in DOMAIN call.src :
              SumOn(call.sizes, Uses(s, Len(call.idx))) = Len(call.src[s].bytes)
         /\ \A s \in DOMAIN call.src : \A n \in 0 .. Len(call.idx) :
              /\ SumOn(call.sizes, Uses(s, n)) \in Nat
              /\ SumOn(call.sizes, Uses(s, n)) <= Len(call.src[s].bytes)
         /\ \A s \in DOMAIN call.src : \A n \in 0 .. Len(call.idx) - 1 :
              SumOn(call.sizes, Uses(s, n + 1)) =
                IF call.idx[n + 1] = s THEN SumOn(call.sizes, Uses(s, n)) + call.sizes[n + 1]
                ELSE SumOn(call.sizes, Uses(s, n))
<1> DEFINE m == Len(call.idx)
<1>1. call.idx \in Seq(Nat) /\ call.sizes \in Seq(Nat) /\ TagsFit
  BY CallFacts DEF InputsFit
<1>2. m \in Nat /\ Len(call.sizes) = m /\ DOMAIN call.idx = 1 .. m /\ DOMAIN call.sizes = 1 .. m
  BY <1>1 DEF TagsFit
<1>3. \A i \in 1 .. m : call.sizes[i] \in Nat /\ call.idx[i] \in DOMAIN call.src
  <2>1. \A i \in DOMAIN call.sizes : call.sizes[i] \in Nat
    BY <1>1, SeqOfNumbers
  <2>2. \A i \in DOMAIN call.idx : call.idx[i] \in DOMAIN call.src
    BY DEF SegmentsFit
  <2> HIDE DEF m
  <2> QED
    BY <1>2, <2>1, <2>2
<1> HIDE DEF m
<1>4. \A s \in DOMAIN call.src : SumOn(call.sizes, Uses(s, m)) = Len(call.src[s].bytes)
  <2> TAKE s \in DOMAIN call.src
  <2>1. {i \in DOMAIN call.idx : call.idx[i] = s} = Uses(s, m)
    BY <1>2 DEF Uses
  <2> QED
    BY <2>1 DEF SegmentsFit, SumOn
<1>5. ASSUME NEW s, NEW n \in 0 .. m
      PROVE  /\ Uses(s, n) \in SUBSET Uses(s, m) /\ IsFiniteSet(Uses(s, n))
             /\ \A i \in Uses(s, n) : i \in 1 .. n /\ call.sizes[i] \in Nat
  <2>1. Uses(s, n) \subseteq 1 .. n /\ 1 .. n \subseteq 1 .. m
    BY <1>2 DEF Uses
  <2>2. IsFiniteSet(1 .. n)
    BY FS_Interval
  <2>3. Uses(s, n) \subseteq Uses(s, m)
    BY <2>1 DEF Uses
  <2>4. IsFiniteSet(Uses(s, n))
    BY <2>1, <2>2, FS_Subset
  <2> QED
    BY <1>3, <2>1, <2>3, <2>4
<1>6. ASSUME NEW s \in DOMAIN call.src, NEW n \in 0 .. m
      PROVE  /\ SumOn(call.sizes, Uses(s, n)) \in Nat
             /\ SumOn(call.sizes, Uses(s, n)) <= Len(call.src[s].bytes)
  <2>1. SumOn(call.sizes, Uses(s, n)) \in Nat
    BY <1>5, SumOfMore
  <2>2. m \in 0 .. m
    BY <1>2
  <2>3. IsFiniteSet(Uses(s, m)) /\ \A i \in Uses(s, m) : call.sizes[i] \in Nat
    BY <1>5, <2>2
  <2>4. SumOn(call.sizes, Uses(s, n)) <= SumOn(call.sizes, Uses(s, m))
    BY <1>5, <2>3, SumOfPart
  <2> QED
    BY <1>4, <2>1, <2>4
<1>7. ASSUME NEW s \in DOMAIN call.src, NEW n \in 0 .. m - 1
      PROVE  SumOn(call.sizes, Uses(s, n + 1)) =
               IF call.idx[n + 1] = s THEN SumOn(call.sizes, Uses(s, n)) + call.sizes[n + 1]
               ELSE SumOn(call.sizes, Uses(s, n))
  <2>1. n \in 0 .. m /\ n + 1 \in 1 .. m /\ 1 .. (n + 1) = 1 .. n \cup {n + 1}
    BY <1>2
  <2>2. CASE call.idx[n + 1] = s
    <3>1. Uses(s, n + 1) = Uses(s, n) \cup {n + 1}
      BY <2>1, <2>2 DEF Uses
    <3>2. n + 1 \notin Uses(s, n)
      BY <1>2 DEF Uses
    <3>3. IsFiniteSet(Uses(s, n)) /\ \A i \in Uses(s, n) \cup {n + 1} : call.sizes[i] \in Nat
      BY <1>3, <1>5, <2>1
    <3>4. SumOn(call.sizes, Uses(s, n) \cup {n + 1}) =
            SumOn(call.sizes, Uses(s, n)) + call.sizes[n + 1]
      BY <3>2, <3>3, SumOfOneMore
    <3> QED
      BY <2>2, <3>1, <3>4
  <2>3. CASE call.idx[n + 1] # s
    <3>1. Uses(s, n + 1) = Uses(s, n)
      BY <2>1, <2>3 DEF Uses
    <3> QED
      BY <2>3, <3>1
  <2> QED
    BY <2>2, <2>3
<1> QED
  BY <1>2, <1>3, <1>4, <1>6, <1>7 DEF m

(* What TakeSelected takes is there, in a tag loop always.                 *)
LEMMA TagFits ==
  ASSUME CallAssumption, StringInv, stage = "loop", call.kind = "tags", index <= Len(call.idx)
  PROVE  Selected = call.idx[index] /\ HasString(Selected)
<1>1. /\ call \in Calls /\ InputsFit /\ SegmentsFit /\ TagsDone /\ csvRow = 0
      /\ index \in Nat \ {0}
  BY DEF StringInv, LoopInv, TypeOK
<1> DEFINE n == index - 1
           s == call.idx[index]
<1>2. Len(call.idx) \in Nat /\ n \in 0 .. Len(call.idx) - 1 /\ n + 1 = index
      /\ n + 1 \in 0 .. Len(call.idx) /\ index \in 1 .. Len(call.idx)
  <2>1. Len(call.idx) \in Nat
    BY <1>1, SegmentSums
  <2> QED
    BY <1>1, <2>1
<1>3. s \in DOMAIN call.src /\ call.sizes[index] \in Nat
  BY <1>1, <1>2, SegmentSums
<1>4. bytePosition[s] = SumOn(call.sizes, Uses(s, n))
  BY <1>1, <1>3 DEF TagsDone
<1> HIDE DEF n, s
<1>5. SumOn(call.sizes, Uses(s, n + 1)) = SumOn(call.sizes, Uses(s, n)) + call.sizes[n + 1]
  BY <1>1, <1>2, <1>3, SegmentSums DEF s
<1>6. SumOn(call.sizes, Uses(s, n + 1)) <= Len(call.src[s].bytes)
  BY <1>1, <1>2, <1>3, SegmentSums
<1>7. bytePosition[s] + call.sizes[index] <= Len(call.src[s].bytes)
  BY <1>2, <1>4, <1>5, <1>6
<1>8. Selected = s
  BY <1>1 DEF Selected, s
<1> QED
  BY <1>3, <1>7, <1>8 DEF HasString, StringLength, s

(* The length of the next string is a number, and its bytes are there.     *)
LEMMA StringTaken ==
  ASSUME CallAssumption, StringInv, stage = "loop", Dispatches, index <= Len(call.idx),
         NEW s, s = Selected, HasString(s), NEW len, len = StringLength(s),
         NEW new, new = Cut(call.src[s].bytes, bytePosition[s], len)
  PROVE  /\ s \in DOMAIN call.src /\ len \in Nat /\ bytePosition[s] \in Nat
         /\ bytePosition[s] + len <= Len(call.src[s].bytes)
         /\ new \in Seq(Nat) /\ Len(new) = len
         /\ call.kind # "tags" =>
              /\ position[s] + 1 \in 0 .. Len(call.src[s].lens)
              /\ len = call.src[s].lens[position[s] + 1]
<1>1. /\ call \in Calls /\ InputsFit /\ SegmentsFit /\ TagsDone /\ TypeOK
      /\ index \in Nat \ {0}
  BY DEF StringInv, LoopInv, TypeOK
<1>2. s \in DOMAIN call.src /\ bytePosition[s] + len <= Len(call.src[s].bytes)
  BY DEF HasString
<1>3. call.src[s].lens \in Seq(Nat) /\ call.src[s].bytes \in Seq(Nat)
  BY <1>1, <1>2, CallFacts
<1>4. bytePosition[s] \in Nat /\ position[s] \in Nat
  BY <1>1, <1>2 DEF TypeOK
<1>5. CASE call.kind = "tags"
  <2>1. index \in 1 .. Len(call.idx)
    BY <1>1, <1>5, SegmentSums
  <2>2. len = call.sizes[index] /\ len \in Nat
    BY <1>1, <1>5, <2>1, SegmentSums DEF StringLength
  <2> QED
    BY <1>2, <1>3, <1>4, <1>5, <2>2, CutFacts
<1>6. CASE call.kind # "tags"
  <2>1. position[s] < Len(call.src[s].lens)
    BY <1>6 DEF HasString
  <2>2. len = call.src[s].lens[position[s] + 1]
    BY <1>6 DEF StringLength
  <2>3. Len(call.src[s].lens) \in Nat
    BY <1>3
  <2>4. position[s] + 1 \in 1 .. Len(call.src[s].lens)
    BY <1>4, <2>1, <2>3
  <2>5. len \in Nat
    BY <1>3, <2>2, <2>4
  <2>6. new \in Seq(Nat) /\ Len(new) = len
    BY <1>2, <1>3, <1>4, <2>5, CutFacts
  <2>7. position[s] + 1 \in 0 .. Len(call.src[s].lens)
    BY <2>4
  <2> QED
    BY <1>2, <1>4, <2>2, <2>5, <2>6, <2>7
<1> QED
  BY <1>5, <1>6

(* The next string of the selected source.                                 *)
LEMMA SelectedKeeps ==
  ASSUME CallAssumption, BoundAssumption, StringInv, TakeSelected
  PROVE  StringInv'
<1>1. stage = "loop" /\ Dispatches /\ index <= Len(call.idx)
  BY DEF TakeSelected, Dispatches
<1>2. /\ call \in Calls /\ InputsFit /\ ~TooLarge /\ SegmentsFit /\ TagsDone /\ DispatchDone
      /\ TypeOK /\ index \in Nat \ {0}
  BY <1>1 DEF StringInv, LoopInv, TypeOK
<1> DEFINE s == Selected
           len == StringLength(s)
           new == Cut(call.src[s].bytes, bytePosition[s], len)
           serialHeld == Len(outs[1].bytes) +
              IF call.kind = "serial" /\ WritesChunk(s, len) /\ ~Separator(s, len)
              THEN CopyChunk ELSE len
           dest == IF call.kind = "strings" THEN Add(outs[1], new) ELSE Held(outs[1], new, serialHeld)
<1>3. CASE ~HasString(s)
  <2>1. Refuse("Malformed")
    <3>1. call.kind # "tags"
      BY <1>1, <1>3, TagFits
    <3> QED
      BY <1>3, <3>1 DEF TakeSelected
  <2> QED
    BY <2>1, StopKeeps DEF Refuse, Outcomes
<1>4. CASE HasString(s)
  <2>1. /\ outs' = <<dest>> /\ position' = TakenAfter(s)
        /\ bytePosition' = [bytePosition EXCEPT ![s] = @ + len]
        /\ csvRow' = IF csvRow = Len(CsvPattern) \/ csvRow = 0 THEN 0 ELSE csvRow + 1
        /\ index' = index + 1 /\ UNCHANGED <<call, stage, outcome>>
    BY <1>4 DEF TakeSelected
  <2>2. /\ s \in DOMAIN call.src /\ len \in Nat /\ bytePosition[s] \in Nat
        /\ bytePosition[s] + len <= Len(call.src[s].bytes)
        /\ new \in Seq(Nat) /\ Len(new) = len
        /\ call.kind # "tags" =>
              /\ position[s] + 1 \in 0 .. Len(call.src[s].lens)
              /\ len = call.src[s].lens[position[s] + 1]
    <3> HIDE DEF s, len, new
    <3>1. s = Selected /\ len = StringLength(s)
          /\ new = Cut(call.src[s].bytes, bytePosition[s], len)
      BY DEF s, len, new
    <3> QED
      BY <1>1, <1>4, <3>1, StringTaken
  <2>3. /\ outs[1] \in Output /\ outs[1].cap = call.base + OutputSize
        /\ Len(outs[1].bytes) \in Nat /\ outs[1].cap \in Nat /\ call.base \in Nat
    BY <1>1, OneOutput DEF Dispatches
  <2> HIDE DEF s, len, new
  <2>4. /\ SumFunction(bytePosition) \in Nat
        /\ SumFunction(bytePosition') = SumFunction(bytePosition) + len
        /\ SumFunction(bytePosition') <= AllBytes
        /\ DOMAIN bytePosition' = DOMAIN call.src
        /\ bytePosition'[s] \in 0 .. Len(call.src[s].bytes)
    BY <2>1, <2>2, SourceMoves
  <2>5. OutputSize = AllBytes /\ AllBytes \in Nat
    BY <1>1, <1>2, AllBytesFacts DEF Dispatches, OutputSize
  <2>6. Len(outs[1].bytes) = call.base + SumFunction(bytePosition)
    BY <1>1, <1>2 DEF DispatchDone
  <2> DEFINE old == Len(outs[1].bytes)
             cap == outs[1].cap
  <2>7. old \in Nat /\ cap \in Nat /\ len \in Nat /\ old + len <= cap
    <3> DEFINE base == call.base
               sum == SumFunction(bytePosition)
               next == SumFunction(bytePosition')
               all == AllBytes
    <3>1. /\ base \in Nat /\ sum \in Nat /\ next = sum + len /\ next <= all /\ all \in Nat
          /\ old = base + sum /\ cap = base + all
      BY <2>3, <2>4, <2>5, <2>6
    <3> HIDE DEF base, sum, next, all, old, cap
    <3> QED
      BY <2>2, <3>1
  <2>8. dest \in Output /\ Len(dest.bytes) = Len(outs[1].bytes) + len /\ dest.cap = outs[1].cap
    <3>1. CASE call.kind = "strings"
      BY <2>2, <2>3, <2>7, <3>1, AddFacts
    <3>2. CASE call.kind # "strings"
      <4>1. serialHeld \in Nat /\ serialHeld <= cap
        <5>1. CASE call.kind = "serial" /\ WritesChunk(s, len) /\ ~Separator(s, len)
          <6>1. cap - old >= CopyChunk /\ CopyChunk \in Nat
            BY <5>1 DEF WritesChunk, BoundAssumption
          <6>2. serialHeld = old + CopyChunk
            BY <5>1
          <6> HIDE DEF serialHeld, old, cap
          <6> QED
            BY <2>7, <6>1, <6>2
        <5>2. CASE ~ (call.kind = "serial" /\ WritesChunk(s, len) /\ ~Separator(s, len))
          <6>1. serialHeld = old + len
            BY <5>2
          <6> HIDE DEF serialHeld, old, cap
          <6> QED
            BY <2>7, <6>1
        <5> QED
          BY <5>1, <5>2
      <4> HIDE DEF serialHeld
      <4>2. dest = Held(outs[1], new, serialHeld)
        BY <3>2
      <4>3. ~ (serialHeld > cap)
        <5>1. cap \in Nat
          BY <2>7
        <5> HIDE DEF cap, old
        <5> QED
          BY <4>1, <5>1
      <4>4. /\ Held(outs[1], new, serialHeld) \in Output
            /\ Held(outs[1], new, serialHeld).cap =
                 IF serialHeld > outs[1].cap THEN serialHeld ELSE outs[1].cap
            /\ Len(Held(outs[1], new, serialHeld).bytes) = Len(outs[1].bytes) + Len(new)
        BY <2>2, <2>3, <4>1, HeldFacts
      <4> HIDE DEF dest
      <4> QED
        BY <2>2, <4>2, <4>3, <4>4
    <3> QED
      BY <3>1, <3>2
  <2> HIDE DEF dest
  <2>9. Capacities' /\ outs' \in Seq(Output)
    BY <1>1, <2>1, <2>8, OneOutputKeeps DEF Dispatches
  <2>10. TypeOK'
    <3>1. csvRow' \in 0 .. Len(CsvPattern)
      <4>1. csvRow \in 0 .. Len(CsvPattern)
        BY <1>2 DEF TypeOK
      <4> QED
        BY <2>1, <4>1
    <3>2. DOMAIN position' = DOMAIN call.src /\ DOMAIN position = DOMAIN call.src
      BY <1>2, <2>1 DEF TakenAfter, TypeOK
    <3>3. ASSUME NEW y \in DOMAIN call.src
          PROVE  /\ position'[y] \in 0 .. Len(call.src[y].lens)
                 /\ bytePosition'[y] \in 0 .. Len(call.src[y].bytes)
                 /\ call.kind \in {"strings", "serial", "concat"} =>
                      bytePosition'[y] = SumFunction(SubSeq(call.src[y].lens, 1, position'[y]))
      <4>1. /\ position[y] \in 0 .. Len(call.src[y].lens)
            /\ bytePosition[y] \in 0 .. Len(call.src[y].bytes)
            /\ call.kind \in {"strings", "serial", "concat"} =>
                 bytePosition[y] = SumFunction(SubSeq(call.src[y].lens, 1, position[y]))
        BY <1>2 DEF TypeOK
      <4>2. DOMAIN bytePosition = DOMAIN call.src
        BY <1>2 DEF TypeOK
      <4>3. CASE y # s
        <5>1. bytePosition'[y] = bytePosition[y] /\ position'[y] = position[y]
          BY <2>1, <3>2, <4>2, <4>3 DEF TakenAfter
        <5> QED
          BY <4>1, <5>1
      <4>4. CASE y = s /\ call.kind = "tags"
        <5>1. position'[y] = position[y]
          BY <2>1, <4>4 DEF TakenAfter
        <5> QED
          BY <2>4, <4>1, <4>4, <5>1
      <4>5. CASE y = s /\ call.kind # "tags"
        <5> DEFINE lens == call.src[s].lens
                   n == position[s]
        <5>1. position'[y] = n + 1 /\ bytePosition'[y] = bytePosition[y] + len
          BY <2>1, <3>2, <4>2, <4>5 DEF TakenAfter
        <5>2. /\ lens \in Seq(Nat) /\ Len(lens) \in Nat /\ DOMAIN lens = 1 .. Len(lens)
              /\ \A i \in DOMAIN lens : lens[i] \in Nat
          <6>1. lens \in Seq(Nat)
            BY <1>2, <2>2, CallFacts
          <6> HIDE DEF lens
          <6> QED
            BY <6>1, SeqOfNumbers
        <5>3. n \in 0 .. Len(lens) /\ n + 1 \in 0 .. Len(lens) /\ len = lens[n + 1]
          BY <2>2, <4>1, <4>5
        <5>4. bytePosition[s] = SumFunction(SubSeq(lens, 1, n))
          BY <1>1, <4>1, <4>5 DEF Dispatches
        <5> HIDE DEF lens, n
        <5>5. n \in 0 .. Len(lens) - 1
          BY <5>2, <5>3
        <5>6. SumOn(lens, 1 .. (n + 1)) = SumOn(lens, 1 .. n) + lens[n + 1]
          BY <5>2, <5>5, FirstSums
        <5>7. SumFunction(SubSeq(lens, 1, n + 1)) = bytePosition[s] + len
          BY <5>2, <5>3, <5>4, <5>6, FirstsCut
        <5>8. /\ position'[s] = n + 1 /\ bytePosition'[s] = bytePosition[s] + len /\ y = s
              /\ call.src[s].lens = lens
          BY <4>5, <5>1 DEF lens
        <5> QED
          BY <2>4, <5>3, <5>7, <5>8
      <4> QED
        BY <4>3, <4>4, <4>5
    <3>4. index' \in Nat \ {0}
      BY <1>2, <2>1
    <3> QED
      BY <1>2, <2>1, <2>4, <2>9, <3>1, <3>2, <3>3, <3>4 DEF TypeOK
  <2>11. DispatchDone'
    <3>1. outs'[1] = dest /\ call'.base = call.base
      BY <2>1
    <3>2. Len(dest.bytes) = call.base + SumFunction(bytePosition')
      BY <2>2, <2>3, <2>4, <2>6, <2>8
    <3> QED
      BY <3>1, <3>2 DEF DispatchDone
  <2>12. call.kind # "serial" => csvRow' = 0
    BY <1>1, <2>1 DEF StringInv, LoopInv
  <2>13. TagsDone'
    <3> SUFFICES ASSUME call.kind = "tags" PROVE TagsDone'
      BY <2>1 DEF TagsDone
    <3> DEFINE n == index - 1
    <3>1. s = call.idx[index] /\ len = call.sizes[index]
      BY <1>1, TagFits DEF s, len, StringLength
    <3>2. Len(call.idx) \in Nat /\ n \in 0 .. Len(call.idx) - 1 /\ n + 1 = index /\ index' - 1 = index
      <4> DEFINE m == Len(call.idx)
      <4>1. m \in Nat
        BY <1>2, SegmentSums
      <4>2. index \in Nat \ {0} /\ index <= m /\ index' = index + 1
        BY <1>1, <1>2, <2>1
      <4> HIDE DEF m
      <4>3. n \in 0 .. m - 1 /\ n + 1 = index /\ index' - 1 = index
        BY <4>1, <4>2
      <4> QED
        BY <4>1, <4>3 DEF m
    <3>3. index' <= Len(call.idx) + 1
      BY <1>1, <1>2, <2>1, <3>2
    <3>4. ASSUME NEW y \in DOMAIN call.src
          PROVE  bytePosition'[y] = SumOn(call.sizes, Uses(y, index))
      <4>1. bytePosition[y] = SumOn(call.sizes, Uses(y, n))
        BY <1>2 DEF TagsDone
      <4> HIDE DEF n
      <4>2. SumOn(call.sizes, Uses(y, n + 1)) =
              IF call.idx[n + 1] = y THEN SumOn(call.sizes, Uses(y, n)) + call.sizes[n + 1]
              ELSE SumOn(call.sizes, Uses(y, n))
        BY <1>2, <3>2, SegmentSums
      <4>3. DOMAIN bytePosition = DOMAIN call.src
        BY <1>2 DEF TypeOK
      <4>4. bytePosition'[y] = IF y = s THEN bytePosition[y] + len ELSE bytePosition[y]
        BY <2>1, <4>3
      <4> QED
        BY <3>1, <3>2, <4>1, <4>2, <4>4
    <3>5. \A y : Uses(y, index - 1)' = Uses(y, index)
      BY <2>1, <3>2 DEF Uses
    <3>6. ASSUME NEW y \in DOMAIN call.src
          PROVE  bytePosition'[y] = SumOn(call.sizes, Uses(y, index - 1)')
      BY <3>4, <3>5
    <3> QED
      BY <2>1, <3>3, <3>6 DEF TagsDone
  <2>14. PrefixDone' /\ TokensDone' /\ DealDone' /\ ComponentsDone'
    BY <1>1, <2>1 DEF Dispatches, PrefixDone, TokensDone, DealDone, ComponentsDone
  <2> QED
    BY <1>1, <2>1, <2>9, <2>10, <2>11, <2>12, <2>13, <2>14, LoopKeeps
<1> QED
  BY <1>3, <1>4

(* The loops over the strings of one source.                               *)
LEMMA SoloTyped ==
  ASSUME CallAssumption, StringInv, ~Dispatches, call.kind # "concat",
         UNCHANGED <<call, stage, csvRow, position, outcome>>, outs' \in Seq(Output),
         index' = index + 1, NEW b \in 0 .. Len(Bytes), bytePosition' = <<b>>
  PROVE  TypeOK'
<1>1. TypeOK /\ call \in Calls /\ DOMAIN call.src = {1} /\ Bytes = call.src[1].bytes
  BY CallFacts DEF StringInv, Bytes
<1>2. DOMAIN bytePosition' = {1} /\ bytePosition'[1] = b
  OBVIOUS
<1>3. index' \in Nat \ {0}
  BY <1>1 DEF TypeOK
<1> QED
  BY <1>1, <1>2, <1>3 DEF TypeOK, Dispatches

(* The start of a CSV row, which only the serial output has.               *)
LEMMA RowKeeps ==
  ASSUME CallAssumption, BoundAssumption, StringInv, StartRow
  PROVE  StringInv'
<1>1. /\ stage = "loop" /\ call.kind = "serial" /\ csvRow' = 1
      /\ UNCHANGED <<call, stage, index, position, bytePosition, outs, outcome>>
  BY DEF StartRow, RowAhead
<1>2. 1 \in 0 .. Len(CsvPattern)
  BY DEF BoundAssumption
<1>3. TypeOK'
  BY <1>1, <1>2 DEF StringInv, TypeOK
<1>4. Capacities'
  BY <1>1, SameCall DEF StringInv, Capacities
<1>5. DispatchDone'
  BY <1>1 DEF StringInv, LoopInv, DispatchDone, Dispatches
<1>6. TagsDone' /\ PrefixDone' /\ TokensDone' /\ DealDone' /\ ComponentsDone'
  BY <1>1 DEF TagsDone, PrefixDone, TokensDone, DealDone, ComponentsDone
<1> QED
  BY <1>1, <1>3, <1>4, <1>5, <1>6, LoopKeeps

(* prefix: the match lies within the string before, and what is made has   *)
(* the length that was announced.                                          *)
LEMMA SuffixKeeps ==
  ASSUME CallAssumption, BoundAssumption, StringInv, TakeSuffix
  PROVE  StringInv'
<1>1. stage = "loop" /\ call.kind = "prefix" /\ index <= Len(Strings)
  BY DEF TakeSuffix
<1>2. call \in Calls /\ InputsFit /\ PrefixDone /\ TypeOK /\ index \in Nat \ {0}
  BY <1>1 DEF StringInv, LoopInv, TypeOK
<1> DEFINE n == index - 1
           m == Len(call.idx)
           old == outs[1].bytes
           start == Len(old) - IF index = 1 THEN 0 ELSE outs[1].lens[index - 1]
           match == call.idx[index]
           rest == Strings[index]
           new == Cut(old, start, match) \o Cut(Bytes, bytePosition[1], rest)
           dest == Add(outs[1], new)
<1>3. m \in Nat /\ n \in 0 .. m - 1 /\ n \in 0 .. m /\ n + 1 \in 0 .. m /\ n + 1 = index
      /\ index \in 1 .. m /\ Len(Strings) = m
  <2>1. m \in Nat /\ Len(Strings) = m
    BY <1>1, <1>2, PrefixFacts
  <2> QED
    BY <1>1, <1>2, <2>1
<1>4. /\ outs[1] \in Output /\ outs[1].cap = call.base + OutputSize
      /\ old \in Seq(Nat) /\ Len(old) \in Nat
      /\ OutputSize \in Nat
  BY <1>1, OneOutput
<1>5. call.base = 0 /\ Strings \in Seq(Nat) /\ Bytes \in Seq(Nat) /\ ~Dispatches
      /\ DOMAIN call.src = {1}
  BY <1>1, <1>2, CallFacts DEF Dispatches
<1>6. Strings \in Seq(Nat) /\ DOMAIN Strings = 1 .. m /\ \A i \in DOMAIN Strings : Strings[i] \in Nat
  <2> DEFINE all == Strings
  <2>1. all \in Seq(Nat) /\ Len(all) = m
    BY <1>3, <1>5
  <2> HIDE DEF all, m
  <2>2. DOMAIN all = 1 .. m /\ \A i \in DOMAIN all : all[i] \in Nat
    BY <2>1
  <2> QED
    BY <2>1, <2>2 DEF all
<1>7. /\ SumFunction(Strings) = Len(Bytes)
      /\ SumOn(Strings, 1 .. (n + 1)) = SumOn(Strings, 1 .. n) + Strings[n + 1]
      /\ SumOn(Strings, 1 .. (n + 1)) <= SumFunction(Strings)
      /\ SumOn(Strings, 1 .. n) \in Nat /\ SumOn(Strings, 1 .. (n + 1)) \in Nat
  <2>1. SumFunction(Strings) = Len(Bytes)
    BY <1>1, <1>2, PrefixFacts DEF SumsMatch, Strings, Bytes
  <2> HIDE DEF n, m
  <2> QED
    BY <1>3, <1>6, <2>1, FirstSums
<1>8. /\ DOMAIN PrefixLengths = 1 .. m /\ \A i \in DOMAIN PrefixLengths : PrefixLengths[i] \in Nat
      /\ \A i \in 1 .. m : PrefixLengths[i] = PrefixLength(i)
      /\ OutputSize = SumFunction(PrefixLengths)
  BY <1>1, <1>2, PrefixFacts
<1>9. /\ SumOn(PrefixLengths, 1 .. (n + 1)) = SumOn(PrefixLengths, 1 .. n) + PrefixLengths[n + 1]
      /\ SumOn(PrefixLengths, 1 .. (n + 1)) <= OutputSize
      /\ SumOn(PrefixLengths, 1 .. n) \in Nat /\ SumOn(PrefixLengths, 1 .. (n + 1)) \in Nat
  <2> HIDE DEF n, m
  <2> QED
    BY <1>3, <1>8, FirstSums
<1>10. /\ Len(outs[1].lens) = n /\ \A i \in 1 .. n : outs[1].lens[i] = PrefixLength(i)
       /\ Len(old) = SumOn(PrefixLengths, 1 .. n)
       /\ bytePosition[1] = SumOn(Strings, 1 .. n)
  BY <1>1, <1>2 DEF PrefixDone
<1>11. match \in Nat /\ rest \in Nat /\ MatchFits(index) /\ PrefixLength(index) = match + rest
  BY <1>1, <1>2, <1>3, PrefixFacts
<1>12. start \in Nat /\ start + match <= Len(old)
  <2>1. CASE index = 1
    <3>1. match <= 0
      BY <1>11, <2>1 DEF MatchFits
    <3> QED
      BY <1>4, <1>11, <2>1, <3>1
  <2>2. CASE index # 1
    <3> DEFINE k == n - 1
               last == PrefixLength(n)
    <3>1. k \in 0 .. m - 1 /\ k \in 0 .. m /\ k + 1 = n /\ n \in 1 .. n /\ n \in 1 .. m
      BY <1>3, <2>2
    <3>2. outs[1].lens[n] = last
      BY <1>10, <3>1
    <3>3. last = PrefixLengths[n] /\ last \in Nat
      BY <1>8, <3>1
    <3>4. match <= last
      BY <1>11, <2>2 DEF MatchFits
    <3>5. SumOn(PrefixLengths, 1 .. n) = SumOn(PrefixLengths, 1 .. k) + PrefixLengths[n]
          /\ SumOn(PrefixLengths, 1 .. k) \in Nat
      <4> HIDE DEF k, n, m
      <4>1. SumOn(PrefixLengths, 1 .. (k + 1)) = SumOn(PrefixLengths, 1 .. k) + PrefixLengths[k + 1]
            /\ SumOn(PrefixLengths, 1 .. k) \in Nat
        BY <1>3, <1>8, <3>1, FirstSums
      <4> QED
        BY <3>1, <4>1
    <3>6. start = Len(old) - last
      BY <2>2, <3>2
    <3> HIDE DEF start, last, match, k, n, old
    <3>7. Len(old) = SumOn(PrefixLengths, 1 .. k) + last
      BY <1>10, <3>3, <3>5
    <3> DEFINE before == SumOn(PrefixLengths, 1 .. k)
               all == Len(old)
    <3>8. before \in Nat /\ all = before + last /\ start = all - last /\ last \in Nat
      BY <3>3, <3>5, <3>6, <3>7
    <3>9. match \in Nat /\ match <= last
      BY <1>11, <3>4
    <3> HIDE DEF before, all
    <3>10. start \in Nat /\ start + match <= all
      BY <3>8, <3>9
    <3> QED
      BY <3>10 DEF all
  <2> QED
    BY <2>1, <2>2
<1>13. bytePosition[1] \in Nat /\ bytePosition[1] + rest <= Len(Bytes)
  BY <1>3, <1>7, <1>10
<1>14. start = PreviousStart
  BY DEF PreviousStart
<1> HIDE DEF start, match, rest, old
<1>15. outs' = <<dest>> /\ TakeBytes(rest)
  <2>1. Len(old) \in Nat /\ Len(Bytes) \in Nat
    BY <1>4, <1>5
  <2>2. ~ (PreviousStart + match > Len(old)) /\ ~ (bytePosition[1] + rest > Len(Bytes))
    BY <1>11, <1>12, <1>13, <1>14, <2>1
  <2> QED
    BY <1>1, <1>14, <2>2 DEF TakeSuffix, match, rest, old
<1>16. new \in Seq(Nat) /\ Len(new) = match + rest
  <2>1. Cut(old, start, match) \in Seq(Nat) /\ Len(Cut(old, start, match)) = match
    BY <1>4, <1>11, <1>12, CutFacts
  <2>2. Cut(Bytes, bytePosition[1], rest) \in Seq(Nat)
        /\ Len(Cut(Bytes, bytePosition[1], rest)) = rest
    <3> DEFINE all == Bytes
               first == bytePosition[1]
    <3>1. all \in Seq(Nat) /\ first \in Nat /\ rest \in Nat /\ first + rest <= Len(all)
      BY <1>5, <1>11, <1>13
    <3> HIDE DEF all, first
    <3>2. Cut(all, first, rest) \in Seq(Nat) /\ Len(Cut(all, first, rest)) = rest
      BY <3>1, CutFacts
    <3> QED
      BY <3>2 DEF all, first
  <2> DEFINE a == Cut(old, start, match)
             b == Cut(Bytes, bytePosition[1], rest)
  <2>3. a \in Seq(Nat) /\ b \in Seq(Nat) /\ Len(a) = match /\ Len(b) = rest
    BY <2>1, <2>2
  <2>4. new = a \o b
    OBVIOUS
  <2> HIDE DEF a, b, new
  <2> QED
    BY <2>3, <2>4, ConcatProperties
<1> HIDE DEF new
<1>17. Len(old) + Len(new) = SumOn(PrefixLengths, 1 .. (n + 1))
  <2>1. PrefixLengths[n + 1] = match + rest
    BY <1>3, <1>8, <1>11
  <2> QED
    BY <1>9, <1>10, <1>16, <2>1
<1>18. /\ dest \in Output /\ dest.lens = Append(outs[1].lens, Len(new))
       /\ Len(dest.bytes) = SumOn(PrefixLengths, 1 .. (n + 1)) /\ dest.cap = outs[1].cap
  <2>1. /\ dest \in Output /\ dest.lens = Append(outs[1].lens, Len(new))
        /\ Len(dest.bytes) = Len(outs[1].bytes) + Len(new)
        /\ Len(outs[1].bytes) + Len(new) <= outs[1].cap => dest.cap = outs[1].cap
    BY <1>4, <1>16, AddFacts
  <2>2. Len(outs[1].bytes) + Len(new) <= outs[1].cap
    BY <1>4, <1>5, <1>9, <1>17 DEF old
  <2> QED
    BY <1>17, <2>1, <2>2 DEF old
<1> HIDE DEF dest
<1>19. Capacities' /\ outs' \in Seq(Output)
  BY <1>1, <1>15, <1>18, OneOutputKeeps DEF TakeBytes
<1>20. UNCHANGED <<call, stage, csvRow, position, outcome>> /\ index' = index + 1
       /\ bytePosition' = <<bytePosition[1] + rest>>
  BY <1>15 DEF TakeBytes
<1>21. bytePosition[1] + rest \in 0 .. Len(Bytes)
  BY <1>5, <1>11, <1>13
<1>22. TypeOK'
  BY <1>1, <1>5, <1>19, <1>20, <1>21, SoloTyped
<1>23. PrefixDone'
  <2>1. PrefixLengths' = PrefixLengths /\ Strings' = Strings /\ call' = call
    BY <1>20, SameCall
  <2>2. index' - 1 = index /\ index' <= Len(call.idx) + 1
    BY <1>3, <1>20
  <2>3. outs[1].lens \in Seq(Nat)
    BY <1>4 DEF Output
  <2>4. Len(dest.lens) = index
    BY <1>3, <1>10, <1>16, <1>18, <2>3
  <2>5. ASSUME NEW i \in 1 .. index PROVE dest.lens[i] = PrefixLength(i)
    <3>1. CASE i \in 1 .. n
      <4>1. dest.lens[i] = outs[1].lens[i]
        BY <1>10, <1>18, <2>3, <3>1
      <4> QED
        BY <1>10, <3>1, <4>1
    <3>2. CASE i = index
      <4>1. dest.lens[index] = Len(new)
        BY <1>3, <1>10, <1>18, <2>3
      <4> QED
        BY <1>11, <1>16, <3>2, <4>1
    <3> QED
      BY <1>3, <3>1, <3>2
  <2>6. \A i : PrefixLength(i)' = PrefixLength(i)
    BY <2>1 DEF PrefixLength
  <2>7. bytePosition'[1] = SumOn(Strings, 1 .. index)
    BY <1>3, <1>7, <1>10, <1>20 DEF rest
  <2>8. Len(dest.bytes) = SumOn(PrefixLengths, 1 .. index)
    BY <1>3, <1>18
  <2>9. outs'[1] = dest
    BY <1>15
  <2> QED
    BY <2>1, <2>2, <2>4, <2>5, <2>6, <2>7, <2>8, <2>9 DEF PrefixDone
<1>24. DispatchDone' /\ TagsDone' /\ TokensDone' /\ DealDone' /\ ComponentsDone'
  BY <1>1, <1>20 DEF Dispatches, DispatchDone, TagsDone, TokensDone, DealDone, ComponentsDone
<1>25. csvRow' = 0
  BY <1>1, <1>20 DEF StringInv, LoopInv
<1> QED
  BY <1>1, <1>19, <1>20, <1>22, <1>23, <1>24, <1>25, LoopKeeps

(* tokenize: a token is in the alphabet, and its string in the content.    *)
LEMMA TokenKeeps ==
  ASSUME CallAssumption, BoundAssumption, StringInv, TakeToken
  PROVE  StringInv'
<1>1. stage = "loop" /\ call.kind = "tokenize" /\ index <= Len(call.idx)
  BY DEF TakeToken
<1>2. call \in Calls /\ InputsFit /\ TokensDone /\ TypeOK /\ index \in Nat \ {0}
  BY <1>1 DEF StringInv, LoopInv, TypeOK
<1> DEFINE n == index - 1
           m == Len(call.idx)
           t == call.idx[index]
           new == Cut(Bytes, TokenStart(t), Strings[t])
           dest == Add(outs[1], new)
<1>3. m \in Nat /\ n \in 0 .. m - 1 /\ n \in 0 .. m /\ n + 1 \in 0 .. m /\ n + 1 = index
      /\ index \in 1 .. m
  <2>1. m \in Nat
    BY <1>1, <1>2, TokenFacts
  <2> QED
    BY <1>1, <1>2, <2>1
<1>4. /\ outs[1] \in Output /\ outs[1].cap = call.base + OutputSize
      /\ Len(outs[1].bytes) \in Nat /\ OutputSize \in Nat
  BY <1>1, OneOutput
<1>5. /\ call.base = 0 /\ Strings \in Seq(Nat) /\ Bytes \in Seq(Nat) /\ ~Dispatches
      /\ DOMAIN call.src = {1}
  BY <1>1, <1>2, CallFacts DEF Dispatches
<1>6. /\ DOMAIN TokenLengths = 1 .. m /\ \A i \in DOMAIN TokenLengths : TokenLengths[i] \in Nat
      /\ TokenLengths[n + 1] = Strings[t] /\ OutputSize = SumFunction(TokenLengths)
  BY <1>1, <1>2, <1>3, TokenFacts
<1>7. /\ SumOn(TokenLengths, 1 .. (n + 1)) = SumOn(TokenLengths, 1 .. n) + TokenLengths[n + 1]
      /\ SumOn(TokenLengths, 1 .. (n + 1)) <= OutputSize
      /\ SumOn(TokenLengths, 1 .. n) \in Nat
  <2> HIDE DEF n, m
  <2> QED
    BY <1>3, <1>6, FirstSums
<1>8. Len(outs[1].bytes) = SumOn(TokenLengths, 1 .. n)
  BY <1>1, <1>2 DEF TokensDone
<1>9. Strings[t] \in Nat /\ TokenStart(t) \in Nat /\ TokenStart(t) + Strings[t] <= Len(Bytes)
  <2> DEFINE k == t - 1
             c == Len(Strings)
  <2>1. t \in DOMAIN Strings
    BY <1>1, <1>2, <1>3, TokenFacts
  <2>2. /\ c \in Nat /\ DOMAIN Strings = 1 .. c
        /\ \A i \in DOMAIN Strings : Strings[i] \in Nat
    BY <1>5
  <2>3. k \in 0 .. c - 1 /\ k \in 0 .. c /\ k + 1 \in 0 .. c /\ k + 1 = t
    BY <2>1, <2>2
  <2>4. SumFunction(Strings) = Len(Bytes)
    BY <1>1, <1>2, TokenFacts DEF SumsMatch, Strings, Bytes
  <2>5. TokenStart(t) = SumOn(Strings, 1 .. k)
    BY <1>5, <2>3, FirstsCut DEF TokenStart
  <2> HIDE DEF k, c
  <2>6. /\ SumOn(Strings, 1 .. (k + 1)) = SumOn(Strings, 1 .. k) + Strings[k + 1]
        /\ SumOn(Strings, 1 .. (k + 1)) <= SumFunction(Strings)
        /\ SumOn(Strings, 1 .. k) \in Nat
    BY <2>2, <2>3, FirstSums
  <2> QED
    BY <2>1, <2>2, <2>3, <2>4, <2>5, <2>6
<1> HIDE DEF t
<1>10. Len(Bytes) \in Nat
  BY <1>5
<1>11. outs' = <<dest>> /\ TakeBytes(0)
  <2>1. ~ (TokenStart(t) + Strings[t] > Len(Bytes))
    BY <1>9, <1>10
  <2> QED
    BY <1>1, <2>1 DEF TakeToken, t
<1>12. new \in Seq(Nat) /\ Len(new) = Strings[t]
  <2> DEFINE all == Bytes
             start == TokenStart(t)
             len == Strings[t]
  <2>1. all \in Seq(Nat) /\ start \in Nat /\ len \in Nat /\ start + len <= Len(all)
    BY <1>5, <1>9
  <2> HIDE DEF all, start, len
  <2>2. Cut(all, start, len) \in Seq(Nat) /\ Len(Cut(all, start, len)) = len
    BY <2>1, CutFacts
  <2> QED
    BY <2>2 DEF all, start, len
<1> HIDE DEF new
<1>13. Len(outs[1].bytes) + Len(new) = SumOn(TokenLengths, 1 .. (n + 1))
  BY <1>6, <1>7, <1>8, <1>12
<1>14. /\ dest \in Output /\ Len(dest.bytes) = SumOn(TokenLengths, 1 .. (n + 1))
       /\ dest.cap = outs[1].cap
  <2>1. /\ dest \in Output /\ Len(dest.bytes) = Len(outs[1].bytes) + Len(new)
        /\ Len(outs[1].bytes) + Len(new) <= outs[1].cap => dest.cap = outs[1].cap
    BY <1>4, <1>12, AddFacts
  <2>2. Len(outs[1].bytes) + Len(new) <= outs[1].cap
    BY <1>4, <1>5, <1>7, <1>13
  <2> QED
    BY <1>13, <2>1, <2>2
<1> HIDE DEF dest
<1>15. Capacities' /\ outs' \in Seq(Output)
  BY <1>1, <1>11, <1>14, OneOutputKeeps DEF TakeBytes
<1>16. UNCHANGED <<call, stage, csvRow, position, outcome>> /\ index' = index + 1
       /\ bytePosition' = <<bytePosition[1] + 0>>
  BY <1>11 DEF TakeBytes
<1>17. bytePosition[1] + 0 \in 0 .. Len(Bytes)
  <2>1. bytePosition[1] \in 0 .. Len(call.src[1].bytes)
    BY <1>2, <1>5 DEF TypeOK
  <2> QED
    BY <1>10, <2>1 DEF Bytes
<1>18. TypeOK'
  BY <1>1, <1>5, <1>15, <1>16, <1>17, SoloTyped
<1>19. TokensDone'
  <2>1. TokenLengths' = TokenLengths /\ call' = call /\ outs'[1] = dest
    BY <1>11, <1>16, SameCall
  <2>2. index' - 1 = n + 1 /\ index' <= Len(call.idx) + 1
    BY <1>3, <1>16
  <2> QED
    BY <1>14, <2>1, <2>2 DEF TokensDone
<1>20. DispatchDone' /\ TagsDone' /\ PrefixDone' /\ DealDone' /\ ComponentsDone'
  BY <1>1, <1>16 DEF Dispatches, DispatchDone, TagsDone, PrefixDone, DealDone, ComponentsDone
<1>21. csvRow' = 0
  BY <1>1, <1>16 DEF StringInv, LoopInv
<1> QED
  BY <1>1, <1>15, <1>16, <1>18, <1>19, <1>20, <1>21, LoopKeeps

(* What is dealt to an output of the first n strings, one more at a time.  *)
LEMMA DealtSums ==
  ASSUME CallAssumption, call \in Calls, call.kind = "interleave", InputsFit
  PROVE  /\ \A o \in 1 .. call.count : SumOn(Strings, Dealt(o)) \in Nat
         /\ \A o \in 1 .. call.count : \A n \in 0 .. Len(Strings) :
              /\ SumOn(Strings, DealtOf(o, n)) \in Nat
              /\ SumOn(Strings, DealtOf(o, n)) <= SumOn(Strings, Dealt(o))
         /\ \A o \in 1 .. call.count : \A n \in 0 .. Len(Strings) - 1 :
              SumOn(Strings, DealtOf(o, n + 1)) =
                IF n % call.count = o - 1
                THEN SumOn(Strings, DealtOf(o, n)) + Strings[n + 1]
                ELSE SumOn(Strings, DealtOf(o, n))
<1> DEFINE m == Len(Strings)
<1>1. Strings \in Seq(Nat)
  BY CallFacts DEF Dispatches
<1>2. m \in Nat /\ DOMAIN Strings = 1 .. m /\ \A i \in 1 .. m : Strings[i] \in Nat
  BY <1>1
<1> HIDE DEF m
<1>3. \A o : Dealt(o) = DealtOf(o, m)
  BY <1>2 DEF Dealt, DealtOf
<1>4. ASSUME NEW o, NEW n \in 0 .. m
      PROVE  /\ DealtOf(o, n) \in SUBSET DealtOf(o, m) /\ IsFiniteSet(DealtOf(o, n))
             /\ \A i \in DealtOf(o, n) : i \in 1 .. n /\ Strings[i] \in Nat
  <2>1. DealtOf(o, n) \subseteq 1 .. n /\ 1 .. n \subseteq 1 .. m
    BY <1>2 DEF DealtOf
  <2>2. IsFiniteSet(1 .. n)
    BY FS_Interval
  <2>3. DealtOf(o, n) \subseteq DealtOf(o, m)
    BY <2>1 DEF DealtOf
  <2>4. IsFiniteSet(DealtOf(o, n))
    BY <2>1, <2>2, FS_Subset
  <2> QED
    BY <1>2, <2>1, <2>3, <2>4
<1>5. ASSUME NEW o, NEW n \in 0 .. m
      PROVE  /\ SumOn(Strings, DealtOf(o, n)) \in Nat
             /\ SumOn(Strings, DealtOf(o, n)) <= SumOn(Strings, DealtOf(o, m))
  <2>1. SumOn(Strings, DealtOf(o, n)) \in Nat
    BY <1>4, SumOfMore
  <2>2. m \in 0 .. m
    BY <1>2
  <2>3. IsFiniteSet(DealtOf(o, m)) /\ \A i \in DealtOf(o, m) : Strings[i] \in Nat
    BY <1>4, <2>2
  <2>4. SumOn(Strings, DealtOf(o, n)) <= SumOn(Strings, DealtOf(o, m))
    BY <1>4, <2>3, SumOfPart
  <2> QED
    BY <2>1, <2>4
<1>6. ASSUME NEW o, NEW n \in 0 .. m - 1
      PROVE  SumOn(Strings, DealtOf(o, n + 1)) =
               IF n % call.count = o - 1 THEN SumOn(Strings, DealtOf(o, n)) + Strings[n + 1]
               ELSE SumOn(Strings, DealtOf(o, n))
  <2>1. /\ n \in 0 .. m /\ n + 1 \in 1 .. m /\ 1 .. (n + 1) = 1 .. n \cup {n + 1}
        /\ (n + 1) - 1 = n
    BY <1>2
  <2>2. CASE n % call.count = o - 1
    <3>1. DealtOf(o, n + 1) = DealtOf(o, n) \cup {n + 1}
      BY <2>1, <2>2 DEF DealtOf
    <3>2. n + 1 \notin DealtOf(o, n)
      BY <1>2 DEF DealtOf
    <3>3. IsFiniteSet(DealtOf(o, n)) /\ \A i \in DealtOf(o, n) \cup {n + 1} : Strings[i] \in Nat
      BY <1>2, <1>4, <2>1
    <3>4. SumOn(Strings, DealtOf(o, n) \cup {n + 1}) =
            SumOn(Strings, DealtOf(o, n)) + Strings[n + 1]
      BY <3>2, <3>3, SumOfOneMore
    <3> QED
      BY <2>2, <3>1, <3>4
  <2>3. CASE n % call.count # o - 1
    <3>1. DealtOf(o, n + 1) = DealtOf(o, n)
      BY <2>1, <2>3 DEF DealtOf
    <3> QED
      BY <2>3, <3>1
  <2> QED
    BY <2>2, <2>3
<1>7. m \in 0 .. m
  BY <1>2
<1> QED
  BY <1>3, <1>5, <1>6, <1>7 DEF m

(* interleave: each output gets what was counted for it.                   *)
LEMMA DealKeeps ==
  ASSUME CallAssumption, BoundAssumption, StringInv, Deal
  PROVE  StringInv'
<1>1. stage = "loop" /\ call.kind = "interleave" /\ index <= Len(Strings)
  BY DEF Deal
<1>2. /\ call \in Calls /\ InputsFit /\ ~TooLarge /\ DealDone /\ TypeOK /\ Capacities
      /\ index \in Nat \ {0} /\ outs \in Seq(Output)
  BY <1>1 DEF StringInv, LoopInv, TypeOK
<1> DEFINE n == index - 1
           m == Len(Strings)
           o == ((index - 1) % call.count) + 1
           len == Strings[index]
           new == Cut(Bytes, bytePosition[1], len)
           dest == Add(outs[o], new)
<1>3. call.count \in Nat \ {0} /\ InterleaveFits
  <2>1. call.count \in Nat /\ call.count > 0
    BY <1>1, <1>2, CallFacts DEF InputsFit
  <2> QED
    BY <1>1, <1>2, <2>1 DEF InputsFit, TooLarge
<1>4. /\ Strings \in Seq(Nat) /\ Bytes \in Seq(Nat) /\ ~Dispatches /\ DOMAIN call.src = {1}
  BY <1>1, <1>2, CallFacts DEF Dispatches
<1>5. m \in Nat /\ DOMAIN Strings = 1 .. m /\ \A i \in DOMAIN Strings : Strings[i] \in Nat
  BY <1>4
<1>6. n \in 0 .. m - 1 /\ n \in 0 .. m /\ n + 1 \in 0 .. m /\ n + 1 = index /\ index \in 1 .. m
  BY <1>1, <1>2, <1>5
<1>7. n % call.count \in 0 .. call.count - 1 /\ o \in 1 .. call.count /\ o - 1 = n % call.count
  <2> DEFINE c == call.count
             k == n % c
  <2>1. n \in Nat /\ c \in Nat \ {0} /\ o = k + 1
    BY <1>3, <1>5, <1>6
  <2> HIDE DEF n, c, o
  <2>2. k \in 0 .. c - 1
    BY <2>1
  <2> HIDE DEF k
  <2>3. o \in 1 .. c /\ o - 1 = k
    BY <2>1, <2>2
  <2> QED
    BY <2>2, <2>3 DEF k, c
<1>8. /\ SumFunction(Strings) = Len(Bytes)
      /\ SumOn(Strings, 1 .. (n + 1)) = SumOn(Strings, 1 .. n) + Strings[n + 1]
      /\ SumOn(Strings, 1 .. (n + 1)) <= SumFunction(Strings)
      /\ SumOn(Strings, 1 .. n) \in Nat /\ SumOn(Strings, 1 .. (n + 1)) \in Nat
  <2>1. SumFunction(Strings) = Len(Bytes)
    BY <1>3 DEF InterleaveFits, SumsMatch, Strings, Bytes
  <2> HIDE DEF n, m
  <2> QED
    BY <1>5, <1>6, <2>1, FirstSums
<1>9. bytePosition[1] = SumOn(Strings, 1 .. n)
      /\ \A p \in 1 .. call.count : Len(outs[p].bytes) = SumOn(Strings, DealtOf(p, n))
  BY <1>1, <1>2 DEF DealDone
<1>10. Len(outs) = call.count /\ DOMAIN outs = 1 .. call.count
       /\ \A p \in 1 .. call.count : outs[p] \in Output /\ outs[p].cap = SumOn(Strings, Dealt(p))
  <2>1. Len(Room) = call.count
        /\ \A p \in 1 .. call.count : Room[p] = EmptyOutput(SumOn(Strings, Dealt(p)))
    BY <1>1, <1>2, RoomFacts
  <2>2. Len(outs) = call.count /\ \A p \in DOMAIN outs : outs[p].cap = Room[p].cap
    BY <1>1, <1>2, <2>1 DEF Capacities
  <2>3. DOMAIN outs = 1 .. call.count
    BY <1>2, <2>2
  <2>4. \A p \in 1 .. call.count : outs[p] \in Output
    BY <1>2, <2>2, ElementOfSeq
  <2>5. \A p \in 1 .. call.count : Room[p].cap = SumOn(Strings, Dealt(p))
    <3> TAKE p \in 1 .. call.count
    <3>1. EmptyOutput(SumOn(Strings, Dealt(p))).cap = SumOn(Strings, Dealt(p))
      BY DEF EmptyOutput
    <3> QED
      BY <2>1, <3>1
  <2> QED
    BY <2>2, <2>3, <2>4, <2>5
<1> HIDE DEF n, m, o
<1>11. len \in Nat /\ bytePosition[1] \in Nat /\ bytePosition[1] + len <= Len(Bytes)
       /\ len = Strings[n + 1]
  BY <1>5, <1>6, <1>8, <1>9
<1> HIDE DEF len
<1>12. Len(Bytes) \in Nat
  BY <1>4
<1>13. outs' = [outs EXCEPT ![o] = dest] /\ TakeBytes(len)
  <2>1. ~ (bytePosition[1] + len > Len(Bytes))
    BY <1>11, <1>12
  <2> QED
    BY <1>1, <2>1 DEF Deal, o, len
<1>14. new \in Seq(Nat) /\ Len(new) = len
  <2> DEFINE all == Bytes
             start == bytePosition[1]
  <2>1. all \in Seq(Nat) /\ start \in Nat /\ len \in Nat /\ start + len <= Len(all)
    BY <1>4, <1>11
  <2> HIDE DEF all, start
  <2>2. Cut(all, start, len) \in Seq(Nat) /\ Len(Cut(all, start, len)) = len
    BY <2>1, CutFacts
  <2> QED
    BY <2>2 DEF all, start
<1> HIDE DEF new
<1>15. Len(outs[o].bytes) + Len(new) = SumOn(Strings, DealtOf(o, n + 1))
  <2>1. SumOn(Strings, DealtOf(o, n + 1)) =
          IF n % call.count = o - 1 THEN SumOn(Strings, DealtOf(o, n)) + Strings[n + 1]
          ELSE SumOn(Strings, DealtOf(o, n))
    BY <1>1, <1>2, <1>6, <1>7, DealtSums DEF m
  <2> QED
    BY <1>7, <1>9, <1>11, <1>14, <2>1
<1>16. SumOn(Strings, DealtOf(o, n + 1)) <= SumOn(Strings, Dealt(o))
  BY <1>1, <1>2, <1>6, <1>7, DealtSums DEF m
<1>17. /\ dest \in Output /\ Len(dest.bytes) = SumOn(Strings, DealtOf(o, n + 1))
       /\ dest.cap = outs[o].cap
  <2>1. outs[o] \in Output /\ outs[o].cap = SumOn(Strings, Dealt(o))
    BY <1>7, <1>10
  <2>2. /\ dest \in Output /\ Len(dest.bytes) = Len(outs[o].bytes) + Len(new)
        /\ Len(outs[o].bytes) + Len(new) <= outs[o].cap => dest.cap = outs[o].cap
    BY <1>14, <2>1, AddFacts
  <2> QED
    BY <1>15, <1>16, <2>1, <2>2
<1> HIDE DEF dest
<1>18. UNCHANGED <<call, stage, csvRow, position, outcome>> /\ index' = index + 1
       /\ bytePosition' = <<bytePosition[1] + len>>
  BY <1>13 DEF TakeBytes
<1>19. outs' \in Seq(Output) /\ Len(outs') = Len(outs) /\ DOMAIN outs' = DOMAIN outs
       /\ \A p \in 1 .. call.count : outs'[p] = IF p = o THEN dest ELSE outs[p]
  BY <1>2, <1>7, <1>10, <1>13, <1>17
<1>20. Capacities'
  <2>1. Room' = Room /\ call' = call
    BY <1>18, SameCall
  <2>2. \A p \in DOMAIN outs' : outs'[p].cap = outs[p].cap
    BY <1>10, <1>17, <1>19
  <2>3. Len(outs) = Len(Room) /\ \A p \in DOMAIN outs : outs[p].cap = Room[p].cap
    BY <1>1, <1>2 DEF Capacities
  <2> QED
    BY <1>1, <1>19, <2>1, <2>2, <2>3 DEF Capacities
<1>21. bytePosition[1] + len \in 0 .. Len(Bytes)
  BY <1>11, <1>12
<1>22. TypeOK'
  BY <1>1, <1>4, <1>18, <1>19, <1>21, SoloTyped
<1>23. DealDone'
  <2>1. Strings' = Strings /\ call' = call /\ index' - 1 = n + 1 /\ index' <= Len(Strings) + 1
    BY <1>2, <1>5, <1>6, <1>18, SameCall DEF m
  <2>2. bytePosition'[1] = SumOn(Strings, 1 .. (n + 1))
    BY <1>8, <1>9, <1>11, <1>18
  <2>3. ASSUME NEW p \in 1 .. call.count
        PROVE  Len(outs'[p].bytes) = SumOn(Strings, DealtOf(p, n + 1))
    <3>1. CASE p = o
      BY <1>17, <1>19, <3>1
    <3>2. CASE p # o
      <4>1. n % call.count # p - 1
        BY <1>7, <3>2
      <4>2. SumOn(Strings, DealtOf(p, n + 1)) = SumOn(Strings, DealtOf(p, n))
        BY <1>1, <1>2, <1>6, <4>1, DealtSums DEF m
      <4> QED
        BY <1>9, <1>19, <3>2, <4>2
    <3> QED
      BY <3>1, <3>2
  <2>4. \A p : DealtOf(p, index - 1)' = DealtOf(p, n + 1)
    BY <2>1 DEF DealtOf
  <2>5. \A p \in 1 .. call.count : Len(outs'[p].bytes) = SumOn(Strings, DealtOf(p, index - 1)')
    BY <2>3, <2>4
  <2> QED
    BY <2>1, <2>2, <2>5 DEF DealDone
<1>24. DispatchDone' /\ TagsDone' /\ PrefixDone' /\ TokensDone' /\ ComponentsDone'
  BY <1>1, <1>18 DEF Dispatches, DispatchDone, TagsDone, PrefixDone, TokensDone, ComponentsDone
<1>25. csvRow' = 0
  BY <1>1, <1>18 DEF StringInv, LoopInv
<1> QED
  BY <1>1, <1>18, <1>20, <1>22, <1>23, <1>24, <1>25, LoopKeeps

(* concat: a run of strings ends where the content of its strings does.    *)
LEMMA RunKeeps ==
  ASSUME CallAssumption, BoundAssumption, StringInv, TakeRun
  PROVE  StringInv'
<1>1. stage = "loop" /\ call.kind = "concat" /\ index <= call.count
  BY DEF TakeRun
<1>2. /\ call \in Calls /\ InputsFit /\ TypeOK /\ Capacities
      /\ index \in Nat \ {0} /\ outs \in Seq(Output)
  BY <1>1 DEF StringInv, LoopInv, TypeOK
<1> DEFINE n == call.idx[index]
           lens == SubSeq(Strings, position[1] + 1, position[1] + n)
           len == SumFunction(lens)
           new == Cut(Bytes, bytePosition[1], len)
           dest == [Held(EmptyOutput(len), new, len) EXCEPT !.lens = lens]
<1>3. /\ Strings \in Seq(Nat) /\ Bytes \in Seq(Nat) /\ ~Dispatches /\ DOMAIN call.src = {1}
      /\ Len(Strings) \in Nat /\ Len(Bytes) \in Nat
  <2>1. Strings \in Seq(Nat) /\ Bytes \in Seq(Nat) /\ ~Dispatches /\ DOMAIN call.src = {1}
    <3>1. ~Dispatches
      BY <1>1 DEF Dispatches
    <3> QED
      BY <1>2, <3>1, CallFacts
  <2> QED
    BY <2>1, LenProperties
<1>4. n \in Nat
  <2>1. call.idx \in Seq(Nat) /\ call.count \in Nat
    BY <1>2, CallFacts
  <2>2. Len(call.idx) = call.count
    BY <1>1, <1>2 DEF InputsFit, ConcatFits
  <2> QED
    <3>1. index \in 1 .. Len(call.idx)
      BY <1>1, <1>2, <2>1, <2>2
    <3> QED
      BY <2>1, <3>1, ElementOfSeq
<1>5. /\ position[1] \in 0 .. Len(Strings) /\ bytePosition[1] \in 0 .. Len(Bytes)
      /\ bytePosition[1] = SumFunction(SubSeq(Strings, 1, position[1]))
  BY <1>1, <1>2, <1>3 DEF TypeOK, Strings, Bytes
<1>6. ASSUME position[1] + n <= Len(Strings)
      PROVE  /\ lens \in Seq(Nat) /\ len \in Nat /\ bytePosition[1] + len <= Len(Bytes)
             /\ bytePosition[1] + len = SumFunction(SubSeq(Strings, 1, position[1] + n))
  <2> DEFINE a == position[1]
             m == Len(Strings)
  <2>1. a \in Nat /\ a \in 0 .. m /\ a + n \in 0 .. m /\ n \in Nat /\ m \in Nat
        /\ a + n <= Len(Strings)
    <3> DEFINE c == call.idx[index]
    <3>1. /\ a \in 0 .. m /\ m \in Nat /\ c \in Nat /\ a + c <= m
      BY <1>3, <1>4, <1>5, <1>6
    <3> HIDE DEF a, m, c
    <3>2. a \in Nat /\ a + c \in 0 .. m
      BY <3>1
    <3> QED
      BY <3>1, <3>2 DEF c, m
  <2>2. lens = Cut(Strings, a, n)
    BY DEF Cut
  <2> HIDE DEF a, n, lens
  <2>3. lens \in Seq(Nat)
    BY <1>3, <2>1, <2>2, CutFacts
  <2>4. SumOn(Strings, 1 .. (a + n)) = SumOn(Strings, 1 .. a) + len
    BY <1>3, <2>1, <2>2, CutSum
  <2>5. DOMAIN Strings = 1 .. m /\ \A i \in DOMAIN Strings : Strings[i] \in Nat
    BY <1>3
  <2> HIDE DEF m
  <2>6. SumOn(Strings, 1 .. (a + n)) <= SumFunction(Strings) /\ SumOn(Strings, 1 .. a) \in Nat
    BY <2>1, <2>5, FirstSums
  <2>7. SumFunction(Strings) = Len(Bytes)
    BY <1>1, <1>2 DEF InputsFit, ConcatFits, SumsMatch, Strings, Bytes
  <2>8. len \in Nat
    <3>1. Len(lens) \in Nat /\ DOMAIN lens = 1 .. Len(lens) /\ \A i \in DOMAIN lens : lens[i] \in Nat
      BY <2>3, SeqOfNumbers
    <3>2. Len(lens) \in 0 .. Len(lens)
      BY <3>1
    <3>3. SumOn(lens, 1 .. Len(lens)) \in Nat /\ len = SumOn(lens, 1 .. Len(lens))
      BY <3>1, <3>2, FirstSums
    <3> QED
      BY <3>3
  <2>9. /\ SumFunction(SubSeq(Strings, 1, a)) = SumOn(Strings, 1 .. a)
        /\ SumFunction(SubSeq(Strings, 1, a + n)) = SumOn(Strings, 1 .. (a + n))
    BY <1>3, <2>1, FirstsCut DEF m
  <2>10. bytePosition[1] = SumOn(Strings, 1 .. a)
    BY <1>5, <2>9 DEF a
  <2>11. bytePosition[1] + len = SumOn(Strings, 1 .. (a + n))
    BY <2>4, <2>10
  <2> HIDE DEF len
  <2> QED
    BY <2>3, <2>6, <2>7, <2>8, <2>9, <2>11 DEF a, n
<1> HIDE DEF n
<1>7. CASE \E kind \in {"Malformed", "LimitExceeded", "AllocationFailed"} : Refuse(kind)
  <2>1. PICK kind \in {"Malformed", "LimitExceeded", "AllocationFailed"} : Refuse(kind)
    BY <1>7
  <2>2. kind \in Outcomes /\ kind # "Redundant"
    BY DEF Outcomes
  <2> QED
    BY <2>1, <2>2, StopKeeps DEF Refuse
<1>8. CASE /\ position[1] + n <= Len(Strings)
           /\ outs' = Append(outs, dest)
           /\ position' = <<position[1] + n>> /\ index' = index + 1
           /\ bytePosition' = <<bytePosition[1] + len>>
           /\ UNCHANGED <<call, stage, csvRow, outcome>>
  <2>1. /\ lens \in Seq(Nat) /\ len \in Nat /\ bytePosition[1] + len <= Len(Bytes)
        /\ bytePosition[1] + len = SumFunction(SubSeq(Strings, 1, position[1] + n))
    BY <1>6, <1>8
  <2> HIDE DEF lens, len
  <2>2. new \in Seq(Nat) /\ Len(new) = len
    BY <1>3, <1>5, <2>1, CutFacts
  <2> HIDE DEF new
  <2>3. dest \in Output /\ dest.cap = Len(dest.bytes)
    <3> DEFINE held == Held(EmptyOutput(len), new, len)
    <3>1. EmptyOutput(len) \in Output /\ EmptyOutput(len).cap = len /\ EmptyOutput(len).bytes = <<>>
      BY <2>1, EmptyIsOutput
    <3>2. /\ held \in Output
          /\ held.cap = IF len > EmptyOutput(len).cap THEN len ELSE EmptyOutput(len).cap
          /\ Len(held.bytes) = Len(EmptyOutput(len).bytes) + Len(new)
      BY <2>1, <2>2, <3>1, HeldFacts
    <3>3. held.cap = len /\ Len(held.bytes) = len
      <4>1. Len(EmptyOutput(len).bytes) = 0
        BY <3>1
      <4> QED
        BY <2>1, <2>2, <3>1, <3>2, <4>1
    <3>4. dest = [held EXCEPT !.lens = lens]
      OBVIOUS
    <3> HIDE DEF held, dest
    <3>5. dest \in Output /\ dest.cap = held.cap /\ dest.bytes = held.bytes
      BY <2>1, <3>2, <3>4 DEF Output
    <3> QED
      BY <3>3, <3>5
  <2> HIDE DEF dest
  <2>4. outs' \in Seq(Output) /\ Capacities'
    <3>1. outs' \in Seq(Output) /\ Len(outs') = Len(outs) + 1
          /\ DOMAIN outs' = 1 .. Len(outs) + 1 /\ outs'[Len(outs) + 1] = dest
          /\ \A o \in 1 .. Len(outs) : outs'[o] = outs[o]
      BY <1>2, <1>8, <2>3
    <3>2. \A o \in 1 .. Len(outs) : outs[o].cap = Len(outs[o].bytes)
      BY <1>1, <1>2 DEF Capacities
    <3>3. \A o \in DOMAIN outs' : outs'[o].cap = Len(outs'[o].bytes)
      <4> TAKE o \in DOMAIN outs'
      <4>1. o \in 1 .. Len(outs) \/ o = Len(outs) + 1
        BY <1>2, <3>1
      <4> QED
        BY <2>3, <3>1, <3>2, <4>1
    <3> QED
      BY <1>1, <1>8, <3>1, <3>3 DEF Capacities
  <2>5. TypeOK'
    <3>1. /\ DOMAIN position' = {1} /\ position'[1] = position[1] + n
          /\ DOMAIN bytePosition' = {1} /\ bytePosition'[1] = bytePosition[1] + len
      BY <1>8
    <3>2. position[1] + n \in 0 .. Len(Strings) /\ bytePosition[1] + len \in 0 .. Len(Bytes)
          /\ index' \in Nat \ {0}
      <4>1. position[1] + n \in 0 .. Len(Strings)
        BY <1>3, <1>4, <1>5, <1>8
      <4>2. bytePosition[1] + len \in 0 .. Len(Bytes)
        BY <1>3, <1>5, <2>1
      <4>3. index' \in Nat \ {0}
        BY <1>2, <1>8
      <4> QED
        BY <4>1, <4>2, <4>3
    <3>3. Strings = call.src[1].lens /\ Bytes = call.src[1].bytes
      BY DEF Strings, Bytes
    <3> QED
      BY <1>2, <1>3, <1>8, <2>1, <2>4, <3>1, <3>2, <3>3 DEF TypeOK
  <2>6. /\ DispatchDone' /\ TagsDone' /\ PrefixDone' /\ TokensDone' /\ DealDone' /\ ComponentsDone'
    BY <1>1, <1>8 DEF Dispatches, DispatchDone, TagsDone, PrefixDone, TokensDone, DealDone,
       ComponentsDone
  <2>7. csvRow' = 0
    BY <1>1, <1>8 DEF StringInv, LoopInv
  <2> QED
    BY <1>1, <1>8, <2>4, <2>5, <2>6, <2>7, LoopKeeps
<1>9. \/ \E kind \in {"Malformed", "LimitExceeded", "AllocationFailed"} : Refuse(kind)
      \/ /\ position[1] + n <= Len(Strings)
         /\ outs' = Append(outs, dest)
         /\ position' = <<position[1] + n>> /\ index' = index + 1
         /\ bytePosition' = <<bytePosition[1] + len>>
         /\ UNCHANGED <<call, stage, csvRow, outcome>>
  <2>1. CASE position[1] + n > Len(Strings)
    BY <2>1 DEF TakeRun, n
  <2>2. CASE ~ (position[1] + n > Len(Strings))
    <3>1. position[1] + n <= Len(Strings)
      BY <1>3, <1>4, <1>5, <2>2 DEF n
    <3>2. ~ (bytePosition[1] + len > Len(Bytes))
      <4>1. len \in Nat /\ bytePosition[1] + len <= Len(Bytes)
        BY <1>6, <3>1
      <4> HIDE DEF len
      <4> QED
        BY <1>3, <1>5, <4>1
    <3>3. \/ Refuse("LimitExceeded") \/ Refuse("AllocationFailed")
          \/ /\ outs' = Append(outs, dest)
             /\ position' = <<position[1] + n>> /\ index' = index + 1
             /\ bytePosition' = <<bytePosition[1] + len>>
             /\ UNCHANGED <<call, stage, csvRow, outcome>>
      BY <2>2, <3>2 DEF TakeRun, n
    <3> QED
      BY <3>1, <3>3
  <2> QED
    BY <2>1, <2>2
<1> QED
  BY <1>7, <1>8, <1>9

(* separate_string_components: the content is taken whole.                 *)
LEMMA AllBytesOfOne ==
  ASSUME CallAssumption, call \in Calls, ~Dispatches
  PROVE  AllBytes = Len(Bytes) /\ Len(Bytes) \in Nat
<1>1. DOMAIN call.src = {1} /\ Bytes \in Seq(Nat) /\ Bytes = call.src[1].bytes
  BY CallFacts DEF Bytes
<1>2. AllBytes = SumOn(ContentLengths, {1}) /\ ContentLengths[1] = Len(Bytes)
      /\ ContentLengths[1] \in Nat
  BY <1>1, AllBytesFacts
<1>3. IsFiniteSet({}) /\ 1 \notin {} /\ {} \cup {1} = {1}
  BY FS_EmptySet
<1>4. SumOn(ContentLengths, {} \cup {1}) = SumOn(ContentLengths, {}) + ContentLengths[1]
  BY <1>2, <1>3, SumOfOneMore
<1> QED
  BY <1>2, <1>3, <1>4, SumOfNone

(* separate_string_components, the step.                                   *)
LEMMA AllKeeps ==
  ASSUME CallAssumption, BoundAssumption, StringInv, TakeAll
  PROVE  StringInv'
<1>1. stage = "loop" /\ call.kind = "components" /\ index = 1
  BY DEF TakeAll
<1>2. call \in Calls /\ InputsFit /\ ComponentsDone /\ TypeOK
  BY <1>1 DEF StringInv, LoopInv
<1> DEFINE held == Held(outs[1], Bytes, Len(Bytes))
           dest == [held EXCEPT !.lens = call.sizes]
<1>3. /\ Bytes \in Seq(Nat) /\ ~Dispatches /\ DOMAIN call.src = {1} /\ call.base = 0
      /\ call.sizes \in Seq(Nat)
  BY <1>1, <1>2, CallFacts DEF Dispatches
<1>4. Len(Bytes) \in Nat /\ OutputSize = Len(Bytes)
  BY <1>1, <1>2, <1>3, AllBytesOfOne DEF OutputSize
<1>5. outs[1] \in Output /\ outs[1].cap = Len(Bytes)
  <2>1. outs[1] \in Output /\ outs[1].cap = call.base + OutputSize
    BY <1>1, OneOutput
  <2> QED
    BY <1>3, <1>4, <2>1
<1>6. outs' = <<dest>> /\ TakeBytes(Len(Bytes))
  BY DEF TakeAll
<1>7. dest \in Output /\ dest.cap = outs[1].cap
  <2>1. held \in Output /\ held.cap = IF Len(Bytes) > outs[1].cap THEN Len(Bytes) ELSE outs[1].cap
    BY <1>3, <1>4, <1>5, HeldFacts
  <2>2. held.cap = outs[1].cap
    BY <1>5, <2>1
  <2> HIDE DEF held
  <2>3. dest \in Output /\ dest.cap = held.cap
    BY <1>3, <2>1 DEF Output
  <2> QED
    BY <2>2, <2>3
<1> HIDE DEF dest
<1>8. Capacities' /\ outs' \in Seq(Output)
  BY <1>1, <1>6, <1>7, OneOutputKeeps DEF TakeBytes
<1>9. UNCHANGED <<call, stage, csvRow, position, outcome>> /\ index' = index + 1
      /\ bytePosition' = <<bytePosition[1] + Len(Bytes)>>
  BY <1>6 DEF TakeBytes
<1>10. bytePosition[1] + Len(Bytes) \in 0 .. Len(Bytes)
  <2>1. bytePosition[1] = 0
    BY <1>1, <1>2 DEF ComponentsDone
  <2> QED
    BY <1>4, <2>1
<1>11. TypeOK'
  BY <1>1, <1>3, <1>8, <1>9, <1>10, SoloTyped
<1>12. ComponentsDone'
  BY <1>1, <1>9 DEF ComponentsDone
<1>13. DispatchDone' /\ TagsDone' /\ PrefixDone' /\ TokensDone' /\ DealDone'
  BY <1>1, <1>9 DEF Dispatches, DispatchDone, TagsDone, PrefixDone, TokensDone, DealDone
<1>14. csvRow' = 0
  BY <1>1, <1>9 DEF StringInv, LoopInv
<1> QED
  BY <1>1, <1>8, <1>9, <1>11, <1>12, <1>13, <1>14, LoopKeeps

(* The end of a loop: the tags have dealt out all the content.             *)
LEMMA FinishNodeKeeps ==
  ASSUME CallAssumption, BoundAssumption, StringInv, FinishNode
  PROVE  StringInv'
<1>1. stage = "loop" /\ index > Steps
  BY DEF FinishNode
<1>2. /\ call \in Calls /\ InputsFit /\ SegmentsFit /\ DispatchDone /\ TagsDone /\ TypeOK
      /\ index \in Nat \ {0}
  BY <1>1 DEF StringInv, LoopInv, TypeOK
<1>3. ~ (call.kind = "tags" /\ Len(outs[1].bytes) # OutputSize)
  <2> SUFFICES ASSUME call.kind = "tags" PROVE Len(outs[1].bytes) = OutputSize
    OBVIOUS
  <2>1. Len(call.idx) \in Nat /\ index = Len(call.idx) + 1 /\ index - 1 = Len(call.idx)
    <3>1. Len(call.idx) \in Nat
      BY <1>2, SegmentSums
    <3>2. index <= Len(call.idx) + 1 /\ index > Len(call.idx)
      BY <1>1, <1>2 DEF TagsDone, Steps
    <3> QED
      BY <1>2, <3>1, <3>2
  <2>2. ASSUME NEW s \in DOMAIN call.src PROVE bytePosition[s] = Len(call.src[s].bytes)
    <3>1. bytePosition[s] = SumOn(call.sizes, Uses(s, Len(call.idx)))
      BY <1>2, <2>1 DEF TagsDone
    <3> QED
      BY <1>2, <3>1, SegmentSums
  <2>3. /\ IsFiniteSet(DOMAIN call.src) /\ DOMAIN bytePosition = DOMAIN call.src
        /\ call.base = 0
    BY <1>2, CallFacts DEF TypeOK
  <2>4. \A s \in DOMAIN call.src :
          ContentLengths[s] = Len(call.src[s].bytes) /\ ContentLengths[s] \in Nat
    BY <1>2, AllBytesFacts
  <2>5. SumOn(ContentLengths, DOMAIN call.src) = SumOn(bytePosition, DOMAIN call.src)
    BY <2>2, <2>3, <2>4, SumsEqual
  <2>6. SumFunction(bytePosition) = AllBytes /\ AllBytes \in Nat
    BY <1>2, <2>3, <2>5, AllBytesFacts DEF SumFunction, SumOn
  <2>7. Len(outs[1].bytes) = call.base + SumFunction(bytePosition)
    BY <1>2 DEF DispatchDone, Dispatches
  <2>8. OutputSize = AllBytes
    BY DEF OutputSize
  <2> QED
    BY <2>3, <2>6, <2>7, <2>8
<1>4. \/ Refuse("Malformed")
      \/ stage' = "done" /\ outcome' = "Ok"
         /\ UNCHANGED <<call, index, csvRow, position, bytePosition, outs>>
  BY <1>3 DEF FinishNode
<1> QED
  BY <1>4, StopKeeps DEF Refuse, Outcomes

-----------------------------------------------------------------------------
(* Every step keeps the invariant.                                         *)
LEMMA StringStep ==
  ASSUME CallAssumption, BoundAssumption, StringInv, [Next]_vars
  PROVE  StringInv'
<1>1. CASE StartNode
  BY <1>1, StartKeeps
<1>2. CASE StartRow
  BY <1>2, RowKeeps
<1>3. CASE TakeSelected
  BY <1>3, SelectedKeeps
<1>4. CASE TakeSuffix
  BY <1>4, SuffixKeeps
<1>5. CASE TakeToken
  BY <1>5, TokenKeeps
<1>6. CASE Deal
  BY <1>6, DealKeeps
<1>7. CASE TakeRun
  BY <1>7, RunKeeps
<1>8. CASE TakeAll
  BY <1>8, AllKeeps
<1>9. CASE FinishNode
  BY <1>9, FinishNodeKeeps
<1>10. CASE UNCHANGED vars
  <2>1. UNCHANGED <<call, stage, index, csvRow, position, bytePosition, outs, outcome>>
    BY <1>10 DEF vars
  <2>2. TypeOK' /\ Capacities' /\ (stage' = "begin" => Untouched')
    BY <2>1, SameCall DEF StringInv, TypeOK, Capacities, Untouched
  <2>3. stage' = "loop" => LoopInv'
    <3>1. DispatchDone' <=> DispatchDone
      BY <2>1 DEF DispatchDone, Dispatches
    <3>2. TagsDone' <=> TagsDone
      BY <2>1 DEF TagsDone, Uses
    <3>3. (PrefixDone' <=> PrefixDone) /\ (TokensDone' <=> TokensDone)
      BY <2>1, SameCall DEF PrefixDone, TokensDone, PrefixLength
    <3>4. (DealDone' <=> DealDone) /\ (ComponentsDone' <=> ComponentsDone)
      BY <2>1, SameCall DEF DealDone, ComponentsDone, DealtOf
    <3> QED
      BY <2>1, <3>1, <3>2, <3>3, <3>4, SameCall DEF StringInv, LoopInv
  <2> QED
    BY <2>1, <2>2, <2>3 DEF StringInv
<1> QED
  BY <1>1, <1>2, <1>3, <1>4, <1>5, <1>6, <1>7, <1>8, <1>9, <1>10 DEF Next

(* The invariant rules out the errors that the checks should.              *)
LEMMA StringInvSuffices ==
  ASSUME StringInv
  PROVE  ChecksSuffice
BY DEF StringInv, Capacities, ChecksSuffice

(* No string node that passed its checks runs out of content, of room or of *)
(* lengths in its loop: the result "Redundant" is never reached.           *)
THEOREM StringChecksSuffice == Spec => []ChecksSuffice
<1>1. Init => StringInv
  BY InitialString, CallAssumption, BoundAssumption
<1>2. StringInv /\ [Next]_vars => StringInv'
  BY StringStep, CallAssumption, BoundAssumption
<1>3. StringInv => ChecksSuffice
  BY StringInvSuffices
<1> QED
  BY <1>1, <1>2, <1>3, PTL DEF Spec

-----------------------------------------------------------------------------
(* What the strings of a call are.                                         *)

(* The contents of the outputs, node by node.                              *)
LEMMA ContentsOf ==
  /\ Dispatches => Contents = <<[i \in 1 .. Length |-> Selection(i)]>>
  /\ call.kind = "prefix" => Contents = <<[i \in 1 .. Length |-> Prefixed[i]]>>
  /\ call.kind = "tokenize" =>
       Contents = <<[i \in 1 .. Length |-> StringsOf(call.src[1])[call.idx[i]]]>>
  /\ call.kind = "interleave" =>
       Contents = [o \in 1 .. call.count |->
                     [k \in 1 .. Len(Strings) \div call.count |->
                        StringsOf(call.src[1])[(k - 1) * call.count + o]]]
  /\ call.kind = "concat" =>
       Contents = [o \in 1 .. call.count |->
                     Cut(StringsOf(call.src[1]), SumFunction(SubSeq(call.idx, 1, o - 1)),
                         call.idx[o])]
  /\ call.kind = "components" =>
       Contents = <<StringsOf([lens |-> call.sizes, bytes |-> Bytes])>>
<1>1. Dispatches => Contents = <<[i \in 1 .. Length |-> Selection(i)]>>
  BY DEF Contents, Dispatches
<1>2. call.kind = "prefix" => Contents = <<[i \in 1 .. Length |-> Prefixed[i]]>>
  BY DEF Contents
<1>3. call.kind = "tokenize" =>
        Contents = <<[i \in 1 .. Length |-> StringsOf(call.src[1])[call.idx[i]]]>>
  BY DEF Contents
<1>4. call.kind = "interleave" =>
        Contents = [o \in 1 .. call.count |->
                      [k \in 1 .. Len(Strings) \div call.count |->
                         StringsOf(call.src[1])[(k - 1) * call.count + o]]]
  BY DEF Contents
<1>5. call.kind = "concat" =>
        Contents = [o \in 1 .. call.count |->
                      Cut(StringsOf(call.src[1]), SumFunction(SubSeq(call.idx, 1, o - 1)),
                          call.idx[o])]
  BY DEF Contents
<1>6. call.kind = "components" =>
        Contents = <<StringsOf([lens |-> call.sizes, bytes |-> Bytes])>>
  BY DEF Contents
<1> QED
  BY <1>1, <1>2, <1>3, <1>4, <1>5, <1>6

(* The strings of a stream, and where they are in its content.             *)
LEMMA StringAt ==
  ASSUME NEW stream, stream.lens \in Seq(Nat)
  PROVE  /\ Len(stream.lens) \in Nat /\ DOMAIN stream.lens = 1 .. Len(stream.lens)
         /\ StringsOf(stream) =
              [i \in 1 .. Len(stream.lens) |->
                 Cut(stream.bytes, SumOn(stream.lens, 1 .. i - 1), stream.lens[i])]
<1> DEFINE lens == stream.lens
<1>1. /\ Len(lens) \in Nat /\ DOMAIN lens = 1 .. Len(lens) /\ lens \in Seq(Nat)
  BY SeqOfNumbers
<1>2. StringsOf(stream) =
        [i \in DOMAIN lens |-> Cut(stream.bytes, SumFunction(SubSeq(lens, 1, i - 1)), lens[i])]
  BY DEF StringsOf
<1> HIDE DEF lens
<1>3. ASSUME NEW i \in 1 .. Len(lens)
      PROVE  SumFunction(SubSeq(lens, 1, i - 1)) = SumOn(lens, 1 .. i - 1)
  <2>1. i - 1 \in 0 .. Len(lens)
    BY <1>1
  <2> QED
    BY <1>1, <2>1, FirstsCut
<1>4. StringsOf(stream) =
        [i \in 1 .. Len(lens) |-> Cut(stream.bytes, SumOn(lens, 1 .. i - 1), lens[i])]
  BY <1>1, <1>2, <1>3
<1> QED
  BY <1>1, <1>4 DEF lens

(* The strings of a stream whose lengths add up to its content have those  *)
(* lengths.                                                                *)
LEMMA StringsFit ==
  ASSUME NEW stream, stream.lens \in Seq(Nat), stream.bytes \in Seq(Nat), SumsMatch(stream)
  PROVE  /\ StringsOf(stream) \in Seq(Seq(Nat))
         /\ Len(StringsOf(stream)) = Len(stream.lens)
         /\ \A i \in 1 .. Len(stream.lens) :
              /\ Len(StringsOf(stream)[i]) = stream.lens[i]
              /\ SumOn(stream.lens, 1 .. i) = SumOn(stream.lens, 1 .. i - 1) + stream.lens[i]
              /\ SumOn(stream.lens, 1 .. i) <= Len(stream.bytes)
<1> DEFINE lens == stream.lens
           bytes == stream.bytes
           m == Len(lens)
           all == StringsOf(stream)
<1>1. /\ m \in Nat /\ DOMAIN lens = 1 .. m /\ lens \in Seq(Nat) /\ bytes \in Seq(Nat)
      /\ \A i \in DOMAIN lens : lens[i] \in Nat
  BY SeqOfNumbers
<1>2. all = [i \in 1 .. m |-> Cut(bytes, SumOn(lens, 1 .. i - 1), lens[i])]
  BY StringAt
<1>3. SumFunction(lens) = Len(bytes)
  BY DEF SumsMatch
<1> HIDE DEF lens, bytes, m, all
<1>4. ASSUME NEW i \in 1 .. m
      PROVE  /\ all[i] \in Seq(Nat) /\ Len(all[i]) = lens[i]
             /\ SumOn(lens, 1 .. i) = SumOn(lens, 1 .. i - 1) + lens[i]
             /\ SumOn(lens, 1 .. i) <= Len(bytes)
  <2> DEFINE k == i - 1
  <2>1. k \in 0 .. m - 1 /\ k \in 0 .. m /\ k + 1 = i /\ k + 1 \in 0 .. m
    BY <1>1
  <2> HIDE DEF k
  <2>2. /\ SumOn(lens, 1 .. (k + 1)) = SumOn(lens, 1 .. k) + lens[k + 1]
        /\ SumOn(lens, 1 .. k) \in Nat /\ SumOn(lens, 1 .. (k + 1)) <= SumFunction(lens)
    BY <1>1, <2>1, FirstSums
  <2>3. lens[i] \in Nat
    BY <1>1
  <2>4. SumOn(lens, 1 .. k) + lens[i] <= Len(bytes)
    BY <1>3, <2>1, <2>2
  <2>5. Cut(bytes, SumOn(lens, 1 .. k), lens[i]) \in Seq(Nat)
        /\ Len(Cut(bytes, SumOn(lens, 1 .. k), lens[i])) = lens[i]
    BY <1>1, <2>2, <2>3, <2>4, CutFacts
  <2>6. all[i] = Cut(bytes, SumOn(lens, 1 .. k), lens[i])
    BY <1>2 DEF k
  <2> QED
    BY <1>3, <2>1, <2>2, <2>5, <2>6 DEF k
<1>5. all \in Seq(Seq(Nat)) /\ Len(all) = m
  <2>1. all = [i \in 1 .. m |-> all[i]] /\ \A i \in 1 .. m : all[i] \in Seq(Nat)
    BY <1>2, <1>4
  <2> QED
    BY <1>1, <2>1, FunctionIsSeq
<1> QED
  BY <1>4, <1>5 DEF lens, bytes, m, all

(* The recursion of Prefixed.                                              *)
SolvesPrefixed(f, n) == f = [i \in 0 .. n |-> IF i = 0 THEN <<>> ELSE PrefixFrom(f[i - 1], i)]

(* Prefixed as its definition reads.                                       *)
LEMMA PrefixedUnfolds ==
  ASSUME Length \in Nat
  PROVE  /\ Prefixed[0] = <<>>
         /\ \A i \in 1 .. Length : Prefixed[i] = PrefixFrom(Prefixed[i - 1], i)
<1> DEFINE T == {n \in Nat : \E f : SolvesPrefixed(f, n)}
<1>1. 0 \in T
  <2> DEFINE f == [i \in 0 .. 0 |-> <<>>]
  <2>1. SolvesPrefixed(f, 0)
    BY DEF SolvesPrefixed
  <2> QED
    BY <2>1
<1>2. ASSUME NEW n \in Nat, n \in T PROVE n + 1 \in T
  <2>1. PICK f : SolvesPrefixed(f, n)
    BY <1>2
  <2> DEFINE g == [i \in 0 .. n + 1 |-> IF i = n + 1 THEN PrefixFrom(f[n], n + 1) ELSE f[i]]
  <2>2. \A i \in 0 .. n : f[i] = IF i = 0 THEN <<>> ELSE PrefixFrom(f[i - 1], i)
    BY <2>1 DEF SolvesPrefixed
  <2>3. \A i \in 0 .. n + 1 : g[i] = IF i = 0 THEN <<>> ELSE PrefixFrom(g[i - 1], i)
    <3> TAKE i \in 0 .. n + 1
    <3>1. CASE i = n + 1
      BY <3>1
    <3>2. CASE i # n + 1
      <4>1. i \in 0 .. n /\ (i # 0 => i - 1 \in 0 .. n)
        BY <3>2
      <4>2. g[i] = f[i] /\ (i # 0 => g[i - 1] = f[i - 1])
        BY <4>1
      <4> QED
        BY <2>2, <4>1, <4>2
    <3> QED
      BY <3>1, <3>2
  <2>4. g = [i \in 0 .. n + 1 |-> g[i]]
    OBVIOUS
  <2> HIDE DEF g
  <2>5. SolvesPrefixed(g, n + 1)
    BY <2>3, <2>4 DEF SolvesPrefixed
  <2> QED
    BY <2>5
<1> HIDE DEF T
<1>3. Length \in T
  BY <1>1, <1>2, SetInduction
<1>4. PICK f : SolvesPrefixed(f, Length)
  BY <1>3 DEF T
<1>5. SolvesPrefixed(Prefixed, Length)
  BY <1>4 DEF SolvesPrefixed, Prefixed
<1> QED
  BY <1>5 DEF SolvesPrefixed

(* Pieces of a sequence.                                                   *)
LEMMA CutTyped ==
  ASSUME NEW U, NEW s \in Seq(U), NEW a \in Nat, NEW n \in Nat, a + n <= Len(s)
  PROVE  /\ Cut(s, a, n) \in Seq(U) /\ Len(Cut(s, a, n)) = n
         /\ Cut(s, a, n) = [i \in 1 .. n |-> s[a + i]]
<1>1. Len(s) \in Nat /\ \A i \in 1 .. Len(s) : s[i] \in U
  BY LenProperties, ElementOfSeq
<1>2. Cut(s, a, n) = [i \in 1 .. n |-> s[a + i]]
  <2>1. SubSeq(s, a + 1, a + n) = [i \in 1 .. (a + n) - (a + 1) + 1 |-> s[i + (a + 1) - 1]]
    OBVIOUS
  <2>2. (a + n) - (a + 1) + 1 = n /\ \A i \in Int : i + (a + 1) - 1 = a + i
    OBVIOUS
  <2> QED
    BY <2>1, <2>2 DEF Cut
<1>3. \A i \in 1 .. n : s[a + i] \in U
  BY <1>1
<1> QED
  BY <1>2, <1>3

(* One piece after another.                                                *)
LEMMA CutJoins ==
  ASSUME NEW U, NEW s \in Seq(U), NEW a \in Nat, NEW m \in Nat, NEW n \in Nat,
         a + m + n <= Len(s)
  PROVE  Cut(s, a, m) \o Cut(s, a + m, n) = Cut(s, a, m + n)
<1> DEFINE b == Cut(s, a, m)
           c == Cut(s, a + m, n)
           d == Cut(s, a, m + n)
<1> DEFINE x == a + m
           y == m + n
<1>1. Len(s) \in Nat
  BY LenProperties
<1>2. a + m <= Len(s) /\ x \in Nat /\ y \in Nat /\ a + y <= Len(s) /\ x + n <= Len(s)
  BY <1>1
<1>3. b \in Seq(U) /\ Len(b) = m /\ b = [i \in 1 .. m |-> s[a + i]]
  BY <1>2, CutTyped
<1>4. c \in Seq(U) /\ Len(c) = n /\ c = [i \in 1 .. n |-> s[(a + m) + i]]
  <2> HIDE DEF x
  <2>1. Cut(s, x, n) \in Seq(U) /\ Len(Cut(s, x, n)) = n
        /\ Cut(s, x, n) = [i \in 1 .. n |-> s[x + i]]
    BY <1>2, CutTyped
  <2> QED
    BY <2>1 DEF x
<1>5. d \in Seq(U) /\ Len(d) = m + n /\ d = [i \in 1 .. m + n |-> s[a + i]]
  <2> HIDE DEF y
  <2>1. Cut(s, a, y) \in Seq(U) /\ Len(Cut(s, a, y)) = y
        /\ Cut(s, a, y) = [i \in 1 .. y |-> s[a + i]]
    BY <1>2, CutTyped
  <2> QED
    BY <2>1 DEF y
<1> HIDE DEF b, c, d
<1>6. b \o c \in Seq(U) /\ Len(b \o c) = m + n
      /\ \A i \in 1 .. m + n : (b \o c)[i] = IF i <= m THEN b[i] ELSE c[i - m]
  BY <1>3, <1>4, ConcatProperties
<1>7. ASSUME NEW i \in 1 .. m + n PROVE (b \o c)[i] = d[i]
  <2>1. CASE i <= m
    <3>1. i \in 1 .. m
      BY <2>1
    <3> QED
      BY <1>3, <1>5, <1>6, <3>1
  <2>2. CASE ~ (i <= m)
    <3>1. i - m \in 1 .. n /\ (a + m) + (i - m) = a + i
      BY <2>2
    <3> QED
      BY <1>4, <1>5, <1>6, <2>2, <3>1
  <2> QED
    BY <2>1, <2>2
<1> QED
  BY <1>5, <1>6, <1>7, SeqEqual DEF b, c, d

(* A piece of the second of two sequences.                                 *)
LEMMA CutBehind ==
  ASSUME NEW U, NEW s \in Seq(U), NEW t \in Seq(U), NEW n \in Nat, n <= Len(t)
  PROVE  Cut(s \o t, Len(s), n) = SubSeq(t, 1, n)
<1>1. /\ s \o t \in Seq(U) /\ Len(s \o t) = Len(s) + Len(t) /\ Len(s) \in Nat /\ Len(t) \in Nat
      /\ \A i \in 1 .. Len(s) + Len(t) : (s \o t)[i] = IF i <= Len(s) THEN s[i] ELSE t[i - Len(s)]
  BY ConcatProperties, LenProperties
<1>2. Cut(s \o t, Len(s), n) = [i \in 1 .. n |-> (s \o t)[Len(s) + i]]
  <2> DEFINE l == Len(s)
             st == s \o t
  <2>1. st \in Seq(U) /\ l \in Nat /\ l + n <= Len(st)
    <3> DEFINE r == Len(t)
    <3>1. Len(st) = l + r /\ r \in Nat /\ l \in Nat /\ n <= r
      BY <1>1
    <3> HIDE DEF l, r, st
    <3>2. l + n <= Len(st)
      BY <3>1
    <3> QED
      BY <1>1, <3>1, <3>2 DEF st
  <2> HIDE DEF l, st
  <2>2. Cut(st, l, n) = [i \in 1 .. n |-> st[l + i]]
    BY <2>1, CutTyped
  <2> QED
    BY <2>2 DEF l, st
<1>3. Cut(t, 0, n) = [i \in 1 .. n |-> t[0 + i]]
  <2>1. 0 + n <= Len(t) /\ 0 \in Nat
    OBVIOUS
  <2> QED
    BY <2>1, CutTyped, t \in Seq(U), n \in Nat
<1>4. Cut(t, 0, n) = SubSeq(t, 1, n)
  BY DEF Cut
<1>5. ASSUME NEW i \in 1 .. n PROVE (s \o t)[Len(s) + i] = t[0 + i]
  <2> DEFINE l == Len(s)
             r == Len(t)
  <2>1. l \in Nat /\ r \in Nat /\ n <= r
    BY <1>1
  <2> HIDE DEF l, r
  <2>2. l + i \in 1 .. l + r /\ ~ (l + i <= l) /\ (l + i) - l = i /\ 0 + i = i
    BY <2>1
  <2> QED
    BY <1>1, <2>2 DEF l, r
<1> QED
  BY <1>2, <1>3, <1>4, <1>5

(* Strings that follow each other are one piece of the content.            *)
LEMMA StringsJoin ==
  ASSUME NEW stream, stream.lens \in Seq(Nat), stream.bytes \in Seq(Nat), SumsMatch(stream),
         NEW a \in Nat, NEW n \in Nat, a + n <= Len(stream.lens)
  PROVE  /\ Cut(StringsOf(stream), a, n) \in Seq(Seq(Nat))
         /\ Len(Cut(StringsOf(stream), a, n)) = n
         /\ \A i \in 1 .. n : Len(Cut(StringsOf(stream), a, n)[i]) = stream.lens[a + i]
         /\ FlattenSeq(Cut(StringsOf(stream), a, n)) =
              Cut(stream.bytes, SumOn(stream.lens, 1 .. a),
                  SumOn(stream.lens, 1 .. (a + n)) - SumOn(stream.lens, 1 .. a))
<1> DEFINE lens == stream.lens
           bytes == stream.bytes
           m == Len(lens)
           all == StringsOf(stream)
           some == Cut(all, a, n)
           size(k) == SumOn(lens, 1 .. k)
           T == {k \in Nat : k <= n =>
                   FlattenSeq(Firsts(some, k)) = Cut(bytes, size(a), size(a + k) - size(a))}
<1>1. /\ m \in Nat /\ DOMAIN lens = 1 .. m /\ lens \in Seq(Nat) /\ bytes \in Seq(Nat)
      /\ Len(bytes) \in Nat /\ all \in Seq(Seq(Nat)) /\ Len(all) = m /\ a + n <= m
      /\ \A i \in 1 .. m : lens[i] \in Nat
  BY StringsFit, SeqOfNumbers
<1>2. all = [i \in 1 .. m |-> Cut(bytes, size(i - 1), lens[i])]
  BY StringAt
<1>3. \A i \in 1 .. m : /\ Len(all[i]) = lens[i] /\ size(i) = size(i - 1) + lens[i]
                        /\ size(i) <= Len(bytes)
  BY StringsFit
<1>4. \A k \in 0 .. m : size(k) \in Nat
  <2> HIDE DEF lens, m
  <2> QED
    BY <1>1, FirstSums
<1> HIDE DEF lens, bytes, m, all, size
<1>5. some \in Seq(Seq(Nat)) /\ Len(some) = n /\ some = [i \in 1 .. n |-> all[a + i]]
  <2> DEFINE U == Seq(Nat)
  <2>1. all \in Seq(U) /\ a + n <= Len(all)
    BY <1>1
  <2> HIDE DEF U
  <2>2. /\ Cut(all, a, n) \in Seq(U) /\ Len(Cut(all, a, n)) = n
        /\ Cut(all, a, n) = [i \in 1 .. n |-> all[a + i]]
    BY <2>1, CutTyped
  <2> QED
    BY <2>2 DEF U
<1> HIDE DEF some
<1>6. ASSUME NEW k \in Nat, k < n
      PROVE  /\ a + k \in 0 .. m /\ a + (k + 1) \in 1 .. m /\ (a + (k + 1)) - 1 = a + k
             /\ a \in 0 .. m /\ k + 1 \in 1 .. n
  BY <1>1, <1>6
<1>7. ASSUME NEW k \in Nat, k < n PROVE size(a) <= size(a + k)
  <2> DEFINE S == {j \in Nat : j < n => size(a) <= size(a + j)}
  <2>1. 0 \in S
    <3>1. a + 0 = a
      OBVIOUS
    <3>2. size(a + 0) = size(a)
      BY <3>1
    <3>3. 0 < n => size(a) \in Nat
      BY <1>4, <1>6
    <3> QED
      BY <3>2, <3>3
  <2>2. ASSUME NEW j \in Nat, j \in S PROVE j + 1 \in S
    <3>1. ASSUME j + 1 < n PROVE size(a) <= size(a + (j + 1))
      <4>1. j < n
        BY <3>1
      <4>2. a + j \in 0 .. m /\ a + (j + 1) \in 1 .. m /\ (a + (j + 1)) - 1 = a + j /\ a \in 0 .. m
        BY <1>6, <4>1
      <4>3. size(a + (j + 1)) = size(a + j) + lens[a + (j + 1)] /\ lens[a + (j + 1)] \in Nat
        BY <1>1, <1>3, <4>2
      <4>4. size(a) \in Nat /\ size(a + j) \in Nat /\ size(a) <= size(a + j)
        BY <1>4, <2>2, <4>1, <4>2
      <4> QED
        BY <4>3, <4>4
    <3> QED
      BY <3>1
  <2> HIDE DEF S
  <2>3. k \in S
    BY <2>1, <2>2, SetInduction
  <2> QED
    BY <1>7, <2>3 DEF S
<1>8. 0 \in T
  <2>1. Firsts(some, 0) = <<>> /\ Len(Firsts(some, 0)) = 0
    BY DEF Firsts
  <2>2. FlattenSeq(Firsts(some, 0)) = <<>>
    BY <2>1, FlattenEmpty
  <2>3. size(a) \in Nat /\ size(a) <= Len(bytes)
    <3>1. a \in 0 .. m
      BY <1>1
    <3>2. size(a) \in Nat
      BY <1>4, <3>1
    <3>3. CASE a \in 1 .. m
      BY <1>3, <3>2, <3>3
    <3>4. CASE a = 0
      <4>1. 1 .. 0 = {}
        OBVIOUS
      <4>2. size(a) = 0
        BY <3>4, <4>1, SumOfNone DEF size
      <4> QED
        BY <1>1, <4>2
    <3> QED
      BY <3>1, <3>3, <3>4
  <2>4. Cut(bytes, size(a), 0) = <<>>
    <3>1. size(a) + 0 <= Len(bytes)
      BY <1>1, <2>3
    <3>2. Cut(bytes, size(a), 0) = [i \in 1 .. 0 |-> bytes[size(a) + i]]
      BY <1>1, <2>3, <3>1, CutTyped
    <3> QED
      BY <3>2
  <2>5. a + 0 = a /\ size(a) - size(a) = 0
    BY <2>3
  <2> QED
    BY <2>2, <2>4, <2>5
<1>9. ASSUME NEW k \in Nat, k \in T PROVE k + 1 \in T
  <2>1. ASSUME k + 1 <= n
        PROVE  FlattenSeq(Firsts(some, k + 1)) =
                 Cut(bytes, size(a), size(a + (k + 1)) - size(a))
    <3>1. k < n
      BY <2>1
    <3>2. FlattenSeq(Firsts(some, k + 1)) = FlattenSeq(Firsts(some, k)) \o some[k + 1]
      BY <1>5, <3>1, FlattenFirsts
    <3>3. /\ a + k \in 0 .. m /\ a + (k + 1) \in 1 .. m /\ (a + (k + 1)) - 1 = a + k
          /\ a \in 0 .. m /\ k + 1 \in 1 .. n
      BY <1>6, <3>1
    <3> DEFINE p == size(a)
               q == size(a + k) - size(a)
               l == lens[a + (k + 1)]
    <3>4. some[k + 1] = Cut(bytes, size(a + k), l)
      BY <1>2, <1>5, <3>3
    <3>5. /\ p \in Nat /\ size(a + k) \in Nat /\ p <= size(a + k) /\ l \in Nat
          /\ size(a + (k + 1)) = size(a + k) + l /\ size(a + (k + 1)) <= Len(bytes)
      BY <1>1, <1>3, <1>4, <1>7, <3>1, <3>3
    <3>6. /\ q \in Nat /\ p + q = size(a + k) /\ p + q + l <= Len(bytes)
          /\ size(a + (k + 1)) - size(a) = q + l
      BY <1>1, <3>5
    <3>7. FlattenSeq(Firsts(some, k)) = Cut(bytes, p, q)
      BY <1>9, <3>1
    <3> HIDE DEF p, q, l
    <3>8. Cut(bytes, p, q) \o Cut(bytes, p + q, l) = Cut(bytes, p, q + l)
      <4>1. bytes \in Seq(Nat) /\ p \in Nat /\ q \in Nat /\ l \in Nat /\ p + q + l <= Len(bytes)
        BY <1>1, <3>5, <3>6
      <4> QED
        BY <4>1, CutJoins
    <3> QED
      BY <3>2, <3>4, <3>6, <3>7, <3>8 DEF p
  <2> QED
    BY <2>1
<1> HIDE DEF T
<1>10. n \in T
  BY <1>8, <1>9, SetInduction
<1>11. Firsts(some, n) = some
  BY <1>5 DEF Firsts
<1>12. FlattenSeq(some) = Cut(bytes, size(a), size(a + n) - size(a))
  BY <1>10, <1>11 DEF T
<1>13. ASSUME NEW i \in 1 .. n PROVE Len(some[i]) = lens[a + i]
  <2>1. a + i \in 1 .. m
    BY <1>1
  <2> QED
    BY <1>3, <1>5, <2>1
<1> QED
  BY <1>5, <1>12, <1>13 DEF lens, bytes, m, all, size, some

(* The strings of prefix, as long as announced while the matches fit.      *)
PrefixedIs(j) ==
  Prefixed[j] \in Seq(Nat) /\ Len(Prefixed[j]) = IF j = 0 THEN 0 ELSE PrefixLength(j)

(* prefix_output_lengths checks the next match against the sum it keeps for*)
(* the string before: that is the length of that string.                   *)
LEMMA PrefixedStep ==
  ASSUME CallAssumption, call \in Calls, call.kind = "prefix", SumsMatch(call.src[1]),
         Length = Len(Strings), NEW j \in Nat, j < Length, PrefixedIs(j)
  PROVE  /\ MatchFits(j + 1) <=> call.idx[j + 1] <= Len(Prefixed[j])
         /\ MatchFits(j + 1) =>
              /\ PrefixedIs(j + 1)
              /\ Prefixed[j + 1] =
                   SubSeq(Prefixed[j], 1, call.idx[j + 1]) \o StringsOf(call.src[1])[j + 1]
<1> DEFINE i == j + 1
           last == Prefixed[j]
           match == call.idx[i]
           rest == StringsOf(call.src[1])[i]
           same == IF match <= Len(last) THEN match ELSE Len(last)
<1>1. /\ call.idx \in Seq(Nat) /\ Strings \in Seq(Nat) /\ Bytes \in Seq(Nat) /\ ~Dispatches
      /\ Strings = call.src[1].lens /\ Bytes = call.src[1].bytes
  <2>1. ~Dispatches
    BY DEF Dispatches
  <2> QED
    BY <2>1, CallFacts DEF Strings, Bytes
<1>2. Length \in Nat /\ Length = Len(call.idx) /\ i \in 1 .. Length /\ i - 1 = j
  <2>1. Length = Len(call.idx) /\ Length \in Nat
    BY <1>1, LenProperties DEF Length
  <2> QED
    BY <2>1
<1>3. match \in Nat /\ Strings[i] \in Nat
  BY <1>1, <1>2, ElementOfSeq
<1>4. rest \in Seq(Nat) /\ Len(rest) = Strings[i]
  <2>1. /\ StringsOf(call.src[1]) \in Seq(Seq(Nat)) /\ Len(StringsOf(call.src[1])) = Length
        /\ Len(rest) = Strings[i]
    BY <1>1, <1>2, StringsFit
  <2> QED
    BY <1>2, <2>1, ElementOfSeq
<1>5. last \in Seq(Nat) /\ Len(last) \in Nat /\ Len(last) = IF i = 1 THEN 0 ELSE PrefixLength(i - 1)
  <2>1. last \in Seq(Nat) /\ Len(last) = IF j = 0 THEN 0 ELSE PrefixLength(j)
    BY DEF PrefixedIs
  <2>2. (j = 0 <=> i = 1) /\ i - 1 = j
    OBVIOUS
  <2> QED
    BY <2>1, <2>2, LenProperties
<1>6. MatchFits(i) <=> match <= Len(last)
  BY <1>5 DEF MatchFits
<1>7. Prefixed[i] = SubSeq(last, 1, same) \o rest
  BY <1>2, PrefixedUnfolds DEF PrefixFrom
<1>8. ASSUME MatchFits(i)
      PROVE  Prefixed[i] = SubSeq(last, 1, match) \o rest /\ PrefixedIs(i)
  <2>1. match <= Len(last) /\ same = match
    BY <1>6, <1>8
  <2> HIDE DEF last, match, rest, same
  <2>2. SubSeq(last, 1, match) \in Seq(Nat) /\ Len(SubSeq(last, 1, match)) = match
    <3>1. 0 + match <= Len(last)
      BY <1>3, <2>1
    <3>2. Cut(last, 0, match) \in Seq(Nat) /\ Len(Cut(last, 0, match)) = match
      BY <1>3, <1>5, <3>1, CutFacts
    <3>3. Cut(last, 0, match) = SubSeq(last, 1, match)
      BY <1>3 DEF Cut
    <3> QED
      BY <3>2, <3>3
  <2>3. Prefixed[i] = SubSeq(last, 1, match) \o rest
    BY <1>7, <2>1
  <2>4. Prefixed[i] \in Seq(Nat) /\ Len(Prefixed[i]) = match + Strings[i]
    BY <1>4, <2>2, <2>3, ConcatProperties
  <2>5. PrefixLength(i) = match + Strings[i] /\ i # 0
    BY <1>2 DEF PrefixLength, match
  <2> QED
    BY <2>3, <2>4, <2>5 DEF PrefixedIs
<1> QED
  BY <1>6, <1>8

(* All matches pass prefix_output_lengths exactly when each lies within the*)
(* string before it.                                                       *)
LEMMA PrefixedFits ==
  ASSUME CallAssumption, call \in Calls, call.kind = "prefix", SumsMatch(call.src[1]),
         Length = Len(Strings),
         \/ \A i \in 1 .. Length : MatchFits(i)
         \/ \A i \in 1 .. Length : call.idx[i] <= Len(Prefixed[i - 1])
  PROVE  \A i \in 1 .. Length :
           /\ MatchFits(i) /\ call.idx[i] <= Len(Prefixed[i - 1])
           /\ PrefixedIs(i - 1) /\ PrefixedIs(i)
           /\ Prefixed[i] =
                SubSeq(Prefixed[i - 1], 1, call.idx[i]) \o StringsOf(call.src[1])[i]
<1> DEFINE T == {j \in Nat : j <= Length => PrefixedIs(j)}
<1>1. Length \in Nat
  BY CallFacts, LenProperties DEF Length
<1>2. 0 \in T
  <2>1. Prefixed[0] = <<>>
    BY <1>1, PrefixedUnfolds
  <2>2. <<>> \in Seq(Nat) /\ Len(<<>>) = 0
    OBVIOUS
  <2>3. PrefixedIs(0)
    BY <2>1, <2>2 DEF PrefixedIs
  <2> QED
    BY <2>3
<1>3. ASSUME NEW j \in Nat, j < Length, PrefixedIs(j)
      PROVE  /\ MatchFits(j + 1) /\ call.idx[j + 1] <= Len(Prefixed[j]) /\ PrefixedIs(j + 1)
             /\ Prefixed[j + 1] =
                  SubSeq(Prefixed[j], 1, call.idx[j + 1]) \o StringsOf(call.src[1])[j + 1]
  <2>1. j + 1 \in 1 .. Length /\ (j + 1) - 1 = j
    BY <1>1, <1>3
  <2>2. MatchFits(j + 1) \/ call.idx[j + 1] <= Len(Prefixed[j])
    BY <2>1
  <2> QED
    BY <1>3, <2>2, PrefixedStep
<1>4. ASSUME NEW j \in Nat, j \in T PROVE j + 1 \in T
  <2>1. ASSUME j + 1 <= Length PROVE PrefixedIs(j + 1)
    <3>1. j < Length /\ j <= Length
      BY <1>1, <2>1
    <3>2. PrefixedIs(j)
      BY <1>4, <3>1
    <3> QED
      BY <1>3, <3>1, <3>2
  <2> QED
    BY <2>1
<1> HIDE DEF T
<1>5. Nat \subseteq T
  BY <1>2, <1>4, SetInduction
<1>6. ASSUME NEW i \in 1 .. Length
      PROVE  /\ MatchFits(i) /\ call.idx[i] <= Len(Prefixed[i - 1])
             /\ PrefixedIs(i - 1) /\ PrefixedIs(i)
             /\ Prefixed[i] =
                  SubSeq(Prefixed[i - 1], 1, call.idx[i]) \o StringsOf(call.src[1])[i]
  <2> DEFINE j == i - 1
  <2>1. j \in Nat /\ j < Length /\ j + 1 = i /\ j <= Length
    BY <1>1
  <2> HIDE DEF j
  <2>2. PrefixedIs(j)
    BY <1>5, <2>1 DEF T
  <2>3. /\ MatchFits(j + 1) /\ call.idx[j + 1] <= Len(Prefixed[j]) /\ PrefixedIs(j + 1)
        /\ Prefixed[j + 1] =
             SubSeq(Prefixed[j], 1, call.idx[j + 1]) \o StringsOf(call.src[1])[j + 1]
    BY <1>3, <2>1, <2>2
  <2> QED
    BY <2>1, <2>2, <2>3 DEF j
<1> QED
  BY <1>6

-----------------------------------------------------------------------------
(* Counting selections.                                                    *)

(* One index more selects its source once more.                            *)
LEMMA UsesCounted ==
  ASSUME NEW s, NEW n \in Nat
  PROVE  /\ IsFiniteSet(Uses(s, n)) /\ Cardinality(Uses(s, n)) \in Nat
         /\ Cardinality(Uses(s, 0)) = 0
         /\ Uses(s, n + 1) = IF call.idx[n + 1] = s THEN Uses(s, n) \cup {n + 1} ELSE Uses(s, n)
         /\ Cardinality(Uses(s, n + 1)) =
              Cardinality(Uses(s, n)) + IF call.idx[n + 1] = s THEN 1 ELSE 0
<1>1. IsFiniteSet(1 .. n)
  BY FS_Interval
<1>2. IsFiniteSet(Uses(s, n)) /\ Cardinality(Uses(s, n)) \in Nat
  <2>1. Uses(s, n) \in SUBSET (1 .. n)
    BY DEF Uses
  <2> QED
    BY <1>1, <2>1, FS_Subset, FS_CardinalityType
<1>3. Cardinality(Uses(s, 0)) = 0
  <2>1. Uses(s, 0) = {}
    BY DEF Uses
  <2> QED
    BY <2>1, FS_EmptySet
<1>4. Uses(s, n + 1) = IF call.idx[n + 1] = s THEN Uses(s, n) \cup {n + 1} ELSE Uses(s, n)
  <2>1. 1 .. n + 1 = (1 .. n) \cup {n + 1}
    OBVIOUS
  <2> QED
    BY <2>1 DEF Uses
<1>5. n + 1 \notin Uses(s, n)
  BY DEF Uses
<1>6. Cardinality(Uses(s, n) \cup {n + 1}) = Cardinality(Uses(s, n)) + 1
  BY <1>2, <1>5, FS_AddElement
<1> QED
  BY <1>2, <1>3, <1>4, <1>6

(* A source is selected no less often among more selections.               *)
LEMMA UsesGrow ==
  ASSUME NEW s, NEW m \in Nat, NEW n \in Nat, m <= n
  PROVE  Cardinality(Uses(s, m)) <= Cardinality(Uses(s, n))
<1>1. Uses(s, m) \subseteq Uses(s, n)
  <2>1. 1 .. m \subseteq 1 .. n
    OBVIOUS
  <2> QED
    BY <2>1 DEF Uses
<1>2. IsFiniteSet(Uses(s, n))
  BY UsesCounted
<1> QED
  BY <1>1, <1>2, FS_Subset

(* Every index selects one source.                                         *)
LEMMA SelectionsAddUp ==
  ASSUME NEW D, IsFiniteSet(D), NEW n \in Nat, \A i \in 1 .. n : call.idx[i] \in D
  PROVE  SumOn([s \in D |-> Cardinality(Uses(s, n))], D) = n
<1> DEFINE used(k) == [s \in D |-> Cardinality(Uses(s, k))]
           T == {k \in Nat : k <= n => SumOn(used(k), D) = k}
<1>1. ASSUME NEW k \in Nat PROVE \A s \in D : used(k)[s] \in Nat
  BY UsesCounted
<1>2. 0 \in T
  <2>1. \A s \in D : used(0)[s] = 0
    BY UsesCounted
  <2> HIDE DEF used
  <2>2. SumOn(used(0), D) = 0
    BY <2>1, SumOfZeros
  <2> QED
    BY <2>2
<1>3. ASSUME NEW k \in Nat, k \in T PROVE k + 1 \in T
  <2>1. ASSUME k + 1 <= n PROVE SumOn(used(k + 1), D) = k + 1
    <3> DEFINE x == call.idx[k + 1]
               f == used(k)
               h == used(k + 1)
    <3>1. x \in D /\ SumOn(f, D) = k
      <4>1. k + 1 \in 1 .. n /\ k <= n
        BY <2>1
      <4> QED
        BY <1>3, <4>1
    <3>2. /\ \A y \in D : f[y] \in Nat /\ h[y] \in Nat
          /\ \A y \in D \ {x} : h[y] = f[y]
          /\ h[x] = f[x] + 1
      <4>1. \A y \in D : h[y] = f[y] + IF x = y THEN 1 ELSE 0
        BY UsesCounted
      <4>2. \A y \in D : f[y] \in Nat /\ h[y] \in Nat
        BY <1>1
      <4> HIDE DEF f, h
      <4> QED
        BY <3>1, <4>1, <4>2
    <3> HIDE DEF f, h, x
    <3>3. SumOn(h, D) + f[x] = SumOn(f, D) + h[x]
      BY <3>1, <3>2, SumChanged
    <3>4. SumOn(h, D) \in Nat
      BY <3>2, SumOfMore
    <3>5. SumOn(h, D) = k + 1
      <4>1. f[x] \in Nat
        BY <3>1, <3>2
      <4> QED
        BY <3>1, <3>2, <3>3, <3>4, <4>1
    <3> QED
      BY <3>5 DEF h
  <2> QED
    BY <2>1
<1> HIDE DEF T
<1>4. n \in T
  BY <1>2, <1>3, SetInduction
<1> QED
  BY <1>4 DEF T

-----------------------------------------------------------------------------
(* What the loops of StringNodes have made so far.                         *)

OldBytes == [i \in 1 .. call.base |-> Old]

(* An output holds the first n of its strings.                             *)
StringsMade(dest, content, n) ==
  /\ Firsts(content, n) \in Seq(Seq(Nat))
  /\ dest.bytes = OldBytes \o FlattenSeq(Firsts(content, n))
  /\ call.kind \notin {"serial", "tags"} => dest.lens = [i \in 1 .. n |-> Len(content[i])]

(* The indices ahead are the rest of the row.                              *)
RowGoesOn ==
  csvRow > 0 =>
    /\ index + (Len(CsvPattern) - csvRow) <= Length
    /\ \A k \in csvRow .. Len(CsvPattern) : call.idx[index + (k - csvRow)] = CsvPattern[k]

DispatchMade ==
  Dispatches =>
    /\ index <= Length + 1 /\ RowGoesOn
    /\ \A i \in 1 .. index - 1 : call.idx[i] \in DOMAIN call.src
    /\ call.kind # "tags" =>
         \A s \in DOMAIN call.src : position[s] = Cardinality(Uses(s, index - 1))
OneMade ==
  Dispatches \/ call.kind \in {"prefix", "tokenize"} =>
    StringsMade(outs[1], Contents[1], index - 1)
DealMade ==
  call.kind = "interleave" =>
    \A o \in 1 .. call.count :
      StringsMade(outs[o], Contents[o], Share(call.count, o, index - 1))
RunsMade ==
  call.kind = "concat" =>
    /\ index <= call.count + 1 /\ Len(outs) = index - 1
    /\ position[1] = SumOn(call.idx, 1 .. index - 1)
    /\ \A o \in 1 .. index - 1 : StringsMade(outs[o], Contents[o], call.idx[o])
ComponentsMade ==
  call.kind = "components" =>
    index <= 2 /\ (index = 2 => StringsMade(outs[1], Contents[1], Len(call.sizes)))

Made == DispatchMade /\ OneMade /\ DealMade /\ RunsMade /\ ComponentsMade

Restored == (stage = "loop" => outcome = "none" /\ Made) /\ RestoresStrings
RestoreInv == StringInv /\ Restored

(* The call stays, and with it what it describes.                          *)
LEMMA SameContents ==
  ASSUME call' = call
  PROVE  /\ Contents' = Contents /\ (Accepted' <=> Accepted) /\ OldBytes' = OldBytes
         /\ Length' = Length
<1>1. Length' = Length /\ OldBytes' = OldBytes
  BY DEF Length, OldBytes
<1>2. Prefixed' = Prefixed
  BY <1>1 DEF Prefixed, PrefixFrom, StringsOf
<1>3. ASSUME NEW i PROVE Selection(i)' = Selection(i)
  BY DEF Selection, Uses, StringsOf
<1>4. Strings' = Strings /\ Bytes' = Bytes
  BY DEF Strings, Bytes
<1>5. Contents' = Contents
  BY <1>1, <1>2, <1>3, <1>4 DEF Contents
<1>6. Accepted' <=> Accepted
  BY <1>1, <1>2, <1>4 DEF Accepted, Uses, SumsMatch
<1> QED
  BY <1>1, <1>5, <1>6

(* What the output holds before the call: nothing but for a serial one.    *)
LEMMA BeforeTyped ==
  ASSUME call.base \in Nat
  PROVE  /\ OldBytes \in Seq(Nat) /\ Len(OldBytes) = call.base /\ OldBytes \o <<>> = OldBytes
         /\ call.base = 0 => OldBytes = <<>>
<1>1. OldBytes \in Seq(Nat) /\ Len(OldBytes) = call.base
  BY DEF OldBytes, Old
<1>2. OldBytes \o <<>> = OldBytes
  BY <1>1, ConcatEmptySeq
<1>3. call.base = 0 => OldBytes = <<>>
  BY <1>1
<1> QED
  BY <1>1, <1>2, <1>3

(* Nothing, one string more, and all of them.                              *)
LEMMA NoneMade ==
  ASSUME call.base \in Nat, NEW dest, dest.bytes = OldBytes, dest.lens = <<>>, NEW content
  PROVE  StringsMade(dest, content, 0)
<1>1. Firsts(content, 0) = <<>> /\ Len(Firsts(content, 0)) = 0
  BY DEF Firsts
<1>2. FlattenSeq(Firsts(content, 0)) = <<>>
  BY <1>1, FlattenEmpty
<1>3. <<>> \in Seq(Seq(Nat)) /\ [i \in 1 .. 0 |-> Len(content[i])] = <<>>
  OBVIOUS
<1> QED
  BY <1>1, <1>2, <1>3, BeforeTyped DEF StringsMade

(* An output that appends its next string has made one more.               *)
LEMMA OneMoreMade ==
  ASSUME call.base \in Nat, NEW dest, NEW more, NEW content, NEW n \in Nat,
         StringsMade(dest, content, n), NEW new \in Seq(Nat), content[n + 1] = new,
         more.bytes = dest.bytes \o new,
         call.kind \notin {"serial", "tags"} => more.lens = Append(dest.lens, Len(new))
  PROVE  StringsMade(more, content, n + 1)
<1> DEFINE s == Firsts(content, n)
           t == Firsts(content, n + 1)
<1>1. /\ s \in Seq(Seq(Nat)) /\ dest.bytes = OldBytes \o FlattenSeq(s)
      /\ s = [i \in 1 .. n |-> content[i]] /\ t = [i \in 1 .. n + 1 |-> content[i]]
  BY DEF StringsMade, Firsts
<1>2. Len(s) = n /\ \A i \in 1 .. n : content[i] \in Seq(Nat)
  <2>1. DOMAIN s = 1 .. n /\ DOMAIN s = 1 .. Len(s) /\ Len(s) \in Nat
    <3>1. DOMAIN s = 1 .. n
      BY <1>1
    <3> HIDE DEF s
    <3> QED
      BY <1>1, <3>1, LenProperties
  <2>2. \A i \in 1 .. n : content[i] = s[i]
    BY <1>1
  <2> HIDE DEF s
  <2>3. Len(s) = n
    BY <2>1
  <2>4. \A i \in 1 .. n : s[i] \in Seq(Nat)
    BY <1>1, <2>1, ElementOfSeq
  <2> QED
    BY <2>2, <2>3, <2>4
<1>3. t \in Seq(Seq(Nat)) /\ Len(t) = n + 1 /\ \A i \in 1 .. n : t[i] = s[i]
  <2>1. \A i \in 1 .. n + 1 : t[i] \in Seq(Nat)
    <3> TAKE i \in 1 .. n + 1
    <3>1. i \in 1 .. n \/ i = n + 1
      OBVIOUS
    <3> QED
      BY <1>1, <1>2, <3>1
  <2> DEFINE m == n + 1
  <2>2. m \in Nat /\ t = [i \in 1 .. m |-> t[i]]
    <3>1. m \in Nat /\ t = [i \in 1 .. m |-> content[i]]
      BY <1>1
    <3> HIDE DEF t, m
    <3> QED
      BY <3>1
  <2> HIDE DEF t, m
  <2>3. t \in Seq(Seq(Nat)) /\ Len(t) = m
    BY <2>1, <2>2, FunctionIsSeq DEF m
  <2> QED
    BY <1>1, <2>3 DEF m
<1>4. t[n + 1] = new
  BY <1>1
<1> HIDE DEF s, t
<1>5. FlattenSeq(t) = FlattenSeq(s) \o new
  <2>1. s \in Seq(Seq(Nat)) /\ t \in Seq(Seq(Nat)) /\ Len(t) = Len(s) + 1
        /\ \A i \in 1 .. Len(s) : t[i] = s[i]
    BY <1>1, <1>2, <1>3
  <2>2. FlattenSeq(t) = FlattenSeq(s) \o t[Len(t)]
    BY <2>1, FlattenLast
  <2> QED
    BY <1>3, <1>4, <2>2
<1>6. FlattenSeq(s) \in Seq(Nat)
  BY <1>1, FlattenType
<1>7. (OldBytes \o FlattenSeq(s)) \o new = OldBytes \o (FlattenSeq(s) \o new)
  <2> DEFINE a == OldBytes
             b == FlattenSeq(s)
  <2>1. a \in Seq(Nat) /\ b \in Seq(Nat) /\ new \in Seq(Nat)
    BY <1>6, BeforeTyped
  <2> HIDE DEF a, b
  <2>2. (a \o b) \o new = a \o (b \o new)
    BY <2>1, ConcatAssociative, SMTT(30)
  <2> QED
    BY <2>2 DEF a, b
<1>8. more.bytes = OldBytes \o FlattenSeq(t)
  BY <1>1, <1>5, <1>7
<1>9. ASSUME call.kind \notin {"serial", "tags"}
      PROVE  more.lens = [i \in 1 .. n + 1 |-> Len(content[i])]
  <2> DEFINE old == [i \in 1 .. n |-> Len(content[i])]
             all == [i \in 1 .. n + 1 |-> Len(content[i])]
  <2>1. more.lens = Append(old, Len(new))
    BY <1>9 DEF StringsMade
  <2>2. ASSUME NEW i \in 1 .. n PROVE Len(content[i]) \in Nat
    BY <1>2, LenProperties
  <2>3. old \in Seq(Nat) /\ Len(old) = n /\ Len(new) \in Nat
    BY <2>2, LenProperties
  <2>4. all[n + 1] = Len(new)
    OBVIOUS
  <2>5. Append(old, Len(new)) = all
    BY <2>3, <2>4
  <2> QED
    BY <2>1, <2>5
<1> QED
  BY <1>3, <1>8, <1>9 DEF StringsMade, t

(* An output that has made all its strings holds them end to end, and their*)
(* lengths.                                                                *)
LEMMA AllMade ==
  ASSUME NEW dest, NEW content, NEW n \in Nat, content = [i \in 1 .. n |-> content[i]],
         StringsMade(dest, content, n)
  PROVE  /\ dest.bytes = OldBytes \o FlattenSeq(content)
         /\ call.kind \notin {"serial", "tags"} =>
              dest.lens = [i \in DOMAIN content |-> Len(content[i])]
<1>1. Firsts(content, n) = content /\ DOMAIN content = 1 .. n
  BY DEF Firsts
<1> QED
  BY <1>1 DEF StringsMade

-----------------------------------------------------------------------------
(* What the checks before the loop accept.                                 *)

(* The indices of dispatch_string are as many as its strings.              *)
LEMMA DispatchAccepted ==
  ASSUME CallAssumption, call \in Calls, call.kind \in {"strings", "serial"}, Accepted
  PROVE  DispatchFits
<1> DEFINE D == DOMAIN call.src
           f == [s \in D |-> Cardinality(Uses(s, Length))]
           g == [s \in D |-> Len(call.src[s].lens)]
<1>1. call.idx \in Seq(Nat) /\ IsFiniteSet(D)
  BY CallFacts
<1>2. Length \in Nat /\ Length = Len(call.idx) /\ DOMAIN call.idx = 1 .. Length
  BY <1>1, SeqOfNumbers DEF Length
<1>3. /\ \A i \in DOMAIN call.idx : call.idx[i] \in D
      /\ \A s \in D : SumsMatch(call.src[s]) /\ Cardinality(Uses(s, Length)) = Len(call.src[s].lens)
  BY DEF Accepted
<1>4. f = g
  BY <1>3
<1>5. SumOn(f, D) = Length
  BY <1>1, <1>2, <1>3, SelectionsAddUp
<1>6. SumFunction(g) = SumOn(g, D)
  BY DEF SumFunction, SumOn
<1>7. Len(call.idx) = SumFunction([s \in DOMAIN call.src |-> Len(call.src[s].lens)])
  BY <1>2, <1>4, <1>5, <1>6
<1>8. call.idx # <<>> => call.src # <<>>
  <2> SUFFICES ASSUME call.idx # <<>> PROVE call.src # <<>>
    OBVIOUS
  <2>1. 1 \in DOMAIN call.idx
    BY <1>1, <1>2, EmptySeq
  <2>2. call.idx[1] \in DOMAIN call.src
    BY <1>3, <2>1
  <2> QED
    BY <2>2
<1> QED
  BY <1>3, <1>7, <1>8 DEF DispatchFits

(* Inputs that describe strings pass the checks.                           *)
LEMMA AcceptedFits ==
  ASSUME CallAssumption, call \in Calls, Accepted
  PROVE  InputsFit /\ SegmentsFit
<1>1. call.idx \in Seq(Nat) /\ call.kind \in Kinds
  BY CallFacts
<1>2. Length \in Nat /\ Length = Len(call.idx) /\ DOMAIN call.idx = 1 .. Length
  BY <1>1, SeqOfNumbers DEF Length
<1>3. call.kind \in {"strings", "serial"} => DispatchFits
  BY DispatchAccepted
<1>4. call.kind = "tags" => TagsFit /\ SegmentsFit
  <2> SUFFICES ASSUME call.kind = "tags" PROVE TagsFit /\ SegmentsFit
    OBVIOUS
  <2>1. /\ Len(call.sizes) = Length /\ \A i \in DOMAIN call.idx : call.idx[i] \in DOMAIN call.src
        /\ \A s \in DOMAIN call.src :
             SumFunctionOnSet(call.sizes, Uses(s, Length)) = Len(call.src[s].bytes)
    BY DEF Accepted
  <2>2. call.idx # <<>> => call.src # <<>>
    <3> SUFFICES ASSUME call.idx # <<>> PROVE call.src # <<>>
      OBVIOUS
    <3>1. 1 \in DOMAIN call.idx
      BY <1>1, <1>2, EmptySeq
    <3>2. call.idx[1] \in DOMAIN call.src
      BY <2>1, <3>1
    <3> QED
      BY <3>2
  <2>3. \A s : {i \in DOMAIN call.idx : call.idx[i] = s} = Uses(s, Length)
    BY <1>2 DEF Uses
  <2> QED
    BY <1>2, <2>1, <2>2, <2>3 DEF TagsFit, SegmentsFit
<1>5. call.kind = "prefix" => PrefixFits
  <2> SUFFICES ASSUME call.kind = "prefix" PROVE PrefixFits
    OBVIOUS
  <2>1. /\ SumsMatch(call.src[1]) /\ Length = Len(Strings)
        /\ \A i \in 1 .. Length : call.idx[i] <= Len(Prefixed[i - 1])
    BY DEF Accepted
  <2>2. \A i \in 1 .. Length : MatchFits(i)
    BY <2>1, PrefixedFits
  <2> QED
    BY <1>2, <2>1, <2>2 DEF PrefixFits
<1>6. call.kind = "tokenize" => TokensFit
  BY <1>2 DEF Accepted, TokensFit
<1>7. call.kind = "interleave" => call.count > 0 /\ InterleaveFits
  BY DEF Accepted, InterleaveFits
<1>8. (call.kind = "concat" => ConcatFits) /\ (call.kind = "components" => ComponentsFit)
  BY DEF Accepted, ConcatFits, ComponentsFit, Length
<1> QED
  BY <1>3, <1>4, <1>5, <1>6, <1>7, <1>8 DEF InputsFit, SegmentsFit

-----------------------------------------------------------------------------
(* What every step makes.                                                  *)

(* Stopping, rightly.                                                      *)
LEMMA StopRestores ==
  ASSUME NEW kind, kind # "Ok", kind = "Malformed" => ~Accepted, Refuse(kind)
  PROVE  Restored'
<1>1. stage' = "done" /\ outcome' = kind /\ call' = call
  BY DEF Refuse
<1>2. outcome' = "Malformed" => ~Accepted'
  BY <1>1, SameContents
<1> QED
  BY <1>1, <1>2 DEF Restored, RestoresStrings

(* Going on.                                                               *)
LEMMA LoopRestores ==
  ASSUME Restored, stage = "loop", UNCHANGED <<call, stage, outcome>>, Made'
  PROVE  Restored'
<1>1. outcome' = "none"
  BY DEF Restored
<1> QED
  BY <1>1 DEF Restored, RestoresStrings

(* The next string of the only output.                                     *)
LEMMA OneMadeOn ==
  ASSUME call' = call, NEW dest, outs' = <<dest>>, NEW n, index' - 1 = n,
         StringsMade(dest, Contents[1], n)
  PROVE  OneMade'
<1>1. outs'[1] = dest /\ Contents' = Contents /\ OldBytes' = OldBytes
  BY SameContents
<1>2. StringsMade(outs[1], Contents[1], index - 1)'
  BY <1>1 DEF StringsMade
<1> QED
  BY <1>2 DEF OneMade

(* The loops other than that of the node.                                  *)
LEMMA OthersMade ==
  ASSUME call' = call
  PROVE  /\ ~Dispatches => DispatchMade'
         /\ ~(Dispatches \/ call.kind \in {"prefix", "tokenize"}) => OneMade'
         /\ call.kind # "interleave" => DealMade'
         /\ call.kind # "concat" => RunsMade'
         /\ call.kind # "components" => ComponentsMade'
<1>1. Dispatches' <=> Dispatches
  BY DEF Dispatches
<1> QED
  BY <1>1 DEF DispatchMade, OneMade, DealMade, RunsMade, ComponentsMade

(* Nothing is made before the loop.                                        *)
LEMMA StartRestores ==
  ASSUME CallAssumption, BoundAssumption, RestoreInv, StartNode
  PROVE  Restored'
<1>1. call \in Calls /\ Untouched /\ stage = "begin"
  BY DEF RestoreInv, StringInv, StartNode
<1>2. CASE \E kind \in {"Malformed", "LimitExceeded", "AllocationFailed"} :
             (kind = "Malformed" => ~InputsFit \/ ~SegmentsFit) /\ Refuse(kind)
  <2>1. PICK kind \in {"Malformed", "LimitExceeded", "AllocationFailed"} :
          (kind = "Malformed" => ~InputsFit \/ ~SegmentsFit) /\ Refuse(kind)
    BY <1>2
  <2>2. kind = "Malformed" => ~Accepted
    BY <1>1, <2>1, AcceptedFits
  <2> QED
    BY <2>1, <2>2, StopRestores
<1>3. CASE /\ InputsFit /\ ~TooLarge /\ SegmentsFit
           /\ stage' = "loop" /\ outs' = Room
           /\ UNCHANGED <<call, index, csvRow, position, bytePosition, outcome>>
  <2>1. /\ call' = call /\ index' = 1 /\ csvRow' = 0 /\ outcome' = "none"
        /\ position' = [s \in DOMAIN call.src |-> 0] /\ outs' = Room
    BY <1>1, <1>3 DEF Untouched
  <2>2. call.base \in Nat /\ (call.kind # "serial" => OldBytes = <<>>)
    BY <1>1, CallFacts, BeforeTyped
  <2>3. DispatchMade'
    <3> SUFFICES ASSUME Dispatches PROVE DispatchMade'
      BY <2>1, OthersMade
    <3>1. Length' \in Nat
      <4>1. Length' = Len(call.idx)
        BY <2>1, SameContents DEF Length
      <4> QED
        BY <1>1, <4>1, CallFacts, SeqOfNumbers
    <3>2. 1 .. index' - 1 = {} /\ index' - 1 = 0
      BY <2>1
    <3>3. ASSUME NEW s \in DOMAIN call.src PROVE position'[s] = Cardinality(Uses(s, index - 1)')
      <4>1. Uses(s, index - 1)' = Uses(s, 0)
        BY <2>1, <3>2 DEF Uses
      <4>2. Cardinality(Uses(s, 0)) = 0
        BY UsesCounted
      <4> QED
        BY <2>1, <4>1, <4>2
    <3>4. RowGoesOn'
      BY <2>1 DEF RowGoesOn
    <3>5. \A s \in DOMAIN call'.src : position'[s] = Cardinality(Uses(s, index - 1)')
      BY <2>1, <3>3
    <3>6. index' <= Length' + 1
      <4>1. \A k \in Nat : 1 <= k + 1
        OBVIOUS
      <4> QED
        BY <2>1, <3>1, <4>1
    <3> QED
      BY <3>2, <3>4, <3>5, <3>6 DEF DispatchMade
  <2>4. OneMade'
    <3> SUFFICES ASSUME Dispatches \/ call.kind \in {"prefix", "tokenize"} PROVE OneMade'
      BY <2>1, OthersMade
    <3>1. call.kind \notin {"concat", "interleave"}
      BY DEF Dispatches
    <3>2. Len(Room) = 1 /\ Room[1].lens = <<>> /\ (call.kind # "serial" => Room[1].bytes = <<>>)
          /\ Room \in Seq(Output)
      BY <1>1, <1>3, <3>1, RoomFacts
    <3>3. Room[1].bytes = OldBytes
      <4>1. CASE call.kind = "serial"
        BY <4>1 DEF Room, OldBytes
      <4>2. CASE call.kind # "serial"
        BY <2>2, <3>2, <4>2
      <4> QED
        BY <4>1, <4>2
    <3>4. StringsMade(Room[1], Contents[1], 0)
      BY <2>2, <3>2, <3>3, NoneMade
    <3>5. outs' = <<Room[1]>> /\ index' - 1 = 0
      BY <2>1, <3>2
    <3> QED
      BY <2>1, <3>4, <3>5, OneMadeOn
  <2>5. DealMade'
    <3> SUFFICES ASSUME call.kind = "interleave" PROVE DealMade'
      BY <2>1, OthersMade
    <3>1. call.count \in Nat \ {0}
      BY <1>1, <1>3, CallFacts DEF InputsFit
    <3>2. ASSUME NEW o \in 1 .. call.count
          PROVE  StringsMade(Room[o], Contents[o], 0) /\ Share(call.count, o, 0) = 0
      <4>1. Room[o] = EmptyOutput(SumOn(Strings, Dealt(o)))
        BY <1>1, <1>3, RoomFacts
      <4>2. Room[o].bytes = OldBytes /\ Room[o].lens = <<>>
        BY <2>2, <4>1 DEF EmptyOutput
      <4> QED
        BY <2>2, <3>1, <4>2, NoneMade, Shares
    <3>3. index' - 1 = 0 /\ call' = call /\ outs' = Room /\ Contents' = Contents /\ OldBytes' = OldBytes
      BY <2>1, SameContents
    <3>4. ASSUME NEW o \in 1 .. call.count
          PROVE  StringsMade(outs[o], Contents[o], Share(call.count, o, index - 1))'
      <4>1. Share(call.count, o, index - 1)' = 0
        BY <3>2, <3>3 DEF Share
      <4> QED
        BY <3>2, <3>3, <4>1 DEF StringsMade
    <3> QED
      BY <3>3, <3>4 DEF DealMade
  <2>6. RunsMade'
    <3> SUFFICES ASSUME call.kind = "concat" PROVE RunsMade'
      BY <2>1, OthersMade
    <3>1. call.count \in Nat /\ DOMAIN call.src = {1}
      BY <1>1, CallFacts DEF Dispatches
    <3>2. 1 .. index' - 1 = {} /\ index' - 1 = 0 /\ index' <= call'.count + 1
      BY <2>1, <3>1
    <3>3. Len(outs') = 0
      BY <2>1 DEF Room
    <3>4. position'[1] = SumOn(call'.idx, 1 .. index' - 1)
      BY <2>1, <3>1, <3>2, SumOfNone
    <3> QED
      BY <3>2, <3>3, <3>4 DEF RunsMade
  <2>7. ComponentsMade'
    BY <2>1 DEF ComponentsMade
  <2> QED
    BY <1>3, <2>1, <2>3, <2>4, <2>5, <2>6, <2>7 DEF Restored, RestoresStrings, Made
<1>4. \/ ~InputsFit /\ Refuse("Malformed")
      \/ InputsFit /\ TooLarge /\ Refuse("LimitExceeded")
      \/ InputsFit /\ ~TooLarge /\ ~SegmentsFit /\ Refuse("Malformed")
      \/ InputsFit /\ ~TooLarge /\ Refuse("AllocationFailed")
      \/ /\ InputsFit /\ ~TooLarge /\ SegmentsFit
         /\ stage' = "loop" /\ outs' = Room
         /\ UNCHANGED <<call, index, csvRow, position, bytePosition, outcome>>
  BY DEF StartNode
<1> QED
  BY <1>2, <1>3, <1>4

(* A row is ahead, so its sources are the next indices.                    *)
LEMMA RowRestores ==
  ASSUME CallAssumption, BoundAssumption, RestoreInv, StartRow
  PROVE  Restored'
<1>1. /\ stage = "loop" /\ call.kind = "serial" /\ csvRow' = 1 /\ Dispatches
      /\ UNCHANGED <<call, stage, index, position, bytePosition, outs, outcome>>
      /\ Restored
  BY DEF StartRow, RowAhead, Dispatches, RestoreInv
<1>2. /\ StringInv /\ call \in Calls /\ index \in Nat \ {0} /\ DispatchMade /\ OneMade
  BY <1>1 DEF RestoreInv, StringInv, TypeOK, Restored, Made
<1> DEFINE row == Len(CsvPattern)
           a == index - 1
<1>3. row \in Nat /\ row > 0 /\ call.idx \in Seq(Nat) /\ Length = Len(call.idx) /\ Length \in Nat
  <2>1. CsvPattern \in Seq(1 .. CsvSources) /\ CsvPattern # <<>>
    BY DEF BoundAssumption
  <2>2. call.idx \in Seq(Nat)
    BY <1>2, CallFacts
  <2> QED
    BY <2>1, <2>2, LenProperties, EmptySeq DEF Length
<1>4. a \in Nat /\ a + row <= Len(call.idx) /\ Cut(call.idx, a, row) = CsvPattern
  BY <1>2 DEF StartRow, RowAhead
<1>5. \A k \in 1 .. row : call.idx[a + k] = CsvPattern[k]
  <2> HIDE DEF a, row
  <2>1. \A k \in 1 .. row : Cut(call.idx, a, row)[k] = call.idx[a + k]
    BY <1>3, <1>4, CutFacts
  <2> QED
    BY <1>4, <2>1
<1>6. RowGoesOn'
  <2>1. Length' = Length /\ call' = call
    BY <1>1, SameContents
  <2>2. index + (row - 1) <= Length
    BY <1>2, <1>3, <1>4
  <2>3. \A k \in 1 .. row : call.idx[index + (k - 1)] = CsvPattern[k]
    <3> TAKE k \in 1 .. row
    <3>1. index + (k - 1) = a + k
      BY <1>2, <1>3
    <3> QED
      BY <1>5, <3>1
  <2> HIDE DEF row
  <2> QED
    BY <1>1, <2>1, <2>2, <2>3 DEF RowGoesOn, row
<1>7. DispatchMade'
  <2>1. Length' = Length /\ \A s : Uses(s, index - 1)' = Uses(s, index - 1)
    BY <1>1, SameContents DEF Uses
  <2> QED
    BY <1>1, <1>2, <1>6, <2>1 DEF DispatchMade
<1>8. OneMade'
  <2>1. outs' = <<outs[1]>>
    BY <1>1, <1>2, OneOutput
  <2>2. StringsMade(outs[1], Contents[1], index - 1)
    BY <1>1, <1>2 DEF OneMade
  <2> QED
    BY <1>1, <2>1, <2>2, OneMadeOn
<1>9. Made'
  BY <1>1, <1>7, <1>8, OthersMade DEF Made
<1> QED
  BY <1>1, <1>9, LoopRestores

(* In a row and between rows the selected source is the next index.        *)
LEMMA SelectedIs ==
  ASSUME BoundAssumption, StringInv, DispatchMade, Dispatches
  PROVE  Selected = call.idx[index]
<1>1. csvRow \in 0 .. Len(CsvPattern) /\ Len(CsvPattern) \in Nat /\ index \in Nat
  <2>1. CsvPattern \in Seq(1 .. CsvSources)
    BY DEF BoundAssumption
  <2> QED
    BY <2>1, LenProperties DEF StringInv, TypeOK
<1>2. CASE csvRow > 0
  <2>1. csvRow \in csvRow .. Len(CsvPattern) /\ index + (csvRow - csvRow) = index
    BY <1>1
  <2>2. call.idx[index + (csvRow - csvRow)] = CsvPattern[csvRow]
    BY <1>2, <2>1 DEF DispatchMade, RowGoesOn
  <2> QED
    BY <1>2, <2>1, <2>2 DEF Selected
<1>3. CASE ~ (csvRow > 0)
  BY <1>3 DEF Selected
<1> QED
  BY <1>2, <1>3

(* Where the strings of a source begin and end.                            *)
LEMMA SourceAt ==
  ASSUME CallAssumption, StringInv, call.kind \in {"strings", "serial"}, NEW s \in DOMAIN call.src,
         position[s] < Len(call.src[s].lens)
  PROVE  /\ StringsOf(call.src[s])[position[s] + 1] =
              Cut(call.src[s].bytes, bytePosition[s], call.src[s].lens[position[s] + 1])
         /\ SumsMatch(call.src[s]) =>
              bytePosition[s] + call.src[s].lens[position[s] + 1] <= Len(call.src[s].bytes)
<1> DEFINE lens == call.src[s].lens
           bytes == call.src[s].bytes
           m == Len(lens)
           p == position[s]
           i == p + 1
<1>1. call \in Calls /\ lens \in Seq(Nat) /\ bytes \in Seq(Nat)
  BY CallFacts DEF StringInv
<1>2. m \in Nat /\ p \in 0 .. m /\ p < m
  BY <1>1, SeqOfNumbers DEF StringInv, TypeOK
<1>3. bytePosition[s] = SumFunction(SubSeq(lens, 1, p))
  BY DEF StringInv, TypeOK
<1>4. StringsOf(call.src[s]) = [k \in 1 .. m |-> Cut(bytes, SumOn(lens, 1 .. k - 1), lens[k])]
  BY <1>1, StringAt
<1> HIDE DEF lens, bytes, p, m
<1>5. SumFunction(SubSeq(lens, 1, p)) = SumOn(lens, 1 .. p)
  BY <1>1, <1>2, FirstsCut DEF m
<1>6. i \in 1 .. m /\ i - 1 = p
  BY <1>2
<1>7. StringsOf(call.src[s])[i] = Cut(bytes, bytePosition[s], lens[i])
  <2> HIDE DEF i
  <2> QED
    BY <1>3, <1>4, <1>5, <1>6
<1>8. ASSUME SumsMatch(call.src[s]) PROVE bytePosition[s] + lens[i] <= Len(bytes)
  <2>1. /\ SumOn(lens, 1 .. i) = SumOn(lens, 1 .. i - 1) + lens[i]
        /\ SumOn(lens, 1 .. i) <= Len(bytes)
    <3> HIDE DEF i
    <3> QED
      BY <1>1, <1>6, <1>8, StringsFit DEF lens, bytes, m
  <2> QED
    BY <1>3, <1>5, <1>6, <2>1
<1> QED
  BY <1>7, <1>8 DEF lens, bytes, p

(* A source that runs out is one that the indices select too often.        *)
LEMMA RefusesSelection ==
  ASSUME CallAssumption, BoundAssumption, StringInv, stage = "loop", DispatchMade,
         call.kind \in {"strings", "serial"}, index <= Length, NEW s, s = call.idx[index],
         ~HasString(s)
  PROVE  ~Accepted
<1> SUFFICES ASSUME Accepted PROVE FALSE
  OBVIOUS
<1> DEFINE n == index - 1
<1>1. /\ call \in Calls /\ Dispatches /\ index \in Nat \ {0} /\ call.idx \in Seq(Nat)
  <2>1. call \in Calls /\ index \in Nat \ {0}
    BY DEF StringInv, TypeOK
  <2> QED
    BY <2>1, CallFacts DEF Dispatches
<1>2. Length \in Nat /\ DOMAIN call.idx = 1 .. Length
  BY <1>1, SeqOfNumbers DEF Length
<1>3. n \in Nat /\ n + 1 = index /\ index \in 1 .. Length
  BY <1>1, <1>2
<1>4. s \in DOMAIN call.src /\ SumsMatch(call.src[s])
      /\ Cardinality(Uses(s, Length)) = Len(call.src[s].lens)
  <2>1. s \in DOMAIN call.src
    BY <1>2, <1>3 DEF Accepted
  <2> QED
    BY <2>1 DEF Accepted
<1>5. position[s] = Cardinality(Uses(s, n))
  BY <1>1, <1>4 DEF DispatchMade
<1> HIDE DEF n
<1>6. Cardinality(Uses(s, n + 1)) = Cardinality(Uses(s, n)) + 1 /\ Cardinality(Uses(s, n)) \in Nat
  BY <1>3, UsesCounted
<1>7. Cardinality(Uses(s, n + 1)) <= Cardinality(Uses(s, Length))
  BY <1>2, <1>3, UsesGrow
<1>8. position[s] < Len(call.src[s].lens)
  BY <1>4, <1>5, <1>6, <1>7, SMTT(30)
<1>9. bytePosition[s] + call.src[s].lens[position[s] + 1] <= Len(call.src[s].bytes)
  BY <1>4, <1>8, SourceAt
<1> QED
  BY <1>4, <1>8, <1>9 DEF HasString, StringLength

(* What is taken is what is selected.                                      *)
LEMMA SelectionTaken ==
  ASSUME CallAssumption, BoundAssumption, StringInv, stage = "loop", DispatchMade, Dispatches,
         index <= Length, NEW s, s = call.idx[index], HasString(s)
  PROVE  Cut(call.src[s].bytes, bytePosition[s], StringLength(s)) = Selection(index)
<1> DEFINE n == index - 1
<1>1. index \in Nat \ {0} /\ s \in DOMAIN call.src
  BY DEF StringInv, TypeOK, HasString
<1>2. CASE call.kind = "tags"
  <2>1. bytePosition[s] = SumOn(call.sizes, Uses(s, index - 1))
    BY <1>1, <1>2 DEF StringInv, LoopInv, TagsDone
  <2> QED
    BY <1>2, <2>1 DEF Selection, StringLength, SumOn
<1>3. CASE call.kind # "tags"
  <2>1. n \in Nat /\ n + 1 = index
    BY <1>1
  <2>2. position[s] = Cardinality(Uses(s, n))
    BY <1>1, <1>3 DEF DispatchMade
  <2> HIDE DEF n
  <2>3. Cardinality(Uses(s, index)) = position[s] + 1
    BY <2>1, <2>2, UsesCounted
  <2>4. position[s] < Len(call.src[s].lens) /\ call.kind \in {"strings", "serial"}
    BY <1>3 DEF HasString, Dispatches
  <2>5. StringsOf(call.src[s])[position[s] + 1] =
          Cut(call.src[s].bytes, bytePosition[s], call.src[s].lens[position[s] + 1])
    BY <1>1, <2>4, SourceAt
  <2> QED
    BY <1>3, <2>3, <2>5 DEF Selection, StringLength
<1> QED
  BY <1>2, <1>3

(* The string taken is the next one of the output.                         *)
LEMMA SelectedRestores ==
  ASSUME CallAssumption, BoundAssumption, RestoreInv, TakeSelected
  PROVE  Restored'
<1>1. stage = "loop" /\ Dispatches /\ index <= Length
  BY DEF TakeSelected, Dispatches, Length
<1>2. /\ StringInv /\ call \in Calls /\ index \in Nat \ {0} /\ DispatchMade /\ OneMade /\ TypeOK
      /\ Restored
  BY <1>1 DEF RestoreInv, StringInv, TypeOK, Restored, Made
<1> DEFINE s == Selected
           len == StringLength(s)
           new == Cut(call.src[s].bytes, bytePosition[s], len)
           n == index - 1
<1>3. s = call.idx[index]
  BY <1>1, <1>2, SelectedIs
<1>4. CASE ~HasString(s)
  <2>1. call.kind # "tags"
    BY <1>1, <1>2, <1>4, TagFits DEF Length
  <2>2. Refuse("Malformed")
    BY <1>4, <2>1 DEF TakeSelected
  <2>3. ~Accepted
    <3>1. call.kind \in {"strings", "serial"}
      BY <1>1, <2>1 DEF Dispatches
    <3> HIDE DEF s
    <3> QED
      BY <1>1, <1>2, <1>3, <1>4, <3>1, RefusesSelection
  <2> QED
    BY <2>2, <2>3, StopRestores
<1>5. CASE HasString(s)
  <2> DEFINE held == Len(outs[1].bytes) +
                IF call.kind = "serial" /\ WritesChunk(s, len) /\ ~Separator(s, len)
                THEN CopyChunk ELSE len
             dest == IF call.kind = "strings" THEN Add(outs[1], new) ELSE Held(outs[1], new, held)
  <2>1. /\ outs' = <<dest>> /\ position' = TakenAfter(s)
        /\ csvRow' = IF csvRow = Len(CsvPattern) \/ csvRow = 0 THEN 0 ELSE csvRow + 1
        /\ index' = index + 1 /\ UNCHANGED <<call, stage, outcome>>
    BY <1>5 DEF TakeSelected
  <2>2. /\ s \in DOMAIN call.src /\ len \in Nat /\ new \in Seq(Nat) /\ Len(new) = len
    <3> HIDE DEF s, len, new
    <3>1. s = Selected /\ len = StringLength(s)
          /\ new = Cut(call.src[s].bytes, bytePosition[s], len) /\ index <= Len(call.idx)
      BY <1>1 DEF s, len, new, Length
    <3> QED
      BY <1>1, <1>2, <1>5, <3>1, StringTaken
  <2>3. new = Selection(index)
    <3> HIDE DEF s
    <3> QED
      BY <1>1, <1>2, <1>3, <1>5, SelectionTaken
  <2>4. /\ outs[1] \in Output /\ Len(outs[1].bytes) \in Nat /\ call.base \in Nat
    BY <1>1, <1>2, OneOutput DEF Dispatches
  <2> HIDE DEF s, len, new
  <2>5. dest.bytes = outs[1].bytes \o new
        /\ (call.kind \notin {"serial", "tags"} => dest.lens = Append(outs[1].lens, Len(new)))
    <3>1. CASE call.kind = "strings"
      BY <2>2, <2>4, <3>1, AddFacts
    <3>2. CASE call.kind # "strings"
      <4>1. held \in Nat
        BY <2>2, <2>4 DEF BoundAssumption
      <4>2. dest = Held(outs[1], new, held) /\ call.kind \in {"serial", "tags"}
        BY <1>1, <3>2 DEF Dispatches
      <4> HIDE DEF held, dest
      <4> QED
        BY <2>2, <2>4, <4>1, <4>2, HeldFacts
    <3> QED
      BY <3>1, <3>2
  <2> HIDE DEF dest
  <2>6. n \in Nat /\ n + 1 = index /\ index' - 1 = index
    BY <1>2, <2>1
  <2> HIDE DEF n
  <2>7. Length \in Nat /\ index \in 1 .. Length
    <3>1. Length \in Nat
      BY <1>2, CallFacts, SeqOfNumbers DEF Length
    <3> QED
      BY <1>1, <1>2, <3>1
  <2>8. Contents[1][n + 1] = new
    BY <1>1, <2>3, <2>6, <2>7, ContentsOf
  <2>9. OneMade'
    <3>1. StringsMade(outs[1], Contents[1], n)
      BY <1>1, <1>2 DEF OneMade, n
    <3>2. StringsMade(dest, Contents[1], n + 1)
      BY <2>2, <2>4, <2>5, <2>6, <2>8, <3>1, OneMoreMade
    <3> QED
      BY <2>1, <2>6, <3>2, OneMadeOn
  <2>10. DispatchMade'
    <3>1. Length' = Length /\ call' = call
      BY <2>1, SameContents
    <3>2. index' <= Length' + 1
      BY <1>1, <1>2, <2>1, <2>7, <3>1
    <3>3. \A i \in 1 .. index' - 1 : call'.idx[i] \in DOMAIN call'.src
      <4> SUFFICES ASSUME NEW i \in 1 .. index PROVE call.idx[i] \in DOMAIN call.src
        BY <2>6, <3>1
      <4>1. i = index \/ i \in 1 .. n
        BY <1>2, <2>6
      <4>2. \A k \in 1 .. n : call.idx[k] \in DOMAIN call.src
        BY <1>1, <1>2 DEF DispatchMade, n
      <4> QED
        BY <1>3, <2>2, <4>1, <4>2
    <3>4. ASSUME NEW y \in DOMAIN call.src, call.kind # "tags"
          PROVE  position'[y] = Cardinality(Uses(y, index - 1)')
      <4>1. position[y] = Cardinality(Uses(y, n))
        BY <1>1, <1>2, <3>4 DEF DispatchMade, n
      <4>2. /\ position[y] \in Nat
            /\ Cardinality(Uses(y, n + 1)) =
                 IF call.idx[n + 1] = y THEN position[y] + 1 ELSE position[y]
        <5>1. /\ Cardinality(Uses(y, n)) \in Nat
              /\ Cardinality(Uses(y, n + 1)) =
                   Cardinality(Uses(y, n)) + IF call.idx[n + 1] = y THEN 1 ELSE 0
          BY <2>6, UsesCounted
        <5> QED
          BY <4>1, <5>1
      <4>3. Uses(y, index - 1)' = Uses(y, n + 1)
        BY <2>1, <2>6 DEF Uses
      <4>4. DOMAIN position = DOMAIN call.src
        BY <1>2 DEF TypeOK
      <4>5. position'[y] = IF y = s THEN position[y] + 1 ELSE position[y]
        BY <2>1, <3>4, <4>4 DEF TakenAfter
      <4>6. call.idx[n + 1] = s
        BY <1>3, <2>6
      <4> QED
        BY <4>2, <4>3, <4>5, <4>6
    <3>5. RowGoesOn'
      <4> DEFINE row == Len(CsvPattern)
      <4>1. csvRow \in 0 .. row /\ row \in Nat
        <5>1. CsvPattern \in Seq(1 .. CsvSources)
          BY DEF BoundAssumption
        <5> QED
          BY <1>2, <5>1, LenProperties DEF TypeOK
      <4> SUFFICES ASSUME csvRow' > 0
                   PROVE  /\ index' + (row - csvRow') <= Length
                          /\ \A k \in csvRow' .. row :
                               call.idx[index' + (k - csvRow')] = CsvPattern[k]
        BY <3>1 DEF RowGoesOn
      <4>2. csvRow' = csvRow + 1 /\ csvRow > 0 /\ csvRow < row
        BY <2>1, <4>1
      <4>3. /\ index + (row - csvRow) <= Length
            /\ \A k \in csvRow .. row : call.idx[index + (k - csvRow)] = CsvPattern[k]
        BY <1>1, <1>2, <4>2 DEF DispatchMade, RowGoesOn
      <4> HIDE DEF row
      <4>4. index' + (row - csvRow') <= Length
        BY <1>2, <2>1, <2>7, <4>1, <4>2, <4>3
      <4>5. ASSUME NEW k \in csvRow' .. row
            PROVE  call.idx[index' + (k - csvRow')] = CsvPattern[k]
        <5>1. k \in csvRow .. row /\ index' + (k - csvRow') = index + (k - csvRow)
          BY <1>2, <2>1, <4>1, <4>2
        <5> QED
          BY <4>3, <5>1
      <4> QED
        BY <4>4, <4>5
    <3>6. \A y \in DOMAIN call'.src : call'.kind # "tags" =>
            position'[y] = Cardinality(Uses(y, index - 1)')
      BY <3>1, <3>4
    <3> QED
      BY <3>2, <3>3, <3>5, <3>6 DEF DispatchMade
  <2>11. Made'
    <3>1. call.kind \notin {"interleave", "concat", "components"}
      BY <1>1 DEF Dispatches
    <3> QED
      BY <2>1, <2>9, <2>10, <3>1, OthersMade DEF Made
  <2> QED
    BY <1>1, <1>2, <2>1, <2>11, LoopRestores
<1> QED
  BY <1>4, <1>5

-----------------------------------------------------------------------------
(* The loops over the strings of one source.                               *)

(* The last of the strings made so far is the end of the output.           *)
LEMMA LastMade ==
  ASSUME call.base = 0, NEW dest, NEW content, NEW n \in Nat \ {0}, StringsMade(dest, content, n)
  PROVE  \E s \in Seq(Nat) : content[n] \in Seq(Nat) /\ dest.bytes = s \o content[n]
<1> DEFINE k == n - 1
           u == Firsts(content, k)
           t == Firsts(content, k + 1)
<1>1. k \in Nat /\ k + 1 = n
  OBVIOUS
<1>2. t \in Seq(Seq(Nat)) /\ dest.bytes = OldBytes \o FlattenSeq(t)
  BY <1>1 DEF StringsMade
<1> HIDE DEF k
<1>3. t = [i \in 1 .. k + 1 |-> content[i]] /\ u = [i \in 1 .. k |-> content[i]]
  BY DEF Firsts
<1>4. Len(t) = k + 1 /\ t[k + 1] = content[k + 1] /\ content[k + 1] \in Seq(Nat)
  <2>1. DOMAIN t = 1 .. k + 1 /\ t[k + 1] = content[k + 1]
    BY <1>1, <1>3
  <2> HIDE DEF t
  <2>2. Len(t) = k + 1
    BY <1>1, <1>2, <2>1, LenProperties
  <2>3. t[k + 1] \in Seq(Nat)
    <3>1. k + 1 \in 1 .. Len(t)
      BY <1>1, <2>2
    <3> QED
      BY <1>2, <3>1, ElementOfSeq
  <2> QED
    BY <2>1, <2>2, <2>3
<1> HIDE DEF t
<1>5. Firsts(t, k) = u /\ Firsts(t, k + 1) = t
  <2>1. \A i \in 1 .. k : t[i] = u[i]
    BY <1>1, <1>3
  <2>2. Firsts(t, k) = [i \in 1 .. k |-> t[i]]
    BY DEF Firsts
  <2>3. [i \in 1 .. k |-> t[i]] = [i \in 1 .. k |-> content[i]]
    BY <1>1, <1>3
  <2>4. Firsts(t, k + 1) = t
    BY <1>2, <1>4, FirstsFacts
  <2> QED
    BY <1>3, <2>2, <2>3, <2>4
<1>6. FlattenSeq(t) = FlattenSeq(u) \o content[k + 1]
  <2>1. FlattenSeq(Firsts(t, k + 1)) = FlattenSeq(Firsts(t, k)) \o t[k + 1]
    <3>1. k < Len(t)
      BY <1>1, <1>4
    <3> QED
      BY <1>1, <1>2, <3>1, FlattenFirsts
  <2> QED
    BY <1>4, <1>5, <2>1
<1>7. u \in Seq(Seq(Nat)) /\ FlattenSeq(u) \in Seq(Nat)
  <2>1. k <= Len(t)
    BY <1>1, <1>4
  <2>2. u \in Seq(Seq(Nat))
    BY <1>1, <1>2, <1>5, <2>1, FirstsFacts
  <2> QED
    BY <2>2, FlattenType
<1>8. dest.bytes = FlattenSeq(t)
  <2>1. OldBytes = <<>> /\ FlattenSeq(t) \in Seq(Nat)
    BY <1>2, BeforeTyped, FlattenType
  <2> QED
    BY <1>2, <2>1, ConcatEmptySeq
<1> QED
  BY <1>1, <1>4, <1>6, <1>7, <1>8

(* One string of one source, at the end of the only output.                *)
LEMMA StringAdded ==
  ASSUME CallAssumption, RestoreInv, stage = "loop", call.kind \in {"prefix", "tokenize"},
         NEW new \in Seq(Nat), new = Contents[1][index], outs' = <<Add(outs[1], new)>>,
         index' = index + 1, UNCHANGED <<call, stage, csvRow, position, outcome>>
  PROVE  Restored'
<1> DEFINE n == index - 1
           dest == Add(outs[1], new)
<1>1. StringInv /\ call \in Calls /\ index \in Nat \ {0} /\ OneMade /\ ~Dispatches /\ Restored
  BY DEF RestoreInv, StringInv, TypeOK, Restored, Made, Dispatches
<1>2. outs[1] \in Output /\ call.base \in Nat
  BY <1>1, OneOutput
<1>3. dest.bytes = outs[1].bytes \o new /\ dest.lens = Append(outs[1].lens, Len(new))
  BY <1>2, AddFacts
<1>4. n \in Nat /\ n + 1 = index /\ index' - 1 = n + 1
  BY <1>1
<1>5. StringsMade(outs[1], Contents[1], n)
  BY <1>1 DEF OneMade
<1> HIDE DEF n, dest
<1>6. StringsMade(dest, Contents[1], n + 1)
  BY <1>2, <1>3, <1>4, <1>5, OneMoreMade
<1>7. OneMade'
  BY <1>4, <1>6, OneMadeOn DEF dest
<1>8. Made'
  BY <1>1, <1>7, OthersMade DEF Made
<1> QED
  BY <1>1, <1>8, LoopRestores

(* prefix: the match is the head of the string before.                     *)
LEMMA SuffixRestores ==
  ASSUME CallAssumption, BoundAssumption, RestoreInv, TakeSuffix, StringInv'
  PROVE  Restored'
<1>1. stage = "loop" /\ call.kind = "prefix" /\ index <= Len(Strings) /\ outcome' # "Redundant"
  BY DEF TakeSuffix, StringInv
<1>2. /\ StringInv /\ call \in Calls /\ InputsFit /\ PrefixDone /\ index \in Nat \ {0}
      /\ OneMade
  BY <1>1 DEF RestoreInv, StringInv, LoopInv, TypeOK, Restored, Made
<1> DEFINE n == index - 1
           old == outs[1].bytes
           match == call.idx[index]
           rest == Strings[index]
           last == Prefixed[n]
           content == Contents[1]
           head == Cut(old, PreviousStart, match)
           tail == Cut(Bytes, bytePosition[1], rest)
<1>3. Length \in Nat /\ Length = Len(Strings) /\ SumsMatch(call.src[1])
      /\ \A i \in 1 .. Length : MatchFits(i)
  BY <1>1, <1>2, PrefixFacts DEF Length
<1>4. n \in Nat /\ n + 1 = index /\ index \in 1 .. Length
  BY <1>1, <1>2, <1>3
<1>5. /\ match <= Len(last) /\ PrefixedIs(n) /\ PrefixedIs(index)
      /\ Prefixed[index] = SubSeq(last, 1, match) \o StringsOf(call.src[1])[index]
  BY <1>1, <1>2, <1>3, <1>4, PrefixedFits
<1>6. content = [i \in 1 .. Length |-> Prefixed[i]]
  BY <1>1, ContentsOf
<1>7. StringsMade(outs[1], content, n) /\ call.base = 0 /\ match \in Nat
  BY <1>1, <1>2, <1>4, CallFacts, PrefixFacts DEF OneMade, Length
<1>8. last \in Seq(Nat) /\ old \in Seq(Nat) /\ Prefixed[index] \in Seq(Nat)
  BY <1>1, <1>2, <1>5, OneOutput DEF PrefixedIs
<1>9. \E s \in Seq(Nat) : old = s \o last /\ PreviousStart = Len(s)
  <2>1. CASE n = 0
    <3>1. last = <<>> /\ index = 1
      BY <1>3, <1>4, <2>1, PrefixedUnfolds
    <3>2. old = old \o last
      BY <1>8, <3>1, ConcatEmptySeq
    <3>3. PreviousStart = Len(old)
      BY <1>8, <3>1, LenProperties DEF PreviousStart
    <3> QED
      BY <1>8, <3>2, <3>3
  <2>2. CASE n # 0
    <3>1. PICK s \in Seq(Nat) : old = s \o content[n]
      <4>1. n \in Nat \ {0}
        BY <1>4, <2>2
      <4> HIDE DEF n, content, old
      <4>2. call.base = 0 /\ StringsMade(outs[1], content, n)
        BY <1>7
      <4>3. \E s \in Seq(Nat) : content[n] \in Seq(Nat) /\ outs[1].bytes = s \o content[n]
        <5> DEFINE dest == outs[1]
        <5>1. StringsMade(dest, content, n)
          BY <4>2
        <5> HIDE DEF dest
        <5>2. \E s \in Seq(Nat) : content[n] \in Seq(Nat) /\ dest.bytes = s \o content[n]
          BY <4>1, <4>2, <5>1, LastMade
        <5> QED
          BY <5>2 DEF dest
      <4> QED
        BY <4>3 DEF old
    <3>2. n \in 1 .. Length /\ n \in 1 .. n
      BY <1>3, <1>4, <2>2
    <3>3. content[n] = last
      BY <1>6, <3>2
    <3>4. outs[1].lens[n] = Len(last)
      <4>1. outs[1].lens = [i \in 1 .. n |-> Len(content[i])]
        BY <1>1, <1>7 DEF StringsMade
      <4> QED
        BY <3>2, <3>3, <4>1
    <3>5. PreviousStart = Len(old) - Len(last)
      <4>1. index # 1
        BY <1>4, <2>2
      <4> QED
        BY <3>4, <4>1 DEF PreviousStart
    <3>6. Len(old) = Len(s) + Len(last) /\ Len(s) \in Nat /\ Len(last) \in Nat
      <4> HIDE DEF last, old, content
      <4> QED
        BY <1>8, <3>1, <3>3, ConcatProperties, LenProperties
    <3>7. PreviousStart = Len(s)
      BY <3>5, <3>6
    <3> QED
      BY <3>1, <3>3, <3>7
  <2> QED
    BY <2>1, <2>2
<1>10. head = SubSeq(last, 1, match)
  <2>1. PICK s \in Seq(Nat) : old = s \o last /\ PreviousStart = Len(s)
    BY <1>9
  <2>2. Cut(s \o last, Len(s), match) = SubSeq(last, 1, match)
    <3> HIDE DEF last, match
    <3> QED
      BY <1>5, <1>7, <1>8, CutBehind
  <2> QED
    BY <2>1, <2>2
<1>11. tail = StringsOf(call.src[1])[index]
  <2>1. StringsOf(call.src[1]) =
          [i \in 1 .. Len(call.src[1].lens) |->
             Cut(call.src[1].bytes, SumOn(call.src[1].lens, 1 .. i - 1), call.src[1].lens[i])]
    <3>1. call.src[1].lens \in Seq(Nat)
      BY <1>1, <1>2, CallFacts DEF Dispatches
    <3> QED
      BY <3>1, StringAt
  <2>2. bytePosition[1] = SumOn(Strings, 1 .. index - 1)
    BY <1>1, <1>2 DEF PrefixDone
  <2> QED
    BY <1>3, <1>4, <2>1, <2>2 DEF Strings, Bytes
<1>12. head \o tail = content[index] /\ head \o tail \in Seq(Nat)
  BY <1>4, <1>5, <1>6, <1>8, <1>10, <1>11
<1>13. outs' = <<Add(outs[1], head \o tail)>> /\ TakeBytes(rest)
  BY <1>1 DEF TakeSuffix, Refuse
<1> HIDE DEF head, tail
<1>14. index' = index + 1 /\ UNCHANGED <<call, stage, csvRow, position, outcome>>
  BY <1>13 DEF TakeBytes
<1> QED
  BY <1>1, <1>12, <1>13, <1>14, StringAdded

(* tokenize: each token gives its string of the alphabet.                  *)
LEMMA TokenRestores ==
  ASSUME CallAssumption, BoundAssumption, RestoreInv, TakeToken, StringInv'
  PROVE  Restored'
<1>1. stage = "loop" /\ call.kind = "tokenize" /\ index <= Len(call.idx)
      /\ outcome' # "Redundant"
  BY DEF TakeToken, StringInv
<1>2. call \in Calls /\ InputsFit /\ index \in Nat \ {0}
  BY <1>1 DEF RestoreInv, StringInv, LoopInv, TypeOK
<1> DEFINE t == call.idx[index]
           new == Cut(Bytes, TokenStart(t), Strings[t])
           all == StringsOf(call.src[1])
<1>3. /\ Length \in Nat /\ index \in 1 .. Length /\ t \in DOMAIN Strings
      /\ SumsMatch(call.src[1])
  <2>1. /\ Len(call.idx) \in Nat /\ SumsMatch(call.src[1])
        /\ \A i \in 1 .. Len(call.idx) : call.idx[i] \in DOMAIN Strings
    BY <1>1, <1>2, TokenFacts
  <2>2. index \in 1 .. Len(call.idx)
    BY <1>1, <1>2, <2>1
  <2> QED
    BY <2>1, <2>2 DEF Length
<1>4. call.src[1].lens \in Seq(Nat) /\ call.src[1].bytes \in Seq(Nat)
  BY <1>1, <1>2, CallFacts DEF Dispatches
<1>5. new = all[t]
  BY <1>3 DEF StringsOf, TokenStart, Strings, Bytes
<1>6. all[t] \in Seq(Nat)
  <2>1. all \in Seq(Seq(Nat)) /\ Len(all) = Len(call.src[1].lens)
    BY <1>3, <1>4, StringsFit
  <2>2. t \in 1 .. Len(call.src[1].lens)
    BY <1>3, <1>4, LenProperties DEF Strings
  <2> HIDE DEF all, t
  <2> QED
    BY <2>1, <2>2, ElementOfSeq
<1>7. new = Contents[1][index] /\ new \in Seq(Nat)
  <2>1. Contents[1] = [i \in 1 .. Length |-> all[call.idx[i]]]
    BY <1>1, ContentsOf
  <2> QED
    BY <1>3, <1>5, <1>6, <2>1
<1>8. outs' = <<Add(outs[1], new)>> /\ TakeBytes(0)
  BY <1>1 DEF TakeToken, Refuse
<1> HIDE DEF new
<1>9. index' = index + 1 /\ UNCHANGED <<call, stage, csvRow, position, outcome>>
  BY <1>8 DEF TakeBytes
<1> QED
  BY <1>1, <1>7, <1>8, <1>9, StringAdded

(* separate_string_components: the lengths cut the content up.             *)
LEMMA AllRestores ==
  ASSUME CallAssumption, BoundAssumption, RestoreInv, TakeAll, StringInv'
  PROVE  Restored'
<1>1. stage = "loop" /\ call.kind = "components" /\ index = 1
  BY DEF TakeAll
<1>2. call \in Calls /\ InputsFit /\ ComponentsDone /\ StringInv /\ Restored
  BY <1>1 DEF RestoreInv, StringInv, LoopInv
<1> DEFINE stream == [lens |-> call.sizes, bytes |-> Bytes]
           held == Held(outs[1], Bytes, Len(Bytes))
           dest == [held EXCEPT !.lens = call.sizes]
           content == Contents[1]
           m == Len(call.sizes)
           some == Cut(StringsOf(stream), 0, m)
<1>3. /\ Bytes \in Seq(Nat) /\ ~Dispatches /\ call.base = 0 /\ call.sizes \in Seq(Nat)
      /\ SumsMatch(stream) /\ stream.lens = call.sizes /\ stream.bytes = Bytes
  BY <1>1, <1>2, CallFacts DEF Dispatches, InputsFit, ComponentsFit, SumsMatch
<1>4. Len(Bytes) \in Nat /\ m \in Nat /\ DOMAIN call.sizes = 1 .. m
      /\ \A i \in DOMAIN call.sizes : call.sizes[i] \in Nat
  BY <1>3, SeqOfNumbers
<1>5. outs[1] \in Output /\ outs[1].bytes = <<>>
  BY <1>1, <1>2, OneOutput DEF ComponentsDone
<1>6. dest.bytes = Bytes /\ dest.lens = call.sizes
  <2>1. held.bytes = outs[1].bytes \o Bytes /\ held \in Output
    BY <1>3, <1>4, <1>5, HeldFacts
  <2>2. held.bytes = Bytes
    BY <1>3, <1>5, <2>1, ConcatEmptySeq
  <2> HIDE DEF held
  <2> QED
    BY <2>1, <2>2 DEF Output
<1>7. content = StringsOf(stream)
  BY <1>1, ContentsOf
<1> HIDE DEF stream, dest, content
<1>8. /\ StringsOf(stream) \in Seq(Seq(Nat)) /\ Len(StringsOf(stream)) = m
      /\ \A i \in 1 .. m : Len(StringsOf(stream)[i]) = call.sizes[i]
  BY <1>3, StringsFit
<1>9. /\ some \in Seq(Seq(Nat)) /\ Len(some) = m
      /\ FlattenSeq(some) = Cut(Bytes, SumOn(call.sizes, 1 .. 0),
                                SumOn(call.sizes, 1 .. (0 + m)) - SumOn(call.sizes, 1 .. 0))
  <2>1. 0 + m <= Len(stream.lens) /\ 0 \in Nat
    BY <1>3, <1>4
  <2> HIDE DEF m
  <2>2. /\ Cut(StringsOf(stream), 0, m) \in Seq(Seq(Nat))
        /\ Len(Cut(StringsOf(stream), 0, m)) = m
        /\ FlattenSeq(Cut(StringsOf(stream), 0, m)) =
              Cut(stream.bytes, SumOn(stream.lens, 1 .. 0),
                  SumOn(stream.lens, 1 .. (0 + m)) - SumOn(stream.lens, 1 .. 0))
    BY <1>3, <1>4, <2>1, StringsJoin, SMTT(30)
  <2> QED
    BY <1>3, <2>2
<1>10. some = content /\ Firsts(content, m) = content
  <2>1. some = [i \in 1 .. m |-> StringsOf(stream)[0 + i]]
    <3> DEFINE all == StringsOf(stream)
               U == Seq(Nat)
    <3>1. all \in Seq(U) /\ 0 \in Nat /\ 0 + m <= Len(all)
      BY <1>4, <1>8
    <3> HIDE DEF all, m, U
    <3>2. Cut(all, 0, m) = [i \in 1 .. m |-> all[0 + i]]
      BY <1>4, <3>1, CutTyped
    <3> QED
      BY <3>2 DEF all
  <2> HIDE DEF some, m
  <2>2. \A i \in 1 .. m : some[i] = content[i]
    BY <1>4, <1>7, <2>1
  <2>3. Firsts(content, m) = content
    BY <1>4, <1>7, <1>8, FirstsFacts
  <2>4. some = content
    BY <1>7, <1>8, <1>9, <2>2
  <2> QED
    BY <2>3, <2>4
<1>11. FlattenSeq(content) = Bytes
  <2>1. /\ SumOn(call.sizes, 1 .. 0) = 0 /\ SumFunction(call.sizes) = SumOn(call.sizes, 1 .. m)
    BY <1>4, FirstSums
  <2>2. SumOn(call.sizes, 1 .. (0 + m)) = Len(Bytes)
    <3>1. 0 + m = m
      BY <1>4
    <3>2. SumFunction(call.sizes) = Len(Bytes)
      BY <1>3 DEF SumsMatch
    <3> QED
      BY <2>1, <3>1, <3>2
  <2>3. FlattenSeq(content) = Cut(Bytes, 0, Len(Bytes) - 0)
    BY <1>9, <1>10, <2>1, <2>2
  <2>4. Cut(Bytes, 0, Len(Bytes)) = Bytes
    <3>1. Cut(Bytes, 0, Len(Bytes)) = SubSeq(Bytes, 1, Len(Bytes))
      BY <1>4 DEF Cut
    <3> QED
      BY <1>3, <3>1, SubSeqFull
  <2> QED
    BY <1>4, <2>3, <2>4
<1>12. StringsMade(dest, content, m)
  <2>1. OldBytes = <<>> /\ OldBytes \o Bytes = Bytes
    BY <1>3, BeforeTyped, ConcatEmptySeq
  <2>2. call.sizes = [i \in 1 .. m |-> call.sizes[i]]
    BY <1>3, <1>4
  <2>3. call.sizes = [i \in 1 .. m |-> Len(content[i])]
    BY <1>7, <1>8, <2>2
  <2> QED
    BY <1>6, <1>7, <1>8, <1>10, <1>11, <2>1, <2>3 DEF StringsMade
<1>13. outs' = <<dest>> /\ TakeBytes(Len(Bytes))
  BY DEF TakeAll, dest
<1>14. index' = 2 /\ UNCHANGED <<call, stage, csvRow, position, outcome>>
  BY <1>1, <1>13 DEF TakeBytes
<1>15. ComponentsMade'
  <2>1. Contents'[1] = content /\ OldBytes' = OldBytes /\ outs'[1] = dest /\ Len(call'.sizes) = m
    BY <1>13, <1>14, SameContents DEF content
  <2>2. StringsMade(outs[1], Contents[1], Len(call.sizes))'
    BY <1>12, <1>14, <2>1 DEF StringsMade
  <2> QED
    BY <1>14, <2>2 DEF ComponentsMade
<1>16. Made'
  BY <1>1, <1>3, <1>14, <1>15, OthersMade DEF Made
<1> QED
  BY <1>1, <1>2, <1>14, <1>16, LoopRestores

(* interleave: the output in turn gets its next string.                    *)
LEMMA DealRestores ==
  ASSUME CallAssumption, BoundAssumption, RestoreInv, Deal, StringInv'
  PROVE  Restored'
<1>1. stage = "loop" /\ call.kind = "interleave" /\ index <= Len(Strings)
      /\ outcome' # "Redundant"
  BY DEF Deal, StringInv
<1>2. /\ call \in Calls /\ InputsFit /\ ~TooLarge /\ DealDone /\ Capacities /\ DealMade /\ Restored
      /\ index \in Nat \ {0} /\ outs \in Seq(Output) /\ outs # <<>>
  <2>1. /\ call \in Calls /\ InputsFit /\ ~TooLarge /\ DealDone /\ Capacities /\ DealMade
        /\ Restored /\ index \in Nat \ {0} /\ outs \in Seq(Output)
    BY <1>1 DEF RestoreInv, StringInv, LoopInv, TypeOK, Restored, Made
  <2>2. Room # <<>> /\ Room \in Seq(Output) /\ Len(outs) = Len(Room)
    BY <1>1, <2>1, RoomFacts DEF Capacities
  <2>3. Len(Room) # 0 /\ Len(<<>>) = 0
    BY <2>2, EmptySeq
  <2> QED
    BY <2>1, <2>2, <2>3
<1> DEFINE n == index - 1
           c == call.count
           all == StringsOf(call.src[1])
           q == Len(Strings) \div c
           o == (n % c) + 1
           new == Cut(Bytes, bytePosition[1], Strings[index])
           dest == Add(outs[o], new)
           content == Contents[o]
           k == Share(c, o, n)
<1>3. c \in Nat \ {0} /\ Len(Strings) % c = 0 /\ SumsMatch(call.src[1])
  <2>1. call.count \in Nat /\ call.count > 0
    BY <1>1, <1>2, CallFacts DEF InputsFit
  <2> QED
    BY <1>1, <1>2, <2>1 DEF InputsFit, TooLarge, InterleaveFits
<1>4. /\ call.src[1].lens \in Seq(Nat) /\ call.src[1].bytes \in Seq(Nat) /\ call.base = 0
      /\ Strings \in Seq(Nat) /\ ~Dispatches
  BY <1>1, <1>2, CallFacts DEF Dispatches
<1>5. Len(Strings) \in Nat /\ n \in Nat /\ n + 1 = index /\ index \in 1 .. Len(Strings)
  <2>1. Len(Strings) \in Nat
    BY <1>4, LenProperties
  <2> QED
    BY <1>1, <1>2, <2>1
<1> HIDE DEF n, c
<1>6. n % c \in 0 .. c - 1 /\ o \in 1 .. c /\ n % c = o - 1
  <2> DEFINE r == n % c
  <2>1. r \in 0 .. c - 1
    BY <1>3, <1>5, ModRange
  <2> HIDE DEF r
  <2>2. r + 1 \in 1 .. c /\ r = (r + 1) - 1
    BY <1>3, <2>1
  <2> QED
    BY <2>1, <2>2 DEF r
<1> HIDE DEF o
<1>7. DOMAIN outs = 1 .. c /\ \A p \in 1 .. c : outs[p] \in Output
  <2>1. Len(Room) = c
    BY <1>1, <1>2, RoomFacts DEF c
  <2>2. Len(outs) = c
    BY <1>1, <1>2, <2>1 DEF Capacities
  <2> QED
    BY <1>2, <2>2, LenProperties, ElementOfSeq
<1>8. k \in Nat /\ Share(c, o, n + 1) = k + 1 /\ k * c + o = n + 1
  <2>1. c \in Nat \ {0} /\ o \in 1 .. c
    BY <1>3, <1>6
  <2>2. /\ Share(c, o, n) \in Nat
        /\ n % c = o - 1 => Share(c, o, n + 1) = Share(c, o, n) + 1
        /\ n % c = o - 1 => Share(c, o, n) * c + o = n + 1
    BY <1>5, <2>1, Shares, ZenonT(60)
  <2> QED
    BY <1>6, <2>2
<1> HIDE DEF k
<1>9. k + 1 \in 1 .. q
  <2>1. Len(Strings) = c * q /\ q \in Nat
    <3> DEFINE m == Len(Strings)
    <3>1. m \in Nat /\ m % c = 0
      BY <1>3, <1>5
    <3> HIDE DEF m
    <3>2. m % c = m - c * (m \div c)
      BY <1>3, <3>1, Remainder
    <3>3. m \div c \in Nat
      BY <1>3, <3>1, Quotient
    <3>4. c * (m \div c) \in Nat
      BY <1>3, <3>3, Products
    <3> QED
      BY <3>1, <3>2, <3>3, <3>4 DEF m
  <2> HIDE DEF q
  <2>2. c * k \in Nat /\ c * q \in Nat /\ k * c = c * k
    <3>1. k * c = c * k
      BY <1>3, <1>8
    <3> QED
      BY <1>3, <1>8, <2>1, <3>1, Products
  <2>3. c * k < c * q
    <3> DEFINE x == c * k
               y == c * q
    <3>1. x \in Nat /\ y \in Nat /\ x + o = n + 1 /\ n + 1 <= y /\ o \in 1 .. c
      BY <1>5, <1>6, <1>8, <2>1, <2>2
    <3> HIDE DEF x, y
    <3>2. x < y
      BY <1>3, <1>5, <3>1
    <3> QED
      BY <3>2 DEF x, y
  <2>4. ~ (q <= k)
    <3> SUFFICES ASSUME q <= k PROVE FALSE
      OBVIOUS
    <3>1. c * q <= c * k
      BY <1>3, <1>8, <2>1, ProductsOrdered
    <3> QED
      BY <2>2, <2>3, <3>1
  <2> QED
    BY <1>8, <2>1, <2>4
<1>10. content[k + 1] = all[index]
  <2>1. content = [i \in 1 .. q |-> all[(i - 1) * c + o]]
    BY <1>1, <1>6, ContentsOf DEF c
  <2>2. (k + 1) - 1 = k
    BY <1>8
  <2> HIDE DEF content, q, all
  <2>3. content[k + 1] = all[((k + 1) - 1) * c + o]
    BY <1>9, <2>1
  <2> QED
    BY <1>5, <1>8, <2>2, <2>3
<1>11. new = all[index] /\ all[index] \in Seq(Nat)
  <2>1. all = [i \in 1 .. Len(call.src[1].lens) |->
                 Cut(call.src[1].bytes, SumOn(call.src[1].lens, 1 .. i - 1), call.src[1].lens[i])]
    BY <1>4, StringAt
  <2>2. bytePosition[1] = SumOn(Strings, 1 .. index - 1)
    BY <1>1, <1>2 DEF DealDone
  <2>3. all \in Seq(Seq(Nat)) /\ Len(all) = Len(Strings)
    BY <1>3, <1>4, StringsFit DEF Strings
  <2>4. new = all[index]
    BY <1>5, <2>1, <2>2 DEF Strings, Bytes
  <2> HIDE DEF all, new
  <2>5. all[index] \in Seq(Nat)
    BY <1>5, <2>3, ElementOfSeq
  <2> QED
    BY <2>4, <2>5
<1>12. outs' = [outs EXCEPT ![o] = dest] /\ TakeBytes(Strings[index])
  BY <1>1 DEF Deal, Refuse, o, n, c
<1> HIDE DEF new, all
<1>13. dest.bytes = outs[o].bytes \o new /\ dest.lens = Append(outs[o].lens, Len(new))
  <2>1. outs[o] \in Output /\ new \in Seq(Nat)
    BY <1>6, <1>7, <1>11
  <2> QED
    BY <2>1, AddFacts
<1> HIDE DEF dest, content, q
<1>14. index' = index + 1 /\ UNCHANGED <<call, stage, csvRow, position, outcome>>
  BY <1>12 DEF TakeBytes
<1>15. \A p \in 1 .. c : StringsMade(outs[p], Contents[p], Share(c, p, n))
  BY <1>1, <1>2 DEF DealMade, c, n
<1>16. StringsMade(dest, content, k + 1)
  <2>1. StringsMade(outs[o], content, k)
    BY <1>6, <1>15 DEF content, k
  <2> DEFINE start == outs[o]
  <2>2. /\ StringsMade(start, content, k) /\ dest.bytes = start.bytes \o new
        /\ dest.lens = Append(start.lens, Len(new)) /\ new \in Seq(Nat) /\ content[k + 1] = new
        /\ call.base \in Nat
    BY <1>4, <1>10, <1>11, <1>13, <2>1
  <2> HIDE DEF start
  <2> QED
    BY <1>8, <2>2, OneMoreMade
<1>17. DealMade'
  <2>1. /\ call' = call /\ Contents' = Contents /\ OldBytes' = OldBytes /\ index' - 1 = n + 1
    BY <1>5, <1>14, SameContents
  <2>2. ASSUME NEW p \in 1 .. c
        PROVE  StringsMade(outs'[p], Contents[p], Share(c, p, n + 1))
    <3>1. CASE p = o
      <4>1. outs'[o] = dest
        BY <1>6, <1>7, <1>12
      <4> QED
        BY <1>8, <1>16, <3>1, <4>1 DEF content
    <3>2. CASE p # o
      <4>1. outs'[p] = outs[p]
        BY <1>7, <1>12, <3>2
      <4>2. n % c # p - 1
        BY <1>3, <1>6, <3>2
      <4>3. Share(c, p, n + 1) = Share(c, p, n)
        BY <1>3, <1>5, <4>2, Shares
      <4> QED
        BY <1>15, <4>1, <4>3
    <3> QED
      BY <3>1, <3>2
  <2>3. ASSUME NEW p \in 1 .. c
        PROVE  StringsMade(outs[p], Contents[p], Share(call.count, p, index - 1))'
    <3>1. Share(call.count, p, index - 1)' = Share(c, p, n + 1)
      BY <2>1 DEF Share, c
    <3> QED
      BY <2>1, <2>2, <3>1 DEF StringsMade
  <2> QED
    BY <2>1, <2>3 DEF DealMade, c
<1>18. Made'
  BY <1>1, <1>4, <1>14, <1>17, OthersMade DEF Made
<1> QED
  BY <1>1, <1>2, <1>14, <1>18, LoopRestores

(* concat: a size asks for the next so many strings.                       *)
LEMMA RunsFit ==
  ASSUME CallAssumption, call \in Calls, call.kind = "concat", ConcatFits
  PROVE  /\ call.count \in Nat /\ Length = call.count /\ call.idx \in Seq(Nat)
         /\ SumOn(call.idx, 1 .. 0) = 0 /\ SumFunction(call.idx) = SumOn(call.idx, 1 .. Length)
         /\ \A o \in 1 .. Length :
              /\ call.idx[o] \in Nat /\ SumOn(call.idx, 1 .. o - 1) \in Nat
              /\ SumFunction(SubSeq(call.idx, 1, o - 1)) = SumOn(call.idx, 1 .. o - 1)
              /\ SumOn(call.idx, 1 .. o) = SumOn(call.idx, 1 .. o - 1) + call.idx[o]
              /\ SumOn(call.idx, 1 .. o) <= SumFunction(call.idx)
<1> DEFINE s == call.idx
           m == Length
<1>1. s \in Seq(Nat) /\ m = Len(s) /\ call.count \in Nat /\ m = call.count
  BY CallFacts DEF Length, ConcatFits
<1> HIDE DEF s, m
<1>2. m \in Nat /\ DOMAIN s = 1 .. m /\ \A i \in DOMAIN s : s[i] \in Nat
  BY <1>1, SeqOfNumbers
<1>3. /\ SumOn(s, 1 .. 0) = 0 /\ SumFunction(s) = SumOn(s, 1 .. m)
      /\ \A n \in 0 .. m : SumOn(s, 1 .. n) \in Nat /\ SumOn(s, 1 .. n) <= SumFunction(s)
      /\ \A n \in 0 .. m - 1 : SumOn(s, 1 .. (n + 1)) = SumOn(s, 1 .. n) + s[n + 1]
  BY <1>2, FirstSums
<1>4. ASSUME NEW o \in 1 .. m
      PROVE  /\ s[o] \in Nat /\ SumOn(s, 1 .. o - 1) \in Nat
             /\ SumFunction(SubSeq(s, 1, o - 1)) = SumOn(s, 1 .. o - 1)
             /\ SumOn(s, 1 .. o) = SumOn(s, 1 .. o - 1) + s[o]
             /\ SumOn(s, 1 .. o) <= SumFunction(s)
  <2> DEFINE k == o - 1
  <2>1. k \in 0 .. m - 1 /\ k \in 0 .. m /\ k + 1 = o /\ o \in 0 .. m /\ k \in 0 .. Len(s)
    BY <1>1, <1>2
  <2> HIDE DEF k
  <2>2. SumFunction(SubSeq(s, 1, k)) = SumOn(s, 1 .. k)
    BY <1>1, <2>1, FirstsCut
  <2>3. SumOn(s, 1 .. (k + 1)) = SumOn(s, 1 .. k) + s[k + 1] /\ SumOn(s, 1 .. k) \in Nat
    BY <1>3, <2>1
  <2>4. SumOn(s, 1 .. o) <= SumFunction(s) /\ s[o] \in Nat
    BY <1>2, <1>3, <2>1
  <2>5. SumOn(s, 1 .. o) = SumOn(s, 1 .. k) + s[o]
    BY <2>1, <2>3
  <2> QED
    BY <2>2, <2>3, <2>4, <2>5 DEF k
<1> QED
  BY <1>1, <1>3, <1>4 DEF s, m

(* A size that asks for more strings than are left describes none.         *)
LEMMA RefusesRun ==
  ASSUME CallAssumption, call \in Calls, call.kind = "concat", ConcatFits, RunsMade,
         NEW a, a = position[1], index \in 1 .. Length, NEW n, n = call.idx[index],
         a + n > Len(Strings)
  PROVE  ~Accepted
<1> SUFFICES ASSUME Accepted PROVE FALSE
  OBVIOUS
<1>1. /\ n \in Nat /\ SumOn(call.idx, 1 .. index - 1) \in Nat
      /\ SumOn(call.idx, 1 .. index) = SumOn(call.idx, 1 .. index - 1) + n
      /\ SumOn(call.idx, 1 .. index) <= SumFunction(call.idx)
  BY RunsFit
<1>2. a = SumOn(call.idx, 1 .. index - 1)
  BY DEF RunsMade
<1>3. SumFunction(call.idx) = Len(Strings)
  BY DEF Accepted
<1>4. Len(Strings) \in Nat
  <2>1. Strings \in Seq(Nat)
    BY CallFacts DEF Dispatches
  <2> QED
    BY <2>1, LenProperties
<1>5. a + n <= Len(Strings)
  BY <1>1, <1>2, <1>3
<1> QED
  BY <1>1, <1>2, <1>4, <1>5

(* Where the strings of an output lie.                                     *)
LEMMA RunContent ==
  ASSUME CallAssumption, call \in Calls, call.kind = "concat", ConcatFits,
         NEW o \in 1 .. Length, NEW a, a = SumOn(call.idx, 1 .. o - 1), NEW n, n = call.idx[o],
         a + n <= Len(Strings)
  PROVE  /\ a \in Nat /\ n \in Nat /\ SumFunction(SubSeq(Strings, a + 1, a + n)) \in Nat
         /\ Contents[o] \in Seq(Seq(Nat)) /\ Len(Contents[o]) = n
         /\ Contents[o] = [i \in 1 .. n |-> Contents[o][i]]
         /\ SubSeq(Strings, a + 1, a + n) = [i \in 1 .. n |-> Len(Contents[o][i])]
         /\ FlattenSeq(Contents[o]) =
              Cut(Bytes, SumOn(Strings, 1 .. a), SumFunction(SubSeq(Strings, a + 1, a + n)))
<1> DEFINE stream == call.src[1]
           content == Contents[o]
           lens == Cut(Strings, a, n)
           some == Cut(StringsOf(stream), a, n)
<1>1. a \in Nat /\ n \in Nat /\ SumFunction(SubSeq(call.idx, 1, o - 1)) = a /\ Length = call.count
  BY RunsFit
<1>2. content = some
  BY <1>1, ContentsOf
<1>3. /\ stream.lens \in Seq(Nat) /\ stream.bytes \in Seq(Nat) /\ SumsMatch(stream)
      /\ Strings = stream.lens /\ Bytes = stream.bytes
  BY CallFacts DEF Dispatches, Strings, Bytes, ConcatFits
<1> HIDE DEF stream, content
<1>4. /\ some \in Seq(Seq(Nat)) /\ Len(some) = n
      /\ \A i \in 1 .. n : Len(some[i]) = stream.lens[a + i]
      /\ FlattenSeq(some) = Cut(stream.bytes, SumOn(stream.lens, 1 .. a),
                                SumOn(stream.lens, 1 .. (a + n)) - SumOn(stream.lens, 1 .. a))
  BY <1>1, <1>3, StringsJoin, ZenonT(60)
<1> HIDE DEF some
<1>5. lens \in Seq(Nat) /\ Len(lens) = n /\ \A i \in 1 .. n : lens[i] = stream.lens[a + i]
  BY <1>1, <1>3, CutFacts
<1>6. SumOn(stream.lens, 1 .. (a + n)) = SumOn(stream.lens, 1 .. a) + SumFunction(lens)
  BY <1>1, <1>3, CutSum
<1>7. lens = SubSeq(Strings, a + 1, a + n)
  BY DEF Cut
<1> HIDE DEF lens
<1>8. SumFunction(lens) \in Nat /\ SumOn(stream.lens, 1 .. a) \in Nat
  <2>1. DOMAIN lens = 1 .. n /\ (\A i \in DOMAIN lens : lens[i] \in Nat) /\ n \in 0 .. n
    BY <1>1, <1>5
  <2>2. SumOn(lens, 1 .. n) \in Nat /\ SumFunction(lens) = SumOn(lens, 1 .. n)
    BY <1>1, <2>1, FirstSums
  <2> DEFINE s == stream.lens
             m == Len(s)
  <2>3. s \in Seq(Nat) /\ a + n <= Len(s)
    BY <1>3
  <2> HIDE DEF s
  <2>4. m \in Nat /\ DOMAIN s = 1 .. m /\ (\A i \in DOMAIN s : s[i] \in Nat) /\ a \in 0 .. m
    BY <1>1, <2>3
  <2> HIDE DEF m
  <2>5. SumOn(s, 1 .. a) \in Nat
    BY <2>4, FirstSums
  <2> QED
    BY <2>2, <2>5 DEF s
<1>9. SumOn(stream.lens, 1 .. (a + n)) - SumOn(stream.lens, 1 .. a) = SumFunction(lens)
  BY <1>6, <1>8
<1>10. some = [i \in 1 .. n |-> some[i]] /\ lens = [i \in 1 .. n |-> lens[i]]
  <2>1. DOMAIN some = 1 .. n /\ DOMAIN lens = 1 .. n
    BY <1>4, <1>5, LenProperties
  <2>2. some \in [1 .. n -> Seq(Nat)] /\ lens \in [1 .. n -> Nat]
    BY <1>4, <1>5, LenProperties
  <2> QED
    BY <2>2
<1>11. lens = [i \in 1 .. n |-> Len(some[i])]
  BY <1>4, <1>5, <1>10
<1> QED
  BY <1>1, <1>2, <1>3, <1>4, <1>7, <1>8, <1>9, <1>10, <1>11 DEF content

(* concat: a run of strings for each output, as its size says.             *)
LEMMA RunRestores ==
  ASSUME CallAssumption, BoundAssumption, RestoreInv, TakeRun, StringInv'
  PROVE  Restored'
<1>1. stage = "loop" /\ call.kind = "concat" /\ index <= call.count /\ outcome' # "Redundant"
  BY DEF TakeRun, StringInv
<1>2. /\ call \in Calls /\ ConcatFits /\ RunsMade /\ Restored /\ TypeOK
      /\ index \in Nat \ {0} /\ outs \in Seq(Output)
  BY <1>1 DEF RestoreInv, StringInv, LoopInv, InputsFit, TypeOK, Restored, Made
<1> DEFINE n == call.idx[index]
           a == position[1]
           lens == SubSeq(Strings, a + 1, a + n)
           len == SumFunction(lens)
           new == Cut(Bytes, bytePosition[1], len)
           dest == [Held(EmptyOutput(len), new, len) EXCEPT !.lens = lens]
           content == Contents[index]
<1>3. /\ call.count \in Nat /\ Length = call.count /\ index \in 1 .. Length /\ Length \in Nat
      /\ n \in Nat /\ a = SumOn(call.idx, 1 .. index - 1) /\ a \in Nat
      /\ SumOn(call.idx, 1 .. index) = a + n
  <2>1. call.count \in Nat /\ Length = call.count
    BY <1>1, <1>2, RunsFit
  <2>2. index \in 1 .. Length
    BY <1>1, <1>2, <2>1
  <2>3. a = SumOn(call.idx, 1 .. index - 1)
    BY <1>1, <1>2 DEF RunsMade
  <2> HIDE DEF a
  <2> QED
    BY <1>1, <1>2, <2>1, <2>2, <2>3, RunsFit
<1>4. /\ Strings \in Seq(Nat) /\ Bytes \in Seq(Nat) /\ ~Dispatches /\ DOMAIN call.src = {1}
      /\ call.base = 0 /\ Len(Strings) \in Nat
  <2>1. Strings \in Seq(Nat) /\ Bytes \in Seq(Nat) /\ ~Dispatches /\ DOMAIN call.src = {1}
        /\ call.base = 0
    BY <1>1, <1>2, CallFacts DEF Dispatches
  <2> QED
    BY <2>1, LenProperties
<1>5. CASE a + n > Len(Strings)
  <2>1. Refuse("Malformed")
    BY <1>5 DEF TakeRun
  <2>2. ~Accepted
    <3> HIDE DEF a, n
    <3>1. a = position[1] /\ n = call.idx[index]
      BY DEF a, n
    <3> QED
      BY <1>1, <1>2, <1>3, <1>5, <3>1, RefusesRun
  <2> QED
    BY <2>1, <2>2, StopRestores
<1>6. CASE ~ (a + n > Len(Strings))
  <2>1. a + n <= Len(Strings)
    <3> HIDE DEF a, n
    <3> QED
      BY <1>3, <1>4, <1>6
  <2>2. \/ Refuse("LimitExceeded") \/ Refuse("AllocationFailed")
        \/ /\ outs' = Append(outs, dest)
           /\ position' = <<a + n>> /\ index' = index + 1
           /\ UNCHANGED <<call, stage, csvRow, outcome>>
    BY <1>1, <1>6 DEF TakeRun, Refuse
  <2>3. CASE \E kind \in {"LimitExceeded", "AllocationFailed"} : Refuse(kind)
    <3>1. PICK kind \in {"LimitExceeded", "AllocationFailed"} : Refuse(kind)
      BY <2>3
    <3> QED
      BY <3>1, StopRestores
  <2>4. CASE /\ outs' = Append(outs, dest)
             /\ position' = <<a + n>> /\ index' = index + 1
             /\ UNCHANGED <<call, stage, csvRow, outcome>>
    <3> HIDE DEF n, a, content
    <3>1. /\ len \in Nat /\ content \in Seq(Seq(Nat)) /\ Len(content) = n
          /\ content = [i \in 1 .. n |-> content[i]]
          /\ lens = [i \in 1 .. n |-> Len(content[i])]
          /\ FlattenSeq(content) = Cut(Bytes, SumOn(Strings, 1 .. a), len)
      <4>1. n = call.idx[index] /\ a = SumOn(call.idx, 1 .. index - 1)
        BY <1>3 DEF n
      <4> HIDE DEF lens, len
      <4>2. lens = SubSeq(Strings, a + 1, a + n) /\ len = SumFunction(lens)
        BY DEF lens, len
      <4> QED
        BY <1>1, <1>2, <1>3, <2>1, <4>1, <4>2, RunContent, ZenonT(60) DEF content
    <3>2. bytePosition[1] = SumOn(Strings, 1 .. a) /\ bytePosition[1] \in Nat
      <4>1. /\ a \in 0 .. Len(Strings) /\ bytePosition[1] \in 0 .. Len(Bytes)
            /\ bytePosition[1] = SumFunction(SubSeq(Strings, 1, a))
        BY <1>1, <1>2, <1>4 DEF TypeOK, Strings, Bytes, a
      <4>2. SumFunction(SubSeq(Strings, 1, a)) = SumOn(Strings, 1 .. a)
        BY <1>4, <4>1, FirstsCut
      <4>3. Len(Bytes) \in Nat
        BY <1>4, LenProperties
      <4> QED
        BY <4>1, <4>2, <4>3
    <3> HIDE DEF lens, len
    <3>3. new = FlattenSeq(content) /\ new \in Seq(Nat)
      <4>1. FlattenSeq(content) \in Seq(Nat)
        BY <3>1, FlattenType
      <4> QED
        BY <3>1, <3>2, <4>1
    <3> HIDE DEF new
    <3>4. dest.bytes = new /\ dest.lens = lens
      <4> DEFINE held == Held(EmptyOutput(len), new, len)
      <4>1. EmptyOutput(len) \in Output /\ EmptyOutput(len).bytes = <<>>
        BY <3>1, EmptyIsOutput
      <4>2. held \in Output /\ held.bytes = EmptyOutput(len).bytes \o new
        BY <3>1, <3>3, <4>1, HeldFacts
      <4>3. held.bytes = new
        BY <3>3, <4>1, <4>2, ConcatEmptySeq
      <4> HIDE DEF held
      <4> QED
        BY <4>2, <4>3 DEF Output, held
    <3> HIDE DEF dest
    <3>5. StringsMade(dest, content, n)
      <4>1. Firsts(content, n) = content
        BY <1>3, <3>1, FirstsFacts
      <4>2. OldBytes = <<>> /\ OldBytes \o new = new
        BY <1>4, <3>3, BeforeTyped, ConcatEmptySeq
      <4> QED
        BY <3>1, <3>3, <3>4, <4>1, <4>2 DEF StringsMade
    <3>6. Len(outs) = index - 1 /\ \A o \in 1 .. index - 1 : StringsMade(outs[o], Contents[o], call.idx[o])
      BY <1>1, <1>2 DEF RunsMade
    <3>7. /\ Len(outs') = index /\ outs'[index] = dest
          /\ \A o \in 1 .. index - 1 : outs'[o] = outs[o]
      BY <1>2, <2>4, <3>6
    <3>8. \A o \in 1 .. index : StringsMade(outs'[o], Contents[o], call.idx[o])
      <4> TAKE o \in 1 .. index
      <4>1. CASE o = index
        BY <3>5, <3>7, <4>1 DEF content, n
      <4>2. CASE o # index
        <5>1. o \in 1 .. index - 1
          BY <1>2, <4>2
        <5> QED
          BY <3>6, <3>7, <5>1
      <4> QED
        BY <4>1, <4>2
    <3>9. RunsMade'
      <4>1. /\ call' = call /\ Contents' = Contents /\ OldBytes' = OldBytes /\ index' - 1 = index
        BY <1>2, <2>4, SameContents
      <4>2. \A o \in 1 .. index' - 1 : StringsMade(outs[o], Contents[o], call.idx[o])'
        <5> TAKE o \in 1 .. index' - 1
        <5>1. StringsMade(outs'[o], Contents[o], call.idx[o])
          BY <3>8, <4>1
        <5> QED
          BY <4>1, <5>1 DEF StringsMade
      <4>3. position'[1] = SumOn(call.idx, 1 .. index)
        BY <1>3, <2>4
      <4>4. index' <= call.count + 1
        <5> DEFINE c == call.count
        <5>1. c \in Nat /\ index <= c /\ index \in Nat /\ index' = index + 1
          BY <1>1, <1>2, <1>3, <2>4
        <5> HIDE DEF c
        <5>2. index' <= c + 1
          BY <5>1
        <5> QED
          BY <5>2 DEF c
      <4> QED
        BY <3>7, <4>1, <4>2, <4>3, <4>4 DEF RunsMade
    <3>10. Made'
      BY <1>1, <1>4, <2>4, <3>9, OthersMade DEF Made
    <3> QED
      BY <1>1, <1>2, <2>4, <3>10, LoopRestores
  <2> QED
    BY <2>2, <2>3, <2>4
<1> QED
  BY <1>5, <1>6

-----------------------------------------------------------------------------
(* The end of the loops.                                                   *)

(* The sources of a dispatch are used up exactly when the indices select   *)
(* each of their strings once.                                             *)
LEMMA SourcesUsedUp ==
  ASSUME CallAssumption, RestoreInv, stage = "loop", call.kind \in {"strings", "serial"},
         index = Length + 1
  PROVE  Accepted <=> AllTaken
<1>1. StringInv /\ call \in Calls /\ DispatchMade /\ TypeOK /\ Dispatches
  BY DEF RestoreInv, StringInv, Restored, Made, Dispatches
<1>2. Length \in Nat /\ index - 1 = Length /\ DOMAIN call.idx = 1 .. Length
  <2>1. call.idx \in Seq(Nat)
    BY <1>1, CallFacts
  <2>2. Length \in Nat /\ DOMAIN call.idx = 1 .. Length
    BY <2>1, SeqOfNumbers DEF Length
  <2> QED
    BY <2>2
<1>3. \A i \in DOMAIN call.idx : call.idx[i] \in DOMAIN call.src
  BY <1>1, <1>2 DEF DispatchMade
<1>4. ASSUME NEW s \in DOMAIN call.src
      PROVE  /\ position[s] = Cardinality(Uses(s, Length))
             /\ position[s] = Len(call.src[s].lens) =>
                  bytePosition[s] = SumFunction(call.src[s].lens)
  <2>1. position[s] = Cardinality(Uses(s, Length))
    BY <1>1, <1>2 DEF DispatchMade
  <2>2. bytePosition[s] = SumFunction(SubSeq(call.src[s].lens, 1, position[s]))
        /\ call.src[s].lens \in Seq(Nat)
    BY <1>1, CallFacts DEF TypeOK
  <2>3. SubSeq(call.src[s].lens, 1, Len(call.src[s].lens)) = call.src[s].lens
    BY <2>2, SubSeqFull
  <2> QED
    BY <2>1, <2>2, <2>3
<1>5. Accepted <=> \A s \in DOMAIN call.src :
                     SumsMatch(call.src[s]) /\ Cardinality(Uses(s, Length)) = Len(call.src[s].lens)
  BY <1>3 DEF Accepted
<1> QED
  BY <1>4, <1>5 DEF AllTaken, SumsMatch

(* The sizes of concat use up its strings exactly when they add up to them.*)
LEMMA RunsUsedUp ==
  ASSUME CallAssumption, RestoreInv, stage = "loop", call.kind = "concat", index = call.count + 1
  PROVE  Accepted <=> AllTaken
<1>1. StringInv /\ call \in Calls /\ RunsMade /\ TypeOK /\ ConcatFits /\ ~Dispatches
  BY DEF RestoreInv, StringInv, Restored, Made, LoopInv, InputsFit, Dispatches
<1>2. /\ call.count \in Nat /\ Length = call.count /\ index - 1 = Length
      /\ SumFunction(call.idx) = SumOn(call.idx, 1 .. Length)
      /\ DOMAIN call.src = {1} /\ Strings \in Seq(Nat)
  <2>1. /\ call.count \in Nat /\ Length = call.count
        /\ SumFunction(call.idx) = SumOn(call.idx, 1 .. Length)
    BY <1>1, RunsFit
  <2>2. index - 1 = Length
    BY <2>1
  <2> QED
    BY <1>1, <2>1, <2>2, CallFacts
<1>3. position[1] = SumFunction(call.idx)
  BY <1>1, <1>2 DEF RunsMade
<1>4. SumsMatch(call.src[1]) /\ call.count > 0
  BY <1>1 DEF ConcatFits
<1>5. Accepted <=> SumFunction(call.idx) = Len(Strings)
  BY <1>2, <1>4 DEF Accepted
<1>6. position[1] = Len(Strings) => bytePosition[1] = Len(call.src[1].bytes)
  <2>1. bytePosition[1] = SumFunction(SubSeq(Strings, 1, position[1]))
    BY <1>1, <1>2 DEF TypeOK, Strings
  <2>2. SubSeq(Strings, 1, Len(Strings)) = Strings
    BY <1>2, SubSeqFull
  <2> QED
    BY <1>4, <2>1, <2>2 DEF SumsMatch, Strings
<1> QED
  BY <1>2, <1>3, <1>5, <1>6 DEF AllTaken, Strings

(* Every loop ends right behind its last step.                             *)
LEMMA LoopEnds ==
  ASSUME CallAssumption, RestoreInv, stage = "loop", index > Steps
  PROVE  /\ index = Steps + 1 /\ Steps \in Nat
         /\ Dispatches \/ call.kind \in {"prefix", "tokenize", "concat"} => Steps = Length
<1>1. /\ call \in Calls /\ InputsFit /\ DispatchMade /\ RunsMade /\ ComponentsMade /\ PrefixDone
      /\ TokensDone /\ DealDone /\ index \in Nat \ {0}
  BY DEF RestoreInv, StringInv, LoopInv, TypeOK, Restored, Made
<1>2. call.idx \in Seq(Nat) /\ Length \in Nat /\ Length = Len(call.idx) /\ call.kind \in Kinds
  <2>1. call.idx \in Seq(Nat) /\ call.kind \in Kinds
    BY <1>1, CallFacts
  <2> QED
    BY <2>1, LenProperties DEF Length
<1>3. CASE Dispatches
  <2>1. Steps = Length /\ index <= Length + 1
    BY <1>1, <1>2, <1>3 DEF Steps, DispatchMade, Dispatches
  <2> QED
    BY <1>1, <1>2, <2>1
<1>4. CASE call.kind = "tokenize"
  <2>1. Steps = Length /\ index <= Length + 1
    BY <1>1, <1>2, <1>4 DEF Steps, TokensDone
  <2> QED
    BY <1>1, <1>2, <2>1
<1>5. CASE call.kind = "prefix"
  <2>1. Steps = Length /\ index <= Length + 1
    BY <1>1, <1>2, <1>5, PrefixFacts DEF Steps, PrefixDone
  <2> QED
    BY <1>1, <1>2, <2>1
<1>6. CASE call.kind = "concat"
  <2>1. Steps = Length /\ index <= Length + 1
    BY <1>1, <1>2, <1>6 DEF Steps, RunsMade, InputsFit, ConcatFits
  <2> QED
    BY <1>1, <1>2, <2>1
<1>7. CASE call.kind = "interleave"
  <2>1. Steps = Len(Strings) /\ index <= Len(Strings) + 1 /\ Strings \in Seq(Nat)
    BY <1>1, <1>7, CallFacts DEF Steps, DealDone, Dispatches
  <2>2. Len(Strings) \in Nat
    BY <2>1, LenProperties
  <2> QED
    BY <1>1, <1>7, <2>1, <2>2 DEF Dispatches
<1>8. CASE call.kind = "components"
  <2>1. Steps = 1 /\ index <= 2
    BY <1>1, <1>8 DEF Steps, ComponentsMade
  <2> QED
    BY <1>1, <1>8, <2>1 DEF Dispatches
<1> QED
  BY <1>2, <1>3, <1>4, <1>5, <1>6, <1>7, <1>8 DEF Kinds, Dispatches

(* What a finished loop accepted.                                          *)
LEMMA FinishAccepted ==
  ASSUME CallAssumption, RestoreInv, stage = "loop", index > Steps,
         call.kind \in {"strings", "serial", "concat"} => AllTaken
  PROVE  Accepted
<1>1. /\ call \in Calls /\ InputsFit /\ SegmentsFit /\ ~TooLarge /\ call.idx \in Seq(Nat)
  <2>1. call \in Calls /\ InputsFit /\ SegmentsFit /\ ~TooLarge
    BY DEF RestoreInv, StringInv, LoopInv
  <2> QED
    BY <2>1, CallFacts
<1>2. Length \in Nat /\ DOMAIN call.idx = 1 .. Length /\ call.kind \in Kinds
  BY <1>1, CallFacts, SeqOfNumbers DEF Length
<1>3. CASE call.kind \in {"strings", "serial"}
  <2>1. index = Length + 1
    BY <1>3, LoopEnds DEF Dispatches
  <2> QED
    BY <1>3, <2>1, SourcesUsedUp
<1>4. CASE call.kind = "tags"
  <2>1. /\ \A s : {i \in DOMAIN call.idx : call.idx[i] = s} = Uses(s, Length)
    BY <1>2 DEF Uses
  <2>2. Len(call.sizes) = Length /\ \A i \in DOMAIN call.idx : call.idx[i] \in DOMAIN call.src
    BY <1>1, <1>4 DEF InputsFit, TagsFit, SegmentsFit, Length
  <2>3. \A s \in DOMAIN call.src :
          SumFunctionOnSet(call.sizes, Uses(s, Length)) = Len(call.src[s].bytes)
    BY <1>1, <1>4, <2>1 DEF SegmentsFit
  <2> QED
    BY <1>4, <2>2, <2>3 DEF Accepted
<1>5. CASE call.kind = "prefix"
  <2>1. /\ SumsMatch(call.src[1]) /\ Length = Len(Strings) /\ \A i \in 1 .. Length : MatchFits(i)
    BY <1>1, <1>2, <1>5 DEF InputsFit, PrefixFits, Length
  <2>2. \A i \in 1 .. Length : call.idx[i] <= Len(Prefixed[i - 1])
    BY <1>1, <1>5, <2>1, PrefixedFits
  <2> QED
    BY <1>5, <2>1, <2>2 DEF Accepted
<1>6. CASE call.kind = "tokenize"
  BY <1>1, <1>2, <1>6 DEF InputsFit, TokensFit, Accepted, Length
<1>7. CASE call.kind = "interleave"
  BY <1>1, <1>7 DEF InputsFit, TooLarge, InterleaveFits, Accepted
<1>8. CASE call.kind = "concat"
  <2>1. index = call.count + 1
    BY <1>1, <1>8, LoopEnds DEF InputsFit, ConcatFits, Length
  <2> QED
    BY <1>8, <2>1, RunsUsedUp
<1>9. CASE call.kind = "components"
  BY <1>1, <1>9 DEF InputsFit, ComponentsFit, Accepted
<1> QED
  BY <1>2, <1>3, <1>4, <1>5, <1>6, <1>7, <1>8, <1>9 DEF Kinds

(* One output holds all of its strings.                                    *)
Holds(dest, content) ==
  /\ dest.bytes = [i \in 1 .. call.base |-> Old] \o FlattenSeq(content)
  /\ call.kind \notin {"serial", "tags"} =>
       dest.lens = [i \in DOMAIN content |-> Len(content[i])]

(* An output that has made all its strings is as RestoresStrings has it.   *)
LEMMA MadeHolds ==
  ASSUME NEW dest, NEW content, NEW n \in Nat, content = [i \in 1 .. n |-> content[i]],
         StringsMade(dest, content, n)
  PROVE  Holds(dest, content)
BY AllMade DEF Holds, OldBytes

(* What a finished loop made.                                              *)
LEMMA FinishMade ==
  ASSUME CallAssumption, RestoreInv, stage = "loop", index > Steps, Accepted
  PROVE  Len(outs) = Len(Contents) /\ \A o \in DOMAIN outs : Holds(outs[o], Contents[o])
<1>1. /\ StringInv /\ call \in Calls /\ InputsFit /\ ~TooLarge /\ Capacities /\ OneMade
      /\ DealMade /\ RunsMade /\ ComponentsMade /\ outs \in Seq(Output)
  BY DEF RestoreInv, StringInv, LoopInv, TypeOK, Restored, Made
<1>2. call.idx \in Seq(Nat) /\ Length \in Nat /\ Length = Len(call.idx) /\ call.kind \in Kinds
  <2>1. call.idx \in Seq(Nat) /\ call.kind \in Kinds
    BY <1>1, CallFacts
  <2> QED
    BY <2>1, LenProperties DEF Length
<1>3. index = Steps + 1 /\ index - 1 = Steps /\ Steps \in Nat
  <2>1. index = Steps + 1 /\ Steps \in Nat
    BY LoopEnds
  <2> HIDE DEF Steps
  <2> QED
    BY <2>1
<1>4. CASE Dispatches \/ call.kind \in {"prefix", "tokenize"}
  <2>1. index - 1 = Length /\ outs = <<outs[1]>>
    BY <1>1, <1>3, <1>4, LoopEnds, OneOutput DEF Dispatches
  <2>2. Len(Contents) = 1 /\ Contents[1] = [i \in 1 .. Length |-> Contents[1][i]]
    <3>1. ASSUME NEW f, f = [i \in 1 .. Length |-> f[i]], Contents = <<f>>
          PROVE  Len(Contents) = 1 /\ Contents[1] = [i \in 1 .. Length |-> Contents[1][i]]
      <4> HIDE DEF Contents
      <4>1. Contents[1] = f /\ Len(Contents) = 1
        BY <3>1
      <4> QED
        BY <3>1, <4>1
    <3>2. CASE Dispatches
      <4> DEFINE f == [i \in 1 .. Length |-> Selection(i)]
      <4>1. Contents = <<f>>
        BY <3>2, ContentsOf DEF Dispatches
      <4>2. f = [i \in 1 .. Length |-> f[i]]
        OBVIOUS
      <4> HIDE DEF f
      <4> QED
        BY <3>1, <4>1, <4>2
    <3>3. CASE call.kind = "prefix"
      <4> DEFINE f == [i \in 1 .. Length |-> Prefixed[i]]
      <4>1. Contents = <<f>>
        BY <3>3, ContentsOf
      <4>2. f = [i \in 1 .. Length |-> f[i]]
        OBVIOUS
      <4> HIDE DEF f
      <4> QED
        BY <3>1, <4>1, <4>2
    <3>4. CASE call.kind = "tokenize"
      <4> DEFINE f == [i \in 1 .. Length |-> StringsOf(call.src[1])[call.idx[i]]]
      <4>1. Contents = <<f>>
        BY <3>4, ContentsOf
      <4>2. f = [i \in 1 .. Length |-> f[i]]
        OBVIOUS
      <4> HIDE DEF f
      <4> QED
        BY <3>1, <4>1, <4>2
    <3> QED
      BY <1>4, <3>2, <3>3, <3>4
  <2>3. StringsMade(outs[1], Contents[1], Length)
    BY <1>1, <1>4, <2>1 DEF OneMade
  <2>4. Holds(outs[1], Contents[1])
    BY <1>2, <2>2, <2>3, MadeHolds
  <2>5. Len(outs) = 1 /\ DOMAIN outs = {1}
    BY <2>1
  <2> QED
    BY <2>2, <2>4, <2>5
<1>5. CASE call.kind = "components"
  <2>1. outs = <<outs[1]>> /\ index = 2
    BY <1>1, <1>3, <1>5, OneOutput DEF Steps
  <2> DEFINE m == Len(call.sizes)
  <2>2. m \in Nat /\ DOMAIN call.sizes = 1 .. m
    <3>1. call.sizes \in Seq(Nat)
      BY <1>1, CallFacts
    <3> QED
      BY <3>1, SeqOfNumbers
  <2>3. Len(Contents) = 1
        /\ Contents[1] = StringsOf([lens |-> call.sizes, bytes |-> Bytes])
    BY <1>5, ContentsOf
  <2>4. Contents[1] = [i \in 1 .. m |-> Contents[1][i]]
    BY <2>2, <2>3 DEF StringsOf
  <2>5. StringsMade(outs[1], Contents[1], m)
    BY <1>1, <1>5, <2>1 DEF ComponentsMade
  <2> HIDE DEF m
  <2>6. Holds(outs[1], Contents[1])
    BY <2>2, <2>4, <2>5, MadeHolds
  <2>7. Len(outs) = 1 /\ DOMAIN outs = {1}
    BY <2>1
  <2> QED
    BY <2>3, <2>6, <2>7
<1>6. CASE call.kind = "interleave"
  <2> DEFINE c == call.count
             m == Len(Strings)
             q == m \div c
  <2>1. c \in Nat \ {0} /\ m \in Nat /\ m % c = 0 /\ index - 1 = m
    <3>1. c > 0 /\ m % c = 0
      BY <1>6 DEF Accepted
    <3>2. c \in Nat /\ Strings \in Seq(Nat)
      BY <1>1, <1>6, CallFacts DEF Dispatches
    <3>3. m \in Nat
      BY <3>2, LenProperties
    <3>4. index - 1 = m
      BY <1>3, <1>6 DEF Steps
    <3> HIDE DEF m
    <3> QED
      BY <3>1, <3>2, <3>3, <3>4
  <2>2. Len(outs) = c /\ DOMAIN outs = 1 .. c
    <3>1. Len(Room) = c /\ Room # <<>> /\ Room \in Seq(Output)
      BY <1>1, <1>6, RoomFacts
    <3>2. Len(outs) = Len(Room)
      BY <1>1, <1>6 DEF Capacities
    <3>3. DOMAIN outs = 1 .. Len(outs)
      BY <1>1, LenProperties
    <3> QED
      BY <3>1, <3>2, <3>3
  <2>3. Contents = [o \in 1 .. c |->
                      [k \in 1 .. q |-> StringsOf(call.src[1])[(k - 1) * c + o]]]
    BY <1>6, ContentsOf
  <2>4. \A o \in 1 .. c : StringsMade(outs[o], Contents[o], Share(c, o, m))
    BY <1>1, <1>6, <2>1 DEF DealMade
  <2> HIDE DEF c, m
  <2>5. m = c * q /\ q \in Nat
    <3>1. m % c = m - c * (m \div c)
      BY <2>1, Remainder
    <3>2. m \div c \in Nat
      BY <2>1, Quotient
    <3>3. c * (m \div c) \in Nat
      BY <2>1, <3>2, Products
    <3> QED
      BY <2>1, <3>1, <3>2, <3>3
  <2> HIDE DEF q
  <2>6. ASSUME NEW o \in 1 .. c PROVE Holds(outs[o], Contents[o])
    <3> DEFINE content == Contents[o]
               dest == outs[o]
    <3>1. content = [k \in 1 .. q |-> StringsOf(call.src[1])[(k - 1) * c + o]]
      BY <2>3
    <3> HIDE DEF content
    <3>2. content = [k \in 1 .. q |-> content[k]]
      BY <3>1
    <3>3. Share(c, o, m) = q
      BY <2>1, <2>5, Shares
    <3>4. StringsMade(dest, content, q)
      BY <2>4, <3>3 DEF content
    <3> HIDE DEF dest
    <3>5. Holds(dest, content)
      BY <2>5, <3>2, <3>4, MadeHolds
    <3> QED
      BY <3>5 DEF dest, content
  <2>7. Len(Contents) = c
    BY <2>1, <2>3
  <2> QED
    BY <2>2, <2>6, <2>7
<1>7. CASE call.kind = "concat"
  <2>1. ConcatFits
    BY <1>1, <1>7 DEF InputsFit
  <2>2. /\ call.count \in Nat /\ Length = call.count /\ index - 1 = Length /\ Len(outs) = Length
        /\ SumFunction(call.idx) = Len(Strings)
        /\ \A o \in 1 .. Length : StringsMade(outs[o], Contents[o], call.idx[o])
    <3>1. call.count \in Nat /\ Length = call.count
      BY <1>1, <1>7, <2>1, RunsFit
    <3>2. index - 1 = Length
      BY <1>3, <1>7, LoopEnds
    <3> QED
      BY <1>1, <1>7, <3>1, <3>2 DEF RunsMade, Accepted
  <2>3. Len(Contents) = Length
    <3>1. Contents = [o \in 1 .. call.count |->
                        Cut(StringsOf(call.src[1]), SumFunction(SubSeq(call.idx, 1, o - 1)),
                            call.idx[o])]
      BY <1>7, ContentsOf
    <3> QED
      BY <2>2, <3>1
  <2>4. ASSUME NEW o \in 1 .. Length PROVE Holds(outs[o], Contents[o])
    <3> DEFINE a == SumOn(call.idx, 1 .. o - 1)
               n == call.idx[o]
               content == Contents[o]
               dest == outs[o]
    <3>1. n \in Nat /\ a \in Nat /\ a + n <= Len(Strings)
      <4>1. /\ call.idx[o] \in Nat /\ SumOn(call.idx, 1 .. o - 1) \in Nat
            /\ SumOn(call.idx, 1 .. o) = SumOn(call.idx, 1 .. o - 1) + call.idx[o]
            /\ SumOn(call.idx, 1 .. o) <= SumFunction(call.idx)
        BY <1>1, <1>7, <2>1, RunsFit
      <4> QED
        BY <2>2, <4>1
    <3>2. StringsMade(dest, content, n)
      BY <2>2
    <3>3. a = SumOn(call.idx, 1 .. o - 1) /\ n = call.idx[o]
      OBVIOUS
    <3> HIDE DEF a, n
    <3>4. Contents[o] = [i \in 1 .. n |-> Contents[o][i]]
      BY <1>1, <1>7, <2>1, <3>1, <3>3, RunContent
    <3> HIDE DEF dest, content
    <3>5. content = [i \in 1 .. n |-> content[i]]
      BY <3>4 DEF content
    <3>6. Holds(dest, content)
      BY <3>1, <3>2, <3>5, MadeHolds
    <3> QED
      BY <3>6 DEF dest, content
  <2>5. DOMAIN outs = 1 .. Length
    BY <1>1, <2>2, LenProperties
  <2> QED
    BY <2>2, <2>3, <2>4, <2>5
<1> QED
  BY <1>2, <1>4, <1>5, <1>6, <1>7 DEF Kinds, Dispatches

(* A loop that ends has made what its inputs describe, or they describe    *)
(* none.                                                                   *)
LEMMA FinishRestores ==
  ASSUME CallAssumption, BoundAssumption, RestoreInv, FinishNode, StringInv'
  PROVE  Restored'
<1>1. stage = "loop" /\ index > Steps /\ outcome' # "Redundant"
  BY DEF FinishNode, StringInv
<1>2. CASE call.kind \in {"strings", "serial", "concat"} /\ ~AllTaken
  <2>1. Refuse("Malformed")
    BY <1>2 DEF FinishNode
  <2>2. ~Accepted
    <3>1. index = Length + 1 /\ call \in Calls
      BY <1>1, <1>2, LoopEnds DEF Dispatches, RestoreInv, StringInv
    <3>2. CASE call.kind \in {"strings", "serial"}
      BY <1>1, <1>2, <3>1, <3>2, SourcesUsedUp
    <3>3. CASE call.kind = "concat"
      <4>1. index = call.count + 1
        BY <1>1, <3>1, <3>3 DEF RestoreInv, StringInv, LoopInv, InputsFit, ConcatFits, Length
      <4> QED
        BY <1>1, <1>2, <3>3, <4>1, RunsUsedUp
    <3> QED
      BY <1>2, <3>2, <3>3
  <2> QED
    BY <2>1, <2>2, StopRestores
<1>3. CASE ~ (call.kind \in {"strings", "serial", "concat"} /\ ~AllTaken)
  <2>1. /\ stage' = "done" /\ outcome' = "Ok"
        /\ UNCHANGED <<call, index, csvRow, position, bytePosition, outs>>
    BY <1>1, <1>3 DEF FinishNode, Refuse
  <2>2. Accepted
    BY <1>1, <1>3, FinishAccepted
  <2>3. Len(outs) = Len(Contents) /\ \A o \in DOMAIN outs : Holds(outs[o], Contents[o])
    BY <1>1, <2>2, FinishMade
  <2>4. Contents' = Contents /\ (Accepted' <=> Accepted) /\ call' = call /\ outs' = outs
    BY <2>1, SameContents
  <2> QED
    BY <2>1, <2>2, <2>3, <2>4, ZenonT(60) DEF Restored, RestoresStrings, Holds
<1> QED
  BY <1>2, <1>3

-----------------------------------------------------------------------------
(* Every step keeps the invariant.                                         *)
LEMMA RestoreStep ==
  ASSUME CallAssumption, BoundAssumption, RestoreInv, [Next]_vars
  PROVE  RestoreInv'
<1>1. StringInv'
  BY StringStep DEF RestoreInv
<1> SUFFICES Restored'
  BY <1>1 DEF RestoreInv
<1>2. CASE StartNode
  BY <1>2, StartRestores
<1>3. CASE StartRow
  BY <1>3, RowRestores
<1>4. CASE TakeSelected
  BY <1>4, SelectedRestores
<1>5. CASE TakeSuffix
  BY <1>1, <1>5, SuffixRestores
<1>6. CASE TakeToken
  BY <1>1, <1>6, TokenRestores
<1>7. CASE Deal
  BY <1>1, <1>7, DealRestores
<1>8. CASE TakeRun
  BY <1>1, <1>8, RunRestores
<1>9. CASE TakeAll
  BY <1>1, <1>9, AllRestores
<1>10. CASE FinishNode
  BY <1>1, <1>10, FinishRestores
<1>11. CASE UNCHANGED vars
  <2>1. UNCHANGED <<call, stage, index, csvRow, position, bytePosition, outs, outcome>>
    BY <1>11 DEF vars
  <2>2. /\ Contents' = Contents /\ (Accepted' <=> Accepted) /\ OldBytes' = OldBytes
        /\ Length' = Length
    BY <2>1, SameContents
  <2>3. \A s : Uses(s, index - 1)' = Uses(s, index - 1)
    BY <2>1 DEF Uses
  <2>4. (DispatchMade' <=> DispatchMade)
    BY <2>1, <2>2, <2>3 DEF DispatchMade, RowGoesOn, Dispatches
  <2>5. OneMade' <=> OneMade
    BY <2>1, <2>2 DEF OneMade, StringsMade, Dispatches
  <2>6. DealMade' <=> DealMade
    BY <2>1, <2>2 DEF DealMade, StringsMade, Share
  <2>7. (RunsMade' <=> RunsMade) /\ (ComponentsMade' <=> ComponentsMade)
    BY <2>1, <2>2 DEF RunsMade, ComponentsMade, StringsMade
  <2> QED
    BY <2>1, <2>2, <2>4, <2>5, <2>6, <2>7 DEF RestoreInv, Restored, RestoresStrings, Made
<1> QED
  BY <1>2, <1>3, <1>4, <1>5, <1>6, <1>7, <1>8, <1>9, <1>10, <1>11 DEF Next

(* Every string node makes exactly the strings its inputs describe, in     *)
(* every output, and answers "Malformed" only to inputs that describe none.*)
THEOREM NodesRestoreStrings == Spec => []RestoresStrings
<1>1. Init => RestoreInv
  <2> SUFFICES ASSUME Init PROVE RestoreInv
    OBVIOUS
  <2>1. StringInv
    BY InitialString, CallAssumption, BoundAssumption
  <2> QED
    BY <2>1 DEF Init, RestoreInv, Restored, RestoresStrings
<1>2. RestoreInv /\ [Next]_vars => RestoreInv'
  BY RestoreStep, CallAssumption, BoundAssumption
<1>3. RestoreInv => RestoresStrings
  BY DEF RestoreInv, Restored
<1> QED
  BY <1>1, <1>2, <1>3, PTL DEF Spec

-----------------------------------------------------------------------------
(***************************************************************************)
(* Rolz decodes as defined.  Following says, phase by phase, what is left  *)
(* of the definition's result for the sequences read: between sequences    *)
(* the decoder has all of it, inside of one it has the literals up to `at` *)
(* or the match but for its positions.  The table always lists what the    *)
(* definition has inserted so far (TableLists).                            *)
(***************************************************************************)

(* The recursions of the definition.                                       *)

(* The recursion of Appended.                                              *)
SolvesLiterals(f, j, r, n) ==
  f = [i \in 0 .. n |-> IF i = 0 THEN r ELSE NextLiteral(j, f[i - 1])]

(* Each step of it.                                                        *)
LEMMA LiteralsStep ==
  ASSUME NEW j, NEW r, NEW n \in Nat, NEW f, SolvesLiterals(f, j, r, n)
  PROVE  f[0] = r /\ \A i \in Nat : i < n => f[i + 1] = NextLiteral(j, f[i])
<1>1. \A i \in 0 .. n : f[i] = IF i = 0 THEN r ELSE NextLiteral(j, f[i - 1])
  BY DEF SolvesLiterals
<1>2. f[0] = r
  BY <1>1
<1>3. ASSUME NEW i \in Nat, i < n PROVE f[i + 1] = NextLiteral(j, f[i])
  <2>1. i + 1 \in 0 .. n /\ i + 1 # 0 /\ (i + 1) - 1 = i
    BY <1>3
  <2> QED
    BY <1>1, <2>1
<1> QED
  BY <1>2, <1>3

LEMMA LiteralsExist ==
  ASSUME NEW j, NEW r, NEW n \in Nat
  PROVE  \E f : SolvesLiterals(f, j, r, n)
<1> DEFINE T == {m \in Nat : \E f : SolvesLiterals(f, j, r, m)}
<1>1. 0 \in T
  <2> DEFINE f == [i \in 0 .. 0 |-> r]
  <2>1. SolvesLiterals(f, j, r, 0)
    BY DEF SolvesLiterals
  <2> QED
    BY <2>1
<1>2. ASSUME NEW m \in Nat, m \in T PROVE m + 1 \in T
  <2>1. PICK f : SolvesLiterals(f, j, r, m)
    BY <1>2
  <2> DEFINE g == [i \in 0 .. m + 1 |-> IF i = m + 1 THEN NextLiteral(j, f[m]) ELSE f[i]]
  <2>2. \A i \in 0 .. m : f[i] = IF i = 0 THEN r ELSE NextLiteral(j, f[i - 1])
    BY <2>1 DEF SolvesLiterals
  <2>3. \A i \in 0 .. m + 1 : g[i] = IF i = 0 THEN r ELSE NextLiteral(j, g[i - 1])
    <3> TAKE i \in 0 .. m + 1
    <3>1. CASE i = m + 1
      BY <3>1
    <3>2. CASE i # m + 1
      <4>1. i \in 0 .. m /\ (i # 0 => i - 1 \in 0 .. m)
        BY <3>2
      <4>2. g[i] = f[i] /\ (i # 0 => g[i - 1] = f[i - 1])
        BY <4>1
      <4> QED
        BY <2>2, <4>1, <4>2
    <3> QED
      BY <3>1, <3>2
  <2>4. g = [i \in 0 .. m + 1 |-> g[i]]
    OBVIOUS
  <2> HIDE DEF g
  <2>5. SolvesLiterals(g, j, r, m + 1)
    BY <2>3, <2>4 DEF SolvesLiterals
  <2> QED
    BY <2>5
<1> HIDE DEF T
<1>3. n \in T
  BY <1>1, <1>2, SetInduction
<1> QED
  BY <1>3 DEF T

(* Appending one more literal.                                              *)
LEMMA AppendedUnfolds ==
  ASSUME NEW j, NEW r, NEW n \in Nat
  PROVE  /\ Appended(j, r, 0) = r
         /\ Appended(j, r, n + 1) = NextLiteral(j, Appended(j, r, n))
<1>1. ASSUME NEW m \in Nat
      PROVE  \E f : SolvesLiterals(f, j, r, m) /\ Appended(j, r, m) = f[m]
  <2> DEFINE f == CHOOSE f : f = [i \in 0 .. m |-> IF i = 0 THEN r ELSE NextLiteral(j, f[i - 1])]
  <2>1. SolvesLiterals(f, j, r, m)
    BY LiteralsExist DEF SolvesLiterals
  <2>2. Appended(j, r, m) = f[m]
    BY DEF Appended
  <2> QED
    BY <2>1, <2>2
<1>2. Appended(j, r, 0) = r
  BY <1>1, LiteralsStep
<1>3. PICK f : SolvesLiterals(f, j, r, n) /\ Appended(j, r, n) = f[n]
  BY <1>1
<1>4. PICK g : SolvesLiterals(g, j, r, n + 1) /\ Appended(j, r, n + 1) = g[n + 1]
  BY <1>1
<1>5. f[0] = r /\ \A i \in Nat : i < n => f[i + 1] = NextLiteral(j, f[i])
  BY <1>3, LiteralsStep
<1>6. g[0] = r /\ \A i \in Nat : i < n + 1 => g[i + 1] = NextLiteral(j, g[i])
  BY <1>4, LiteralsStep
<1> DEFINE T == {i \in Nat : f[i] = g[i]}
<1>7. 0 \in T
  BY <1>5, <1>6
<1>8. ASSUME NEW i \in Nat, i < n, i \in T PROVE i + 1 \in T
  <2>1. i < n + 1 /\ f[i] = g[i]
    BY <1>8
  <2>2. f[i + 1] = g[i + 1]
    BY <1>5, <1>6, <1>8, <2>1
  <2> QED
    BY <2>2
<1>9. n \in T
  <2> HIDE DEF T
  <2> QED
    BY <1>7, <1>8, BoundedInduction
<1>10. g[n + 1] = NextLiteral(j, g[n])
  BY <1>6
<1> QED
  BY <1>2, <1>3, <1>4, <1>9, <1>10

(* The recursion of Decoding.                                              *)
SolvesDecoding(f, j, values, n) ==
  f = [i \in 0 .. n |-> IF i = 0 THEN Began(j)
                        ELSE Decoded(j, f[i - 1], j.types[i], values[i])]

(* Each step of it.                                                        *)
LEMMA DecodingStep ==
  ASSUME NEW j, NEW values, NEW n \in Nat, NEW f, SolvesDecoding(f, j, values, n)
  PROVE  /\ f[0] = Began(j)
         /\ \A i \in Nat : i < n => f[i + 1] = Decoded(j, f[i], j.types[i + 1], values[i + 1])
<1>1. \A i \in 0 .. n :
        f[i] = IF i = 0 THEN Began(j) ELSE Decoded(j, f[i - 1], j.types[i], values[i])
  BY DEF SolvesDecoding
<1>2. f[0] = Began(j)
  BY <1>1
<1>3. ASSUME NEW i \in Nat, i < n
      PROVE  f[i + 1] = Decoded(j, f[i], j.types[i + 1], values[i + 1])
  <2>1. i + 1 \in 0 .. n /\ i + 1 # 0 /\ (i + 1) - 1 = i
    BY <1>3
  <2> QED
    BY <1>1, <2>1
<1> QED
  BY <1>2, <1>3

LEMMA DecodingExists ==
  ASSUME NEW j, NEW values, NEW n \in Nat
  PROVE  \E f : SolvesDecoding(f, j, values, n)
<1> DEFINE T == {m \in Nat : \E f : SolvesDecoding(f, j, values, m)}
<1>1. 0 \in T
  <2> DEFINE f == [i \in 0 .. 0 |-> Began(j)]
  <2>1. SolvesDecoding(f, j, values, 0)
    BY DEF SolvesDecoding
  <2> QED
    BY <2>1
<1>2. ASSUME NEW m \in Nat, m \in T PROVE m + 1 \in T
  <2>1. PICK f : SolvesDecoding(f, j, values, m)
    BY <1>2
  <2> DEFINE g == [i \in 0 .. m + 1 |->
                     IF i = m + 1 THEN Decoded(j, f[m], j.types[m + 1], values[m + 1]) ELSE f[i]]
  <2>2. \A i \in 0 .. m :
          f[i] = IF i = 0 THEN Began(j) ELSE Decoded(j, f[i - 1], j.types[i], values[i])
    BY <2>1 DEF SolvesDecoding
  <2>3. \A i \in 0 .. m + 1 :
          g[i] = IF i = 0 THEN Began(j) ELSE Decoded(j, g[i - 1], j.types[i], values[i])
    <3> TAKE i \in 0 .. m + 1
    <3>1. CASE i = m + 1
      BY <3>1
    <3>2. CASE i # m + 1
      <4>1. i \in 0 .. m /\ (i # 0 => i - 1 \in 0 .. m)
        BY <3>2
      <4>2. g[i] = f[i] /\ (i # 0 => g[i - 1] = f[i - 1])
        BY <4>1
      <4> QED
        BY <2>2, <4>1, <4>2
    <3> QED
      BY <3>1, <3>2
  <2>4. g = [i \in 0 .. m + 1 |-> g[i]]
    OBVIOUS
  <2> HIDE DEF g
  <2>5. SolvesDecoding(g, j, values, m + 1)
    BY <2>3, <2>4 DEF SolvesDecoding
  <2> QED
    BY <2>5
<1> HIDE DEF T
<1>3. n \in T
  BY <1>1, <1>2, SetInduction
<1> QED
  BY <1>3 DEF T

(* What one more sequence makes.                                           *)
LEMMA DecodingUnfolds ==
  ASSUME NEW j, NEW values \in Seq(Value), NEW v \in Value
  PROVE  /\ Len(values) = 0 => Decoding(j, values) = Began(j)
         /\ Decoding(j, Append(values, v)) =
              Decoded(j, Decoding(j, values), j.types[Len(values) + 1], v)
<1> DEFINE more == Append(values, v)
           n == Len(values)
<1>1. n \in Nat /\ more \in Seq(Value) /\ Len(more) = n + 1 /\ more[n + 1] = v
      /\ \A i \in 1 .. n : more[i] = values[i]
  BY AppendProperties, LenProperties
<1>2. ASSUME NEW s, Len(s) \in Nat
      PROVE  \E f : SolvesDecoding(f, j, s, Len(s)) /\ Decoding(j, s) = f[Len(s)]
  <2> DEFINE f == CHOOSE f : f = [i \in 0 .. Len(s) |->
                                    IF i = 0 THEN Began(j)
                                    ELSE Decoded(j, f[i - 1], j.types[i], s[i])]
  <2>1. SolvesDecoding(f, j, s, Len(s))
    <3>1. \E g : SolvesDecoding(g, j, s, Len(s))
      BY <1>2, DecodingExists
    <3> QED
      BY <3>1 DEF SolvesDecoding
  <2>2. Decoding(j, s) = f[Len(s)]
    BY DEF Decoding
  <2> QED
    BY <2>1, <2>2
<1>3. PICK f : SolvesDecoding(f, j, values, n) /\ Decoding(j, values) = f[n]
  BY <1>1, <1>2
<1> HIDE DEF more
<1>4. PICK g : SolvesDecoding(g, j, more, n + 1) /\ Decoding(j, more) = g[n + 1]
  BY <1>1, <1>2
<1> HIDE DEF n
<1>5. /\ f[0] = Began(j)
      /\ \A i \in Nat : i < n => f[i + 1] = Decoded(j, f[i], j.types[i + 1], values[i + 1])
  BY <1>1, <1>3, DecodingStep
<1>6. /\ g[0] = Began(j)
      /\ \A i \in Nat : i < n + 1 => g[i + 1] = Decoded(j, g[i], j.types[i + 1], more[i + 1])
  <2>1. n + 1 \in Nat
    BY <1>1
  <2> QED
    BY <1>4, <2>1, DecodingStep
<1> DEFINE T == {i \in Nat : f[i] = g[i]}
<1>7. 0 \in T
  BY <1>5, <1>6
<1>8. ASSUME NEW i \in Nat, i < n, i \in T PROVE i + 1 \in T
  <2>1. i < n + 1 /\ f[i] = g[i] /\ i + 1 \in 1 .. n
    BY <1>1, <1>8
  <2>2. more[i + 1] = values[i + 1]
    BY <1>1, <2>1
  <2>3. f[i + 1] = g[i + 1]
    BY <1>5, <1>6, <1>8, <2>1, <2>2
  <2> QED
    BY <2>3
<1>9. n \in T
  <2> HIDE DEF T
  <2>1. \A i \in Nat : i < n /\ i \in T => i + 1 \in T
    BY <1>8
  <2>2. n \in Nat /\ n <= n
    BY <1>1
  <2>3. \A i \in Nat : i <= n => i \in T
    BY <1>7, <2>1, <2>2, BoundedInduction
  <2> QED
    BY <2>2, <2>3
<1>10. g[n + 1] = Decoded(j, g[n], j.types[n + 1], more[n + 1])
  <2>1. n \in Nat /\ n < n + 1
    BY <1>1
  <2> QED
    BY <1>6, <2>1
<1>11. n = 0 => Decoding(j, values) = Began(j)
  BY <1>3, <1>5
<1> QED
  BY <1>1, <1>3, <1>4, <1>9, <1>10, <1>11 DEF more, n

-----------------------------------------------------------------------------
(* What the definition works on.                                           *)
KnownEntry == [pos : Nat, length : Nat]

Decoder(j) ==
  [ok : BOOLEAN, out : Seq(Byte), streams : [DOMAIN j.literals.streams -> Seq(Byte)],
   known : Seq(KnownEntry), recent : [1 .. 3 -> Nat]]

(* The parts of a call.                                                    *)
LEMMA CallParts ==
  ASSUME RolzAssumption, NEW j \in Jobs
  PROVE  /\ j.size \in Nat /\ j.types \in Seq(TypeLz .. TypeRep)
         /\ j.literals.streams \in Seq(Seq(Byte)) /\ j.literals.cluster \in [Byte -> Nat]
         /\ j.literals.max \in Nat /\ Byte \subseteq Nat /\ 0 \in Byte
         /\ \A b \in Byte :
              b <= j.literals.max => j.literals.cluster[b] \in DOMAIN j.literals.streams
<1>1. j \in Job
  BY DEF RolzAssumption
<1>2. j.size \in Nat /\ j.types \in Seq(TypeLz .. TypeRep) /\ j.literals \in Literals
  BY <1>1 DEF Job
<1>3. /\ j.literals.streams \in Seq(Seq(Byte)) /\ j.literals.cluster \in [Byte -> Nat]
      /\ j.literals.max \in Nat
  BY <1>2 DEF Literals
<1> QED
  BY <1>2, <1>3 DEF RolzAssumption

(* The parts of what is decoded.                                           *)
LEMMA DecoderParts ==
  ASSUME NEW j, NEW r \in Decoder(j)
  PROVE  /\ r.ok \in BOOLEAN /\ r.out \in Seq(Byte) /\ Len(r.out) \in Nat
         /\ r.streams \in [DOMAIN j.literals.streams -> Seq(Byte)]
         /\ r.known \in Seq(KnownEntry) /\ Len(r.known) \in Nat /\ r.recent \in [1 .. 3 -> Nat]
<1>1. /\ r.ok \in BOOLEAN /\ r.out \in Seq(Byte)
      /\ r.streams \in [DOMAIN j.literals.streams -> Seq(Byte)]
      /\ r.known \in Seq(KnownEntry) /\ r.recent \in [1 .. 3 -> Nat]
  BY DEF Decoder
<1> QED
  BY <1>1, LenProperties

LEMMA ReachingParts ==
  ASSUME NEW b, NEW s, NEW kn, NEW rc
  PROVE  /\ Reaching(b, s, kn, rc).ok /\ Reaching(b, s, kn, rc).out = b
         /\ Reaching(b, s, kn, rc).streams = s /\ Reaching(b, s, kn, rc).known = kn
         /\ Reaching(b, s, kn, rc).recent = rc
BY DEF Reaching

LEMMA ReachingTyped ==
  ASSUME NEW j, NEW b \in Seq(Byte), NEW s \in [DOMAIN j.literals.streams -> Seq(Byte)],
         NEW kn \in Seq(KnownEntry), NEW rc \in [1 .. 3 -> Nat]
  PROVE  Reaching(b, s, kn, rc) \in Decoder(j)
BY DEF Reaching, Decoder

(* The first offsets, and what is decoded before the first sequence.       *)
LEMMA FirstOffsets == <<1, 4, 8>> \in [1 .. 3 -> Nat]
OBVIOUS

LEMMA BeganTyped ==
  ASSUME RolzAssumption, NEW j \in Jobs
  PROVE  /\ Began(j) \in Decoder(j) /\ Began(j).ok /\ Began(j).out = <<>>
         /\ Began(j).streams = j.literals.streams /\ Began(j).known = <<>>
         /\ Began(j).recent = <<1, 4, 8>>
         /\ Undecoded(j) \in Decoder(j) /\ ~Undecoded(j).ok
<1>1. j.literals.streams \in [DOMAIN j.literals.streams -> Seq(Byte)]
  <2>1. j.literals.streams \in Seq(Seq(Byte))
    BY CallParts
  <2> QED
    BY <2>1
<1>2. <<>> \in Seq(Byte) /\ <<>> \in Seq(KnownEntry)
  BY EmptySeq
<1>3. Began(j) \in Decoder(j)
  BY <1>1, <1>2, FirstOffsets, ReachingTyped DEF Began
<1>4. Undecoded(j) \in Decoder(j) /\ ~Undecoded(j).ok
  BY <1>1, <1>2, FirstOffsets DEF Undecoded, Decoder
<1> QED
  BY <1>3, <1>4, ReachingParts DEF Began

(* The byte before the next literal.                                       *)
ContextOf(s) == IF s = <<>> THEN 0 ELSE Last(s)

LEMMA ContextIsByte ==
  ASSUME RolzAssumption, NEW s \in Seq(Byte)
  PROVE  ContextOf(s) \in Byte /\ ContextOf(s) \in Nat
<1>1. CASE s = <<>>
  BY <1>1 DEF ContextOf, RolzAssumption
<1>2. CASE s # <<>>
  <2>1. Len(s) \in Nat \ {0}
    BY <1>2, EmptySeq
  <2>2. s[Len(s)] \in Byte
    BY <2>1, ElementOfSeq
  <2> QED
    BY <1>2, <2>2 DEF ContextOf, Last, RolzAssumption
<1> QED
  BY <1>1, <1>2

(* The cluster of a byte a call has literals after.                        *)
LEMMA ClusterIs ==
  ASSUME RolzAssumption, NEW j \in Jobs, NEW s \in Seq(Byte),
         ~(ContextOf(s) > j.literals.max)
  PROVE  j.literals.cluster[ContextOf(s)] \in DOMAIN j.literals.streams
<1>1. ContextOf(s) \in Byte /\ ContextOf(s) \in Nat /\ j.literals.max \in Nat
  BY ContextIsByte, CallParts
<1>2. PICK c \in Byte : c = ContextOf(s)
  BY <1>1
<1>3. c <= j.literals.max
  BY <1>1, <1>2
<1> QED
  BY <1>2, <1>3, CallParts

(* The literals left add up.                                               *)
LEMMA LeftIs ==
  ASSUME RolzAssumption, NEW j \in Jobs, NEW s \in [DOMAIN j.literals.streams -> Seq(Byte)]
  PROVE  /\ [k \in DOMAIN s |-> Len(s[k])] \in Seq(Nat)
         /\ \A r : r.streams = s =>
              /\ Left(r) = Sum([k \in DOMAIN s |-> Len(s[k])])
              /\ Left(r) \in Nat
<1> DEFINE lens == [k \in DOMAIN s |-> Len(s[k])]
           m == Len(j.literals.streams)
<1>1. m \in Nat /\ DOMAIN s = 1 .. m /\ \A k \in 1 .. m : Len(s[k]) \in Nat
  BY CallParts, LenProperties
<1>2. lens \in [1 .. m -> Nat]
  BY <1>1
<1>3. lens \in Seq(Nat) /\ Len(lens) = m
  <2> HIDE DEF lens, m
  <2> QED
    BY <1>1, <1>2
<1>4. ASSUME NEW r, r.streams = s PROVE Left(r) = Sum(lens)
  BY <1>4 DEF Left, Total, Sum
<1>5. Sum(lens) \in Nat
  <2> HIDE DEF lens, m
  <2>1. m \in Nat /\ m <= Len(lens) /\ lens \in Seq(Nat)
    BY <1>1, <1>3
  <2>2. Sum(Firsts(lens, m)) \in Nat
    BY <2>1, SumNat
  <2>3. Firsts(lens, m) = lens
    BY <1>3, <2>1, FirstsFacts
  <2> QED
    BY <2>2, <2>3
<1> HIDE DEF lens
<1> QED
  BY <1>3, <1>4, <1>5 DEF lens

(* One literal keeps the rest, and takes one from the literals left.       *)
LEMMA NextTyped ==
  ASSUME RolzAssumption, NEW j \in Jobs, NEW r \in Decoder(j)
  PROVE  /\ NextLiteral(j, r) \in Decoder(j)
         /\ NextLiteral(j, r).ok =>
              /\ r.ok /\ NextLiteral(j, r).known = r.known /\ NextLiteral(j, r).recent = r.recent
              /\ Len(NextLiteral(j, r).out) = Len(r.out) + 1
              /\ Left(NextLiteral(j, r)) + 1 = Left(r)
<1> DEFINE c == ContextOf(r.out)
           k == j.literals.cluster[c]
           fails == ~r.ok \/ c > j.literals.max \/ r.streams[k] = <<>>
           next == NextLiteral(j, r)
           b == Head(r.streams[k])
           t == Tail(r.streams[k])
           u == [r.streams EXCEPT ![k] = t]
<1>1. next = IF fails THEN Undecoded(j) ELSE Reaching(Append(r.out, b), u, r.known, r.recent)
  BY DEF NextLiteral, ContextOf
<1>2. CASE fails
  <2>1. next = Undecoded(j)
    BY <1>1, <1>2
  <2> HIDE DEF next
  <2> QED
    BY <2>1, BeganTyped DEF next
<1>3. CASE ~fails
  <2>1. next = Reaching(Append(r.out, b), u, r.known, r.recent)
    BY <1>1, <1>3
  <2>2. k \in DOMAIN j.literals.streams /\ r.ok /\ r.streams[k] # <<>>
    <3>1. r.out \in Seq(Byte) /\ ~(c > j.literals.max) /\ r.ok /\ r.streams[k] # <<>>
      BY <1>3, DecoderParts
    <3> QED
      BY <3>1, ClusterIs
  <2>3. r.streams \in [DOMAIN j.literals.streams -> Seq(Byte)]
    BY DecoderParts
  <2> HIDE DEF k, c
  <2>4. b \in Byte /\ t \in Seq(Byte) /\ Len(t) = Len(r.streams[k]) - 1
        /\ Len(r.streams[k]) \in Nat
    <3>1. r.streams[k] \in Seq(Byte)
      BY <2>2, <2>3
    <3> QED
      BY <2>2, <3>1, HeadTailProperties, LenProperties
  <2> HIDE DEF next, b, t
  <2>5. Append(r.out, b) \in Seq(Byte) /\ Len(Append(r.out, b)) = Len(r.out) + 1
    BY <2>4, DecoderParts, AppendProperties
  <2>6. u \in [DOMAIN j.literals.streams -> Seq(Byte)] /\ DOMAIN u = DOMAIN r.streams
    BY <2>3, <2>4
  <2> DEFINE lens == [i \in DOMAIN r.streams |-> Len(r.streams[i])]
             less == [i \in DOMAIN u |-> Len(u[i])]
  <2>7. less = [lens EXCEPT ![k] = Len(t)] /\ k \in DOMAIN lens /\ lens[k] = Len(r.streams[k])
    BY <2>2, <2>3
  <2> HIDE DEF u
  <2>8. next \in Decoder(j)
    BY <2>1, <2>5, <2>6, DecoderParts, ReachingTyped
  <2>9. /\ next.known = r.known /\ next.recent = r.recent /\ next.out = Append(r.out, b)
        /\ next.streams = u
    BY <2>1 DEF Reaching
  <2>10. Left(next) + 1 = Left(r)
    <3>1. lens \in Seq(Nat) /\ Left(r) = Sum(lens) /\ Left(r) \in Nat
      BY <2>3, LeftIs
    <3>2. Left(next) = Sum(less) /\ Left(next) \in Nat
      BY <2>6, <2>9, LeftIs
    <3>3. lens \in Seq(Int) /\ Len(t) \in Int /\ Len(t) = lens[k] - 1
      BY <2>4, <2>7, <3>1, LenProperties
    <3> HIDE DEF lens, less
    <3>4. Sum(less) = (Sum(lens) - lens[k]) + Len(t)
      BY <2>7, <3>3, SumReplaced
    <3>5. lens[k] \in Nat /\ Sum(lens) \in Nat
      BY <2>4, <2>7, <3>1
    <3>6. Sum(less) = (Sum(lens) - lens[k]) + (lens[k] - 1)
      BY <3>3, <3>4
    <3>7. Sum(less) + 1 = Sum(lens)
      BY <3>5, <3>6
    <3> QED
      BY <3>1, <3>2, <3>7
  <2> QED
    BY <2>2, <2>5, <2>8, <2>9, <2>10 DEF next
<1> HIDE DEF fails
<1> QED
  BY <1>2, <1>3

(* Literals are appended one by one, and one that fails refuses the rest.  *)
LEMMA AppendedTyped ==
  ASSUME RolzAssumption, NEW j \in Jobs, NEW r \in Decoder(j), NEW n \in Nat
  PROVE  /\ Appended(j, r, n) \in Decoder(j)
         /\ Appended(j, r, n).ok =>
              /\ r.ok /\ Appended(j, r, n).known = r.known /\ Appended(j, r, n).recent = r.recent
              /\ Len(Appended(j, r, n).out) = Len(r.out) + n
              /\ Left(Appended(j, r, n)) + n = Left(r)
<1> DEFINE TypedAs(a, m) ==
             /\ a \in Decoder(j)
             /\ a.ok => /\ r.ok /\ a.known = r.known /\ a.recent = r.recent
                        /\ Len(a.out) = Len(r.out) + m /\ Left(a) + m = Left(r)
           T == {m \in Nat : TypedAs(Appended(j, r, m), m)}
<1>1. \A a \in Decoder(j) : Len(a.out) \in Nat /\ Left(a) \in Nat
  BY DecoderParts, LeftIs
<1>2. 0 \in T
  <2>1. Appended(j, r, 0) = r
    BY AppendedUnfolds
  <2>2. Len(r.out) = Len(r.out) + 0 /\ Left(r) + 0 = Left(r)
    BY <1>1
  <2> QED
    BY <2>1, <2>2
<1>3. ASSUME NEW m \in Nat, m \in T PROVE m + 1 \in T
  <2>1. PICK a : a = Appended(j, r, m) /\ TypedAs(a, m)
    BY <1>3
  <2>2. PICK b : b = NextLiteral(j, a)
    OBVIOUS
  <2>3. Appended(j, r, m + 1) = b
    BY <2>1, <2>2, AppendedUnfolds
  <2>4. /\ b \in Decoder(j)
        /\ b.ok => /\ a.ok /\ b.known = a.known /\ b.recent = a.recent
                   /\ Len(b.out) = Len(a.out) + 1 /\ Left(b) + 1 = Left(a)
    BY <2>1, <2>2, NextTyped
  <2>5. TypedAs(b, m + 1)
    <3>1. ASSUME b.ok
          PROVE  /\ r.ok /\ b.known = r.known /\ b.recent = r.recent
                 /\ Len(b.out) = Len(r.out) + (m + 1) /\ Left(b) + (m + 1) = Left(r)
      <4>1. a.ok /\ b.known = a.known /\ b.recent = a.recent
            /\ Len(b.out) = Len(a.out) + 1 /\ Left(b) + 1 = Left(a)
        BY <2>4, <3>1
      <4>2. r.ok /\ a.known = r.known /\ a.recent = r.recent
            /\ Len(a.out) = Len(r.out) + m /\ Left(a) + m = Left(r)
        BY <2>1, <4>1
      <4>3. /\ Len(a.out) \in Nat /\ Left(a) \in Nat /\ Len(b.out) \in Nat /\ Left(b) \in Nat
            /\ Len(r.out) \in Nat /\ Left(r) \in Nat
        BY <1>1, <2>1, <2>4
      <4>4. Len(b.out) = Len(r.out) + (m + 1)
        <5> DEFINE x == Len(b.out)
                   y == Len(a.out)
                   z == Len(r.out)
        <5>1. x \in Nat /\ y \in Nat /\ z \in Nat /\ x = y + 1 /\ y = z + m
          BY <4>1, <4>2, <4>3
        <5> HIDE DEF x, y, z
        <5>2. x = z + (m + 1)
          BY <5>1
        <5> QED
          BY <5>2 DEF x, z
      <4>5. Left(b) + (m + 1) = Left(r)
        BY <4>1, <4>2, <4>3
      <4> QED
        BY <4>1, <4>2, <4>4, <4>5
    <3> QED
      BY <2>4, <3>1
  <2> HIDE DEF TypedAs
  <2>6. m + 1 \in Nat /\ TypedAs(Appended(j, r, m + 1), m + 1)
    BY <2>3, <2>5
  <2> QED
    BY <2>6
<1> HIDE DEF T
<1>4. n \in T
  BY <1>2, <1>3, SetInduction
<1> QED
  BY <1>4 DEF T

LEMMA AppendedStops ==
  ASSUME RolzAssumption, NEW j \in Jobs, NEW r \in Decoder(j), NEW m \in Nat, NEW n \in Nat,
         m <= n, Appended(j, r, n).ok
  PROVE  Appended(j, r, m).ok
<1> DEFINE T == {k \in Nat : m <= k => (Appended(j, r, k).ok => Appended(j, r, m).ok)}
<1>1. 0 \in T
  <2>1. m <= 0 => m = 0
    OBVIOUS
  <2> QED
    BY <2>1
<1>2. ASSUME NEW k \in Nat, k \in T PROVE k + 1 \in T
  <2>1. CASE m = k + 1
    BY <2>1
  <2>2. CASE m # k + 1
    <3>1. m <= k + 1 => m <= k
      BY <2>2
    <3>2. Appended(j, r, k + 1).ok => Appended(j, r, k).ok
      <4>1. Appended(j, r, k) \in Decoder(j)
        BY AppendedTyped
      <4>2. Appended(j, r, k + 1) = NextLiteral(j, Appended(j, r, k))
        BY AppendedUnfolds
      <4> QED
        BY <4>1, <4>2, NextTyped
    <3> QED
      BY <1>2, <3>1, <3>2
  <2> QED
    BY <2>1, <2>2
<1> HIDE DEF T
<1>3. n \in T
  BY <1>1, <1>2, SetInduction
<1> QED
  BY <1>3 DEF T
-----------------------------------------------------------------------------
(* What the decoder holds of it.                                           *)

(* The literals it has not taken.                                          *)
Untaken(j, t) ==
  [k \in DOMAIN j.literals.streams |->
     SubSeq(j.literals.streams[k], t[k] + 1, Len(j.literals.streams[k]))]

Has(j, r, o, t) == r.ok /\ r.out = o /\ r.streams = Untaken(j, t)

(* The literals not taken yet, and the next of them.                       *)
OneMore(t, k) == [t EXCEPT ![k] = @ + 1]
WithoutFirst(u, k) == [u EXCEPT ![k] = Tail(@)]

LEMMA UntakenIs ==
  ASSUME RolzAssumption, NEW j \in Jobs, NEW t \in [DOMAIN j.literals.streams -> Nat],
         \A k \in DOMAIN j.literals.streams : t[k] <= Len(j.literals.streams[k])
  PROVE  /\ Untaken(j, t) \in [DOMAIN j.literals.streams -> Seq(Byte)]
         /\ \A k \in DOMAIN j.literals.streams :
              /\ Len(Untaken(j, t)[k]) = Len(j.literals.streams[k]) - t[k]
              /\ t[k] = Len(j.literals.streams[k]) <=> Untaken(j, t)[k] = <<>>
              /\ t[k] # Len(j.literals.streams[k]) =>
                   /\ Head(Untaken(j, t)[k]) = j.literals.streams[k][t[k] + 1]
                   /\ WithoutFirst(Untaken(j, t), k) =
                        Untaken(j, OneMore(t, k))
<1> DEFINE s == j.literals.streams
           u == Untaken(j, t)
<1>1. \A k \in DOMAIN s : s[k] \in Seq(Byte)
  BY CallParts, ElementOfSeq, LenProperties
<1>2. u = [k \in DOMAIN s |-> SubSeq(s[k], t[k] + 1, Len(s[k]))]
  BY DEF Untaken
<1>3. ASSUME NEW k \in DOMAIN s
      PROVE  /\ u[k] \in Seq(Byte) /\ Len(u[k]) = Len(s[k]) - t[k]
             /\ t[k] = Len(s[k]) <=> u[k] = <<>>
             /\ t[k] # Len(s[k]) =>
                  /\ Head(u[k]) = s[k][t[k] + 1]
                  /\ WithoutFirst(u, k) = Untaken(j, OneMore(t, k))
  <2>1. s[k] \in Seq(Byte) /\ t[k] \in Nat /\ t[k] <= Len(s[k])
    BY <1>1
  <2>2. PICK q \in Seq(Byte) : q = s[k]
    BY <2>1
  <2>3. PICK n \in Nat : n = t[k]
    BY <2>1
  <2>4. u[k] = SubSeq(q, n + 1, Len(q)) /\ n <= Len(q)
    BY <1>2, <2>1, <2>2, <2>3
  <2>5. /\ u[k] \in Seq(Byte) /\ Len(u[k]) = Len(q) - n
        /\ n = Len(q) <=> u[k] = <<>>
        /\ n # Len(q) => Head(u[k]) = q[n + 1] /\ Tail(u[k]) = SubSeq(q, (n + 1) + 1, Len(q))
    BY <2>4, RestOfStream
  <2>6. ASSUME n # Len(q)
        PROVE  WithoutFirst(u, k) = Untaken(j, OneMore(t, k))
    <3> DEFINE w == OneMore(t, k)
    <3>1. w[k] = n + 1 /\ \A i \in DOMAIN s : i # k => w[i] = t[i]
      BY <2>3 DEF OneMore
    <3>2. Untaken(j, w) = [i \in DOMAIN s |-> SubSeq(s[i], w[i] + 1, Len(s[i]))]
      BY DEF Untaken
    <3> HIDE DEF w
    <3>3. Tail(u[k]) = SubSeq(s[k], w[k] + 1, Len(s[k]))
      BY <2>2, <2>5, <2>6, <3>1
    <3>4. \A i \in DOMAIN s : i # k => u[i] = SubSeq(s[i], w[i] + 1, Len(s[i]))
      BY <1>2, <3>1
    <3>5. WithoutFirst(u, k) = [i \in DOMAIN s |-> IF i = k THEN Tail(u[k]) ELSE u[i]]
      BY <1>2 DEF WithoutFirst
    <3> HIDE DEF s, u
    <3>6. [i \in DOMAIN s |-> IF i = k THEN Tail(u[k]) ELSE u[i]] =
            [i \in DOMAIN s |-> SubSeq(s[i], w[i] + 1, Len(s[i]))]
      BY <3>3, <3>4
    <3> QED
      BY <3>2, <3>5, <3>6 DEF w
  <2> QED
    BY <2>2, <2>3, <2>5, <2>6
<1>4. u \in [DOMAIN s -> Seq(Byte)]
  BY <1>2, <1>3
<1> QED
  BY <1>3, <1>4

LEMMA UntakenOf ==
  ASSUME RolzAssumption, NEW j \in Jobs, NEW t \in [DOMAIN j.literals.streams -> Nat],
         \A k \in DOMAIN j.literals.streams : t[k] <= Len(j.literals.streams[k]),
         NEW k \in DOMAIN j.literals.streams
  PROVE  /\ Len(Untaken(j, t)[k]) = Len(j.literals.streams[k]) - t[k]
         /\ t[k] = Len(j.literals.streams[k]) <=> Untaken(j, t)[k] = <<>>
         /\ t[k] # Len(j.literals.streams[k]) =>
              /\ Head(Untaken(j, t)[k]) = j.literals.streams[k][t[k] + 1]
              /\ WithoutFirst(Untaken(j, t), k) = Untaken(j, OneMore(t, k))
BY UntakenIs

(* What the decoder counts as remaining is what is left.                   *)
LEMMA RemainingIs ==
  ASSUME RolzAssumption, RolzTypes, NEW r \in Decoder(job), Has(job, r, out, taken)
  PROVE  Left(r) = Remaining /\ Left(r) \in Nat
<1> DEFINE s == job.literals.streams
<1>1. job \in Jobs /\ taken \in [DOMAIN s -> Nat] /\ \A k \in DOMAIN s : taken[k] <= Len(s[k])
  BY DEF RolzTypes, Streams
<1>2. r.streams = Untaken(job, taken) /\ DOMAIN r.streams = DOMAIN s
  BY DEF Has, Untaken
<1>3. \A k \in DOMAIN s : Len(r.streams[k]) = Len(s[k]) - taken[k]
  <2>1. \A k \in DOMAIN s : Len(Untaken(job, taken)[k]) = Len(s[k]) - taken[k]
    BY <1>1, UntakenOf
  <2> QED
    BY <1>2, <2>1
<1>4. [k \in DOMAIN r.streams |-> Len(r.streams[k])] = [k \in DOMAIN s |-> Len(s[k]) - taken[k]]
  BY <1>2, <1>3
<1>5. Left(r) = Remaining
  BY <1>4 DEF Left, Remaining, Streams
<1> QED
  BY <1>1, <1>5, DecoderParts, LeftIs

(* A literal is the next one, or there is none.                            *)
LEMMA LiteralFollows ==
  ASSUME RolzAssumption, RolzInv, NEW r \in Decoder(job), Has(job, r, out, taken), AppendLiteral
  PROVE  \/ Fail("Malformed") /\ ~NextLiteral(job, r).ok
         \/ /\ Has(job, NextLiteral(job, r), out', taken')
            /\ left' = left - 1
            /\ UNCHANGED <<job, phase, at, reps, heads, entries, read, matched, result>>
<1> DEFINE c == ContextOf(out)
           k == job.literals.cluster[c]
           fails == c > job.literals.max \/ taken[k] = Len(job.literals.streams[k])
           next == NextLiteral(job, r)
<1>1. /\ job \in Jobs /\ taken \in [DOMAIN job.literals.streams -> Nat] /\ out \in Seq(Byte)
      /\ \A i \in DOMAIN job.literals.streams : taken[i] <= Len(job.literals.streams[i])
  BY DEF RolzInv, RolzTypes, Streams
<1>2. /\ r.ok /\ r.out = out /\ r.streams = Untaken(job, taken)
  BY DEF Has
<1>3. /\ read' = read
      /\ IF fails THEN Fail("Malformed")
         ELSE /\ out' = Append(out, job.literals.streams[k][taken[k] + 1])
              /\ taken' = OneMore(taken, k)
              /\ left' = left - 1
              /\ UNCHANGED <<job, phase, at, reps, heads, entries, matched, result>>
  BY DEF AppendLiteral, ContextOf, Streams, OneMore
<1>4. next = IF ~r.ok \/ c > job.literals.max \/ r.streams[k] = <<>> THEN Undecoded(job)
             ELSE Reaching(Append(out, Head(r.streams[k])), WithoutFirst(r.streams, k),
                           r.known, r.recent)
  BY <1>2 DEF NextLiteral, ContextOf, WithoutFirst
<1>5. ~(c > job.literals.max) =>
        /\ k \in DOMAIN job.literals.streams
        /\ taken[k] = Len(job.literals.streams[k]) <=> r.streams[k] = <<>>
        /\ taken[k] # Len(job.literals.streams[k]) =>
             /\ Head(r.streams[k]) = job.literals.streams[k][taken[k] + 1]
             /\ WithoutFirst(r.streams, k) = Untaken(job, OneMore(taken, k))
  <2>1. SUFFICES ASSUME ~(c > job.literals.max)
                 PROVE  /\ k \in DOMAIN job.literals.streams
                        /\ taken[k] = Len(job.literals.streams[k]) <=> r.streams[k] = <<>>
                        /\ taken[k] # Len(job.literals.streams[k]) =>
                             /\ Head(r.streams[k]) = job.literals.streams[k][taken[k] + 1]
                             /\ WithoutFirst(r.streams, k) =
                                  Untaken(job, OneMore(taken, k))
    OBVIOUS
  <2>2. k \in DOMAIN job.literals.streams
    BY <1>1, <2>1, ClusterIs
  <2>3. ASSUME NEW i \in DOMAIN job.literals.streams
        PROVE  /\ taken[i] = Len(job.literals.streams[i]) <=> Untaken(job, taken)[i] = <<>>
               /\ taken[i] # Len(job.literals.streams[i]) =>
                    /\ Head(Untaken(job, taken)[i]) = job.literals.streams[i][taken[i] + 1]
                    /\ WithoutFirst(Untaken(job, taken), i) =
                         Untaken(job, OneMore(taken, i))
    BY <1>1, UntakenOf
  <2> HIDE DEF k, c
  <2> QED
    BY <1>2, <2>2, <2>3
<1> HIDE DEF k, c, next
<1>6. CASE fails
  <2>1. next = Undecoded(job)
    <3>1. c > job.literals.max \/ r.streams[k] = <<>>
      BY <1>5, <1>6
    <3> QED
      BY <1>4, <3>1
  <2>2. ~next.ok
    BY <1>1, <2>1, BeganTyped
  <2> QED
    BY <1>3, <1>6, <2>2 DEF next
<1>7. CASE ~fails
  <2>1. /\ out' = Append(out, job.literals.streams[k][taken[k] + 1])
        /\ taken' = OneMore(taken, k)
        /\ left' = left - 1
        /\ UNCHANGED <<job, phase, at, reps, heads, entries, read, matched, result>>
    BY <1>3, <1>7
  <2>2. /\ ~(c > job.literals.max) /\ r.streams[k] # <<>>
        /\ Head(r.streams[k]) = job.literals.streams[k][taken[k] + 1]
        /\ WithoutFirst(r.streams, k) = Untaken(job, OneMore(taken, k))
    BY <1>5, <1>7
  <2>3. next = Reaching(out', Untaken(job, taken'), r.known, r.recent)
    BY <1>2, <1>4, <2>1, <2>2
  <2>4. Has(job, next, out', taken')
    BY <2>3 DEF Has, Reaching
  <2> QED
    BY <2>1, <2>4 DEF next
<1> QED
  BY <1>6, <1>7

-----------------------------------------------------------------------------
(* The bytes, the length and the offsets of a match.                       *)

(* The bytes a match appends, by the position each is copied from.         *)
Repeated(s, offset, n) == [i \in 1 .. n |-> s[Len(s) - offset + 1 + ((i - 1) % offset)]]

LEMMA CopiedIs ==
  ASSUME NEW S, NEW s \in Seq(S), NEW offset \in 1 .. Len(s), NEW n \in Nat
  PROVE  Copied(s, offset, n) = s \o Repeated(s, offset, n)
<1> DEFINE m == Len(s)
           origin(i) == m - offset + 1 + (((i - m) - 1) % offset)
           g == [i \in 1 .. m + n |-> IF i <= m THEN s[i] ELSE s[origin(i)]]
           Copies(f) == f = [i \in 1 .. m + n |-> IF i <= m THEN s[i] ELSE f[i - offset]]
<1>1. m \in Nat /\ offset \in Nat \ {0} /\ offset <= m
  BY LenProperties
<1>2. ASSUME NEW i \in 1 .. m + n, i > m
      PROVE  /\ i - offset \in 1 .. m + n /\ i - offset < i
             /\ i - offset <= m => origin(i) = i - offset
             /\ i - offset > m => origin(i) = origin(i - offset)
  <2> HIDE DEF m
  <2>1. i - offset \in 1 .. m + n /\ i - offset < i
    BY <1>1, <1>2
  <2>2. ASSUME i - offset <= m PROVE origin(i) = i - offset
    <3> DEFINE a == (i - m) - 1
    <3>1. a \in Nat /\ a < offset /\ (m - offset) + 1 + a = i - offset
      BY <1>1, <1>2, <2>2
    <3>2. a % offset = a
      <4> HIDE DEF a
      <4> QED
        BY <1>1, <3>1, RemainderRepeats
    <3> QED
      BY <3>1, <3>2
  <2>3. ASSUME i - offset > m PROVE origin(i) = origin(i - offset)
    <3> DEFINE a == ((i - offset) - m) - 1
               b == (i - m) - 1
    <3>1. a \in Nat /\ b = a + offset
      BY <1>1, <1>2, <2>3
    <3>2. b % offset = a % offset
      <4> HIDE DEF a, b
      <4> QED
        BY <1>1, <3>1, RemainderRepeats
    <3> QED
      BY <3>2
  <2> QED
    BY <2>1, <2>2, <2>3
<1>3. \A i \in 1 .. m + n : g[i] = IF i <= m THEN s[i] ELSE g[i - offset]
  <2> TAKE i \in 1 .. m + n
  <2>1. CASE i <= m
    BY <2>1
  <2>2. CASE ~(i <= m)
    <3>1. i > m
      BY <1>1, <2>2
    <3> HIDE DEF origin, m
    <3>2. /\ i - offset \in 1 .. m + n
          /\ i - offset <= m => origin(i) = i - offset
          /\ i - offset > m => origin(i) = origin(i - offset)
      BY <1>2, <3>1
    <3>3. g[i] = s[origin(i)]
      BY <2>2
    <3>4. i - offset <= m \/ i - offset > m
      BY <1>1
    <3>5. g[i - offset] = IF i - offset <= m THEN s[i - offset] ELSE s[origin(i - offset)]
      BY <3>2
    <3>6. g[i - offset] = s[origin(i)]
      BY <1>1, <3>2, <3>4, <3>5
    <3> QED
      BY <2>2, <3>3, <3>6
  <2> QED
    BY <2>1, <2>2
<1>4. Copies(g)
  <2>1. g = [i \in 1 .. m + n |-> g[i]]
    OBVIOUS
  <2> HIDE DEF g, m
  <2>2. [i \in 1 .. m + n |-> g[i]] = [i \in 1 .. m + n |-> IF i <= m THEN s[i] ELSE g[i - offset]]
    BY <1>3
  <2> QED
    BY <2>1, <2>2
<1>5. ASSUME NEW f, Copies(f) PROVE f = g
  <2> DEFINE T == {k \in Nat : \A i \in 1 .. m + n : i <= k => f[i] = g[i]}
  <2> HIDE DEF g, m, origin
  <2>1. \A i \in 1 .. m + n : f[i] = IF i <= m THEN s[i] ELSE f[i - offset]
    BY <1>5
  <2>2. 0 \in T
    BY <1>1
  <2>3. ASSUME NEW k \in Nat, k \in T PROVE k + 1 \in T
    <3>1. ASSUME NEW i \in 1 .. m + n, i <= k + 1 PROVE f[i] = g[i]
      <4>1. CASE i <= m
        BY <1>3, <2>1, <4>1
      <4>2. CASE ~(i <= m)
        <5>1. i > m /\ i \in Nat
          BY <1>1, <4>2
        <5>2. i - offset \in 1 .. m + n /\ i - offset <= k
          <6>1. i - offset \in 1 .. m + n /\ i - offset < i
            BY <1>2, <5>1
          <6> QED
            BY <1>1, <3>1, <5>1, <6>1
        <5>3. f[i - offset] = g[i - offset]
          BY <2>3, <5>2
        <5> QED
          BY <1>3, <2>1, <4>2, <5>3
      <4> QED
        BY <4>1, <4>2
    <3>2. k + 1 \in Nat
      OBVIOUS
    <3> QED
      BY <3>1, <3>2
  <2> HIDE DEF T
  <2>4. m + n \in T
    <3>1. m + n \in Nat
      BY <1>1
    <3> QED
      BY <2>2, <2>3, <3>1, SetInduction
  <2>5. \A i \in 1 .. m + n : f[i] = g[i]
    BY <1>1, <2>4 DEF T
  <2>6. f = [i \in 1 .. m + n |-> f[i]] /\ g = [i \in 1 .. m + n |-> g[i]]
    BY <1>4, <1>5
  <2> QED
    BY <2>5, <2>6
<1>6. Copied(s, offset, n) = g
  <2> DEFINE c == CHOOSE f : Copies(f)
  <2>1. Copies(c)
    BY <1>4
  <2>2. Copied(s, offset, n) = c
    BY DEF Copied
  <2> HIDE DEF c, g, Copies
  <2> QED
    BY <1>5, <2>1, <2>2
<1>7. g = s \o Repeated(s, offset, n)
  <2> DEFINE t == Repeated(s, offset, n)
  <2>1. \A i \in 1 .. n : t[i] = s[origin(i + m)]
    <3> TAKE i \in 1 .. n
    <3>1. ((i + m) - m) - 1 = i - 1
      BY <1>1
    <3> QED
      BY <3>1 DEF Repeated
  <2>2. Len(t) = n /\ t = [i \in 1 .. n |-> t[i]]
    BY DEF Repeated
  <2> HIDE DEF t, origin, m
  <2>3. s \o t = [i \in 1 .. m + n |-> IF i <= m THEN s[i] ELSE t[i - m]]
    BY <2>2 DEF m
  <2>4. \A i \in 1 .. m + n : ~(i <= m) => t[i - m] = s[origin(i)]
    <3> TAKE i \in 1 .. m + n
    <3> HAVE ~(i <= m)
    <3>1. i - m \in 1 .. n /\ (i - m) + m = i
      BY <1>1
    <3> QED
      BY <2>1, <3>1
  <2>5. g = [i \in 1 .. m + n |-> IF i <= m THEN s[i] ELSE t[i - m]]
    BY <2>4
  <2> QED
    BY <2>3, <2>5 DEF t
<1> QED
  BY <1>6, <1>7

(* One length has a code, and it is the one the decoder takes.             *)
LEMMA CodedIs ==
  ASSUME RolzAssumption, NEW e \in Nat, NEW c \in Nat
  PROVE  Coded(e, c) = MatchLength(e, c) /\ MatchLength(e, c) \in Nat
<1> DEFINE x == MatchLength(e, c)
           S == MinLength .. e + c + MinLength
<1>1. MinLength \in Nat \ {0}
  BY DEF RolzAssumption
<1>2. x \in S /\ Code(e, x) = c
  BY <1>1 DEF MatchLength, Code
<1>3. ASSUME NEW y \in S, Code(e, y) = c PROVE y = x
  BY <1>1, <1>3 DEF MatchLength, Code
<1>4. Coded(e, c) = CHOOSE y \in S : Code(e, y) = c
  BY DEF Coded
<1> HIDE DEF x, S
<1>5. (CHOOSE y \in S : Code(e, y) = c) = x
  BY <1>2, <1>3
<1>6. x \in Nat
  BY <1>1, <1>2 DEF S
<1> QED
  BY <1>4, <1>5, <1>6 DEF x

(* Recent offsets.                                                         *)
LEMMA OffsetsAreThree ==
  ASSUME NEW q \in Nat \X Nat \X Nat
  PROVE  q \in [1 .. 3 -> Nat]
OBVIOUS

LEMMA RecentIs ==
  ASSUME RolzAssumption, reps \in Nat \X Nat \X Nat, NEW type \in TypeLz .. TypeRep, NEW v \in Value,
         type \notin {TypeLz, TypeRolz} => v.code % 4 # 3, NEW offset \in Nat
  PROVE  Recent(reps, type, v, offset) = RepsAfter(type, v, offset)
<1> DEFINE c == v.code % 4
           lz == type \in {TypeLz, TypeRolz}
<1>1. c \in 0 .. 3 /\ (~lz => c \in 0 .. 2)
  <2>1. v.code \in Nat /\ 4 \in Nat \ {0}
    BY DEF Value
  <2>2. c \in 0 .. 4 - 1
    BY <2>1, ModRange
  <2> QED
    BY <2>2
<1>2. /\ lz \/ c = 2 => RepsAfter(type, v, offset) = <<offset, reps[1], reps[2]>>
      /\ ~lz /\ c = 1 => RepsAfter(type, v, offset) = <<offset, reps[1], reps[3]>>
      /\ ~lz /\ c = 0 => RepsAfter(type, v, offset) = reps
  BY DEF RepsAfter
<1> DEFINE moved == IF lz THEN 3 ELSE c + 1
           new == [i \in 1 .. 3 |-> IF i = 1 THEN offset ELSE IF i <= moved THEN reps[i - 1] ELSE reps[i]]
<1>3. Recent(reps, type, v, offset) = IF moved = 1 THEN reps ELSE new
  BY DEF Recent
<1> HIDE DEF lz, c
<1>4. CASE lz \/ c = 2
  <2>1. moved = 3
    BY <1>1, <1>4
  <2>2. new[1] = offset /\ new[2] = reps[1] /\ new[3] = reps[2]
    BY <2>1
  <2>3. new = <<offset, reps[1], reps[2]>>
    BY <2>2
  <2> QED
    BY <1>2, <1>3, <1>4, <2>1, <2>3
<1>5. CASE ~lz /\ c = 1
  <2>1. moved = 2
    BY <1>5
  <2>2. new[1] = offset /\ new[2] = reps[1] /\ new[3] = reps[3]
    BY <2>1
  <2>3. new = <<offset, reps[1], reps[3]>>
    BY <2>2
  <2> QED
    BY <1>2, <1>3, <1>5, <2>1, <2>3
<1>6. CASE ~lz /\ c = 0
  BY <1>2, <1>3, <1>6
<1> QED
  BY <1>1, <1>4, <1>5, <1>6

-----------------------------------------------------------------------------
(* The table and the positions inserted.                                   *)

(* Every position inserted has two bytes before it.                        *)
FitsIn(known, s) == \A i \in DOMAIN known : known[i].pos \in ContextDepth .. Len(s)

(* An entry as the table holds it.                                         *)
AsHeld(e) == [index |-> e.pos + 1, predicted |-> Smaller(e.length, MaxPredicted)]

(* Output that grows moves no position to another row.                     *)
LEMMA NthStays ==
  ASSUME Grows, NEW known \in Seq(KnownEntry), FitsIn(known, out), NEW r, NEW n
  PROVE  Nth(known, out', r, n) = Nth(known, out, r, n)
<1>1. ASSUME NEW i \in DOMAIN known
      PROVE  RowAt(out', known[i].pos) = RowAt(out, known[i].pos)
  <2>1. known[i].pos \in ContextDepth .. Len(out) /\ Len(out) \in Nat
    BY LenProperties DEF FitsIn, Grows
  <2>2. PICK pos \in Nat : pos = known[i].pos /\ pos >= 2 /\ pos <= Len(out)
    BY <2>1 DEF ContextDepth
  <2>3. RowAt(out', pos) = RowAt(out, pos)
    BY <2>2, RowStays
  <2> QED
    BY <2>2, <2>3
<1>2. InRow(known, out', r) = InRow(known, out, r)
  BY <1>1 DEF InRow
<1> QED
  BY <1>2 DEF Nth

(* A row that an entry is added to, and the others.                        *)
LEMMA NthAppended ==
  ASSUME NEW known \in Seq(KnownEntry), NEW e \in KnownEntry, NEW s, NEW r, NEW n \in Nat
  PROVE  /\ RowAt(s, e.pos) # r => Nth(Append(known, e), s, r, n) = Nth(known, s, r, n)
         /\ RowAt(s, e.pos) = r /\ n = 0 => Nth(Append(known, e), s, r, n) = {Len(known) + 1}
         /\ RowAt(s, e.pos) = r /\ n # 0 =>
              Nth(Append(known, e), s, r, n) = Nth(known, s, r, n - 1)
<1> DEFINE m == Len(known)
           more == Append(known, e)
           old == InRow(known, s, r)
           new == InRow(more, s, r)
           after(S, i) == {k \in S : k > i}
<1>1. m \in Nat /\ DOMAIN known = 1 .. m /\ DOMAIN more = 1 .. m + 1 /\ more[m + 1] = e
      /\ \A i \in 1 .. m : more[i] = known[i]
  BY AppendProperties, LenProperties
<1>2. /\ old \subseteq 1 .. m
      /\ RowAt(s, e.pos) # r => new = old
      /\ RowAt(s, e.pos) = r => new = old \cup {m + 1}
  <2> HIDE DEF more, m
  <2>1. old = {i \in 1 .. m : RowAt(s, known[i].pos) = r}
    BY <1>1 DEF InRow
  <2>2. new = {i \in 1 .. m + 1 : RowAt(s, more[i].pos) = r}
    BY <1>1 DEF InRow
  <2>3. \A i \in 1 .. m : more[i].pos = known[i].pos
    BY <1>1
  <2>4. more[m + 1].pos = e.pos /\ 1 .. m + 1 = (1 .. m) \cup {m + 1}
    BY <1>1
  <2> HIDE DEF old, new
  <2> QED
    BY <2>1, <2>2, <2>3, <2>4
<1>3. /\ Nth(known, s, r, n) = {i \in old : Cardinality(after(old, i)) = n}
      /\ Nth(more, s, r, n) = {i \in new : Cardinality(after(new, i)) = n}
      /\ Nth(known, s, r, n - 1) = {i \in old : Cardinality(after(old, i)) = n - 1}
  BY DEF Nth
<1> HIDE DEF old, new, more, m
<1>4. CASE RowAt(s, e.pos) # r
  BY <1>2, <1>3, <1>4 DEF more
<1>5. CASE RowAt(s, e.pos) = r
  <2>1. new = old \cup {m + 1} /\ old \subseteq 1 .. m
    BY <1>2, <1>5
  <2>2. Cardinality(after(new, m + 1)) = 0
    <3>1. \A k \in new : k \in Nat /\ k <= m + 1
      BY <1>1, <2>1
    <3>2. after(new, m + 1) = {}
      BY <1>1, <3>1
    <3> QED
      BY <3>2, FS_EmptySet
  <2>3. ASSUME NEW i \in old
        PROVE  /\ Cardinality(after(old, i)) \in Nat
               /\ Cardinality(after(new, i)) = Cardinality(after(old, i)) + 1
    <3>4. i \in 1 .. m /\ m + 1 > i /\ m + 1 \notin old
      BY <1>1, <2>1
    <3>1. after(new, i) = after(old, i) \cup {m + 1} /\ m + 1 \notin after(old, i)
          /\ after(old, i) \subseteq 1 .. m
      BY <2>1, <3>4
    <3>2. IsFiniteSet(1 .. m)
      <4>1. 1 \in Int /\ m \in Int
        BY <1>1
      <4> QED
        BY <4>1, FS_Interval
    <3>3. IsFiniteSet(after(old, i))
      BY <3>1, <3>2, FS_Subset
    <3> HIDE DEF after
    <3> QED
      BY <3>1, <3>3, FS_AddElement, FS_CardinalityType
  <2> HIDE DEF after
  <2>4. CASE n = 0
    <3>1. \A i \in old : Cardinality(after(new, i)) # 0
      BY <2>3
    <3>2. {i \in new : Cardinality(after(new, i)) = n} = {m + 1}
      BY <2>1, <2>2, <2>4, <3>1
    <3> QED
      BY <1>3, <1>5, <2>4, <3>2 DEF more, m
  <2>5. CASE n # 0
    <3>1. \A i \in old : Cardinality(after(new, i)) = n <=> Cardinality(after(old, i)) = n - 1
      BY <2>3
    <3>2. {i \in new : Cardinality(after(new, i)) = n} =
            {i \in old : Cardinality(after(old, i)) = n - 1}
      BY <2>1, <2>2, <2>5, <3>1
    <3> QED
      BY <1>3, <1>5, <2>5, <3>2 DEF more
  <2> QED
    BY <2>4, <2>5
<1> QED
  BY <1>4, <1>5

(* Positions of a row are among those inserted.                            *)
LEMMA NthIsKnown ==
  ASSUME NEW known \in Seq(KnownEntry), NEW s, NEW r, NEW n, NEW i \in Nth(known, s, r, n)
  PROVE  i \in 1 .. Len(known) /\ known[i] \in KnownEntry /\ RowAt(s, known[i].pos) = r
<1>1. i \in DOMAIN known /\ RowAt(s, known[i].pos) = r
  BY DEF Nth, InRow
<1> QED
  BY <1>1, ElementOfSeq, LenProperties

(* The table by its parts.                                                 *)
Lists(known, r, n) ==
  /\ Nth(known, out, r, n) = {} => ~Filled(r, n)
  /\ \A i \in Nth(known, out, r, n) : EntryAt(r, n) = AsHeld(known[i])

LEMMA TableLists ==
  ASSUME NEW known
  PROVE  TableIs(known) <=> \A r \in Rows : \A n \in 0 .. RowSize - 1 : Lists(known, r, n)
BY DEF TableIs, Lists, AsHeld

(* Nothing put in.                                                         *)
LEMMA TableKept ==
  ASSUME Grows, NEW known \in Seq(KnownEntry), FitsIn(known, out), TableIs(known),
         UNCHANGED <<heads, entries>>
  PROVE  TableIs(known)'
<1>1. SUFFICES ASSUME NEW r \in Rows, NEW n \in 0 .. RowSize - 1
               PROVE  Lists(known, r, n)'
  BY DEF TableIs, Lists, AsHeld
<1>2. Lists(known, r, n)
  BY TableLists
<1>3. EntryAt(r, n)' = EntryAt(r, n) /\ Filled(r, n)' = Filled(r, n)
  BY DEF EntryAt, Slot, Filled
<1>4. Nth(known, out', r, n) = Nth(known, out, r, n)
  BY NthStays
<1> QED
  BY <1>2, <1>3, <1>4 DEF Lists

(* One position put in.                                                    *)
LEMMA TablePut ==
  ASSUME RolzAssumption, TableTypes, Grows, NEW known \in Seq(KnownEntry), FitsIn(known, out),
         TableIs(known), NEW pos \in Nat, pos >= 2, pos <= Len(out), NEW length \in Nat,
         Put(out, pos, length)
  PROVE  TableIs(Append(known, [pos |-> pos, length |-> length]))'
<1> DEFINE e == [pos |-> pos, length |-> length]
           m == Len(known)
           more == Append(known, e)
<1>0. RowAt(out, pos) \in Rows /\ RowAt(out', pos) = RowAt(out, pos)
  BY HasRow, RowStays DEF Grows
<1>1. PICK row \in Rows : row = RowAt(out, pos) /\ RowAt(out', pos) = row
  BY <1>0
<1>2. e \in KnownEntry /\ e.pos = pos
  BY DEF KnownEntry
<1>3. PutIn(row, pos, length)
  BY <1>1 DEF Put, PutIn
<1> HIDE DEF e
<1>4. /\ EntryAt(row, 0)' = [index |-> pos + 1, predicted |-> Smaller(length, MaxPredicted)]
      /\ EntryAt(row, 0)'.index = pos + 1
      /\ \A i \in 1 .. RowSize - 1 : EntryAt(row, i)' = EntryAt(row, i - 1)
      /\ \A r \in Rows \ {row} : \A i \in 0 .. RowSize - 1 : EntryAt(r, i)' = EntryAt(r, i)
  BY <1>1, <1>3, PutMoves
<1>11. EntryAt(row, 0)' = AsHeld(e)
  BY <1>4 DEF AsHeld, e
<1>5. m \in Nat /\ more[m + 1] = e /\ \A i \in 1 .. m : more[i] = known[i]
  BY <1>2, AppendProperties, LenProperties
<1> HIDE DEF e, more, m
<1>6. SUFFICES ASSUME NEW r \in Rows, NEW n \in 0 .. RowSize - 1
               PROVE  Lists(more, r, n)'
  BY DEF TableIs, Lists, AsHeld, more, e
<1>7. n \in Nat /\ RowSize \in Nat
  BY DEF RolzAssumption
<1>8. CASE r # row
  <2>1. Nth(more, out', r, n) = Nth(known, out, r, n)
    <3>1. RowAt(out', e.pos) # r
      BY <1>1, <1>2, <1>8
    <3>2. Nth(more, out', r, n) = Nth(known, out', r, n)
      BY <1>2, <1>7, <3>1, NthAppended DEF more
    <3> QED
      BY <3>2, NthStays
  <2>2. EntryAt(r, n)' = EntryAt(r, n) /\ Filled(r, n)' = Filled(r, n)
    BY <1>4, <1>8 DEF Filled
  <2>3. Lists(known, r, n)
    BY TableLists
  <2>4. \A i \in Nth(known, out, r, n) : more[i] = known[i]
    BY <1>5, NthIsKnown DEF m
  <2> QED
    BY <2>1, <2>2, <2>3, <2>4 DEF Lists
<1>9. CASE r = row /\ n = 0
  <2>1. Nth(more, out', r, n) = {m + 1}
    <3>1. RowAt(out', e.pos) = r
      BY <1>1, <1>2, <1>9
    <3> QED
      BY <1>2, <1>7, <1>9, <3>1, NthAppended DEF more, m
  <2>2. EntryAt(r, n)' = AsHeld(more[m + 1])
    <3>1. EntryAt(r, n)' = EntryAt(row, 0)'
      BY <1>9
    <3>2. AsHeld(more[m + 1]) = AsHeld(e)
      BY <1>5
    <3> QED
      BY <1>11, <3>1, <3>2
  <2> QED
    BY <2>1, <2>2 DEF Lists
<1>10. CASE r = row /\ n # 0
  <2>1. n - 1 \in 0 .. RowSize - 1 /\ n \in 1 .. RowSize - 1
    BY <1>7, <1>10
  <2>2. Nth(more, out', r, n) = Nth(known, out, r, n - 1)
    <3>1. RowAt(out', e.pos) = r
      BY <1>1, <1>2, <1>10
    <3>2. Nth(more, out', r, n) = Nth(known, out', r, n - 1)
      BY <1>2, <1>7, <1>10, <3>1, NthAppended DEF more
    <3> QED
      BY <3>2, NthStays
  <2>3. EntryAt(r, n)' = EntryAt(r, n - 1) /\ Filled(r, n)' = Filled(r, n - 1)
    <3>1. EntryAt(row, n)' = EntryAt(row, n - 1)
      BY <1>4, <2>1
    <3>2. EntryAt(r, n)' = EntryAt(r, n - 1)
      BY <1>10, <3>1
    <3> QED
      BY <3>2 DEF Filled
  <2>4. Lists(known, r, n - 1)
    BY <2>1, TableLists
  <2>5. \A i \in Nth(known, out, r, n - 1) : more[i] = known[i]
    BY <1>5, NthIsKnown DEF m
  <2> QED
    BY <2>2, <2>3, <2>4, <2>5 DEF Lists
<1> QED
  BY <1>8, <1>9, <1>10

-----------------------------------------------------------------------------
(* The positions a sequence inserts.                                       *)

LEMMA LiteralEntriesAre ==
  ASSUME NEW start \in Nat, NEW to \in Nat
  PROVE  /\ LiteralEntries(start, to) \in Seq(KnownEntry)
         /\ \A i \in DOMAIN LiteralEntries(start, to) :
              LiteralEntries(start, to)[i].pos \in ContextDepth .. to - 1
         /\ to <= Larger(start, ContextDepth) => LiteralEntries(start, to) = <<>>
         /\ to >= Larger(start, ContextDepth) =>
              LiteralEntries(start, to + 1) =
                Append(LiteralEntries(start, to), [pos |-> to, length |-> 0])
<1> DEFINE first == Larger(start, ContextDepth)
           n == Larger(first, to) - first
           l == LiteralEntries(start, to)
           e(i) == [pos |-> first + i - 1, length |-> 0]
<1>1. first \in Nat /\ first >= 2
  BY LargerOf DEF ContextDepth
<1>2. n \in Nat /\ (to <= first => n = 0) /\ (to >= first => n = to - first)
  <2> HIDE DEF first
  <2> QED
    BY <1>1 DEF Larger
<1>3. l = [i \in 1 .. n |-> e(i)]
  BY DEF LiteralEntries
<1> HIDE DEF first, l
<1>4. \A i \in 1 .. n : e(i) \in KnownEntry /\ e(i).pos \in ContextDepth .. to - 1
  <2> TAKE i \in 1 .. n
  <2>1. n # 0 /\ to >= first /\ i <= to - first /\ i >= 1 /\ i \in Nat
    BY <1>1, <1>2
  <2> QED
    BY <1>1, <2>1 DEF KnownEntry, ContextDepth
<1>5. l \in Seq(KnownEntry) /\ Len(l) = n /\ DOMAIN l = 1 .. n
  <2> HIDE DEF n, e
  <2>1. l \in [1 .. n -> KnownEntry]
    BY <1>3, <1>4
  <2> QED
    BY <1>2, <1>3, <2>1
<1>6. \A i \in DOMAIN l : l[i].pos \in ContextDepth .. to - 1
  BY <1>3, <1>4, <1>5
<1>7. to <= first => l = <<>>
  <2>1. to <= first => Len(l) = 0
    BY <1>2, <1>5
  <2> QED
    BY <1>5, <2>1, EmptySeq
<1>8. ASSUME to >= first
      PROVE  LiteralEntries(start, to + 1) = Append(l, [pos |-> to, length |-> 0])
  <2>1. Larger(first, to + 1) - first = n + 1 /\ n = to - first
    BY <1>1, <1>2, <1>8 DEF Larger
  <2>2. LiteralEntries(start, to + 1) = [i \in 1 .. n + 1 |-> e(i)]
    BY <2>1 DEF LiteralEntries, first
  <2>3. e(n + 1) = [pos |-> to, length |-> 0]
    BY <1>1, <2>1
  <2> HIDE DEF n, e
  <2>4. Append(l, e(n + 1)) = [i \in 1 .. n + 1 |-> IF i = n + 1 THEN e(n + 1) ELSE l[i]]
    BY <1>2, <1>5
  <2>5. \A i \in 1 .. n + 1 : i # n + 1 => l[i] = e(i)
    <3> TAKE i \in 1 .. n + 1
    <3>1. i # n + 1 => i \in 1 .. n
      BY <1>2
    <3> QED
      BY <1>3, <3>1
  <2>6. [i \in 1 .. n + 1 |-> IF i = n + 1 THEN e(n + 1) ELSE l[i]] = [i \in 1 .. n + 1 |-> e(i)]
    BY <2>5
  <2> QED
    BY <2>2, <2>3, <2>4, <2>6
<1> QED
  BY <1>5, <1>6, <1>7, <1>8 DEF first, l

(* What is inserted up to a position of the literals of a sequence.        *)
Inserted(r, to) == r.known \o LiteralEntries(Len(r.out), to)

LEMMA InsertedIs ==
  ASSUME NEW j, NEW r \in Decoder(j), NEW s, NEW to \in Nat, FitsIn(r.known, r.out),
         Len(s) \in Nat, Len(r.out) <= Len(s), to <= Larger(Len(s), ContextDepth)
  PROVE  /\ Inserted(r, to) \in Seq(KnownEntry) /\ FitsIn(Inserted(r, to), s)
         /\ to <= Larger(Len(r.out), ContextDepth) => Inserted(r, to) = r.known
         /\ to >= Larger(Len(r.out), ContextDepth) =>
              Inserted(r, to + 1) = Append(Inserted(r, to), [pos |-> to, length |-> 0])
<1> DEFINE l == LiteralEntries(Len(r.out), to)
           known == r.known
           start == Len(r.out)
           e == [pos |-> to, length |-> 0]
<1>1. known \in Seq(KnownEntry) /\ start \in Nat
  BY DecoderParts
<1>2. /\ l \in Seq(KnownEntry) /\ \A i \in DOMAIN l : l[i].pos \in ContextDepth .. to - 1
      /\ to <= Larger(start, ContextDepth) => l = <<>>
      /\ to >= Larger(start, ContextDepth) => LiteralEntries(start, to + 1) = Append(l, e)
  BY <1>1, LiteralEntriesAre
<1>3. e \in KnownEntry
  BY DEF KnownEntry
<1>4. Inserted(r, to) = known \o l /\ Inserted(r, to + 1) = known \o LiteralEntries(start, to + 1)
  BY DEF Inserted
<1>5. \A i \in DOMAIN known : known[i].pos \in ContextDepth .. start
  BY DEF FitsIn
<1>6. start <= Len(s)
  OBVIOUS
<1> HIDE DEF l, known, start, e
<1>7. /\ known \o l \in Seq(KnownEntry) /\ Len(known) \in Nat /\ Len(l) \in Nat
      /\ DOMAIN known = 1 .. Len(known) /\ DOMAIN l = 1 .. Len(l)
      /\ DOMAIN (known \o l) = 1 .. Len(known) + Len(l)
      /\ \A i \in 1 .. Len(known) + Len(l) :
           (known \o l)[i] = IF i <= Len(known) THEN known[i] ELSE l[i - Len(known)]
  BY <1>1, <1>2, ConcatProperties, LenProperties
<1>8. ASSUME NEW i \in DOMAIN (known \o l)
      PROVE  (known \o l)[i].pos \in ContextDepth .. Len(s)
  <2>1. CASE i <= Len(known)
    <3>1. i \in DOMAIN known /\ (known \o l)[i] = known[i]
      BY <1>7, <1>8, <2>1
    <3>2. known[i].pos \in ContextDepth .. start
      BY <1>5, <3>1
    <3> QED
      BY <1>1, <1>6, <3>1, <3>2
  <2>2. CASE ~(i <= Len(known))
    <3>1. i - Len(known) \in DOMAIN l /\ (known \o l)[i] = l[i - Len(known)]
      BY <1>7, <1>8, <2>2
    <3>2. l[i - Len(known)].pos \in ContextDepth .. to - 1
      BY <1>2, <3>1
    <3>3. \A p \in ContextDepth .. to - 1 : p \in ContextDepth .. Len(s)
      BY DEF Larger, ContextDepth
    <3> QED
      BY <3>1, <3>2, <3>3
  <2> QED
    BY <2>1, <2>2
<1>9. FitsIn(known \o l, s)
  BY <1>8 DEF FitsIn
<1>10. to <= Larger(start, ContextDepth) => known \o l = known
  BY <1>1, <1>2, <1>3, LongerByOne
<1>11. to >= Larger(start, ContextDepth) =>
         known \o LiteralEntries(start, to + 1) = Append(known \o l, e)
  <2>1. known \o Append(l, e) = Append(known \o l, e)
    BY <1>1, <1>2, <1>3, LongerByOne
  <2> QED
    BY <1>2, <2>1
<1> QED
  BY <1>4, <1>7, <1>9, <1>10, <1>11 DEF known, start, e

(* The positions inserted up to a match, and those of the match.           *)
Placed(pos, length) == [pos |-> pos, length |-> length]
WithMatch(known, type, pos, length) ==
  IF pos < ContextDepth THEN known
  ELSE IF type = TypeRolz THEN Append(known, Placed(pos, length))
  ELSE Append(Append(known, Placed(pos, length)), Placed(pos + 1, length - 1))

LEMMA WithMatchIs ==
  ASSUME NEW known \in Seq(KnownEntry), NEW type, NEW pos \in Nat, NEW length \in Nat \ {0}
  PROVE  known \o MatchEntries(type, pos, length) = WithMatch(known, type, pos, length)
<1>1. PICK e : e = Placed(pos, length)
  OBVIOUS
<1>2. PICK d : d = Placed(pos + 1, length - 1)
  OBVIOUS
<1>3. e \in KnownEntry /\ d \in KnownEntry
  BY <1>1, <1>2 DEF KnownEntry, Placed
<1>4. MatchEntries(type, pos, length) =
        IF pos < ContextDepth THEN <<>> ELSE IF type = TypeRolz THEN <<e>> ELSE <<e, d>>
  BY <1>1, <1>2 DEF MatchEntries, Placed
<1>5. known \o <<>> = known
  BY <1>3, LongerByOne
<1>6. known \o <<e>> = Append(known, e)
  BY <1>3, LongerByOne
<1>7. known \o <<e, d>> = Append(Append(known, e), d)
  BY <1>3, LongerByOne
<1> QED
  BY <1>1, <1>2, <1>4, <1>5, <1>6, <1>7 DEF WithMatch

(* Positions that fit, with one more.                                      *)
LEMMA FitsAppended ==
  ASSUME NEW known \in Seq(KnownEntry), NEW s, NEW e \in KnownEntry
  PROVE  /\ FitsIn(Append(known, e), s) <=> FitsIn(known, s) /\ e.pos \in ContextDepth .. Len(s)
         /\ Append(known, e) \in Seq(KnownEntry)
<1> DEFINE m == Len(known)
           more == Append(known, e)
<1>1. /\ m \in Nat /\ DOMAIN known = 1 .. m /\ DOMAIN more = 1 .. m + 1 /\ more[m + 1] = e
      /\ more \in Seq(KnownEntry) /\ \A i \in 1 .. m : more[i] = known[i]
  BY AppendProperties, LenProperties
<1> HIDE DEF m, more
<1>2. \A i \in 1 .. m + 1 : i \in 1 .. m \/ i = m + 1
  BY <1>1
<1>3. (1 .. m) \subseteq 1 .. m + 1 /\ m + 1 \in 1 .. m + 1
  BY <1>1
<1>4. FitsIn(more, s) <=> FitsIn(known, s) /\ e.pos \in ContextDepth .. Len(s)
  BY <1>1, <1>2, <1>3 DEF FitsIn
<1> QED
  BY <1>1, <1>4 DEF more

LEMMA FitsFurther ==
  ASSUME NEW known, NEW s, NEW t, FitsIn(known, s), Len(s) \in Nat, Len(t) \in Nat, Len(s) <= Len(t)
  PROVE  FitsIn(known, t)
BY DEF FitsIn, ContextDepth

-----------------------------------------------------------------------------
(* The match of a sequence.                                                *)

(* Its parts, type by type.                                                *)
SameRow(r, v) == Nth(r.known, r.out, RowAt(r.out, Len(r.out)), v.code)
FoundIn(r, v) == r.known[CHOOSE i \in SameRow(r, v) : TRUE]
RepeatOf(r, v) ==
  IF v.code % 4 = 3 THEN 0
  ELSE IF v.code % 4 = 0 THEN IF v.code \in {0, 4 * RepSub} THEN r.recent[1] ELSE 0
  ELSE r.recent[(v.code % 4) + 1] + (v.code \div 4) - RepSub

LEMMA MatchParts ==
  ASSUME NEW r, NEW v, NEW type
  PROVE  /\ type = TypeLz =>
              Match(r, type, v)[1] = v.code /\ Match(r, type, v)[2] = v.len + LzMinLength
         /\ type = TypeRolz /\ (Len(r.out) < ContextDepth \/ v.code >= RowSize \/ SameRow(r, v) = {}) =>
              Match(r, type, v)[1] = 0 /\ Match(r, type, v)[2] = 0
         /\ type = TypeRolz /\ ~(Len(r.out) < ContextDepth \/ v.code >= RowSize \/ SameRow(r, v) = {}) =>
              /\ Match(r, type, v)[1] = Len(r.out) - FoundIn(r, v).pos
              /\ Match(r, type, v)[2] = Coded(Smaller(FoundIn(r, v).length, MaxPredicted), v.len)
         /\ type \notin {TypeLz, TypeRolz} =>
              /\ Match(r, type, v)[1] = RepeatOf(r, v)
              /\ Match(r, type, v)[2] = v.len + RepMinLength
<1>1. CASE type = TypeLz
  <2>1. Match(r, type, v) = <<v.code, v.len + LzMinLength>>
    BY <1>1 DEF Match
  <2> QED
    BY <1>1, <2>1 DEF TypeLz, TypeRolz
<1>2. CASE type = TypeRolz
  <2> DEFINE none == Len(r.out) < ContextDepth \/ v.code >= RowSize \/ SameRow(r, v) = {}
  <2>1. Match(r, type, v) =
          IF none THEN <<0, 0>>
          ELSE <<Len(r.out) - FoundIn(r, v).pos,
                 Coded(Smaller(FoundIn(r, v).length, MaxPredicted), v.len)>>
    BY <1>2 DEF Match, SameRow, FoundIn, TypeLz, TypeRolz
  <2> HIDE DEF none
  <2>2. none => Match(r, type, v)[1] = 0 /\ Match(r, type, v)[2] = 0
    BY <2>1
  <2>3. ~none => /\ Match(r, type, v)[1] = Len(r.out) - FoundIn(r, v).pos
                 /\ Match(r, type, v)[2] = Coded(Smaller(FoundIn(r, v).length, MaxPredicted), v.len)
    BY <2>1
  <2> QED
    BY <1>2, <2>2, <2>3 DEF none, TypeLz, TypeRolz
<1>3. CASE type \notin {TypeLz, TypeRolz}
  <2>1. Match(r, type, v) = <<RepeatOf(r, v), v.len + RepMinLength>>
    BY <1>3 DEF Match, RepeatOf
  <2> QED
    BY <1>3, <2>1
<1> QED
  BY <1>1, <1>2, <1>3

(* Its length is a number.                                                 *)
LEMMA MatchTyped ==
  ASSUME RolzAssumption, NEW j, NEW r \in Decoder(j), NEW type, NEW v \in Value
  PROVE  Match(r, type, v)[2] \in Nat
<1>1. /\ v.len \in Nat /\ v.code \in Nat /\ LzMinLength \in Nat /\ RepMinLength \in Nat
      /\ MaxPredicted \in Nat
  BY DEF Value, RolzAssumption
<1>2. CASE type = TypeRolz /\ ~(Len(r.out) < ContextDepth \/ v.code >= RowSize \/ SameRow(r, v) = {})
  <2>1. PICK i \in SameRow(r, v) : FoundIn(r, v) = r.known[i]
    BY <1>2 DEF FoundIn
  <2>2. FoundIn(r, v) \in KnownEntry
    BY <2>1, DecoderParts, NthIsKnown DEF SameRow
  <2>3. Smaller(FoundIn(r, v).length, MaxPredicted) \in Nat
    BY <1>1, <2>2 DEF Smaller, KnownEntry
  <2>4. Coded(Smaller(FoundIn(r, v).length, MaxPredicted), v.len) \in Nat
    BY <1>1, <2>3, CodedIs
  <2> QED
    BY <1>2, <2>4, MatchParts
<1>3. CASE type = TypeRolz /\ (Len(r.out) < ContextDepth \/ v.code >= RowSize \/ SameRow(r, v) = {})
  BY <1>3, MatchParts
<1>4. CASE type = TypeLz
  BY <1>1, <1>4, MatchParts
<1>5. CASE type \notin {TypeLz, TypeRolz}
  BY <1>1, <1>5, MatchParts
<1> QED
  BY <1>2, <1>3, <1>4, <1>5

(* A repeated offset is the one the code names, or there is none.          *)
LEMMA RepeatIs ==
  ASSUME NEW r, r.recent = reps, reps \in Nat \X Nat \X Nat, NEW v \in Value
  PROVE  /\ RepOk(v.code) => RepeatOf(r, v) = RepOffset(v.code)
         /\ ~RepOk(v.code) => RepeatOf(r, v) \in Int /\ RepeatOf(r, v) <= 0
<1> DEFINE c == v.code
           k == c % 4
           q == c \div 4
<1>1. c \in Nat /\ k \in 0 .. 3 /\ q \in Nat /\ k = c - 4 * q
  <2>1. c \in Nat /\ 4 \in Nat \ {0}
    BY DEF Value
  <2>2. k \in 0 .. 4 - 1 /\ q \in Nat /\ k = c - 4 * q
    BY <2>1, ModRange, Quotient, Remainder
  <2> QED
    BY <2>1, <2>2
<1>2. \A i \in 1 .. 3 : reps[i] \in Nat
  OBVIOUS
<1>3. /\ RepeatOf(r, v) = IF k = 3 THEN 0
                          ELSE IF k = 0 THEN IF c \in {0, 4 * RepSub} THEN reps[1] ELSE 0
                          ELSE reps[k + 1] + q - RepSub
      /\ RepOffset(c) = IF c = 0 THEN reps[k + 1] ELSE reps[k + 1] + q - RepSub
      /\ RepOk(c) <=> k # 3 /\ (c # 0 /\ k = 0 => q = RepSub) /\ RepOffset(c) >= 0
  BY DEF RepeatOf, RepOffset, RepOk
<1> DEFINE o == RepOffset(c)
           w == RepeatOf(r, v)
<1> HIDE DEF c, k, q, o, w
<1>4. CASE k = 3
  BY <1>3, <1>4 DEF w, c
<1>5. CASE k = 0
  <2>1. reps[k + 1] = reps[1] /\ reps[1] \in Nat /\ RepSub = 4
    BY <1>2, <1>5 DEF RepSub
  <2>2. q = RepSub <=> c = 4 * RepSub
    BY <1>1, <1>5, <2>1
  <2>3. c = 0 => w = reps[1] /\ o = reps[1] /\ (RepOk(c) <=> TRUE)
    BY <1>3, <1>5, <2>1 DEF o, w
  <2>4. c # 0 /\ c = 4 * RepSub => w = reps[1] /\ o = reps[1] /\ (RepOk(c) <=> TRUE)
    <3> SUFFICES ASSUME c # 0, c = 4 * RepSub PROVE w = reps[1] /\ o = reps[1] /\ RepOk(c)
      OBVIOUS
    <3>1. q = RepSub /\ w = reps[1]
      BY <1>3, <1>5, <2>2 DEF w
    <3>2. o = reps[1] + q - RepSub
      BY <1>3, <2>1 DEF o
    <3>3. o = reps[1]
      BY <2>1, <3>1, <3>2
    <3>4. RepOk(c)
      BY <1>3, <1>5, <2>1, <3>1, <3>3 DEF o
    <3> QED
      BY <3>1, <3>3, <3>4
  <2>5. c # 0 /\ c # 4 * RepSub => w = 0 /\ ~RepOk(c)
    BY <1>3, <1>5, <2>2 DEF w
  <2> QED
    BY <2>3, <2>4, <2>5 DEF o, w, c
<1>6. CASE k \in {1, 2}
  <2>1. reps[k + 1] \in Nat /\ RepSub = 4 /\ c # 0 /\ k # 0 /\ k # 3
    BY <1>1, <1>2, <1>6 DEF RepSub
  <2>2. w = reps[k + 1] + q - RepSub /\ o = w /\ (RepOk(c) <=> o >= 0)
    BY <1>3, <2>1 DEF o, w
  <2>3. w \in Int
    BY <1>1, <2>1, <2>2
  <2>4. ~RepOk(c) => w <= 0
    BY <2>2, <2>3
  <2> QED
    BY <2>2, <2>3, <2>4 DEF o, w, c
<1> QED
  BY <1>1, <1>4, <1>5, <1>6

(* The decoder takes the match the sequence means, or there is none.       *)
LEMMA MatchIs ==
  ASSUME RolzAssumption, RolzTypes, NEW r \in Decoder(job), r.out = out, r.recent = reps,
         NEW type \in TypeLz .. TypeRep, NEW v \in Value, type = TypeRolz => TableIs(r.known)
  PROVE  /\ Resolves(type, v) => /\ Match(r, type, v)[1] = OffsetOf(type, v)
                                 /\ Match(r, type, v)[2] = LengthOf(type, v)
         /\ ~Resolves(type, v) => Match(r, type, v)[1] \notin 1 .. Len(out)
<1>1. /\ v.len \in Nat /\ v.code \in Nat /\ RowSize \in Nat /\ MaxPredicted \in Nat
      /\ Len(out) \in Nat
  BY LenProperties DEF Value, RolzAssumption, RolzTypes
<1>2. CASE type = TypeLz
  BY <1>1, <1>2, MatchParts DEF Resolves, OffsetOf, LengthOf
<1>3. CASE type \notin {TypeLz, TypeRolz}
  <2>1. /\ Resolves(type, v) <=> RepOk(v.code)
        /\ OffsetOf(type, v) = RepOffset(v.code) /\ LengthOf(type, v) = v.len + RepMinLength
    BY <1>3 DEF Resolves, OffsetOf, LengthOf
  <2>2. Match(r, type, v)[1] = RepeatOf(r, v) /\ Match(r, type, v)[2] = v.len + RepMinLength
    BY <1>3, MatchParts
  <2>3. /\ RepOk(v.code) => RepeatOf(r, v) = RepOffset(v.code)
        /\ ~RepOk(v.code) => RepeatOf(r, v) \in Int /\ RepeatOf(r, v) <= 0
    BY RepeatIs DEF RolzTypes
  <2> QED
    BY <1>1, <2>1, <2>2, <2>3
<1>4. CASE type = TypeRolz
  <2> DEFINE row == RowAt(out, Len(out))
  <2>1. /\ Resolves(type, v) <=>
             Len(out) >= ContextDepth /\ v.code < RowSize /\ TableEntry(v.code).index # 0
        /\ OffsetOf(type, v) = Len(out) - (TableEntry(v.code).index - 1)
        /\ LengthOf(type, v) = MatchLength(TableEntry(v.code).predicted, v.len)
    BY <1>4 DEF Resolves, OffsetOf, LengthOf, TypeLz, TypeRolz
  <2>2. CASE Len(out) < ContextDepth \/ v.code >= RowSize
    <3>1. Match(r, type, v)[1] = 0
      BY <1>4, <2>2, MatchParts
    <3>2. ~Resolves(type, v)
      BY <1>1, <2>1, <2>2 DEF ContextDepth
    <3> QED
      BY <3>1, <3>2
  <2>3. CASE ~(Len(out) < ContextDepth \/ v.code >= RowSize)
    <3>1. Len(out) >= 2 /\ v.code < RowSize /\ v.code \in 0 .. RowSize - 1
      BY <1>1, <2>3 DEF ContextDepth
    <3>2. row \in Rows
      BY <1>1, <3>1, HasRow DEF RolzTypes
    <3>3. Lists(r.known, row, v.code)
      <4> HIDE DEF row
      <4> QED
        BY <1>4, <3>1, <3>2, TableLists
    <3>4. SameRow(r, v) = Nth(r.known, out, row, v.code)
      BY DEF SameRow
    <3>5. TableEntry(v.code) = EntryAt(row, v.code)
      BY DEF TableEntry
    <3> HIDE DEF row
    <3>6. CASE SameRow(r, v) = {}
      <4>1. TableEntry(v.code).index = 0
        BY <3>3, <3>4, <3>5, <3>6 DEF Lists, Filled
      <4>2. ~Resolves(type, v)
        BY <2>1, <4>1
      <4>3. Match(r, type, v)[1] = 0
        BY <1>4, <3>6, MatchParts
      <4> QED
        BY <4>2, <4>3
    <3>7. CASE SameRow(r, v) # {}
      <4>1. PICK i \in SameRow(r, v) : FoundIn(r, v) = r.known[i]
        BY <3>7 DEF FoundIn
      <4>2. PICK e \in KnownEntry : e = FoundIn(r, v)
        BY <4>1, DecoderParts, NthIsKnown DEF SameRow
      <4>3. TableEntry(v.code) = AsHeld(e)
        BY <3>3, <3>4, <3>5, <4>1, <4>2 DEF Lists
      <4>4. /\ TableEntry(v.code).index = e.pos + 1
            /\ TableEntry(v.code).predicted = Smaller(e.length, MaxPredicted)
        BY <4>3 DEF AsHeld
      <4>5. e.pos \in Nat /\ Smaller(e.length, MaxPredicted) \in Nat
        BY <1>1 DEF KnownEntry, Smaller
      <4>6. Resolves(type, v)
        BY <2>1, <3>1, <4>4, <4>5 DEF ContextDepth
      <4>7. Match(r, type, v)[1] = Len(out) - e.pos
            /\ Match(r, type, v)[2] = Coded(Smaller(e.length, MaxPredicted), v.len)
        BY <1>4, <2>3, <3>7, <4>2, MatchParts
      <4>8. OffsetOf(type, v) = Len(out) - e.pos
        <5>1. (e.pos + 1) - 1 = e.pos
          BY <4>5
        <5> QED
          BY <2>1, <4>4, <5>1
      <4>9. LengthOf(type, v) = Coded(Smaller(e.length, MaxPredicted), v.len)
        BY <1>1, <2>1, <4>4, <4>5, CodedIs
      <4> QED
        BY <4>6, <4>7, <4>8, <4>9
    <3> QED
      BY <3>6, <3>7
  <2> QED
    BY <2>2, <2>3
<1> QED
  BY <1>2, <1>3, <1>4

-----------------------------------------------------------------------------
(* What a sequence makes.                                                  *)

(* The sequence under way is the last of the definition.                   *)
LEMMA LastSequence ==
  ASSUME NEW j, NEW values \in Seq(Value), Len(values) # 0
  PROVE  Decoding(j, values) =
           Decoded(j, Decoding(j, Front(values)), j.types[Len(values)], Last(values))
<1>1. PICK w \in Value : TRUE
  <2>1. [lit |-> 0, len |-> 0, code |-> 0] \in Value
    BY DEF Value
  <2> QED
    BY <2>1
<1>2. /\ Front(values) \in Seq(Value) /\ Len(Front(values)) + 1 = Len(values)
      /\ Last(values) \in Value /\ values = Append(Front(values), Last(values))
  BY FrontIs
<1>3. PICK f \in Seq(Value) : f = Front(values)
  BY <1>2
<1>4. PICK v \in Value : v = Last(values)
  BY <1>2
<1>5. Decoding(j, Append(f, v)) = Decoded(j, Decoding(j, f), j.types[Len(f) + 1], v)
  BY DecodingUnfolds
<1> QED
  BY <1>2, <1>3, <1>4, <1>5

(* When a sequence can be decoded, and as what.                            *)
LEMMA DecodedIs ==
  ASSUME RolzAssumption, NEW j \in Jobs, NEW r \in Decoder(j), FitsIn(r.known, r.out),
         NEW type, NEW v \in Value,
         NEW fits, fits = Appended(j, r, v.lit), NEW lits, lits = WithLiterals(r, fits)
  PROVE  /\ ~fits.ok => ~Decoded(j, r, type, v).ok
         /\ fits.ok => /\ lits \in Decoder(j) /\ lits.out = fits.out /\ lits.streams = fits.streams
                       /\ lits.recent = r.recent /\ lits.known = Inserted(r, Len(fits.out))
                       /\ FitsIn(lits.known, lits.out)
         /\ fits.ok /\ Len(fits.out) > j.size => ~Decoded(j, r, type, v).ok
         /\ Match(lits, type, v)[1] \notin 1 .. Len(fits.out) => ~Decoded(j, r, type, v).ok
         /\ Len(fits.out) + Match(lits, type, v)[2] > j.size => ~Decoded(j, r, type, v).ok
         /\ fits.ok /\ Match(lits, type, v)[1] \in 1 .. Len(fits.out)
              /\ ~(Len(fits.out) + Match(lits, type, v)[2] > j.size) =>
              Decoded(j, r, type, v) = AfterMatch(lits, type, v, Match(lits, type, v))
<1> DEFINE match == Match(lits, type, v)
           d == Decoded(j, r, type, v)
           n == Len(fits.out)
<1>1. d = IF ~fits.ok \/ match[1] \notin 1 .. n \/ n + match[2] > j.size
          THEN Undecoded(j) ELSE AfterMatch(lits, type, v, match)
  BY DEF Decoded
<1>2. ~Undecoded(j).ok
  BY BeganTyped
<1>3. fits \in Decoder(j) /\ v.lit \in Nat /\ (fits.ok => Len(fits.out) = Len(r.out) + v.lit)
  <2>1. v.lit \in Nat
    BY DEF Value
  <2> QED
    BY <2>1, AppendedTyped
<1>4. n \in Nat /\ Len(r.out) \in Nat /\ j.size \in Nat /\ fits.out \in Seq(Byte)
  BY <1>3, CallParts, DecoderParts
<1>5. ASSUME fits.ok
      PROVE  /\ lits \in Decoder(j) /\ lits.out = fits.out /\ lits.streams = fits.streams
             /\ lits.recent = r.recent /\ lits.known = Inserted(r, n)
             /\ FitsIn(lits.known, lits.out)
  <2>1. lits = Reaching(fits.out, fits.streams, Inserted(r, n), r.recent)
    BY DEF WithLiterals, Inserted
  <2>2. Len(r.out) <= n /\ n <= Larger(n, ContextDepth)
    <3>1. n = Len(r.out) + v.lit /\ v.lit \in Nat
      BY <1>3, <1>5
    <3> HIDE DEF n
    <3>2. n <= Larger(n, ContextDepth)
      BY <1>4, LargerOf DEF ContextDepth
    <3>3. Len(r.out) <= n
      BY <1>4, <3>1
    <3> QED
      BY <3>2, <3>3
  <2>3. Inserted(r, n) \in Seq(KnownEntry) /\ FitsIn(Inserted(r, n), fits.out)
    BY <1>4, <2>2, InsertedIs
  <2> HIDE DEF n
  <2>4. lits \in Decoder(j)
    <3>1. fits.streams \in [DOMAIN j.literals.streams -> Seq(Byte)]
      BY <1>3, DecoderParts
    <3>2. r.recent \in [1 .. 3 -> Nat]
      BY DecoderParts
    <3>3. PICK kn \in Seq(KnownEntry) : kn = Inserted(r, n)
      BY <2>3
    <3>4. PICK b \in Seq(Byte) : b = fits.out
      BY <1>4
    <3>5. Reaching(b, fits.streams, kn, r.recent) \in Decoder(j)
      BY <3>1, <3>2, ReachingTyped
    <3> QED
      BY <2>1, <3>3, <3>4, <3>5
  <2>5. /\ lits.out = fits.out /\ lits.streams = fits.streams /\ lits.known = Inserted(r, n)
        /\ lits.recent = r.recent
    BY <2>1 DEF Reaching
  <2> QED
    BY <2>3, <2>4, <2>5
<1> HIDE DEF d, n, match
<1>6. ~fits.ok => ~d.ok
  BY <1>1, <1>2
<1>7. match[1] \notin 1 .. n => ~d.ok
  BY <1>1, <1>2
<1>8. n + match[2] > j.size => ~d.ok
  BY <1>1, <1>2
<1>9. fits.ok /\ n > j.size => ~d.ok
  <2>1. fits.ok => match[2] \in Nat
    BY <1>5, MatchTyped DEF match
  <2>2. fits.ok /\ n > j.size => n + match[2] > j.size
    BY <1>4, <2>1
  <2> QED
    BY <1>8, <2>2
<1>10. fits.ok /\ match[1] \in 1 .. n /\ ~(n + match[2] > j.size) =>
         d = AfterMatch(lits, type, v, match)
  BY <1>1
<1> QED
  BY <1>5, <1>6, <1>7, <1>8, <1>9, <1>10 DEF d, n, match
-----------------------------------------------------------------------------
(* The decoder and the definition in step.                                 *)

(* Between two sequences.                                                  *)
AtSequence(r) ==
  /\ r \in Decoder(job) /\ FitsIn(r.known, r.out) /\ Has(job, r, out, taken) /\ reps = r.recent
  /\ HasTable => TableIs(r.known)

(* Inside the literals of a sequence, from what was decoded before it.     *)
InLiterals(r) ==
  /\ r \in Decoder(job) /\ r.ok /\ FitsIn(r.known, r.out) /\ reps = r.recent
  /\ left <= Last(read).lit
  /\ Has(job, Appended(job, r, Last(read).lit - left), out, taken)
  /\ phase = "literals" =>
       at = Larger(Len(r.out), ContextDepth) /\ (HasTable => TableIs(r.known))
  /\ phase = "insert" =>
       /\ at >= Larger(Len(r.out), ContextDepth)
       /\ \A k : k = Inserted(r, at) => TableIs(k)
  /\ phase = "match" => (HasTable => \A k : k = Inserted(r, Len(out)) => TableIs(k))

(* A match of two positions, one or both of them still to be inserted.     *)
InMatch(r) ==
  /\ r \in Decoder(job) /\ FitsIn(r.known, r.out) /\ Has(job, r, out, taken) /\ reps = r.recent
  /\ \E k \in Seq(KnownEntry), e \in KnownEntry, d \in KnownEntry :
       /\ r.known = Append(Append(k, e), d)
       /\ e = [pos |-> LastInsert - 1, length |-> matched]
       /\ d = [pos |-> LastInsert, length |-> matched - 1]
       /\ at = LastInsert - 1 => TableIs(k)
       /\ at = LastInsert => TableIs(Append(k, e))

(* Inside the last literals.                                               *)
InRest(r) ==
  /\ r \in Decoder(job) /\ r.ok /\ Len(read) = Len(job.types)
  /\ left <= Left(r) /\ Len(r.out) + Left(r) = job.size
  /\ Has(job, Appended(job, r, Left(r) - left), out, taken)

AtEnd(r) ==
  /\ result = "Ok" => /\ WholeOutput(job, r).ok /\ out = WholeOutput(job, r).out
                      /\ Len(out) = job.size
  /\ result = "Malformed" =>
       \/ ~r.ok
       \/ Len(read) = Len(job.types) /\ ~(WholeOutput(job, r).ok /\ Len(WholeOutput(job, r).out) = job.size)

InStepWith(r) ==
  /\ phase \in {"begin", "sequence"} => AtSequence(r)
  /\ phase = "extend" => InMatch(r)
  /\ phase = "rest" => InRest(r)
  /\ phase = "done" => AtEnd(r)

Following ==
  /\ \A r : r = Decoding(job, read) => InStepWith(r)
  /\ phase \in {"literals", "insert", "match"} =>
       \A r : r = Decoding(job, Front(read)) => InLiterals(r)
  /\ phase # "done" => result = "none"

-----------------------------------------------------------------------------
(* The steps, one action at a time.                                        *)

(* Nothing is decoded and nothing is inserted.                             *)
LEMMA FollowingInit ==
  ASSUME RolzAssumption, RolzInit
  PROVE  Following
<1>1. /\ job \in Jobs /\ phase = "begin" /\ out = <<>> /\ reps = <<1, 4, 8>> /\ read = <<>>
      /\ result = "none" /\ taken = [k \in DOMAIN job.literals.streams |-> 0]
  BY DEF RolzInit
<1>2. Decoding(job, read) = Began(job)
  <2>1. PICK w \in Value : TRUE
    <3>1. [lit |-> 0, len |-> 0, code |-> 0] \in Value
      BY DEF Value
    <3> QED
      BY <3>1
  <2>2. <<>> \in Seq(Value) /\ Len(<<>>) = 0
    BY EmptySeq
  <2>3. Decoding(job, <<>>) = Began(job)
    BY <2>1, <2>2, DecodingUnfolds
  <2> QED
    BY <1>1, <2>3
<1>3. PICK r : r = Began(job)
  OBVIOUS
<1>4. /\ r \in Decoder(job) /\ r.ok /\ r.out = <<>> /\ r.streams = job.literals.streams
      /\ r.known = <<>> /\ r.recent = <<1, 4, 8>>
  BY <1>1, <1>3, BeganTyped
<1>5. r.streams = Untaken(job, taken)
  <2> DEFINE s == job.literals.streams
  <2>1. s = [k \in DOMAIN s |-> s[k]] /\ \A k \in DOMAIN s : s[k] \in Seq(Byte)
    BY <1>1, CallParts, ElementOfSeq, LenProperties
  <2>2. \A k \in DOMAIN s : taken[k] + 1 = 1
    BY <1>1
  <2>3. \A k \in DOMAIN s : SubSeq(s[k], 1, Len(s[k])) = s[k]
    BY <2>1, SubSeqFull
  <2>4. \A k \in DOMAIN s : SubSeq(s[k], taken[k] + 1, Len(s[k])) = s[k]
    BY <2>2, <2>3
  <2>5. Untaken(job, taken) = [k \in DOMAIN s |-> SubSeq(s[k], taken[k] + 1, Len(s[k]))]
    BY DEF Untaken
  <2> HIDE DEF s
  <2>6. [k \in DOMAIN s |-> SubSeq(s[k], taken[k] + 1, Len(s[k]))] = [k \in DOMAIN s |-> s[k]]
    BY <2>4
  <2> QED
    BY <1>4, <2>1, <2>5, <2>6 DEF s
<1>6. TableIs(<<>>)
  <2>1. \A q, n : Nth(<<>>, out, q, n) = {}
    BY DEF Nth, InRow
  <2>2. \A q \in Rows : \A n \in 0 .. RowSize - 1 : ~Filled(q, n)
    BY DEF RolzInit, RolzAssumption, EntryAt, Slot, Filled, Empty
  <2> QED
    BY <2>1, <2>2 DEF TableIs
<1>7. AtSequence(r)
  <2>1. FitsIn(r.known, r.out)
    BY <1>4 DEF FitsIn
  <2>2. Has(job, r, out, taken) /\ reps = r.recent
    BY <1>1, <1>4, <1>5 DEF Has
  <2> QED
    BY <1>4, <1>6, <2>1, <2>2 DEF AtSequence
<1> QED
  BY <1>1, <1>2, <1>3, <1>7 DEF Following, InStepWith

(* A call that ends.                                                       *)
LEMMA Ends ==
  ASSUME phase' = "done", \A r : r = Decoding(job', read') => AtEnd(r)'
  PROVE  Following'
BY DEF Following, InStepWith

LEMMA Refuses ==
  ASSUME phase' = "done", result' = "Malformed",
         \A r : r = Decoding(job', read') =>
           \/ ~r.ok
           \/ Len(read') = Len(job'.types) /\ ~(WholeOutput(job', r).ok /\ Len(WholeOutput(job', r).out) = job'.size)
  PROVE  Following'
<1>1. \A r : r = Decoding(job', read') => AtEnd(r)'
  BY DEF AtEnd
<1> QED
  BY <1>1, Ends

(* A table nothing is put in, and an output that only grows.               *)
LEMMA AtSequenceKept ==
  ASSUME RolzInv, NEW r, AtSequence(r), UNCHANGED <<job, out, taken, reps, heads, entries>>
  PROVE  AtSequence(r)'
<1>1. Grows
  BY LenProperties DEF RolzInv, RolzTypes, Grows
<1>2. /\ r \in Decoder(job) /\ FitsIn(r.known, r.out) /\ Has(job, r, out, taken)
      /\ reps = r.recent /\ (HasTable => TableIs(r.known)) /\ r.known \in Seq(KnownEntry)
  BY DecoderParts DEF AtSequence
<1>3. HasTable => TableIs(r.known)'
  <2>1. FitsIn(r.known, out)
    BY <1>2 DEF Has
  <2>2. PICK k \in Seq(KnownEntry) : k = r.known
    BY <1>2
  <2>3. HasTable => TableIs(k)'
    BY <1>1, <1>2, <2>1, <2>2, TableKept
  <2> QED
    BY <2>2, <2>3
<1>4. HasTable' = HasTable
  BY DEF HasTable
<1> QED
  BY <1>2, <1>3, <1>4 DEF AtSequence

LEMMA BeginFollows ==
  ASSUME RolzAssumption, RolzInv, Following, Begin
  PROVE  Following'
<1>1. phase = "begin" /\ read' = read
  BY DEF Begin
<1>2. CASE \E kind \in {"Unsupported", "Unparsed", "LimitExceeded", "AllocationFailed"} : Fail(kind)
  <2>1. phase' = "done" /\ result' \notin {"Ok", "Malformed"}
    BY <1>2 DEF Fail
  <2>2. \A r : AtEnd(r)'
    BY <2>1 DEF AtEnd
  <2> QED
    BY <2>1, <2>2, Ends
<1>3. CASE /\ phase' = "sequence"
           /\ UNCHANGED <<job, out, taken, left, at, reps, heads, entries, matched, result>>
  <2>1. PICK r : r = Decoding(job, read)
    OBVIOUS
  <2>2. AtSequence(r) /\ result = "none"
    BY <1>1, <2>1 DEF Following, InStepWith
  <2>3. AtSequence(r)'
    BY <1>3, <2>2, AtSequenceKept
  <2>4. Decoding(job', read') = r
    BY <1>1, <1>3, <2>1
  <2> QED
    BY <1>3, <2>2, <2>3, <2>4 DEF Following, InStepWith
<1> QED
  BY <1>2, <1>3 DEF Begin

(* A sequence whose literals are not there has none to decode.             *)
LEMMA ReadSequenceFollows ==
  ASSUME RolzAssumption, RolzInv, Following, ReadSequence
  PROVE  Following'
<1>1. PICK v \in Values[job.types[Len(read) + 1]] :
        /\ read' = Append(read, v)
        /\ IF Len(out) + v.lit > job.size \/ v.lit > Remaining THEN Fail("Malformed")
           ELSE /\ left' = v.lit /\ at' = Larger(Len(out), ContextDepth)
                /\ phase' = "literals"
                /\ UNCHANGED <<job, out, taken, reps, heads, entries, matched, result>>
  BY DEF ReadSequence
<1>2. /\ phase = "sequence" /\ Len(read) \in Nat /\ Len(out) \in Nat /\ job.size \in Nat
      /\ job \in Jobs /\ job.types[Len(read) + 1] \in TypeLz .. TypeRep /\ read \in Seq(Value)
      /\ RolzTypes
  <2>1. RolzTypes /\ Len(read) < Len(job.types) /\ phase = "sequence"
    BY DEF RolzInv, ReadSequence
  <2>2. Len(read) + 1 \in 1 .. Len(job.types)
    BY <2>1, JobTypes, LenProperties
  <2> QED
    BY <2>1, <2>2, JobTypes DEF RolzTypes
<1>3. v \in Value /\ v.lit \in Nat
  <2>1. v \in Value
    BY <1>2 DEF RolzAssumption
  <2> QED
    BY <2>1 DEF Value
<1>4. PICK r : r = Decoding(job, read)
  OBVIOUS
<1>5. AtSequence(r) /\ result = "none"
  BY <1>2, <1>4 DEF Following, InStepWith
<1>6. /\ r \in Decoder(job) /\ FitsIn(r.known, r.out) /\ Has(job, r, out, taken)
      /\ reps = r.recent /\ r.out = out /\ r.ok
  BY <1>5 DEF AtSequence, Has
<1>7. Left(r) = Remaining /\ Left(r) \in Nat
  BY <1>2, <1>6, RemainingIs
<1>8. CASE /\ Len(out) + v.lit > job.size \/ v.lit > Remaining
           /\ Fail("Malformed")
  <2> DEFINE type == job.types[Len(read) + 1]
             d == Decoded(job, r, type, v)
  <2>1. Decoding(job, read') = d
    BY <1>1, <1>2, <1>3, <1>4, DecodingUnfolds
  <2>2. PICK fits : fits = Appended(job, r, v.lit)
    OBVIOUS
  <2>3. PICK lits : lits = WithLiterals(r, fits)
    OBVIOUS
  <2>4. /\ fits \in Decoder(job)
        /\ fits.ok => Len(fits.out) = Len(out) + v.lit /\ Left(fits) + v.lit = Left(r)
    <3>1. Appended(job, r, v.lit) \in Decoder(job)
      BY <1>2, <1>3, <1>6, AppendedTyped
    <3>2. Appended(job, r, v.lit).ok =>
            /\ Len(Appended(job, r, v.lit).out) = Len(r.out) + v.lit
            /\ Left(Appended(job, r, v.lit)) + v.lit = Left(r)
      BY <1>2, <1>3, <1>6, AppendedTyped
    <3> QED
      BY <1>6, <2>2, <3>1, <3>2
  <2> HIDE DEF type
  <2>5. /\ ~fits.ok => ~d.ok
        /\ fits.ok /\ Len(fits.out) > job.size => ~d.ok
    BY <1>2, <1>3, <1>6, <2>2, <2>3, DecodedIs
  <2>6. ~(fits.ok /\ ~(Len(fits.out) > job.size))
    <3>1. Left(fits) \in Nat
      BY <1>2, <2>4, DecoderParts, LeftIs
    <3>2. fits.ok => v.lit <= Remaining
      BY <1>3, <1>7, <2>4, <3>1
    <3>3. v.lit > Remaining => ~fits.ok
      BY <1>3, <1>7, <3>2
    <3> QED
      BY <1>8, <2>4, <3>3
  <2>7. ~d.ok
    BY <2>5, <2>6
  <2>8. phase' = "done" /\ result' = "Malformed" /\ job' = job
    BY <1>8 DEF Fail
  <2> HIDE DEF d
  <2>9. \A q : q = Decoding(job', read') => ~q.ok
    BY <2>1, <2>7, <2>8
  <2> QED
    BY <2>8, <2>9, Refuses
<1>9. CASE /\ left' = v.lit /\ at' = Larger(Len(out), ContextDepth)
           /\ phase' = "literals"
           /\ UNCHANGED <<job, out, taken, reps, heads, entries, matched, result>>
  <2>1. AtSequence(r)'
    BY <1>5, <1>9, AtSequenceKept
  <2>2. Front(read') = read /\ Last(read') = v
    BY <1>1, <1>2, <1>3, FrontIs
  <2>3. Appended(job, r, 0) = r /\ v.lit - v.lit = 0
    BY <1>3, AppendedUnfolds
  <2>5. /\ Last(read').lit - left' = 0 /\ left' <= Last(read').lit
    BY <1>3, <1>9, <2>2, <2>3
  <2>6. Has(job', Appended(job', r, Last(read').lit - left'), out', taken')
    BY <1>6, <1>9, <2>3, <2>5
  <2>7. InLiterals(r)'
    BY <1>6, <1>9, <2>1, <2>5, <2>6 DEF InLiterals, AtSequence
  <2>8. Decoding(job', Front(read')) = r
    BY <1>4, <1>9, <2>2
  <2> QED
    BY <1>5, <1>9, <2>7, <2>8 DEF Following, InStepWith
<1> QED
  BY <1>1, <1>8, <1>9

(* The sequence under way, while its literals are appended.                *)
LEMMA UnderWay ==
  ASSUME RolzAssumption, RolzInv, Following, phase \in {"literals", "insert", "match"},
         NEW r, r = Decoding(job, Front(read)), NEW v, v = Last(read),
         NEW n, n = v.lit - left, NEW a, a = Appended(job, r, n)
  PROVE  /\ job \in Jobs /\ read \in Seq(Value) /\ Len(read) \in Nat \ {0} /\ v \in Value
         /\ Len(read) \in 1 .. Len(job.types) /\ job.types[Len(read)] \in TypeLz .. TypeRep
         /\ v.lit \in Nat /\ left \in Nat /\ left <= v.lit /\ n \in Nat /\ n <= v.lit
         /\ out \in Seq(Byte) /\ Len(out) \in Nat /\ RolzTypes
         /\ InLiterals(r) /\ r \in Decoder(job) /\ r.known \in Seq(KnownEntry)
         /\ FitsIn(r.known, r.out) /\ reps = r.recent
         /\ a \in Decoder(job) /\ Has(job, a, out, taken) /\ Len(r.out) \in Nat
         /\ Len(out) = Len(r.out) + n /\ Len(r.out) <= Len(out) /\ FitsIn(r.known, out)
         /\ Decoding(job, read) = Decoded(job, r, job.types[Len(read)], v)
         /\ result = "none"
<1>1. /\ job \in Jobs /\ read \in Seq(Value) /\ Len(read) > 0 /\ RolzTypes /\ left \in Nat
      /\ out \in Seq(Byte) /\ Len(read) <= Len(job.types)
  BY DEF RolzInv, RolzTypes, InStep
<1>2. v \in Value /\ v.lit \in Nat
  <2>1. v \in Value
    BY <1>1, LastIsValue
  <2> QED
    BY <2>1 DEF Value
<1>3. /\ Len(read) \in Nat \ {0} /\ Len(read) \in 1 .. Len(job.types)
      /\ job.types[Len(read)] \in TypeLz .. TypeRep
  <2>1. Len(read) \in Nat /\ Len(job.types) \in Nat
    BY <1>1, JobTypes, LenProperties
  <2>2. Len(read) \in 1 .. Len(job.types)
    BY <1>1, <2>1
  <2> QED
    BY <1>1, <2>1, <2>2, JobTypes
<1>4. InLiterals(r) /\ result = "none"
  BY DEF Following
<1>5. /\ r \in Decoder(job) /\ r.ok /\ FitsIn(r.known, r.out) /\ left <= v.lit /\ reps = r.recent
      /\ Has(job, a, out, taken)
  BY <1>4 DEF InLiterals
<1>6. n \in Nat /\ n <= v.lit
  BY <1>1, <1>2, <1>5
<1>7. a \in Decoder(job) /\ a.ok /\ Len(a.out) = Len(r.out) + n /\ a.out = out
  <2>1. a.ok /\ a.out = out
    BY <1>5 DEF Has
  <2> QED
    BY <1>1, <1>5, <1>6, <2>1, AppendedTyped
<1>8. /\ Len(r.out) \in Nat /\ Len(out) \in Nat /\ Len(out) = Len(r.out) + n
      /\ Len(r.out) <= Len(out) /\ r.known \in Seq(KnownEntry)
  <2>1. Len(r.out) \in Nat /\ Len(out) \in Nat /\ r.known \in Seq(KnownEntry)
    BY <1>1, <1>5, DecoderParts, LenProperties
  <2>2. Len(out) = Len(r.out) + n
    BY <1>7
  <2>3. Len(r.out) <= Len(out)
    BY <1>6, <2>1, <2>2
  <2> QED
    BY <2>1, <2>2, <2>3
<1>9. FitsIn(r.known, out)
  BY <1>5, <1>8, FitsFurther
<1>10. Decoding(job, read) = Decoded(job, r, job.types[Len(read)], v)
  BY <1>1, <1>3, LastSequence
<1> QED
  BY <1>1, <1>2, <1>3, <1>4, <1>5, <1>6, <1>7, <1>8, <1>9, <1>10

(* A literal of a sequence.                                                *)
LEMMA LiteralInSequence ==
  ASSUME RolzAssumption, RolzInv, Following, AppendLiteral, phase = "literals"
  PROVE  Following'
<1>1. PICK r : r = Decoding(job, Front(read))
  OBVIOUS
<1>2. PICK v : v = Last(read)
  OBVIOUS
<1>3. PICK n : n = v.lit - left
  OBVIOUS
<1>4. PICK a : a = Appended(job, r, n)
  OBVIOUS
<1>5. /\ job \in Jobs /\ v \in Value /\ v.lit \in Nat /\ left \in Nat /\ n \in Nat /\ n <= v.lit
      /\ out \in Seq(Byte) /\ Len(out) \in Nat /\ InLiterals(r) /\ r \in Decoder(job)
      /\ r.known \in Seq(KnownEntry) /\ FitsIn(r.known, r.out) /\ reps = r.recent
      /\ a \in Decoder(job) /\ Has(job, a, out, taken) /\ FitsIn(r.known, out)
      /\ Decoding(job, read) = Decoded(job, r, job.types[Len(read)], v) /\ result = "none"
  BY <1>1, <1>2, <1>3, <1>4, UnderWay
<1>6. left > 0 /\ n + 1 \in Nat /\ n + 1 <= v.lit /\ v.lit - (left - 1) = n + 1 /\ left - 1 <= v.lit
  <2>1. left > 0
    BY DEF AppendLiteral
  <2>2. v.lit \in Nat /\ left \in Nat /\ n \in Nat
    BY <1>5
  <2> QED
    BY <1>3, <2>1, <2>2
<1>7. Appended(job, r, n + 1) = NextLiteral(job, a)
  BY <1>4, <1>5, AppendedUnfolds
<1>8. CASE Fail("Malformed") /\ ~NextLiteral(job, a).ok
  <2>1. ~Appended(job, r, v.lit).ok
    BY <1>5, <1>6, <1>7, <1>8, AppendedStops
  <2>2. PICK fits : fits = Appended(job, r, v.lit)
    OBVIOUS
  <2>3. PICK lits : lits = WithLiterals(r, fits)
    OBVIOUS
  <2>4. PICK d : d = Decoded(job, r, job.types[Len(read)], v)
    OBVIOUS
  <2>5. ~d.ok
    BY <1>5, <2>1, <2>2, <2>3, <2>4, DecodedIs
  <2>6. phase' = "done" /\ result' = "Malformed" /\ job' = job /\ read' = read
    BY <1>8 DEF Fail, AppendLiteral
  <2>7. \A q : q = Decoding(job', read') => ~q.ok
    BY <1>5, <2>4, <2>5, <2>6
  <2> QED
    BY <2>6, <2>7, Refuses
<1>9. CASE /\ Has(job, NextLiteral(job, a), out', taken')
           /\ left' = left - 1
           /\ UNCHANGED <<job, phase, at, reps, heads, entries, read, matched, result>>
  <2>1. Grows
    <3>1. out' \in Seq(Byte)
      <4>1. NextLiteral(job, a) \in Decoder(job) /\ NextLiteral(job, a).out = out'
        BY <1>5, <1>9, NextTyped DEF Has
      <4> QED
        BY <4>1, DecoderParts
    <3>2. out' = Append(out, out'[Len(out) + 1]) /\ Len(out') = Len(out) + 1
      <4>1. PICK x : out' = Append(out, x)
        BY <1>9 DEF AppendLiteral, Fail
      <4> QED
        BY <1>5, <4>1
    <3>3. \A i \in 1 .. Len(out) : out'[i] = out[i]
      BY <1>5, <3>2
    <3> QED
      BY <1>5, <3>1, <3>2, <3>3 DEF Grows
  <2>2. /\ at = Larger(Len(r.out), ContextDepth) /\ (HasTable => TableIs(r.known))
        /\ r.ok
    BY <1>5 DEF InLiterals
  <2>3. HasTable => TableIs(r.known)'
    <3>1. PICK k \in Seq(KnownEntry) : k = r.known
      BY <1>5
    <3>2. HasTable => TableIs(k)'
      BY <1>5, <1>9, <2>1, <2>2, <3>1, TableKept
    <3> QED
      BY <3>1, <3>2
  <2>4. HasTable' = HasTable
    BY <1>9 DEF HasTable
  <2>5. Last(read') = v /\ left' <= v.lit /\ v.lit - left' = n + 1
    BY <1>2, <1>6, <1>9
  <2>6. Has(job', Appended(job', r, Last(read').lit - left'), out', taken')
    BY <1>7, <1>9, <2>5
  <2>7. InLiterals(r)'
    BY <1>5, <1>9, <2>2, <2>3, <2>4, <2>5, <2>6 DEF InLiterals
  <2>8. Decoding(job', Front(read')) = r
    BY <1>1, <1>9
  <2>9. phase' = "literals" /\ result' = "none"
    BY <1>5, <1>9
  <2> QED
    BY <2>7, <2>8, <2>9 DEF Following, InStepWith
<1> QED
  BY <1>5, <1>8, <1>9, LiteralFollows

(* A literal after the last sequence.                                      *)
LEMMA LiteralInRest ==
  ASSUME RolzAssumption, RolzInv, Following, AppendLiteral, phase = "rest"
  PROVE  Following'
<1>1. PICK r : r = Decoding(job, read)
  OBVIOUS
<1>2. PICK n : n = Left(r) - left
  OBVIOUS
<1>3. PICK a : a = Appended(job, r, n)
  OBVIOUS
<1>4. InRest(r) /\ result = "none"
  BY <1>1 DEF Following, InStepWith
<1>5. /\ job \in Jobs /\ left \in Nat /\ left > 0
      /\ r \in Decoder(job) /\ r.ok /\ Len(read) = Len(job.types) /\ left <= Left(r)
      /\ Len(r.out) + Left(r) = job.size /\ Has(job, a, out, taken)
  BY <1>2, <1>3, <1>4 DEF RolzInv, RolzTypes, AppendLiteral, InRest
<1>6. Left(r) \in Nat
  BY <1>5, DecoderParts, LeftIs
<1>7. /\ n \in Nat /\ n + 1 \in Nat /\ n + 1 <= Left(r) /\ Left(r) - (left - 1) = n + 1
      /\ left - 1 <= Left(r)
  BY <1>2, <1>5, <1>6
<1>8. a \in Decoder(job)
  BY <1>3, <1>5, <1>7, AppendedTyped
<1>9. Appended(job, r, n + 1) = NextLiteral(job, a)
  BY <1>3, <1>7, AppendedUnfolds
<1>10. CASE Fail("Malformed") /\ ~NextLiteral(job, a).ok
  <2>1. ~WholeOutput(job, r).ok
    BY <1>5, <1>6, <1>7, <1>9, <1>10, AppendedStops DEF WholeOutput
  <2>2. phase' = "done" /\ result' = "Malformed" /\ job' = job /\ read' = read
    BY <1>10 DEF Fail, AppendLiteral
  <2>3. \A q : q = Decoding(job', read') =>
          Len(read') = Len(job'.types) /\ ~(WholeOutput(job', q).ok /\ Len(WholeOutput(job', q).out) = job'.size)
    BY <1>1, <1>5, <2>1, <2>2
  <2> QED
    BY <2>2, <2>3, Refuses
<1>11. CASE /\ Has(job, NextLiteral(job, a), out', taken')
            /\ left' = left - 1
            /\ UNCHANGED <<job, phase, at, reps, heads, entries, read, matched, result>>
  <2>1. Left(r) - left' = n + 1 /\ left' <= Left(r)
    BY <1>7, <1>11
  <2>2. Has(job', Appended(job', r, Left(r) - left'), out', taken')
    BY <1>9, <1>11, <2>1
  <2>3. InRest(r)'
    BY <1>5, <1>11, <2>1, <2>2 DEF InRest
  <2>4. Decoding(job', read') = r /\ phase' = "rest" /\ result' = "none"
    BY <1>1, <1>4, <1>11
  <2> QED
    BY <2>3, <2>4 DEF Following, InStepWith
<1> QED
  BY <1>5, <1>8, <1>10, <1>11, LiteralFollows

(* The literals of a sequence, or of the call, are there.                  *)
LEMMA EndLiteralsFollows ==
  ASSUME RolzAssumption, RolzInv, Following, EndLiterals
  PROVE  Following'
<1>1. /\ left = 0 /\ UNCHANGED <<job, out, taken, left, at, reps, heads, entries, read, matched>>
      /\ phase \in {"literals", "rest"}
  BY DEF EndLiterals
<1>2. CASE phase = "literals"
  <2>1. PICK r : r = Decoding(job, Front(read))
    OBVIOUS
  <2>2. PICK v : v = Last(read)
    OBVIOUS
  <2>3. PICK n : n = v.lit - left
    OBVIOUS
  <2>4. PICK a : a = Appended(job, r, n)
    OBVIOUS
  <2>5. /\ job \in Jobs /\ out \in Seq(Byte) /\ Len(out) \in Nat /\ InLiterals(r) /\ r \in Decoder(job)
        /\ r.known \in Seq(KnownEntry) /\ FitsIn(r.known, r.out) /\ reps = r.recent
        /\ Has(job, a, out, taken) /\ FitsIn(r.known, out) /\ left <= v.lit
        /\ Len(r.out) \in Nat /\ Len(r.out) <= Len(out) /\ result = "none"
    BY <1>2, <2>1, <2>2, <2>3, <2>4, UnderWay
  <2>6. at = Larger(Len(r.out), ContextDepth) /\ (HasTable => TableIs(r.known)) /\ r.ok
    BY <1>2, <2>5 DEF InLiterals
  <2>7. Grows
    BY <1>1, <2>5 DEF Grows
  <2>8. HasTable => TableIs(r.known)'
    <3>1. PICK k \in Seq(KnownEntry) : k = r.known
      BY <2>5
    <3>2. HasTable => TableIs(k)'
      BY <1>1, <2>5, <2>6, <2>7, <3>1, TableKept
    <3> QED
      BY <3>1, <3>2
  <2>9. Inserted(r, at) = r.known
    <3>1. at \in Nat /\ at <= Larger(Len(r.out), ContextDepth) /\ at <= Larger(Len(out), ContextDepth)
      BY <2>5, <2>6 DEF Larger, ContextDepth
    <3> QED
      BY <2>5, <3>1, InsertedIs
  <2>10. /\ Decoding(job', Front(read')) = r /\ result' = "none"
         /\ phase' = IF HasTable THEN "insert" ELSE "match"
    BY <1>1, <1>2, <2>1, <2>5 DEF EndLiterals
  <2>11. Has(job', Appended(job', r, Last(read').lit - left'), out', taken') /\ left' <= Last(read').lit
    BY <1>1, <2>2, <2>3, <2>4, <2>5
  <2>12. HasTable' = HasTable
    BY <1>1 DEF HasTable
  <2>13. phase' = "insert" =>
           /\ at' >= Larger(Len(r.out), ContextDepth)
           /\ \A k : k = Inserted(r, at') => TableIs(k)'
    <3>1. at' >= Larger(Len(r.out), ContextDepth)
      BY <1>1, <2>5, <2>6 DEF Larger, ContextDepth
    <3>2. phase' = "insert" => TableIs(r.known)'
      BY <2>8, <2>10
    <3>3. \A k : k = Inserted(r, at') => k = r.known
      BY <1>1, <2>9
    <3> QED
      BY <3>1, <3>2, <3>3
  <2>14. InLiterals(r)'
    BY <1>1, <2>5, <2>6, <2>10, <2>11, <2>12, <2>13 DEF InLiterals
  <2> QED
    BY <2>10, <2>14 DEF Following, InStepWith
<1>3. CASE phase = "rest"
  <2>1. PICK r : r = Decoding(job, read)
    OBVIOUS
  <2>2. InRest(r)
    BY <1>3, <2>1 DEF Following, InStepWith
  <2>3. /\ job \in Jobs /\ r \in Decoder(job) /\ r.ok /\ Len(r.out) + Left(r) = job.size
        /\ Has(job, Appended(job, r, Left(r) - left), out, taken)
    BY <2>2 DEF RolzInv, RolzTypes, InRest
  <2>4. Left(r) \in Nat
    BY <2>3, DecoderParts, LeftIs
  <2>5. Left(r) - left = Left(r)
    BY <1>1, <2>4
  <2>6. PICK w : w = WholeOutput(job, r)
    OBVIOUS
  <2>7. Has(job, w, out, taken)
    BY <2>3, <2>5, <2>6 DEF WholeOutput
  <2>8. w.ok /\ w.out = out /\ Len(out) = job.size
    <3>1. w.ok /\ w.out = out
      BY <2>7 DEF Has
    <3>2. Len(w.out) = Len(r.out) + Left(r)
      BY <2>3, <2>4, <2>6, <3>1, AppendedTyped DEF WholeOutput
    <3> QED
      BY <2>3, <3>1, <3>2
  <2>9. phase' = "done" /\ result' = "Ok"
    BY <1>3 DEF EndLiterals
  <2>10. AtEnd(r)'
    BY <1>1, <2>6, <2>8, <2>9 DEF AtEnd
  <2>11. Decoding(job', read') = r
    BY <1>1, <2>1
  <2> QED
    BY <2>9, <2>10, <2>11, Ends
<1> QED
  BY <1>1, <1>2, <1>3

(* The next literal, and its place in the table.                           *)
LEMMA AppendLiteralFollows ==
  ASSUME RolzAssumption, RolzInv, Following, AppendLiteral
  PROVE  Following'
<1>1. phase \in {"literals", "rest"}
  BY DEF AppendLiteral
<1> QED
  BY <1>1, LiteralInSequence, LiteralInRest

LEMMA InsertLiteralFollows ==
  ASSUME RolzAssumption, RolzInv, Following, InsertLiteral
  PROVE  Following'
<1>1. /\ phase = "insert" /\ UNCHANGED <<job, out, taken, left, reps, read, matched, result>>
      /\ IF at < Len(out)
         THEN Put(out, at, 0) /\ at' = at + 1 /\ UNCHANGED phase
         ELSE phase' = "match" /\ UNCHANGED <<at, heads, entries>>
  BY DEF InsertLiteral
<1>2. PICK r : r = Decoding(job, Front(read))
  OBVIOUS
<1>3. PICK v : v = Last(read)
  OBVIOUS
<1>4. PICK n : n = v.lit - left
  OBVIOUS
<1>5. PICK a : a = Appended(job, r, n)
  OBVIOUS
<1>6. /\ job \in Jobs /\ out \in Seq(Byte) /\ Len(out) \in Nat /\ InLiterals(r) /\ r \in Decoder(job)
      /\ r.known \in Seq(KnownEntry) /\ FitsIn(r.known, r.out) /\ reps = r.recent
      /\ Has(job, a, out, taken) /\ left <= v.lit /\ RolzTypes
      /\ Len(r.out) \in Nat /\ Len(r.out) <= Len(out) /\ result = "none"
  BY <1>1, <1>2, <1>3, <1>4, <1>5, UnderWay
<1>7. /\ r.ok /\ at >= Larger(Len(r.out), ContextDepth) /\ \A k : k = Inserted(r, at) => TableIs(k)
  BY <1>1, <1>6 DEF InLiterals
<1>8. /\ at \in Nat /\ at >= 2 /\ at <= Larger(Len(out), ContextDepth) /\ TableTypes
  <2>1. at \in Nat /\ at <= Larger(Len(out), ContextDepth)
    BY <1>1 DEF RolzInv, RolzTypes, InStep
  <2>2. at >= 2
    BY <1>6, <1>7, <2>1 DEF Larger, ContextDepth
  <2> QED
    BY <1>6, <2>1, <2>2 DEF TableTypes, RolzTypes
<1>9. Grows
  BY <1>1, <1>6 DEF Grows
<1>10. PICK k : k = Inserted(r, at)
  OBVIOUS
<1>11. k \in Seq(KnownEntry) /\ FitsIn(k, out) /\ TableIs(k)
  BY <1>6, <1>7, <1>8, <1>10, InsertedIs
<1>12. /\ Decoding(job', Front(read')) = r /\ result' = "none" /\ HasTable' = HasTable
  BY <1>1, <1>2, <1>6 DEF HasTable
<1>13. Has(job', Appended(job', r, Last(read').lit - left'), out', taken') /\ left' <= Last(read').lit
  BY <1>1, <1>3, <1>4, <1>5, <1>6
<1>14. CASE at < Len(out)
  <2>1. Put(out, at, 0) /\ at' = at + 1 /\ phase' = "insert"
    BY <1>1, <1>14
  <2>2. \A q : q = Append(k, [pos |-> at, length |-> 0]) => TableIs(q)'
    <3>1. PICK p \in Nat : p = at
      BY <1>8
    <3>2. p >= 2 /\ p <= Len(out) /\ Put(out, p, 0)
      BY <1>6, <1>8, <1>14, <2>1, <3>1
    <3>3. TableIs(Append(k, [pos |-> p, length |-> 0]))'
      BY <1>8, <1>9, <1>11, <3>2, TablePut
    <3> QED
      BY <3>1, <3>3
  <2>3. Inserted(r, at') = Append(k, [pos |-> at, length |-> 0])
    BY <1>6, <1>7, <1>8, <1>10, <2>1, InsertedIs
  <2>6. at' >= Larger(Len(r.out), ContextDepth)
    BY <1>6, <1>7, <1>8, <2>1 DEF Larger, ContextDepth
  <2>7. \A q : q = Inserted(r, at') => TableIs(q)'
    BY <2>2, <2>3
  <2>8. InLiterals(r)'
    BY <1>1, <1>6, <1>7, <1>13, <2>1, <2>6, <2>7 DEF InLiterals
  <2> QED
    BY <1>12, <2>1, <2>8 DEF Following, InStepWith
<1>15. CASE ~(at < Len(out))
  <2>1. phase' = "match" /\ UNCHANGED <<at, heads, entries>>
    BY <1>1, <1>15
  <2>2. TableIs(k)'
    BY <1>9, <1>11, <2>1, TableKept
  <2>3. Inserted(r, Len(out')) = k
    <3>1. CASE at = Len(out)
      BY <1>1, <1>10, <3>1
    <3>2. CASE at # Len(out)
      <4>1. at <= Larger(Len(r.out), ContextDepth) /\ Len(out) <= Larger(Len(r.out), ContextDepth)
            /\ Len(out) <= Larger(Len(out), ContextDepth)
        BY <1>6, <1>7, <1>8, <1>15, <3>2 DEF Larger, ContextDepth
      <4>2. Inserted(r, at) = r.known /\ Inserted(r, Len(out)) = r.known
        BY <1>6, <1>8, <4>1, InsertedIs
      <4> QED
        BY <1>1, <1>10, <4>2
    <3> QED
      BY <3>1, <3>2
  <2>4. \A q : q = Inserted(r, Len(out')) => TableIs(q)'
    BY <2>2, <2>3
  <2>5. InLiterals(r)'
    BY <1>1, <1>6, <1>7, <1>13, <2>1, <2>4 DEF InLiterals
  <2> QED
    BY <1>12, <2>1, <2>5 DEF Following, InStepWith
<1> QED
  BY <1>14, <1>15

(* The positions of a match fit what its bytes are appended to.            *)
LEMMA WithMatchFits ==
  ASSUME NEW known \in Seq(KnownEntry), NEW s, NEW t, FitsIn(known, s), Len(s) \in Nat,
         Len(t) \in Nat, NEW length \in Nat \ {0}, Len(t) = Len(s) + length, NEW type
  PROVE  /\ WithMatch(known, type, Len(s), length) \in Seq(KnownEntry)
         /\ FitsIn(WithMatch(known, type, Len(s), length), t)
<1>1. FitsIn(known, t)
  BY FitsFurther
<1>2. PICK e : e = Placed(Len(s), length)
  OBVIOUS
<1>3. PICK f : f = Placed(Len(s) + 1, length - 1)
  OBVIOUS
<1>4. e \in KnownEntry /\ f \in KnownEntry /\ e.pos = Len(s) /\ f.pos = Len(s) + 1
  BY <1>2, <1>3 DEF Placed, KnownEntry
<1>5. CASE Len(s) < ContextDepth
  BY <1>1, <1>5 DEF WithMatch
<1>6. CASE ~(Len(s) < ContextDepth)
  <2>1. e.pos \in ContextDepth .. Len(t) /\ f.pos \in ContextDepth .. Len(t)
    BY <1>4, <1>6 DEF ContextDepth
  <2>2. Append(known, e) \in Seq(KnownEntry) /\ FitsIn(Append(known, e), t)
    BY <1>1, <1>4, <2>1, FitsAppended
  <2>3. Append(Append(known, e), f) \in Seq(KnownEntry) /\ FitsIn(Append(Append(known, e), f), t)
    BY <1>4, <2>1, <2>2, FitsAppended
  <2> QED
    BY <1>2, <1>3, <1>6, <2>2, <2>3 DEF WithMatch
<1> QED
  BY <1>5, <1>6

(* The match a sequence ends with, when the call has one.                  *)
Means(r, type, v, offset, length) ==
  Match(r, type, v)[1] = offset /\ Match(r, type, v)[2] = length

Making(j, r, type, v, a, lits, known, d) ==
  /\ a = Appended(j, r, v.lit) /\ lits = WithLiterals(r, a) /\ known = Inserted(r, Len(out))
  /\ d = Decoded(j, r, type, v)

LEMMA MatchMade ==
  ASSUME RolzAssumption, NEW j \in Jobs, NEW r \in Decoder(j), FitsIn(r.known, r.out), reps = r.recent,
         reps \in Nat \X Nat \X Nat, NEW type \in TypeLz .. TypeRep, NEW v \in Value,
         NEW a, NEW lits, NEW K, NEW d, Making(j, r, type, v, a, lits, K, d),
         Has(j, a, out, taken), Len(out) \in Nat,
         NEW offset \in 1 .. Len(out), NEW length \in Nat \ {0}, ~(Len(out) + length > j.size),
         Means(lits, type, v, offset, length),
         type \notin {TypeLz, TypeRolz} => v.code % 4 # 3
  PROVE  /\ d \in Decoder(j) /\ Has(j, d, out \o MatchBytes(offset, length), taken)
         /\ d.recent = RepsAfter(type, v, offset)
         /\ K \in Seq(KnownEntry) /\ FitsIn(K, out) /\ FitsIn(d.known, d.out)
         /\ Len(d.out) = Len(out) + length
         /\ d.known = WithMatch(K, type, Len(out), length)
<1>0. /\ a = Appended(j, r, v.lit) /\ lits = WithLiterals(r, a) /\ K = Inserted(r, Len(out))
      /\ d = Decoded(j, r, type, v)
  BY DEF Making
<1>1. a.ok /\ a.out = out /\ a.streams = Untaken(j, taken)
  BY DEF Has
<1>2. /\ lits \in Decoder(j) /\ lits.out = out /\ lits.streams = a.streams
      /\ lits.recent = reps /\ lits.known = K /\ FitsIn(K, out)
  <2>1. a.ok
    BY <1>1
  <2>2. /\ lits \in Decoder(j) /\ lits.out = a.out /\ lits.streams = a.streams
        /\ lits.recent = r.recent /\ lits.known = Inserted(r, Len(a.out))
        /\ FitsIn(lits.known, lits.out)
    BY <1>0, <2>1, DecodedIs
  <2> QED
    BY <1>0, <1>1, <2>2
<1>3. /\ K \in Seq(KnownEntry) /\ out \in Seq(Byte)
      /\ lits.streams \in [DOMAIN j.literals.streams -> Seq(Byte)]
  <2>1. /\ lits.known \in Seq(KnownEntry) /\ lits.out \in Seq(Byte)
        /\ lits.streams \in [DOMAIN j.literals.streams -> Seq(Byte)]
    BY <1>2, DecoderParts
  <2> QED
    BY <1>2, <2>1
<1>4. PICK match : match = Match(lits, type, v)
  OBVIOUS
<1>5. d = AfterMatch(lits, type, v, match)
  <2>1. match[1] \in 1 .. Len(a.out) /\ ~(Len(a.out) + match[2] > j.size) /\ a.ok
    BY <1>1, <1>4 DEF Means
  <2>2. Decoded(j, r, type, v) = AfterMatch(lits, type, v, match)
    BY <1>0, <1>4, <2>1 DEF Decoded
  <2> QED
    BY <1>0, <2>2
<1>6. Copied(out, offset, length) = out \o MatchBytes(offset, length)
  <2>1. Copied(out, offset, length) = out \o Repeated(out, offset, length)
    BY <1>3, CopiedIs
  <2>2. Repeated(out, offset, length) = MatchBytes(offset, length)
    BY DEF Repeated, MatchBytes
  <2> QED
    BY <2>1, <2>2
<1>7. PICK rest : rest = WithMatch(K, type, Len(out), length)
  OBVIOUS
<1>8. PICK recent : recent = RepsAfter(type, v, offset)
  OBVIOUS
<1>9. PICK bytes : bytes = out \o MatchBytes(offset, length)
  OBVIOUS
<1>10. d = Reaching(bytes, a.streams, rest, recent)
  <2>1. d = Reaching(Copied(lits.out, match[1], match[2]), lits.streams,
                     lits.known \o MatchEntries(type, Len(lits.out), match[2]),
                     Recent(lits.recent, type, v, match[1]))
    BY <1>5 DEF AfterMatch
  <2>2. match[1] = offset /\ match[2] = length
    BY <1>4 DEF Means
  <2>3. Recent(reps, type, v, offset) = recent
    BY <1>8, RecentIs
  <2>4. K \o MatchEntries(type, Len(out), length) = rest
    BY <1>3, <1>7, WithMatchIs
  <2> QED
    BY <1>2, <1>6, <1>9, <2>1, <2>2, <2>3, <2>4
<1>11. bytes \in Seq(Byte) /\ Len(bytes) = Len(out) + length
  <2>1. MatchBytes(offset, length) \in Seq(Byte) /\ Len(MatchBytes(offset, length)) = length
    BY <1>3, MatchIsBytes
  <2>2. PICK more : more = MatchBytes(offset, length)
    OBVIOUS
  <2>3. more \in Seq(Byte) /\ Len(more) = length
    BY <2>1, <2>2
  <2>4. bytes = out \o more
    BY <1>9, <2>2
  <2>5. out \o more \in Seq(Byte) /\ Len(out \o more) = Len(out) + Len(more)
    BY <1>3, <2>3, ConcatProperties
  <2> QED
    BY <2>3, <2>4, <2>5
<1>12. recent \in [1 .. 3 -> Nat]
  <2>1. recent \in Nat \X Nat \X Nat
    BY <1>8, RepsAreNumbers
  <2> QED
    BY <2>1, OffsetsAreThree
<1>13. rest \in Seq(KnownEntry) /\ FitsIn(rest, bytes)
  <2>1. FitsIn(K, out) /\ Len(bytes) \in Nat
    BY <1>2, <1>11, LenProperties
  <2> QED
    BY <1>3, <1>7, <1>11, <2>1, WithMatchFits
<1>14. d \in Decoder(j)
  <2>1. PICK st : st = a.streams
    OBVIOUS
  <2>2. st \in [DOMAIN j.literals.streams -> Seq(Byte)] /\ d = Reaching(bytes, st, rest, recent)
    BY <1>2, <1>3, <1>10, <2>1
  <2>3. Reaching(bytes, st, rest, recent) \in Decoder(j)
    BY <1>11, <1>12, <1>13, <2>2, ReachingTyped
  <2> QED
    BY <2>2, <2>3
<1>15. /\ d.ok /\ d.out = bytes /\ d.streams = a.streams /\ d.known = rest /\ d.recent = recent
  BY <1>10, ReachingParts
<1>16. Has(j, d, bytes, taken)
  BY <1>1, <1>15 DEF Has
<1> QED
  BY <1>2, <1>3, <1>7, <1>8, <1>9, <1>11, <1>13, <1>14, <1>15, <1>16

(* A ROLZ match is behind the position that looks it up.                   *)
LEMMA BehindItself ==
  ASSUME RolzAssumption, RolzInv, NEW v \in Value, Resolves(TypeRolz, v)
  PROVE  ~(OffsetOf(TypeRolz, v) <= 0)
<1>1. RolzTypes /\ PointsBack /\ Len(out) \in Nat
  BY LenProperties DEF RolzInv, RolzTypes
<1>2. OffsetOf(TypeRolz, v) > 0
  BY <1>1, TableOffset
<1>3. OffsetOf(TypeRolz, v) \in Int
  <2>1. Len(out) >= ContextDepth /\ v.code \in 0 .. RowSize - 1
    BY DEF Resolves, TypeRolz, TypeLz, Value, RolzAssumption
  <2>2. RowAt(out, Len(out)) \in Rows
    BY <1>1, <2>1, HasRow DEF RolzTypes, ContextDepth
  <2>3. TableTypes
    BY <1>1 DEF RolzTypes, TableTypes
  <2>4. TableEntry(v.code) \in Entry
    BY <2>1, <2>2, <2>3, SlotInRow DEF TableEntry
  <2> QED
    BY <1>1, <2>4 DEF OffsetOf, Entry, TypeRolz, TypeLz
<1> QED
  BY <1>2, <1>3

(* What the match of a sequence is, and what becomes of it.                *)
LEMMA AppendMatchParts ==
  ASSUME RolzAssumption, RolzInv, AppendMatch,
         NEW type, type = job.types[Len(read)], NEW v, v = Last(read)
  PROVE  \/ ~Resolves(type, v) /\ Fail("Malformed")
         \/ Resolves(type, v) /\ type = TypeRolz /\ OffsetOf(type, v) <= 0
         \/ /\ Resolves(type, v) /\ Fail("Malformed")
            /\ OffsetOf(type, v) \notin 1 .. Len(out) \/ Len(out) + LengthOf(type, v) > job.size
         \/ /\ Resolves(type, v) /\ OffsetOf(type, v) \in 1 .. Len(out)
            /\ ~(Len(out) + LengthOf(type, v) > job.size)
            /\ out' = out \o MatchBytes(OffsetOf(type, v), LengthOf(type, v))
            /\ reps' = RepsAfter(type, v, OffsetOf(type, v))
            /\ IF type = TypeRolz THEN Put(out, Len(out), LengthOf(type, v))
               ELSE UNCHANGED <<heads, entries>>
            /\ matched' = LengthOf(type, v) /\ at' = Len(out)
            /\ phase' = IF type # TypeRolz /\ HasTable /\ Len(out) >= ContextDepth
                        THEN "extend" ELSE "sequence"
            /\ UNCHANGED <<job, taken, left, result>>
BY DEF AppendMatch

(* The table after a match, as far as it is inserted.                      *)
LEMMA MatchInserts ==
  ASSUME RolzAssumption, TableTypes, Grows, NEW K \in Seq(KnownEntry), FitsIn(K, out), TableIs(K),
         NEW type \in TypeLz .. TypeRep, NEW length \in Nat \ {0}, Len(out) \in Nat,
         type = TypeRolz => Len(out) >= ContextDepth,
         type = TypeRolz => Put(out, Len(out), length),
         type # TypeRolz => UNCHANGED <<heads, entries>>,
         NEW rest, rest = WithMatch(K, type, Len(out), length)
  PROVE  /\ type # TypeRolz => TableIs(K)'
         /\ type = TypeRolz \/ Len(out) < ContextDepth => TableIs(rest)'
<1>1. PICK p \in Nat : p = Len(out)
  OBVIOUS
<1>2. CASE type # TypeRolz
  <2>1. UNCHANGED <<heads, entries>>
    BY <1>2
  <2>2. TableIs(K)'
    BY <2>1, TableKept
  <2>3. ASSUME Len(out) < ContextDepth PROVE TableIs(rest)'
    <3>1. rest = K
      BY <2>3 DEF WithMatch
    <3> QED
      BY <2>2, <3>1
  <2> QED
    BY <1>2, <2>2, <2>3
<1>3. CASE type = TypeRolz
  <2>1. Put(out, p, length) /\ p >= 2 /\ p <= Len(out) /\ length \in Nat
    BY <1>1, <1>3 DEF ContextDepth
  <2>2. TableIs(Append(K, [pos |-> p, length |-> length]))'
    BY <2>1, TablePut
  <2>3. rest = Append(K, [pos |-> p, length |-> length])
    BY <1>1, <1>3 DEF WithMatch, Placed, ContextDepth
  <2>4. TableIs(rest)'
    BY <2>2, <2>3
  <2> QED
    BY <1>3, <2>4
<1> QED
  BY <1>2, <1>3

(* The table of the positions of the literals, where a match begins.       *)
LEMMA AtMatch ==
  ASSUME RolzAssumption, RolzInv, Following, phase = "match",
         NEW r, r = Decoding(job, Front(read)), NEW v, v = Last(read),
         NEW a, a = Appended(job, r, v.lit), NEW lits, lits = WithLiterals(r, a)
  PROVE  /\ job \in Jobs /\ Len(read) \in 1 .. Len(job.types) /\ v \in Value
         /\ job.types[Len(read)] \in TypeLz .. TypeRep /\ r \in Decoder(job)
         /\ FitsIn(r.known, r.out) /\ reps = r.recent /\ reps \in Nat \X Nat \X Nat
         /\ Has(job, a, out, taken) /\ out \in Seq(Byte) /\ Len(out) \in Nat /\ RolzTypes
         /\ Decoding(job, read) = Decoded(job, r, job.types[Len(read)], v) /\ result = "none"
         /\ lits \in Decoder(job) /\ lits.out = out /\ lits.recent = reps
         /\ lits.known = Inserted(r, Len(out))
         /\ HasTable => TableIs(lits.known)
<1>1. PICK n : n = v.lit - left
  OBVIOUS
<1>2. PICK b : b = Appended(job, r, n)
  OBVIOUS
<1>3. /\ job \in Jobs /\ Len(read) \in 1 .. Len(job.types) /\ v \in Value
      /\ job.types[Len(read)] \in TypeLz .. TypeRep /\ r \in Decoder(job)
      /\ FitsIn(r.known, r.out) /\ reps = r.recent /\ InLiterals(r)
      /\ Has(job, b, out, taken) /\ out \in Seq(Byte) /\ Len(out) \in Nat /\ RolzTypes
      /\ Decoding(job, read) = Decoded(job, r, job.types[Len(read)], v)
      /\ result = "none" /\ v.lit \in Nat
  BY <1>1, <1>2, UnderWay
<1>4. n = v.lit
  <2>1. left = 0
    BY DEF RolzInv, InStep
  <2> QED
    BY <1>1, <1>3, <2>1
<1>5. Has(job, a, out, taken) /\ a.ok /\ a.out = out
  BY <1>2, <1>3, <1>4 DEF Has
<1>6. /\ lits \in Decoder(job) /\ lits.out = out /\ lits.recent = reps
      /\ lits.known = Inserted(r, Len(out))
  BY <1>3, <1>5, DecodedIs
<1>7. HasTable => TableIs(lits.known)
  BY <1>3, <1>6 DEF InLiterals
<1>8. reps \in Nat \X Nat \X Nat
  BY <1>3 DEF RolzTypes
<1> QED
  BY <1>3, <1>5, <1>6, <1>7, <1>8

(* A match that is refused is none.                                        *)
LEMMA NoMatch ==
  ASSUME RolzAssumption, NEW j \in Jobs, NEW r \in Decoder(j), FitsIn(r.known, r.out),
         NEW type, NEW v \in Value, NEW a, a = Appended(j, r, v.lit), a.ok,
         NEW lits, lits = WithLiterals(r, a),
         \/ Match(lits, type, v)[1] \notin 1 .. Len(a.out)
         \/ Len(a.out) + Match(lits, type, v)[2] > j.size
  PROVE  ~Decoded(j, r, type, v).ok
<1>1. ~Undecoded(j).ok
  BY BeganTyped
<1> QED
  BY <1>1 DEF Decoded

(* The match of a sequence, and how much of it the table has.              *)
LEMMA AppendMatchFollows ==
  ASSUME RolzAssumption, RolzInv, Following, AppendMatch
  PROVE  Following'
<1>1. phase = "match" /\ read' = read
  BY DEF AppendMatch
<1>2. PICK r : r = Decoding(job, Front(read))
  OBVIOUS
<1>3. PICK v : v = Last(read)
  OBVIOUS
<1>4. PICK a : a = Appended(job, r, v.lit)
  OBVIOUS
<1>5. PICK lits : lits = WithLiterals(r, a)
  OBVIOUS
<1>6. PICK type : type = job.types[Len(read)]
  OBVIOUS
<1>7. PICK d : d = Decoded(job, r, type, v)
  OBVIOUS
<1>8. /\ job \in Jobs /\ Len(read) \in 1 .. Len(job.types) /\ v \in Value
      /\ type \in TypeLz .. TypeRep /\ r \in Decoder(job)
      /\ FitsIn(r.known, r.out) /\ reps = r.recent /\ reps \in Nat \X Nat \X Nat
      /\ Has(job, a, out, taken) /\ out \in Seq(Byte) /\ Len(out) \in Nat /\ RolzTypes
      /\ Decoding(job, read) = d /\ result = "none"
      /\ lits \in Decoder(job) /\ lits.out = out /\ lits.recent = reps
      /\ lits.known = Inserted(r, Len(out)) /\ (HasTable => TableIs(lits.known))
  BY <1>1, <1>2, <1>3, <1>4, <1>5, <1>6, <1>7, AtMatch
<1>9. type = TypeRolz => HasTable
  <2>1. Len(read) \in DOMAIN job.types
    BY <1>8, JobTypes, LenProperties
  <2> QED
    BY <1>6, <2>1 DEF HasTable, ToSet
<1>10. /\ Resolves(type, v) => Means(lits, type, v, OffsetOf(type, v), LengthOf(type, v))
       /\ ~Resolves(type, v) => Match(lits, type, v)[1] \notin 1 .. Len(out)
  BY <1>8, <1>9, MatchIs DEF Means
<1>11. ASSUME Fail("Malformed"),
              \/ Match(lits, type, v)[1] \notin 1 .. Len(out)
              \/ Len(out) + Match(lits, type, v)[2] > job.size
       PROVE  Following'
  <2>1. a.ok /\ a.out = out
    BY <1>8 DEF Has
  <2>2. \/ Match(lits, type, v)[1] \notin 1 .. Len(a.out)
        \/ Len(a.out) + Match(lits, type, v)[2] > job.size
    BY <1>11, <2>1
  <2>3. ~d.ok
    BY <1>4, <1>5, <1>7, <1>8, <2>1, <2>2, NoMatch
  <2>4. phase' = "done" /\ result' = "Malformed" /\ job' = job
    BY <1>11 DEF Fail
  <2>5. \A q : q = Decoding(job', read') => ~q.ok
    BY <1>1, <1>8, <2>3, <2>4
  <2> QED
    BY <2>4, <2>5, Refuses
<1>12. CASE ~Resolves(type, v) /\ Fail("Malformed")
  BY <1>10, <1>11, <1>12
<1>13. CASE Resolves(type, v) /\ type = TypeRolz /\ OffsetOf(type, v) <= 0
  <2>1. Resolves(TypeRolz, v) /\ OffsetOf(TypeRolz, v) <= 0
    BY <1>13
  <2> QED
    BY <1>8, <2>1, BehindItself
<1>14. CASE /\ Resolves(type, v) /\ Fail("Malformed")
            /\ OffsetOf(type, v) \notin 1 .. Len(out) \/ Len(out) + LengthOf(type, v) > job.size
  BY <1>10, <1>11, <1>14 DEF Means
<1>15. ASSUME NEW offset \in 1 .. Len(out), NEW length \in Nat \ {0},
              Resolves(type, v), Means(lits, type, v, offset, length), ~(Len(out) + length > job.size),
              out' = out \o MatchBytes(offset, length), reps' = RepsAfter(type, v, offset),
              IF type = TypeRolz THEN Put(out, Len(out), length) ELSE UNCHANGED <<heads, entries>>,
              matched' = length, at' = Len(out),
              phase' = IF type # TypeRolz /\ HasTable /\ Len(out) >= ContextDepth
                       THEN "extend" ELSE "sequence",
              UNCHANGED <<job, taken, left, result>>
       PROVE  Following'
  <2>1. type = TypeRolz => Len(out) >= ContextDepth /\ v.code < RowSize
    BY <1>15 DEF Resolves, TypeRolz, TypeLz
  <2>2. length \in Nat \ {0} /\ length \in Nat
    OBVIOUS
  <2>3. type \notin {TypeLz, TypeRolz} => v.code % 4 # 3
    BY <1>15 DEF Resolves, RepOk
  <2>4. Means(lits, type, v, offset, length)
    BY <1>15
  <2>5. PICK known : known = Inserted(r, Len(out))
    OBVIOUS
  <2>6. /\ d \in Decoder(job) /\ Has(job, d, out', taken) /\ d.recent = reps'
        /\ known \in Seq(KnownEntry) /\ FitsIn(known, out) /\ FitsIn(d.known, d.out)
        /\ Len(d.out) = Len(out) + length
        /\ d.known = WithMatch(known, type, Len(out), length)
    <3>1. /\ d \in Decoder(job) /\ Has(job, d, out \o MatchBytes(offset, length), taken)
          /\ d.recent = RepsAfter(type, v, offset)
          /\ known \in Seq(KnownEntry) /\ FitsIn(known, out) /\ FitsIn(d.known, d.out)
          /\ Len(d.out) = Len(out) + length
          /\ d.known = WithMatch(known, type, Len(out), length)
      <4>1. /\ job \in Jobs /\ r \in Decoder(job) /\ FitsIn(r.known, r.out) /\ reps = r.recent
            /\ reps \in Nat \X Nat \X Nat /\ type \in TypeLz .. TypeRep /\ v \in Value
            /\ Has(job, a, out, taken) /\ Len(out) \in Nat
        BY <1>8
      <4>2. ~(Len(out) + length > job.size)
        BY <1>15
      <4>3. Making(job, r, type, v, a, lits, known, d)
        BY <1>4, <1>5, <1>7, <2>5 DEF Making
      <4> QED
        BY <2>3, <2>4, <4>1, <4>2, <4>3, MatchMade
    <3> QED
      BY <1>15, <3>1
  <2>7. d.ok /\ d.out = out' /\ d.streams = Untaken(job, taken) /\ Len(out') = Len(out) + length
    BY <2>6 DEF Has
  <2>8. Grows
    <3>1. out' \in Seq(Byte)
      BY <2>6, <2>7, DecoderParts
    <3>2. MatchBytes(offset, length) \in Seq(Byte)
      BY <1>8, <1>15, <2>2, MatchIsBytes
    <3>3. PICK more \in Seq(Byte) : out' = out \o more
      BY <1>15, <3>2
    <3>4. \A i \in 1 .. Len(out) : out'[i] = out[i]
      BY <1>8, <3>3, ConcatProperties
    <3> QED
      BY <1>8, <2>2, <2>7, <3>1, <3>4 DEF Grows
  <2>9. TableTypes
    BY <1>8 DEF RolzTypes, TableTypes
  <2>10. PICK rest : rest = WithMatch(known, type, Len(out), length)
    OBVIOUS
  <2>11. HasTable => /\ type # TypeRolz => TableIs(known)'
                     /\ type = TypeRolz \/ Len(out) < ContextDepth => TableIs(rest)'
    <3>1. /\ type = TypeRolz => Put(out, Len(out), length)
          /\ type # TypeRolz => UNCHANGED <<heads, entries>>
      BY <1>15
    <3>2. HasTable => TableIs(known)
      BY <1>8, <2>5
    <3> QED
      BY <1>8, <2>1, <2>2, <2>6, <2>8, <2>9, <2>10, <3>1, <3>2, MatchInserts
  <2>12. Decoding(job', read') = d /\ result' = "none" /\ HasTable' = HasTable
    BY <1>1, <1>8, <1>15 DEF HasTable
  <2>13. Has(job', d, out', taken')
    BY <1>15, <2>6
  <2>14. CASE type # TypeRolz /\ HasTable /\ Len(out) >= ContextDepth
    <3>1. PICK e : e = Placed(Len(out), length)
      OBVIOUS
    <3>2. PICK f : f = Placed(Len(out) + 1, length - 1)
      OBVIOUS
    <3>3. d.known = Append(Append(known, e), f)
      BY <2>6, <2>14, <3>1, <3>2 DEF WithMatch, ContextDepth
    <3>4. LastInsert' = Len(out) + 1 /\ at' = LastInsert' - 1 /\ at' # LastInsert'
      <4>1. LastInsert' = Len(out') - matched' + 1
        BY DEF LastInsert
      <4>2. matched' = length /\ at' = Len(out)
        BY <1>15
      <4> QED
        BY <1>8, <2>2, <2>7, <4>1, <4>2
    <3>5. /\ e \in KnownEntry /\ f \in KnownEntry
          /\ e = [pos |-> LastInsert' - 1, length |-> matched']
          /\ f = [pos |-> LastInsert', length |-> matched' - 1]
      <4>1. Len(out) + 1 \in Nat /\ length - 1 \in Nat /\ LastInsert' - 1 = Len(out)
        BY <1>8, <2>2, <3>4
      <4> QED
        BY <1>8, <1>15, <2>2, <3>1, <3>2, <3>4, <4>1 DEF Placed, KnownEntry
    <3>6. InMatch(d)'
      BY <1>15, <2>6, <2>7, <2>11, <2>13, <2>14, <3>3, <3>4, <3>5 DEF InMatch
    <3>7. phase' = "extend"
      BY <1>15, <2>14
    <3> QED
      BY <2>12, <3>6, <3>7 DEF Following, InStepWith
  <2>15. CASE ~(type # TypeRolz /\ HasTable /\ Len(out) >= ContextDepth)
    <3>1. phase' = "sequence"
      BY <1>15, <2>15
    <3>2. HasTable => TableIs(rest)'
      BY <1>8, <1>9, <2>11, <2>15 DEF ContextDepth
    <3>3. HasTable' => TableIs(d.known)'
      BY <2>6, <2>10, <2>12, <3>2
    <3>4. AtSequence(d)'
      BY <1>15, <2>6, <2>13, <3>3 DEF AtSequence
    <3> QED
      BY <2>12, <3>1, <3>4 DEF Following, InStepWith
  <2> QED
    BY <2>14, <2>15
<1>16. CASE /\ Resolves(type, v) /\ OffsetOf(type, v) \in 1 .. Len(out)
            /\ ~(Len(out) + LengthOf(type, v) > job.size)
            /\ out' = out \o MatchBytes(OffsetOf(type, v), LengthOf(type, v))
            /\ reps' = RepsAfter(type, v, OffsetOf(type, v))
            /\ IF type = TypeRolz THEN Put(out, Len(out), LengthOf(type, v))
               ELSE UNCHANGED <<heads, entries>>
            /\ matched' = LengthOf(type, v) /\ at' = Len(out)
            /\ phase' = IF type # TypeRolz /\ HasTable /\ Len(out) >= ContextDepth
                        THEN "extend" ELSE "sequence"
            /\ UNCHANGED <<job, taken, left, result>>
  <2>1. PICK offset : offset = OffsetOf(type, v)
    OBVIOUS
  <2>2. PICK length : length = LengthOf(type, v)
    OBVIOUS
  <2>3. /\ Resolves(type, v) /\ offset \in 1 .. Len(out) /\ ~(Len(out) + length > job.size)
        /\ out' = out \o MatchBytes(offset, length) /\ reps' = RepsAfter(type, v, offset)
        /\ IF type = TypeRolz THEN Put(out, Len(out), length) ELSE UNCHANGED <<heads, entries>>
        /\ matched' = length /\ at' = Len(out)
        /\ phase' = IF type # TypeRolz /\ HasTable /\ Len(out) >= ContextDepth
                    THEN "extend" ELSE "sequence"
        /\ UNCHANGED <<job, taken, left, result>>
    BY <1>16, <2>1, <2>2
  <2>4. length \in Nat \ {0}
    <3>1. type = TypeRolz => Len(out) >= ContextDepth /\ v.code < RowSize
      BY <1>16 DEF Resolves, TypeRolz, TypeLz
    <3> QED
      BY <1>8, <2>2, <3>1, MatchHasBytes
  <2>5. Means(lits, type, v, offset, length)
    BY <1>10, <2>1, <2>2, <2>3
  <2> QED
    BY <1>15, <2>3, <2>4, <2>5
<1> QED
  BY <1>3, <1>6, <1>12, <1>13, <1>14, <1>16, AppendMatchParts

(* The positions of a match, one after the other.                          *)
LEMMA InsertMatchFollows ==
  ASSUME RolzAssumption, RolzInv, Following, InsertMatch
  PROVE  Following'
<1>1. /\ phase = "extend" /\ UNCHANGED <<job, out, taken, left, reps, read, matched, result>>
      /\ Put(out, at, Len(out) - at) /\ at' = at + 1
      /\ phase' = IF at = LastInsert THEN "sequence" ELSE "extend"
  BY DEF InsertMatch
<1>2. PICK r : r = Decoding(job, read)
  OBVIOUS
<1>3. InMatch(r) /\ result = "none"
  BY <1>1, <1>2 DEF Following, InStepWith
<1>4. /\ r \in Decoder(job) /\ FitsIn(r.known, r.out) /\ Has(job, r, out, taken) /\ reps = r.recent
      /\ FitsIn(r.known, out)
  BY <1>3 DEF InMatch, Has
<1>5. PICK k \in Seq(KnownEntry), e \in KnownEntry, d \in KnownEntry :
        /\ r.known = Append(Append(k, e), d)
        /\ e = [pos |-> LastInsert - 1, length |-> matched]
        /\ d = [pos |-> LastInsert, length |-> matched - 1]
        /\ at = LastInsert - 1 => TableIs(k)
        /\ at = LastInsert => TableIs(Append(k, e))
  BY <1>3 DEF InMatch
<1>6. /\ at \in {LastInsert - 1, LastInsert} /\ matched >= 2 /\ matched \in Nat /\ at \in Nat
      /\ at >= 2 /\ out \in Seq(Byte) /\ Len(out) \in Nat /\ TableTypes
  BY <1>1, LenProperties DEF RolzInv, RolzTypes, InStep, ContextDepth, TableTypes
<1>7. LastInsert = Len(out) - matched + 1 /\ LastInsert \in Int
  BY <1>6 DEF LastInsert
<1>8. Grows
  BY <1>1, <1>6 DEF Grows
<1>9. Append(k, e) \in Seq(KnownEntry) /\ FitsIn(Append(k, e), out) /\ FitsIn(k, out)
  <2>1. Append(k, e) \in Seq(KnownEntry)
    BY FitsAppended
  <2>2. FitsIn(Append(k, e), out)
    <3>1. PICK m \in Seq(KnownEntry) : m = Append(k, e)
      BY <2>1
    <3>2. FitsIn(Append(m, d), out)
      BY <1>4, <1>5, <3>1
    <3>3. FitsIn(m, out)
      BY <3>2, FitsAppended
    <3> QED
      BY <3>1, <3>3
  <2> QED
    BY <2>1, <2>2, FitsAppended
<1>10. LastInsert' = LastInsert /\ HasTable' = HasTable /\ Has(job', r, out', taken')
  BY <1>1, <1>4 DEF LastInsert, HasTable
<1>11. Decoding(job', read') = r /\ result' = "none"
  BY <1>1, <1>2, <1>3
<1>12. CASE at = LastInsert - 1
  <2>1. at # LastInsert /\ Len(out) - at = matched /\ at <= Len(out) /\ at' = LastInsert
        /\ at' # LastInsert - 1
    BY <1>1, <1>6, <1>7, <1>12
  <2>2. phase' = "extend"
    BY <1>1, <2>1
  <2>3. TableIs(Append(k, e))'
    <3>1. PICK p \in Nat : p = at
      BY <1>6
    <3>2. PICK n \in Nat : n = matched
      BY <1>6
    <3>3. p >= 2 /\ p <= Len(out) /\ Put(out, p, n) /\ TableIs(k)
      BY <1>1, <1>5, <1>6, <1>12, <2>1, <3>1, <3>2
    <3>4. TableIs(Append(k, [pos |-> p, length |-> n]))'
      BY <1>6, <1>8, <1>9, <3>3, TablePut
    <3>5. e = [pos |-> p, length |-> n]
      BY <1>5, <1>12, <3>1, <3>2
    <3> QED
      BY <3>4, <3>5
  <2>4. /\ e = [pos |-> LastInsert' - 1, length |-> matched']
        /\ d = [pos |-> LastInsert', length |-> matched' - 1]
        /\ at' # LastInsert' - 1
    BY <1>1, <1>5, <1>10, <2>1
  <2>5. InMatch(r)'
    BY <1>1, <1>4, <1>5, <1>10, <2>3, <2>4 DEF InMatch
  <2> QED
    BY <1>11, <2>2, <2>5 DEF Following, InStepWith
<1>13. CASE at = LastInsert
  <2>1. Len(out) - at = matched - 1 /\ at <= Len(out) /\ matched - 1 \in Nat
    BY <1>6, <1>7, <1>13
  <2>2. phase' = "sequence"
    BY <1>1, <1>13
  <2>3. TableIs(Append(Append(k, e), d))'
    <3>1. PICK p \in Nat : p = at
      BY <1>6
    <3>2. PICK n \in Nat : n = matched - 1
      BY <2>1
    <3>3. PICK m \in Seq(KnownEntry) : m = Append(k, e)
      BY <1>9
    <3>4. p >= 2 /\ p <= Len(out) /\ Put(out, p, n) /\ TableIs(m) /\ FitsIn(m, out)
      BY <1>1, <1>5, <1>6, <1>9, <1>13, <2>1, <3>1, <3>2, <3>3
    <3>5. TableIs(Append(m, [pos |-> p, length |-> n]))'
      BY <1>6, <1>8, <3>4, TablePut
    <3>6. d = [pos |-> p, length |-> n]
      BY <1>5, <1>13, <3>1, <3>2
    <3> QED
      BY <3>3, <3>5, <3>6
  <2>4. TableIs(r.known)'
    BY <1>5, <2>3
  <2>5. AtSequence(r)'
    BY <1>1, <1>4, <1>10, <2>4 DEF AtSequence
  <2> QED
    BY <1>11, <2>2, <2>5 DEF Following, InStepWith
<1> QED
  BY <1>6, <1>12, <1>13

(* The literals after the last sequence make the declared size, or the     *)
(* call has nothing of that size.                                          *)
LEMMA FinishFollows ==
  ASSUME RolzAssumption, RolzInv, Following, Finish
  PROVE  Following'
<1>1. /\ phase = "sequence" /\ Len(read) = Len(job.types) /\ read' = read
      /\ IF Len(out) + Remaining # job.size THEN Fail("Malformed")
         ELSE /\ left' = job.size - Len(out) /\ phase' = "rest"
              /\ UNCHANGED <<job, out, taken, at, reps, heads, entries, matched, result>>
  BY DEF Finish
<1>2. PICK r : r = Decoding(job, read)
  OBVIOUS
<1>3. AtSequence(r) /\ result = "none"
  BY <1>1, <1>2 DEF Following, InStepWith
<1>4. r \in Decoder(job) /\ Has(job, r, out, taken) /\ r.ok /\ r.out = out
  BY <1>3 DEF AtSequence, Has
<1>5. RolzTypes /\ job \in Jobs /\ Len(out) \in Nat /\ job.size \in Nat
  <2>1. RolzTypes /\ job \in Jobs
    BY DEF RolzInv, RolzTypes
  <2> QED
    BY <2>1, JobTypes
<1>6. Left(r) = Remaining /\ Left(r) \in Nat
  BY <1>4, <1>5, RemainingIs
<1>7. CASE Len(out) + Remaining # job.size /\ Fail("Malformed")
  <2>1. phase' = "done" /\ result' = "Malformed" /\ job' = job
    BY <1>7 DEF Fail
  <2>2. PICK w : w = WholeOutput(job, r)
    OBVIOUS
  <2>3. w.ok => Len(w.out) = Len(out) + Left(r)
    BY <1>4, <1>5, <1>6, <2>2, AppendedTyped DEF WholeOutput
  <2>4. ~(w.ok /\ Len(w.out) = job.size)
    BY <1>6, <1>7, <2>3
  <2>5. \A q : q = Decoding(job', read') =>
          Len(read') = Len(job'.types) /\ ~(WholeOutput(job', q).ok /\ Len(WholeOutput(job', q).out) = job'.size)
    BY <1>1, <1>2, <2>1, <2>2, <2>4
  <2> QED
    BY <2>1, <2>5, Refuses
<1>8. CASE /\ Len(out) + Remaining = job.size
           /\ left' = job.size - Len(out) /\ phase' = "rest"
           /\ UNCHANGED <<job, out, taken, at, reps, heads, entries, matched, result>>
  <2>1. left' = Left(r) /\ Left(r) - left' = 0 /\ left' <= Left(r) /\ Len(r.out) + Left(r) = job.size
    BY <1>4, <1>5, <1>6, <1>8
  <2>2. Appended(job, r, 0) = r
    BY <1>4, <1>5, AppendedUnfolds
  <2>3. Has(job', Appended(job', r, Left(r) - left'), out', taken')
    BY <1>4, <1>8, <2>1, <2>2
  <2>4. InRest(r)'
    BY <1>1, <1>4, <1>8, <2>1, <2>3 DEF InRest
  <2>5. Decoding(job', read') = r /\ result' = "none"
    BY <1>1, <1>2, <1>3, <1>8
  <2> QED
    BY <1>8, <2>4, <2>5 DEF Following, InStepWith
<1> QED
  BY <1>1, <1>7, <1>8

(* A step that changes nothing.                                            *)
LEMMA FollowingStutters ==
  ASSUME Following, UNCHANGED rolzVars
  PROVE  Following'
<1>1. UNCHANGED <<job, phase, out, taken, left, at, reps, heads, entries, read, matched, result>>
  BY DEF rolzVars
<1>2. \A k : TableIs(k) => TableIs(k)'
  <2>1. \A r, n : EntryAt(r, n)' = EntryAt(r, n)
    BY <1>1 DEF EntryAt, Slot
  <2>2. \A r, n : Filled(r, n)' <=> Filled(r, n)
    BY <2>1 DEF Filled
  <2> QED
    BY <1>1, <2>1, <2>2 DEF TableIs
<1>3. HasTable' = HasTable /\ LastInsert' = LastInsert
  BY <1>1 DEF HasTable, LastInsert
<1>4. ASSUME NEW r, AtSequence(r) PROVE AtSequence(r)'
  BY <1>1, <1>2, <1>3, <1>4 DEF AtSequence
<1>5. ASSUME NEW r, InLiterals(r) PROVE InLiterals(r)'
  BY <1>1, <1>2, <1>3, <1>5 DEF InLiterals
<1>6. ASSUME NEW r, InMatch(r) PROVE InMatch(r)'
  BY <1>1, <1>2, <1>3, <1>6 DEF InMatch
<1>7. ASSUME NEW r, InRest(r) PROVE InRest(r)'
  BY <1>1, <1>7 DEF InRest
<1>8. ASSUME NEW r, AtEnd(r) PROVE AtEnd(r)'
  BY <1>1, <1>8 DEF AtEnd
<1>9. ASSUME NEW r, InStepWith(r) PROVE InStepWith(r)'
  BY <1>1, <1>4, <1>6, <1>7, <1>8, <1>9 DEF InStepWith
<1> QED
  BY <1>1, <1>5, <1>9 DEF Following

(* What is in step decodes as defined.                                     *)
LEMMA FollowingDecodes ==
  ASSUME RolzInv, Following
  PROVE  RolzDecodesAsDefined
<1>1. PICK r : r = Decoding(job, read)
  OBVIOUS
<1>2. InStepWith(r) /\ (phase # "done" => result = "none")
  BY <1>1 DEF Following
<1>3. phase = "sequence" =>
        r.ok /\ out = r.out /\ reps = r.recent /\ (HasTable => TableIs(r.known))
  BY <1>2 DEF InStepWith, AtSequence, Has
<1>4. /\ result = "Ok" => /\ WholeOutput(job, r).ok /\ out = WholeOutput(job, r).out
                          /\ Len(out) = job.size
      /\ result = "Malformed" =>
           \/ ~r.ok
           \/ Len(read) = Len(job.types) /\ ~(WholeOutput(job, r).ok /\ Len(WholeOutput(job, r).out) = job.size)
  <2>1. CASE phase = "done"
    BY <1>2, <2>1 DEF InStepWith, AtEnd
  <2>2. CASE phase # "done"
    BY <1>2, <2>2
  <2> QED
    BY <2>1, <2>2
<1> QED
  BY <1>1, <1>3, <1>4 DEF RolzDecodesAsDefined, DecodesAs

(* A ROLZ call decodes what its sequences define: the match a table entry  *)
(* names is the one the encoder meant, since the row of every context has  *)
(* the last positions behind it, newest first; and a call is refused only  *)
(* if what it reads defines nothing of the declared size.                  *)
THEOREM SequencesDecodeAsDefined == RolzSpec => []RolzDecodesAsDefined
<1>1. RolzInit => Following
  BY RolzAssumption, FollowingInit
<1>2. RolzInv /\ Following /\ [RolzNext]_rolzVars => Following'
  <2> SUFFICES ASSUME RolzInv, Following, [RolzNext]_rolzVars PROVE Following'
    OBVIOUS
  <2>1. CASE RolzNext
    BY <2>1, RolzAssumption, BeginFollows, ReadSequenceFollows, AppendLiteralFollows,
       EndLiteralsFollows, InsertLiteralFollows, AppendMatchFollows, InsertMatchFollows,
       FinishFollows DEF RolzNext
  <2>2. CASE UNCHANGED rolzVars
    BY <2>2, FollowingStutters
  <2> QED
    BY <2>1, <2>2
<1>3. RolzInv /\ Following => RolzDecodesAsDefined
  BY FollowingDecodes
<1>4. RolzSpec => []RolzInv
  BY RolzInvariant
<1> QED
  BY <1>1, <1>2, <1>3, <1>4, PTL DEF RolzSpec
=============================================================================
