-------------------------- MODULE FrameParseProofs --------------------------
(***************************************************************************)
(* Theorems about FrameParse.                                              *)
(***************************************************************************)
EXTENDS FrameParse, FiniteSetTheorems, DataInduction

-----------------------------------------------------------------------------
(* The input as it grows.                                                  *)
IsRead(r) == \E S : r \in Seq(S)

FieldNames ==
  {"magic", "flags", "bundle", "outputs", "bad type", "size", "strings", "comment", "sum",
   "nodes", "streams", "long zero", "graph", "stored", "decoded", "encoded"}

(* `t` continues `r` with fields of some names.                            *)
Continues(r, t, names) ==
  /\ IsRead(t) /\ Len(r) \in Nat /\ Len(t) \in Nat /\ Len(r) <= Len(t)
  /\ DOMAIN r = 1 .. Len(r) /\ DOMAIN t = 1 .. Len(t)
  /\ \A i \in 1 .. Len(r) : t[i] = r[i]
  /\ \A i \in Len(r) + 1 .. Len(t) : t[i].field \in names

LEMMA ReadStays == ASSUME NEW r, IsRead(r), NEW names PROVE Continues(r, r, names)
BY DEF IsRead, Continues

LEMMA ReadAppended ==
  ASSUME NEW r, IsRead(r), NEW x
  PROVE  /\ Continues(r, Append(r, x), {x.field})
         /\ Len(Append(r, x)) = Len(r) + 1 /\ Append(r, x)[Len(r) + 1] = x
<1>1. PICK S : r \in Seq(S)
  BY DEF IsRead
<1> DEFINE T == S \cup {x}
<1>2. r \in Seq(T) /\ x \in T
  <2>1. r \in [1 .. Len(r) -> S] /\ Len(r) \in Nat
    BY <1>1
  <2>2. r \in [1 .. Len(r) -> T]
    BY <2>1
  <2> QED
    BY <2>1, <2>2, SeqDef
<1> HIDE DEF T
<1>3. Append(r, x) \in Seq(T)
  BY <1>2
<1> QED
  BY <1>2, <1>3 DEF Continues, IsRead

LEMMA ReadJoined ==
  ASSUME NEW r, IsRead(r), NEW s, IsRead(s), NEW names,
         \A i \in 1 .. Len(s) : s[i].field \in names
  PROVE  /\ Continues(r, r \o s, names) /\ Len(s) \in Nat /\ Len(r \o s) = Len(r) + Len(s)
         /\ \A i \in 1 .. Len(s) : (r \o s)[Len(r) + i] = s[i]
<1>1. PICK S : r \in Seq(S)
  BY DEF IsRead
<1>2. PICK R : s \in Seq(R)
  BY DEF IsRead
<1> DEFINE T == S \cup R
<1>3. r \in Seq(T) /\ s \in Seq(T)
  <2>1. r \in [1 .. Len(r) -> S] /\ Len(r) \in Nat /\ s \in [1 .. Len(s) -> R] /\ Len(s) \in Nat
    BY <1>1, <1>2
  <2>2. r \in [1 .. Len(r) -> T] /\ s \in [1 .. Len(s) -> T]
    BY <2>1
  <2> QED
    BY <2>1, <2>2, SeqDef
<1> HIDE DEF T
<1>4. r \o s \in Seq(T)
  BY <1>3
<1>5. \A i \in Len(r) + 1 .. Len(r) + Len(s) : (r \o s)[i] = s[i - Len(r)] /\ i - Len(r) \in 1 .. Len(s)
  BY <1>3
<1>6. \A i \in Len(r) + 1 .. Len(r) + Len(s) : (r \o s)[i].field \in names
  BY <1>5
<1> QED
  BY <1>3, <1>4, <1>5, <1>6 DEF Continues, IsRead

LEMMA FirstStays ==
  ASSUME NEW r, NEW t, NEW names, Continues(r, t, names), r # <<>>, IsRead(r)
  PROVE  t # <<>> /\ t[1] = r[1] /\ Len(r) >= 1
<1>1. PICK S : r \in Seq(S)
  BY DEF IsRead
<1>2. Len(r) \in Nat /\ Len(r) # 0
  BY <1>1
<1>3. PICK T : t \in Seq(T)
  BY DEF Continues, IsRead
<1>4. Len(t) >= 1 /\ t[1] = r[1]
  BY <1>2, <1>3 DEF Continues
<1>5. t # <<>>
  BY <1>4
<1> QED
  BY <1>2, <1>4, <1>5

LEMMA ContinuesOn ==
  ASSUME NEW r, NEW s, NEW t, NEW names, NEW more, Continues(r, s, names), Continues(s, t, more)
  PROVE  Continues(r, t, names \cup more)
BY DEF Continues

LEMMA AppendIsJoin ==
  ASSUME NEW S, NEW r \in Seq(S), NEW x PROVE r \o <<x>> = Append(r, x)
OBVIOUS

LEMMA JoinNothing == ASSUME NEW S, NEW r \in Seq(S) PROVE r \o <<>> = r
OBVIOUS

LEMMA Taken ==
  ASSUME IsRead(read), NEW name, NEW value, Take(name, value)
  PROVE  /\ Continues(read, read', {name}) /\ Len(read') = Len(read) + 1
         /\ read'[Len(read) + 1] = [field |-> name, value |-> value]
BY ReadAppended DEF Take

-----------------------------------------------------------------------------
(* Types and gates.                                                        *)
Base == IsRead(read) /\ TypeOK /\ Gates /\ ReadFits /\ ChunkAsRead /\ SummaryExact

ErrorNames ==
  {"max_frame_bytes", "Unsupported", "Malformed", "max_streams", "InvalidType",
   "max_buffer_bytes", "max_decoded_bytes", "LimitExceeded", "ChecksumMismatch", "max_nodes",
   "max_chunks", "max_transform_header_bytes", "max_stored_stream_bytes", "Truncated"}

(* The values a field may have.                                            *)
LEMMA ValuesTyped ==
  ASSUME TypeOK, V \in Versions
  PROVE  /\ Values.flags \subseteq SUBSET Flags /\ Values.types \subseteq Seq(Types)
         /\ Values.size \subseteq Nat /\ Values.strings \subseteq Nat
         /\ Values.comment \subseteq Nat /\ Values.nodes \subseteq Nat
         /\ Values.streams \subseteq Nat /\ Values.graph \subseteq NodeField
         /\ Values.stored \subseteq Nat
         /\ \A n \in Values.graph : Cardinality(n.dict) <= 1
<1> DEFINE when == IF summary.chunks > 0 THEN "later" ELSE "first"
<1>1. when \in {"first", "later"} /\ Values = FieldValues[V, when]
  BY DEF Values
<1> HIDE DEF when
<1> DEFINE F == FieldValues[V, when]
<1>2. /\ F \in [flags : SUBSET SUBSET Flags, types : SUBSET Seq(Types), size : SUBSET Nat,
                strings : SUBSET Nat, comment : SUBSET Nat, nodes : SUBSET Nat,
                streams : SUBSET Nat, graph : SUBSET NodeField, stored : SUBSET Nat]
      /\ \A n \in F.graph : Cardinality(n.dict) <= 1
  BY <1>1, FieldAssumption, Zenon
<1>3. Values = F
  BY <1>1
<1> HIDE DEF F
<1> QED
  BY <1>2, <1>3

LEMMA HeaderTyped ==
  ASSUME TypeOK
  PROVE  /\ header.sizes \in Seq(Nat) /\ header.types \in Seq(Types)
         /\ Len(header.sizes) \in Nat /\ Len(header.types) \in Nat
         /\ DOMAIN header.types = 1 .. Len(header.types) /\ header.flags \in SUBSET Flags
<1>1. header.sizes \in Seq(Nat) /\ header.types \in Seq(Types) /\ header.flags \in SUBSET Flags
  BY DEF TypeOK
<1> QED
  BY <1>1

LEMMA KnownFlags ==
  ASSUME NEW flags \in SUBSET Flags, NEW v \in Nat
  PROVE  /\ FromByte(flags, v) \in SUBSET Flags
         /\ FromByte(flags, v) \subseteq flags
         /\ v < 22 => "comment" \notin FromByte(flags, v)
         /\ v < 25 => "bundle" \notin FromByte(flags, v)
         /\ "encoded" \in flags <=> "encoded" \in FromByte(flags, v)
BY DEF FromByte, Flags

(* A step that goes on with the header.                                    *)
HeaderMoves ==
  /\ HeaderStep /\ result' = result /\ phase \in HeaderPhases
  /\ phase' \in HeaderPhases \cup {"chunks"}
  /\ Continues(read, read', FieldNames)

HeaderKept == TypeOK' /\ Gates' /\ ReadFits'

(* What Gates asks of a step that stays in the header or ends it.          *)
LEMMA HeaderGates ==
  ASSUME HeaderStep, phase' \in HeaderPhases \cup {"chunks"}, phase' # "magic",
         V' \in Versions, V' \in 8 .. 27, read' # <<>>,
         read'[1] = [field |-> "magic", value |-> V'],
         phase' \in {"flags", "bundle", "strings", "comment", "sum"} => V' >= 21,
         V' < 21 => chunks = <<>> /\ header'.flags = {},
         phase' \in {"flags", "bundle", "outputs"} => header'.sizes = <<>>,
         phase' = "size" => Len(header'.sizes) < Len(header'.types)
  PROVE  Gates'
BY DEF Gates, HeaderStep, HeaderPhases

LEMMA ReadMagicSteps ==
  ASSUME Base, ReadMagic, phase' # "done"
  PROVE  HeaderMoves /\ HeaderKept
<1>1. PICK v \in Versions :
        /\ Take("magic", v)
        /\ Proceed(Check(v \in 8 .. 27, "Unsupported", "Ok"),
            /\ header' = [header EXCEPT !.version = v]
            /\ phase' = IF v >= 21 THEN "flags" ELSE "outputs"
            /\ HeaderStep /\ UNCHANGED checked)
  BY DEF ReadMagic
<1>2. v \in 8 .. 27 /\ header' = [header EXCEPT !.version = v]
      /\ phase' = (IF v >= 21 THEN "flags" ELSE "outputs")
      /\ HeaderStep /\ UNCHANGED <<checked, result>>
  BY <1>1 DEF Proceed, Fail, Check
<1>3. phase = "magic" /\ Room(1) /\ read = <<>>
  BY DEF ReadMagic, Base, Gates
<1>4. /\ Continues(read, read', {"magic"}) /\ Len(read') = Len(read) + 1
      /\ read'[Len(read) + 1] = [field |-> "magic", value |-> v]
  BY <1>1, Taken DEF Base
<1>5. HeaderMoves
  BY <1>2, <1>3, <1>4 DEF HeaderMoves, HeaderPhases, Continues, FieldNames
<1>6. TypeOK'
  BY <1>2, <1>3, FieldAssumption DEF Base, TypeOK, HeaderStep
<1>7. Gates'
  <2>1. V' = v /\ header'.sizes = header.sizes /\ header'.flags = header.flags
    BY <1>2 DEF Base, TypeOK, V
  <2>2. read' # <<>> /\ read'[1] = [field |-> "magic", value |-> v]
    BY <1>3, <1>4
  <2>3. header.sizes = <<>> /\ chunks = <<>> /\ header.flags = {}
    BY <1>3 DEF Base, Gates, V, NoHeader, HeaderPhases
  <2> QED
    BY <1>2, <1>3, <2>1, <2>2, <2>3, HeaderGates DEF HeaderPhases, HeaderStep
<1>8. ReadFits'
  BY <1>2, <1>3, <1>4 DEF ReadFits, Room, HeaderStep, Offset
<1> QED
  BY <1>5, <1>6, <1>7, <1>8 DEF HeaderKept

LEMMA ReadFlagsSteps ==
  ASSUME Base, ReadFlags
  PROVE  HeaderMoves /\ HeaderKept
<1>1. phase = "flags" /\ Room(1) /\ V \in Versions /\ V \in 8 .. 27 /\ V >= 21
      /\ read # <<>> /\ read[1] = [field |-> "magic", value |-> V]
  BY DEF ReadFlags, Base, Gates
<1>2. PICK byte \in SUBSET Flags :
        /\ Take("flags", byte)
        /\ header' = [header EXCEPT !.flags = FromByte(byte, V)]
        /\ phase' = IF "bundle" \in FromByte(byte, V) THEN "bundle" ELSE "outputs"
        /\ HeaderStep /\ UNCHANGED <<checked, result>>
  BY <1>1, ValuesTyped DEF ReadFlags, Base
<1>3. FromByte(byte, V) \in SUBSET Flags
  BY <1>1, KnownFlags
<1>4. /\ Continues(read, read', {"flags"}) /\ Len(read') = Len(read) + 1
  BY <1>2, Taken DEF Base
<1>5. HeaderMoves
  BY <1>1, <1>2, <1>4 DEF HeaderMoves, HeaderPhases, Continues, FieldNames
<1>6. TypeOK'
  BY <1>1, <1>2, <1>3 DEF Base, TypeOK, HeaderStep
<1>7. Gates'
  <2>1. V' = V /\ header'.sizes = header.sizes
    BY <1>2 DEF Base, TypeOK, V
  <2>2. read' # <<>> /\ read'[1] = read[1]
    BY <1>1, <1>4, FirstStays DEF Base
  <2>3. header.sizes = <<>>
    BY <1>1 DEF Base, Gates
  <2> QED
    BY <1>1, <1>2, <2>1, <2>2, <2>3, HeaderGates DEF HeaderPhases, HeaderStep
<1>8. ReadFits'
  BY <1>1, <1>2, <1>4 DEF ReadFits, Room, HeaderStep, Offset
<1> QED
  BY <1>5, <1>6, <1>7, <1>8 DEF HeaderKept

LEMMA ReadBundleIdSteps ==
  ASSUME Base, ReadBundleId, phase' # "done"
  PROVE  HeaderMoves /\ HeaderKept
<1>1. phase = "bundle" /\ Room(1) /\ V \in Versions /\ V \in 8 .. 27 /\ V >= 21
      /\ read # <<>> /\ read[1] = [field |-> "magic", value |-> V]
  BY DEF ReadBundleId, Base, Gates
<1>2. PICK valid \in BOOLEAN :
        /\ Take("bundle", valid) /\ phase' = "outputs"
        /\ HeaderStep /\ UNCHANGED <<header, checked, result>>
  BY DEF ReadBundleId, Proceed, Fail, Check
<1>4. /\ Continues(read, read', {"bundle"}) /\ Len(read') = Len(read) + 1
  BY <1>2, Taken DEF Base
<1>5. HeaderMoves
  BY <1>1, <1>2, <1>4 DEF HeaderMoves, HeaderPhases, Continues, FieldNames
<1>6. TypeOK'
  BY <1>1, <1>2 DEF Base, TypeOK, HeaderStep
<1>7. Gates'
  <2>2. read' # <<>> /\ read'[1] = read[1]
    BY <1>1, <1>4, FirstStays DEF Base
  <2>3. header.sizes = <<>>
    BY <1>1 DEF Base, Gates
  <2> QED
    BY <1>1, <1>2, <2>2, <2>3, HeaderGates DEF HeaderPhases, HeaderStep, V
<1>8. ReadFits'
  BY <1>1, <1>2, <1>4 DEF ReadFits, Room, HeaderStep, Offset
<1> QED
  BY <1>5, <1>6, <1>7, <1>8 DEF HeaderKept

LEMMA ReadOutputsSteps ==
  ASSUME Base, ReadOutputs, phase' # "done"
  PROVE  HeaderMoves /\ HeaderKept
<1>1. phase = "outputs" /\ Room(1) /\ V \in Versions /\ V \in 8 .. 27
      /\ read # <<>> /\ read[1] = [field |-> "magic", value |-> V] /\ header.sizes = <<>>
  BY DEF ReadOutputs, Base, Gates
<1>2. PICK types \in Seq(Types) :
        /\ IF V < 14 THEN UNCHANGED read ELSE Take("outputs", types)
        /\ types # <<>> /\ header' = [header EXCEPT !.types = types] /\ phase' = "size"
        /\ HeaderStep /\ UNCHANGED <<checked, result>>
  BY <1>1, ValuesTyped DEF ReadOutputs, Base, Proceed, Fail, Check
<1>4. Continues(read, read', {"outputs"}) /\ (Len(read') = Len(read) + 1 \/ read' = read)
  BY <1>2, Taken, ReadStays DEF Base
<1>5. HeaderMoves
  BY <1>1, <1>2, <1>4 DEF HeaderMoves, HeaderPhases, Continues, FieldNames
<1>6. TypeOK'
  BY <1>1, <1>2 DEF Base, TypeOK, HeaderStep
<1>7. Gates'
  <2>1. V' = V /\ header'.sizes = <<>> /\ header'.types = types /\ header'.flags = header.flags
    BY <1>1, <1>2 DEF Base, TypeOK, V
  <2>2. read' # <<>> /\ read'[1] = read[1]
    BY <1>1, <1>4, FirstStays DEF Base
  <2>3. Len(header'.sizes) < Len(header'.types)
    BY <1>2, <2>1
  <2>4. V < 21 => chunks = <<>> /\ header.flags = {}
    BY <1>1 DEF Base, Gates, HeaderPhases
  <2> QED
    BY <1>1, <1>2, <2>1, <2>2, <2>3, <2>4, HeaderGates DEF HeaderPhases, HeaderStep
<1>8. ReadFits'
  BY <1>1, <1>2, <1>4 DEF ReadFits, Room, HeaderStep, Offset, Base
<1> QED
  BY <1>5, <1>6, <1>7, <1>8 DEF HeaderKept

LEMMA ReadSizeSteps ==
  ASSUME Base, ReadSize, phase' # "done"
  PROVE  HeaderMoves /\ HeaderKept
<1>1. phase = "size" /\ Room(1) /\ V \in Versions /\ V \in 8 .. 27
      /\ read # <<>> /\ read[1] = [field |-> "magic", value |-> V]
      /\ Len(header.sizes) < Len(header.types)
  BY DEF ReadSize, Base, Gates
<1>2. PICK field \in Nat :
        LET size == IF V >= 21 THEN field - 1 ELSE field
            more == Len(header.sizes) + 1 < Len(header.types)
        IN  /\ Take("size", field)
            /\ SizeError(size) = "Ok"
            /\ header' = [header EXCEPT !.sizes = Append(@, size)]
            /\ phase' = IF more THEN "size" ELSE IF V >= 21 THEN "strings" ELSE "chunks"
            /\ HeaderStep /\ UNCHANGED <<checked, result>>
  BY <1>1, ValuesTyped DEF ReadSize, Base, Proceed, Fail
<1> DEFINE size == IF V >= 21 THEN field - 1 ELSE field
<1>3. size \in Nat
  <2>1. size \in Int /\ size >= 0
    BY <1>1, <1>2 DEF SizeError, Check
  <2> QED
    BY <2>1
<1>4. /\ Continues(read, read', {"size"}) /\ Len(read') = Len(read) + 1
  BY <1>2, Taken DEF Base
<1>5. HeaderMoves
  BY <1>1, <1>2, <1>4 DEF HeaderMoves, HeaderPhases, Continues, FieldNames
<1>6. TypeOK'
  <2>1. header' = [header EXCEPT !.sizes = Append(header.sizes, size)]
    BY <1>2
  <2> HIDE DEF size
  <2>2. Append(header.sizes, size) \in Seq(Nat)
    BY <1>3, HeaderTyped DEF Base
  <2>3. phase' \in {"size", "strings", "chunks"}
    BY <1>2
  <2> QED
    BY <1>2, <2>1, <2>2, <2>3 DEF Base, TypeOK, HeaderStep
<1>7. Gates'
  <2>1. /\ V' = V /\ header'.types = header.types /\ header'.flags = header.flags
        /\ header'.sizes = Append(header.sizes, size)
    BY <1>1, <1>2 DEF Base, TypeOK, V
  <2>2. read' # <<>> /\ read'[1] = read[1]
    BY <1>1, <1>4, FirstStays DEF Base
  <2>3. Len(header'.sizes) = Len(header.sizes) + 1
    BY <1>3, <2>1, HeaderTyped DEF Base
  <2>4. V < 21 => chunks = <<>> /\ header.flags = {}
    BY <1>1 DEF Base, Gates, HeaderPhases
  <2>5. phase' = "size" => Len(header'.sizes) < Len(header'.types)
    BY <1>2, <2>1, <2>3
  <2>6. phase' \in {"size", "strings", "chunks"} /\ (phase' = "strings" => V >= 21)
    BY <1>2
  <2>7. HeaderStep
    BY <1>2
  <2> QED
    BY <1>1, <2>1, <2>2, <2>4, <2>5, <2>6, <2>7, HeaderGates DEF HeaderPhases, HeaderStep
<1>8. ReadFits'
  BY <1>1, <1>2, <1>4 DEF ReadFits, Room, HeaderStep, Offset
<1> QED
  BY <1>5, <1>6, <1>7, <1>8 DEF HeaderKept

LEMMA ReadStringCountsSteps ==
  ASSUME Base, ReadStringCounts
  PROVE  HeaderMoves /\ HeaderKept
<1>1. phase = "strings" /\ Room(1) /\ V \in Versions /\ V \in 8 .. 27 /\ V >= 21
      /\ read # <<>> /\ read[1] = [field |-> "magic", value |-> V]
  BY DEF ReadStringCounts, Base, Gates
<1> DEFINE strings == {k \in DOMAIN header.types : header.types[k] = "String"}
<1>2. PICK counts \in [strings -> Values.strings] :
        /\ IF strings = {} THEN UNCHANGED read ELSE Take("strings", counts)
        /\ header' = [header EXCEPT !.strings =
             [k \in DOMAIN header.types |-> IF k \in strings THEN {counts[k]} ELSE {}]]
        /\ phase' = AfterStrings(header.flags)
        /\ HeaderStep /\ UNCHANGED <<checked, result>>
  BY DEF ReadStringCounts
<1>3. [k \in DOMAIN header.types |-> IF k \in strings THEN {counts[k]} ELSE {}] \in Seq(SUBSET Nat)
  <2>1. \A k \in strings : counts[k] \in Nat
    BY <1>1, <1>2, ValuesTyped DEF Base
  <2>2. Len(header.types) \in Nat /\ DOMAIN header.types = 1 .. Len(header.types)
    BY HeaderTyped DEF Base
  <2> HIDE DEF strings
  <2>3. [k \in 1 .. Len(header.types) |-> IF k \in strings THEN {counts[k]} ELSE {}]
          \in [1 .. Len(header.types) -> SUBSET Nat]
    BY <2>1
  <2> QED
    BY <2>2, <2>3, SeqDef
<1> HIDE DEF strings
<1>4. Continues(read, read', {"strings"}) /\ (Len(read') = Len(read) + 1 \/ read' = read)
  BY <1>2, Taken, ReadStays DEF Base
<1>5. phase' \in {"comment", "sum", "chunks"}
  BY <1>2 DEF AfterStrings, AfterComment
<1>6. HeaderMoves
  BY <1>1, <1>2, <1>4, <1>5 DEF HeaderMoves, HeaderPhases, Continues, FieldNames
<1>7. TypeOK'
  BY <1>1, <1>2, <1>3, <1>5 DEF Base, TypeOK, HeaderStep
<1>8. Gates'
  <2>1. V' = V
    BY <1>1, <1>2 DEF Base, TypeOK, V
  <2>2. read' # <<>> /\ read'[1] = read[1]
    BY <1>1, <1>4, FirstStays DEF Base
  <2> QED
    BY <1>1, <1>2, <1>5, <2>1, <2>2, HeaderGates DEF HeaderPhases, HeaderStep
<1>9. ReadFits'
  BY <1>1, <1>2, <1>4 DEF ReadFits, Room, HeaderStep, Offset, Base
<1> QED
  BY <1>6, <1>7, <1>8, <1>9 DEF HeaderKept

LEMMA ReadCommentSteps ==
  ASSUME Base, ReadComment, phase' # "done"
  PROVE  HeaderMoves /\ HeaderKept
<1>1. phase = "comment" /\ Room(1) /\ V \in Versions /\ V \in 8 .. 27 /\ V >= 21
      /\ read # <<>> /\ read[1] = [field |-> "magic", value |-> V]
  BY DEF ReadComment, Base, Gates
<1>2. PICK size \in Nat :
        /\ Take("comment", size) /\ phase' = AfterComment(header.flags)
        /\ HeaderStep /\ UNCHANGED <<header, checked, result>>
  BY <1>1, ValuesTyped DEF ReadComment, Proceed, Fail, Check, Base
<1>3. phase' \in {"sum", "chunks"}
  BY <1>2 DEF AfterComment
<1>4. /\ Continues(read, read', {"comment"}) /\ Len(read') = Len(read) + 1
  BY <1>2, Taken DEF Base
<1>5. HeaderMoves
  BY <1>1, <1>2, <1>3, <1>4 DEF HeaderMoves, HeaderPhases, Continues, FieldNames
<1>6. TypeOK'
  BY <1>1, <1>2, <1>3 DEF Base, TypeOK, HeaderStep
<1>7. Gates'
  <2>2. read' # <<>> /\ read'[1] = read[1]
    BY <1>1, <1>4, FirstStays DEF Base
  <2> QED
    BY <1>1, <1>2, <1>3, <2>2, HeaderGates DEF HeaderPhases, HeaderStep, V
<1>8. ReadFits'
  BY <1>1, <1>2, <1>4 DEF ReadFits, Room, HeaderStep, Offset
<1> QED
  BY <1>5, <1>6, <1>7, <1>8 DEF HeaderKept

LEMMA ReadHeaderChecksumSteps ==
  ASSUME Base, ReadHeaderChecksum, phase' # "done"
  PROVE  HeaderMoves /\ HeaderKept
<1>1. phase = "sum" /\ Room(1) /\ V \in Versions /\ V \in 8 .. 27 /\ V >= 21
      /\ read # <<>> /\ read[1] = [field |-> "magic", value |-> V]
  BY DEF ReadHeaderChecksum, Base, Gates
<1>2. PICK matches \in BOOLEAN :
        /\ Take("sum", matches) /\ checked' = Verified(0, Offset) /\ phase' = "chunks"
        /\ HeaderStep /\ UNCHANGED <<header, result>>
  BY DEF ReadHeaderChecksum, Proceed, Fail, Check
<1>3. Verified(0, Offset) \subseteq ByteRange
  <2>1. Offset \in Nat
    BY DEF Base, IsRead, Offset
  <2>2. checked \subseteq ByteRange
    BY DEF Base, TypeOK
  <2> QED
    BY <2>1, <2>2 DEF Verified, ByteRange
<1>4. /\ Continues(read, read', {"sum"}) /\ Len(read') = Len(read) + 1
  BY <1>2, Taken DEF Base
<1>5. HeaderMoves
  BY <1>1, <1>2, <1>4 DEF HeaderMoves, HeaderPhases, Continues, FieldNames
<1>6. TypeOK'
  BY <1>1, <1>2, <1>3 DEF Base, TypeOK, HeaderStep
<1>7. Gates'
  <2>2. read' # <<>> /\ read'[1] = read[1]
    BY <1>1, <1>4, FirstStays DEF Base
  <2> QED
    BY <1>1, <1>2, <2>2, HeaderGates DEF HeaderPhases, HeaderStep, V
<1>8. ReadFits'
  BY <1>1, <1>2, <1>4 DEF ReadFits, Room, HeaderStep, Offset
<1> QED
  BY <1>5, <1>6, <1>7, <1>8 DEF HeaderKept

-----------------------------------------------------------------------------
(* Sums and plans.                                                         *)
LEMMA SumOverNat ==
  ASSUME NEW s \in Seq(Nat), NEW n \in Nat, n <= Len(s)
  PROVE  SumOver(s) \in Nat /\ SumOver(Firsts(s, n)) \in Nat /\ SumOver(Firsts(s, n)) <= SumOver(s)
<1>1. Len(s) \in Nat
  OBVIOUS
<1>2. Firsts(s, Len(s)) = s
  BY FirstsFacts, <1>1
<1>3. Sum(Firsts(s, n)) \in Nat /\ Sum(Firsts(s, Len(s))) \in Nat
  BY <1>1, SumNat
<1>4. Sum(Firsts(s, n)) <= Sum(Firsts(s, Len(s)))
  BY <1>1, SumGrows
<1> QED
  BY <1>2, <1>3, <1>4 DEF SumOver, Sum

Headers(fields) == [i \in DOMAIN fields |-> fields[i].header]

LEMMA NodesBuilt ==
  ASSUME NEW n \in Nat, NEW fields \in [1 .. n -> NodeField], NEW c, c.nodes = BuildNodes(fields)
  PROVE  /\ c.nodes \in Seq(NodePlan) /\ Len(c.nodes) = n
         /\ DOMAIN c.nodes = 1 .. n /\ Fields(c) = fields
         /\ \A i \in 1 .. n : c.nodes[i].start = SumOver(Firsts(Headers(fields), i - 1))
<1> DEFINE h == Headers(fields)
<1>1. h \in Seq(Nat) /\ Len(h) = n
  <2>1. h = [i \in 1 .. n |-> fields[i].header]
    BY DEF Headers
  <2>2. \A i \in 1 .. n : fields[i].header \in Nat
    BY DEF NodeField
  <2>3. h \in [1 .. n -> Nat]
    BY <2>1, <2>2
  <2> HIDE DEF h
  <2> QED
    BY <2>3, SeqDef
<1>2. \A i \in 1 .. n : [j \in 1 .. i - 1 |-> fields[j].header] = Firsts(h, i - 1)
  BY DEF Headers, Firsts
<1> HIDE DEF h
<1>3. \A i \in 1 .. n : SumOver(Firsts(h, i - 1)) \in Nat
  <2> TAKE i \in 1 .. n
  <2>1. i - 1 \in Nat /\ i - 1 <= Len(h)
    BY <1>1
  <2> QED
    BY <1>1, <2>1, SumOverNat
<1> DEFINE nodes == [i \in 1 .. n |-> [field |-> fields[i], start |-> SumOver(Firsts(h, i - 1))]]
<1>4. BuildNodes(fields) = nodes
  BY <1>2 DEF BuildNodes
<1>5. nodes \in [1 .. n -> NodePlan]
  BY <1>3 DEF NodePlan
<1>6. \A i \in 1 .. n : nodes[i].field = fields[i] /\ nodes[i].start = SumOver(Firsts(h, i - 1))
  OBVIOUS
<1> HIDE DEF nodes
<1>7. nodes \in Seq(NodePlan) /\ Len(nodes) = n /\ DOMAIN nodes = 1 .. n
  BY <1>5, SeqDef
<1>8. Fields(c) = fields
  BY <1>4, <1>6, <1>7 DEF Fields
<1> QED
  BY <1>4, <1>6, <1>7, <1>8 DEF h

(* What follows from the type of a plan.                                   *)
LEMMA PlanFields ==
  ASSUME NEW c \in Plan
  PROVE  /\ Len(c.nodes) \in Nat /\ DOMAIN c.nodes = 1 .. Len(c.nodes)
         /\ Fields(c) \in [1 .. Len(c.nodes) -> NodeField]
         /\ Len(c.sizes) \in Nat /\ DOMAIN c.sizes = 1 .. Len(c.sizes) /\ c.sizes \in Seq(Nat)
         /\ c.nodes \in Seq(NodePlan)
         /\ Headers(Fields(c)) \in Seq(Nat) /\ Len(Headers(Fields(c))) = Len(c.nodes)
         /\ TransformHeader(c) = SumOver(Headers(Fields(c)))
         /\ TransformHeader(c) \in Nat /\ StoredBytes(c) \in Nat /\ RegeneratedBy(c) \in Nat
<1> DEFINE n == Len(c.nodes)
<1>1. c.nodes \in Seq(NodePlan) /\ c.sizes \in Seq(Nat)
  BY DEF Plan
<1>2. n \in Nat /\ DOMAIN c.nodes = 1 .. n /\ Len(c.sizes) \in Nat /\ DOMAIN c.sizes = 1 .. Len(c.sizes)
  BY <1>1
<1>3. \A i \in 1 .. n : c.nodes[i].field \in NodeField
  <2> TAKE i \in 1 .. n
  <2>1. c.nodes[i] \in NodePlan
    BY <1>1, <1>2
  <2> QED
    BY <2>1 DEF NodePlan
<1>4. Fields(c) = [i \in 1 .. n |-> c.nodes[i].field]
  BY <1>2 DEF Fields
<1>5. Fields(c) \in [1 .. n -> NodeField]
  BY <1>3, <1>4
<1> HIDE DEF n
<1>6. \A i \in 1 .. n : Fields(c)[i].header \in Nat /\ Fields(c)[i].regens \in Nat
  BY <1>5 DEF NodeField
<1> DEFINE h == [i \in 1 .. n |-> Fields(c)[i].header]
           g == [i \in 1 .. n |-> Fields(c)[i].regens]
<1>7. h \in Seq(Nat) /\ g \in Seq(Nat) /\ Len(h) = n
  <2>1. h \in [1 .. n -> Nat] /\ g \in [1 .. n -> Nat]
    BY <1>6
  <2> HIDE DEF h, g
  <2> QED
    BY <1>2, <2>1, SeqDef
<1>8. DOMAIN Fields(c) = 1 .. n
  BY <1>5
<1>9. Headers(Fields(c)) = h /\ TransformHeader(c) = SumOver(h) /\ RegeneratedBy(c) = SumOver(g)
  BY <1>8 DEF Headers, TransformHeader, HeaderBytes, RegeneratedBy, Regenerated
<1> HIDE DEF h, g
<1>10. SumOver(h) \in Nat /\ SumOver(g) \in Nat /\ SumOver(c.sizes) \in Nat
  <2>1. 0 \in Nat /\ 0 <= Len(h) /\ 0 <= Len(g) /\ 0 <= Len(c.sizes)
    BY <1>1, <1>7
  <2> QED
    BY <1>1, <1>7, <2>1, SumOverNat
<1> QED
  BY <1>1, <1>2, <1>5, <1>7, <1>9, <1>10 DEF n, StoredBytes

LEMMA NoChunkIsPlan == NoChunk \in Plan /\ NoChunk.nodes = <<>> /\ NoChunk.headers.start = 0
<1>1. <<>> \in Seq(NodePlan) /\ <<>> \in Seq(Nat) /\ <<>> \in Seq(ByteRange)
  OBVIOUS
<1>2. [start |-> 0, len |-> 0] \in ByteRange
  BY DEF ByteRange
<1> QED
  BY <1>1, <1>2 DEF NoChunk, Plan

(* Locating the payload of a plan gives a plan.                            *)
LEMMA LocatedIsPlan ==
  ASSUME NEW c \in Plan, NEW start \in Nat
  PROVE  /\ Located(c, start) \in Plan
         /\ Located(c, start).headers = [start |-> start, len |-> TransformHeader(c)]
         /\ Located(c, start).nodes = c.nodes /\ Located(c, start).sizes = c.sizes
         /\ Located(c, start).transforms = c.transforms /\ Located(c, start).stored = c.stored
         /\ Located(c, start).start = c.start
         /\ Located(c, start).ranges = [i \in 1 .. Len(c.sizes) |->
              [start |-> start + TransformHeader(c) + SumOver(Firsts(c.sizes, i - 1)),
               len |-> c.sizes[i]]]
         /\ \A i \in 1 .. Len(c.sizes) : SumOver(Firsts(c.sizes, i - 1)) \in Nat
<1> DEFINE n == Len(c.sizes)
<1>1. /\ n \in Nat /\ DOMAIN c.sizes = 1 .. n /\ c.sizes \in Seq(Nat)
      /\ TransformHeader(c) \in Nat
  BY PlanFields
<1>2. \A i \in 1 .. n : SubSeq(c.sizes, 1, i - 1) = Firsts(c.sizes, i - 1)
  <2> TAKE i \in 1 .. n
  <2>1. i - 1 \in Nat /\ i - 1 <= Len(c.sizes)
    BY <1>1
  <2>2. SubSeq(c.sizes, 1, i - 1) = [j \in 1 .. i - 1 |-> c.sizes[j]]
    BY <1>1, <2>1
  <2> QED
    BY <2>2 DEF Firsts
<1>3. \A i \in 1 .. n : SumOver(Firsts(c.sizes, i - 1)) \in Nat
  <2> TAKE i \in 1 .. n
  <2>1. i - 1 \in Nat /\ i - 1 <= Len(c.sizes)
    BY <1>1
  <2> QED
    BY <1>1, <2>1, SumOverNat
<1> DEFINE ranges == [i \in 1 .. n |->
              [start |-> start + TransformHeader(c) + SumOver(Firsts(c.sizes, i - 1)),
               len |-> c.sizes[i]]]
<1>4. Located(c, start) = [c EXCEPT !.headers = [start |-> start, len |-> TransformHeader(c)],
                                    !.ranges = ranges]
  BY <1>1, <1>2 DEF Located
<1>5. ranges \in Seq(ByteRange)
  <2>1. \A i \in 1 .. n : c.sizes[i] \in Nat
    BY <1>1
  <2>2. ranges \in [1 .. n -> ByteRange]
    BY <1>1, <1>3, <2>1 DEF ByteRange
  <2> HIDE DEF ranges
  <2> QED
    BY <1>1, <2>2, SeqDef
<1> HIDE DEF ranges
<1>6. [start |-> start, len |-> TransformHeader(c)] \in ByteRange
  BY <1>1 DEF ByteRange
<1>7. /\ Located(c, start) \in Plan
      /\ Located(c, start).headers = [start |-> start, len |-> TransformHeader(c)]
      /\ Located(c, start).ranges = ranges
      /\ Located(c, start).nodes = c.nodes /\ Located(c, start).sizes = c.sizes
      /\ Located(c, start).transforms = c.transforms /\ Located(c, start).stored = c.stored
      /\ Located(c, start).start = c.start
  BY <1>4, <1>5, <1>6 DEF Plan
<1> QED
  BY <1>3, <1>7 DEF ranges, n

(* Measures of a plan look at its nodes and sizes only.                    *)
LEMMA SameMeasures ==
  ASSUME NEW c, NEW d, c.nodes = d.nodes, c.sizes = d.sizes
  PROVE  /\ Fields(c) = Fields(d) /\ TransformHeader(c) = TransformHeader(d)
         /\ StoredBytes(c) = StoredBytes(d) /\ RegeneratedBy(c) = RegeneratedBy(d)
         /\ PayloadBytes(c) = PayloadBytes(d) /\ Small(c) = Small(d)
BY DEF Fields, TransformHeader, StoredBytes, RegeneratedBy, PayloadBytes, Small

-----------------------------------------------------------------------------
(* The steps after the header.                                             *)
ChunkPhases == {"chunks", "chunk flags", "graph", "stored", "summary", "payload", "checksums",
                "scanned"}

(* What Gates asks of a step that stays there.                             *)
LEMMA ChunkGates ==
  ASSUME phase' \in ChunkPhases, V' \in Versions, V' \in 8 .. 27, read' # <<>>,
         read'[1] = [field |-> "magic", value |-> V'],
         phase' = "chunk flags" => V' < 21,
         V' < 21 /\ phase' \notin {"chunks", "scanned"} => chunks' = <<>>,
         V' < 21 /\ phase' \in {"chunks", "chunk flags"} /\ chunks' = <<>> => header'.flags = {},
         phase' = "scanned" => op' # "header" /\ (V' < 21 => chunks' # <<>>)
  PROVE  Gates'
BY DEF Gates, HeaderPhases, ChunkPhases

(* What is known before one.                                               *)
LEMMA BeforeChunkStep ==
  ASSUME Base, phase \in ChunkPhases
  PROVE  /\ V \in Versions /\ V \in 8 .. 27 /\ V \in Nat
         /\ read # <<>> /\ Len(read) \in Nat /\ Len(read) >= 1
         /\ read[1] = [field |-> "magic", value |-> V]
         /\ chunk \in Plan /\ chunks \in Seq(Plan)
         /\ phase = "chunk flags" => V < 21
         /\ V < 21 /\ phase \notin {"chunks", "scanned"} => chunks = <<>>
         /\ V < 21 /\ phase \in {"chunks", "chunk flags"} /\ chunks = <<>> => header.flags = {}
         /\ \A i \in DOMAIN chunks : Complete(chunks[i])
<1>1. read # <<>> /\ IsRead(read)
  BY DEF Base, Gates, ChunkPhases
<1>2. Len(read) \in Nat /\ Len(read) >= 1
  BY <1>1, ReadStays, FirstStays DEF Continues
<1>3. V \in Versions /\ V \in 8 .. 27 /\ read[1] = [field |-> "magic", value |-> V]
  BY DEF Base, Gates, ChunkPhases
<1>7. V \in Nat
  BY <1>3
<1>4. /\ phase = "chunk flags" => V < 21
      /\ V < 21 /\ phase \notin {"chunks", "scanned"} => chunks = <<>>
      /\ V < 21 /\ phase \in {"chunks", "chunk flags"} /\ chunks = <<>> => header.flags = {}
  BY DEF Base, Gates, ChunkPhases, HeaderPhases
<1>5. chunk \in Plan /\ chunks \in Seq(Plan)
  BY DEF Base, TypeOK
<1>6. \A i \in DOMAIN chunks : Complete(chunks[i])
  BY DEF Base, ChunkAsRead, NodesRead, InChunk
<1> QED
  BY <1>1, <1>2, <1>3, <1>4, <1>5, <1>6, <1>7, Zenon

(* An error leaves everything but the phase.                               *)
LEMMA FailKeeps ==
  ASSUME Base, NEW kind, Fail(kind), ReadFits', IsRead(read)'
  PROVE  Base'
<1>1. phase' = "done" /\ UNCHANGED <<op, verify, header, chunk, chunks, summary, checked>>
  BY DEF Fail
<1>2. TypeOK'
  BY <1>1 DEF Base, TypeOK
<1>3. Gates'
  BY <1>1 DEF Gates, HeaderPhases, V
<1>4. ChunkAsRead'
  BY <1>1 DEF Base, ChunkAsRead, NodesRead, InChunk, HeaderPhases
<1>5. SummaryExact'
  BY <1>1 DEF SummaryExact
<1> QED
  BY <1>2, <1>3, <1>4, <1>5 DEF Base

(* So does the header, for the chunk.                                      *)
LEMMA HeaderKeepsChunk ==
  ASSUME Base, HeaderMoves, HeaderKept
  PROVE  Base'
<1>1. ChunkAsRead'
  BY DEF Base, HeaderMoves, HeaderStep, ChunkAsRead, NodesRead, InChunk, HeaderPhases
<1>2. SummaryExact'
  BY DEF Base, HeaderMoves, HeaderStep, SummaryExact, Counted, HeaderPhases
<1> QED
  BY <1>1, <1>2 DEF Base, HeaderMoves, HeaderKept, Continues

LEMMA TwoFields == ASSUME NEW a, NEW b PROVE IsRead(<<a, b>>) /\ Len(<<a, b>>) = 2
<1>1. <<a, b>> \in Seq({a, b})
  OBVIOUS
<1> QED
  BY <1>1 DEF IsRead

LEMMA ReadCountsSteps ==
  ASSUME Base, ReadCounts, phase' # "done"
  PROVE  /\ Base'
         /\ phase = "chunks" /\ phase' = IF V < 21 THEN "chunk flags" ELSE "graph"
         /\ V < 21 => chunks = <<>>
         /\ UNCHANGED <<op, verify, header, chunks, summary, checked, result>>
         /\ Continues(read, read', {"nodes", "streams"}) /\ Len(read') = Len(read) + 2
         /\ read'[Len(read) + 1] = [field |-> "nodes", value |-> chunk'.transforms]
         /\ read'[Len(read) + 2] = [field |-> "streams", value |-> chunk'.stored]
         /\ chunk' = [NoChunk EXCEPT !.start = Len(read), !.transforms = chunk'.transforms,
                                     !.stored = chunk'.stored]
         /\ chunk'.transforms <= MaxNodes /\ chunk'.stored <= MaxStreams
<1>1. /\ V \in Versions /\ V \in 8 .. 27 /\ V \in Nat /\ read # <<>> /\ Len(read) \in Nat
      /\ read[1] = [field |-> "magic", value |-> V] /\ phase = "chunks" /\ Room(2)
      /\ V < 21 => summary.chunks = 0
      /\ op # "header"
  BY BeforeChunkStep DEF ReadCounts, ChunkPhases
<1>2. PICK nodes \in Nat, streams \in Nat :
        /\ read' = read \o << [field |-> "nodes", value |-> nodes],
                              [field |-> "streams", value |-> streams] >>
        /\ nodes <= MaxNodes /\ streams <= MaxStreams
        /\ chunk' = [NoChunk EXCEPT !.start = Offset, !.transforms = nodes, !.stored = streams]
        /\ phase' = IF V < 21 THEN "chunk flags" ELSE "graph"
        /\ UNCHANGED <<op, verify, header, chunks, summary, checked, result>>
  BY <1>1, ValuesTyped DEF ReadCounts, Base, Proceed, Fail, Check, ChunkStep
<1> DEFINE two == << [field |-> "nodes", value |-> nodes], [field |-> "streams", value |-> streams] >>
<1>3. V < 21 => chunks = <<>>
  <2>1. summary.chunks = Len(chunks) /\ chunks \in Seq(Plan)
    BY <1>1 DEF Base, TypeOK, SummaryExact, Counted, Totals
  <2> QED
    BY <1>1, <2>1
<1>4. /\ Continues(read, read', {"nodes", "streams"}) /\ Len(read') = Len(read) + 2
      /\ read'[Len(read) + 1] = two[1] /\ read'[Len(read) + 2] = two[2]
  <2>1. IsRead(two) /\ Len(two) = 2
        /\ \A i \in 1 .. Len(two) : two[i].field \in {"nodes", "streams"}
    BY TwoFields
  <2>2. read' = read \o two
    BY <1>2
  <2> HIDE DEF two
  <2>3. IsRead(read)
    BY DEF Base
  <2> DEFINE names == {"nodes", "streams"}
  <2>5. \A i \in 1 .. Len(two) : two[i].field \in names
    BY <2>1
  <2> HIDE DEF names
  <2>4. /\ Continues(read, read \o two, names) /\ Len(two) \in Nat
        /\ Len(read \o two) = Len(read) + Len(two)
        /\ \A i \in 1 .. Len(two) : (read \o two)[Len(read) + i] = two[i]
    <3>1. IsRead(two)
      BY <2>1
    <3> QED
      BY <2>3, <2>5, <3>1, ReadJoined, Zenon
  <2> USE DEF names
  <2> QED
    BY <2>1, <2>2, <2>4
<1>5. chunk'.transforms = nodes /\ chunk'.stored = streams /\ chunk' \in Plan
      /\ chunk'.nodes = <<>> /\ chunk'.headers.start = 0
  BY <1>1, <1>2, NoChunkIsPlan DEF Plan, Offset
<1>6. TypeOK'
  BY <1>2, <1>5 DEF Base, TypeOK
<1>7. Gates'
  <2>1. read' # <<>> /\ read'[1] = read[1]
    BY <1>1, <1>4, FirstStays DEF Base
  <2>2. phase' \in ChunkPhases /\ phase' \in {"chunk flags", "graph"}
        /\ (phase' = "chunk flags" => V < 21)
    BY <1>2 DEF ChunkPhases
  <2> QED
    BY <1>1, <1>2, <1>3, <2>1, <2>2, ChunkGates, BeforeChunkStep DEF V, ChunkPhases
<1>8. ReadFits'
  BY <1>1, <1>2, <1>4 DEF ReadFits, Room, Offset
<1>9. ChunkAsRead'
  <2>1. chunk'.start <= Len(read')
    <3>1. chunk'.start = Len(read)
      BY <1>2 DEF NoChunk, Offset
    <3>2. Len(read') = Len(read) + 2
      BY <1>4
    <3> QED
      BY <1>1, <3>1, <3>2
  <2> QED
    BY <1>1, <1>2, <1>5, <2>1, BeforeChunkStep DEF ChunkAsRead, NodesRead, InChunk, HeaderPhases, ChunkPhases
<1>10. SummaryExact'
  BY <1>1, <1>2 DEF Base, SummaryExact, Counted
<1> QED
  BY <1>1, <1>2, <1>3, <1>4, <1>5, <1>6, <1>7, <1>8, <1>9, <1>10 DEF Base, Continues, Offset

(* The totals of one plan more.                                            *)
LEMMA TotalsAppended ==
  ASSUME NEW plans \in Seq(Plan), NEW c \in Plan
  PROVE  Totals(Append(plans, c)) =
           [chunks      |-> Totals(plans).chunks + 1,
            transforms  |-> Totals(plans).transforms + Len(c.nodes),
            stored      |-> Totals(plans).stored + Len(c.sizes),
            regenerated |-> Totals(plans).regenerated + RegeneratedBy(c)]
<1> DEFINE n == Len(plans)
           more == Append(plans, c)
           A(ps) == [i \in DOMAIN ps |-> Len(ps[i].nodes)]
           B(ps) == [i \in DOMAIN ps |-> Len(ps[i].sizes)]
           C(ps) == [i \in DOMAIN ps |-> RegeneratedBy(ps[i])]
<1>1. /\ n \in Nat /\ DOMAIN plans = 1 .. n /\ DOMAIN more = 1 .. n + 1 /\ Len(more) = n + 1
      /\ \A i \in 1 .. n : more[i] = plans[i]
      /\ more[n + 1] = c
  OBVIOUS
<1> HIDE DEF n, more
<1>2. Sum(A(more)) = Sum(A(plans)) + Len(c.nodes)
  <2>1. /\ DOMAIN A(plans) = 1 .. n /\ DOMAIN A(more) = 1 .. n + 1
        /\ \A i \in 1 .. n : A(more)[i] = A(plans)[i]
        /\ A(more)[n + 1] = Len(c.nodes)
    BY <1>1
  <2> HIDE DEF A
  <2> QED
    BY <1>1, <2>1, SumLast
<1>3. Sum(B(more)) = Sum(B(plans)) + Len(c.sizes)
  <2>1. /\ DOMAIN B(plans) = 1 .. n /\ DOMAIN B(more) = 1 .. n + 1
        /\ \A i \in 1 .. n : B(more)[i] = B(plans)[i]
        /\ B(more)[n + 1] = Len(c.sizes)
    BY <1>1
  <2> HIDE DEF B
  <2> QED
    BY <1>1, <2>1, SumLast
<1>4. Sum(C(more)) = Sum(C(plans)) + RegeneratedBy(c)
  <2>1. /\ DOMAIN C(plans) = 1 .. n /\ DOMAIN C(more) = 1 .. n + 1
        /\ \A i \in 1 .. n : C(more)[i] = C(plans)[i]
        /\ C(more)[n + 1] = RegeneratedBy(c)
    BY <1>1
  <2> HIDE DEF C
  <2> QED
    BY <1>1, <2>1, SumLast
<1>5. /\ Totals(more) = [chunks |-> Len(more), transforms |-> Sum(A(more)),
                         stored |-> Sum(B(more)), regenerated |-> Sum(C(more))]
      /\ Totals(plans) = [chunks |-> n, transforms |-> Sum(A(plans)),
                          stored |-> Sum(B(plans)), regenerated |-> Sum(C(plans))]
  BY DEF Totals, SumOver, Sum, n
<1> HIDE DEF A, B, C
<1> QED
  BY <1>1, <1>2, <1>3, <1>4, <1>5 DEF more

(* Totals depend on nodes and sizes only.                                  *)
LEMMA TotalsSame ==
  ASSUME NEW plans \in Seq(Plan), NEW c \in Plan, NEW d \in Plan,
         c.nodes = d.nodes, c.sizes = d.sizes
  PROVE  Totals(Append(plans, c)) = Totals(Append(plans, d))
BY TotalsAppended, SameMeasures

LEMMA ReadChunkFlagsSteps ==
  ASSUME Base, ReadChunkFlags
  PROVE  /\ Base' /\ phase = "chunk flags" /\ phase' = "graph" /\ V < 21
         /\ UNCHANGED <<op, verify, chunk, chunks, summary, checked, result>>
         /\ header' = [header EXCEPT !.flags = header'.flags]
         /\ Continues(read, read', {"flags"}) /\ Len(read') = Len(read) + 1
<1>1. phase = "chunk flags" /\ Room(1)
  BY DEF ReadChunkFlags
<1>2. /\ V \in Versions /\ V \in 8 .. 27 /\ V \in Nat /\ read # <<>> /\ Len(read) \in Nat
      /\ read[1] = [field |-> "magic", value |-> V] /\ V < 21 /\ chunks = <<>>
      /\ chunk \in Plan
  BY <1>1, BeforeChunkStep DEF ChunkPhases
<1>3. PICK byte \in SUBSET Flags :
        /\ Take("flags", byte) /\ header' = [header EXCEPT !.flags = FromByte(byte, V)]
        /\ phase' = "graph"
        /\ UNCHANGED <<op, verify, chunk, chunks, summary, checked, result>>
  BY <1>2, ValuesTyped DEF ReadChunkFlags, Base, ChunkStep
<1>4. FromByte(byte, V) \in SUBSET Flags
  BY <1>2, KnownFlags
<1>5. Continues(read, read', {"flags"}) /\ Len(read') = Len(read) + 1
  BY <1>3, Taken DEF Base
<1>6. TypeOK' /\ V' = V /\ header' = [header EXCEPT !.flags = header'.flags]
  BY <1>3, <1>4 DEF Base, TypeOK, V
<1>7. Gates'
  <2>1. read' # <<>> /\ read'[1] = read[1]
    BY <1>2, <1>5, FirstStays DEF Base
  <2> QED
    BY <1>2, <1>3, <1>6, <2>1, ChunkGates DEF ChunkPhases
<1>8. ReadFits'
  BY <1>1, <1>2, <1>3, <1>5 DEF ReadFits, Room, Offset
<1>9. ChunkAsRead'
  <2>1. chunk.start \in Nat /\ chunk.start <= Len(read)
    BY <1>1, <1>2 DEF Base, ChunkAsRead, Plan
  <2>2. chunk'.start <= Len(read')
    BY <1>2, <1>3, <1>5, <2>1
  <2> QED
    BY <1>1, <1>3, <2>2 DEF Base, ChunkAsRead, NodesRead, InChunk, HeaderPhases
<1>10. SummaryExact'
  BY <1>1, <1>3 DEF Base, SummaryExact, Counted
<1> QED
  BY <1>1, <1>2, <1>3, <1>5, <1>6, <1>7, <1>8, <1>9, <1>10 DEF Base, Continues

LEMMA ReadGraphSteps ==
  ASSUME Base, ReadGraph, phase' # "done"
  PROVE  /\ Base' /\ phase = "graph" /\ phase' = "stored"
         /\ UNCHANGED <<op, verify, header, chunks, summary, checked, result>>
         /\ chunk' = [chunk EXCEPT !.nodes = chunk'.nodes]
         /\ Continues(read, read', {"graph"}) /\ Len(read') = Len(read) + 1
         /\ read'[Len(read) + 1] = [field |-> "graph", value |-> Fields(chunk')]
         /\ Len(chunk'.nodes) = chunk.transforms
         /\ Fields(chunk') \in [1 .. chunk.transforms -> NodeField]
         /\ \A i \in 1 .. chunk.transforms :
              /\ Known(Fields(chunk')[i], V) /\ Cardinality(Fields(chunk')[i].dict) <= 1
              /\ Fields(chunk')[i].dict # {} => HasDicts
<1>1. phase = "graph" /\ Room(1)
  BY DEF ReadGraph
<1>2. /\ V \in Versions /\ V \in 8 .. 27 /\ V \in Nat /\ read # <<>> /\ Len(read) \in Nat
      /\ read[1] = [field |-> "magic", value |-> V] /\ (V < 21 => chunks = <<>>)
      /\ chunk \in Plan
  BY <1>1, BeforeChunkStep DEF ChunkPhases
<1>3. PICK nodes \in [1 .. chunk.transforms -> Values.graph] :
        /\ \A i \in DOMAIN nodes : nodes[i].dict # {} => HasDicts
        /\ Take("graph", nodes)
        /\ \A i \in DOMAIN nodes : Known(nodes[i], V)
        /\ chunk' = [chunk EXCEPT !.nodes = BuildNodes(nodes)] /\ phase' = "stored"
        /\ UNCHANGED <<op, verify, header, chunks, summary, checked, result>>
  BY DEF ReadGraph, Proceed, Fail, Check, ChunkStep
<1> DEFINE n == chunk.transforms
<1>4. n \in Nat /\ DOMAIN nodes = 1 .. n /\ nodes \in [1 .. n -> NodeField]
      /\ \A i \in 1 .. n : Cardinality(nodes[i].dict) <= 1
  BY <1>2, <1>3, ValuesTyped DEF Plan, Base
<1>5. chunk'.nodes = BuildNodes(nodes)
  BY <1>2, <1>3 DEF Plan
<1>6. chunk'.nodes \in Seq(NodePlan) /\ Len(chunk'.nodes) = n /\ Fields(chunk') = nodes
  BY <1>4, <1>5, NodesBuilt
<1>7. chunk' \in Plan /\ chunk'.sizes = chunk.sizes /\ chunk'.transforms = n
      /\ chunk'.headers = chunk.headers /\ chunk' = [chunk EXCEPT !.nodes = chunk'.nodes]
      /\ chunk'.start = chunk.start
  BY <1>2, <1>3, <1>5, <1>6 DEF Plan
<1>8. /\ Continues(read, read', {"graph"}) /\ Len(read') = Len(read) + 1
      /\ read'[Len(read) + 1] = [field |-> "graph", value |-> nodes]
  BY <1>3, Taken DEF Base
<1>9. TypeOK'
  BY <1>3, <1>7 DEF Base, TypeOK
<1>10. Gates'
  <2>1. read' # <<>> /\ read'[1] = read[1]
    BY <1>2, <1>8, FirstStays DEF Base
  <2> QED
    BY <1>2, <1>3, <2>1, ChunkGates DEF ChunkPhases, V
<1>11. ReadFits'
  BY <1>1, <1>2, <1>3, <1>8 DEF ReadFits, Room, Offset
<1>12. ChunkAsRead'
  <2>1. /\ chunk.headers.start = 0 /\ \A i \in DOMAIN chunks : Complete(chunks[i])
        /\ chunk.start <= Len(read)
    BY <1>1 DEF Base, ChunkAsRead, NodesRead, InChunk
  <2>2. chunk'.start <= Len(read')
    BY <1>2, <1>7, <1>8, <2>1 DEF Plan
  <2> QED
    BY <1>3, <1>5, <1>6, <1>7, <2>1, <2>2 DEF ChunkAsRead, NodesRead, InChunk, HeaderPhases
<1>13. SummaryExact'
  BY <1>1, <1>3 DEF Base, SummaryExact, Counted
<1> QED
  BY <1>1, <1>3, <1>4, <1>6, <1>7, <1>8, <1>9, <1>10, <1>11, <1>12, <1>13 DEF Base, Continues

LEMMA ReadStoredSizesSteps ==
  ASSUME Base, ReadStoredSizes, phase' # "done"
  PROVE  /\ Base' /\ phase = "stored" /\ phase' = "summary"
         /\ UNCHANGED <<op, verify, header, chunks, summary, checked, result>>
         /\ chunk' = [chunk EXCEPT !.sizes = chunk'.sizes]
         /\ Continues(read, read', {"stored"}) /\ Len(read') = Len(read) + 1
         /\ read'[Len(read) + 1] = [field |-> "stored", value |-> chunk'.sizes]
         /\ Len(chunk'.sizes) = chunk.stored
         /\ \A i \in 1 .. chunk.stored : chunk'.sizes[i] <= MaxBufferBytes
<1>1. phase = "stored" /\ Room(1)
  BY DEF ReadStoredSizes
<1>2. /\ V \in Versions /\ V \in 8 .. 27 /\ V \in Nat /\ read # <<>> /\ Len(read) \in Nat
      /\ read[1] = [field |-> "magic", value |-> V] /\ (V < 21 => chunks = <<>>)
      /\ chunk \in Plan
  BY <1>1, BeforeChunkStep DEF ChunkPhases
<1>3. PICK sizes \in [1 .. chunk.stored -> Values.stored] :
        /\ Take("stored", sizes) /\ \A i \in DOMAIN sizes : sizes[i] <= MaxBufferBytes
        /\ chunk' = [chunk EXCEPT !.sizes = sizes] /\ phase' = "summary"
        /\ UNCHANGED <<op, verify, header, chunks, summary, checked, result>>
  BY DEF ReadStoredSizes, Proceed, Fail, Check, ChunkStep
<1> DEFINE n == chunk.stored
<1>4. n \in Nat /\ DOMAIN sizes = 1 .. n /\ sizes \in [1 .. n -> Nat]
  BY <1>2, <1>3, ValuesTyped DEF Plan, Base
<1>5. sizes \in Seq(Nat) /\ Len(sizes) = n
  BY <1>4, SeqDef
<1>6. chunk' \in Plan /\ chunk'.sizes = sizes /\ chunk'.nodes = chunk.nodes
      /\ chunk'.headers = chunk.headers /\ chunk' = [chunk EXCEPT !.sizes = chunk'.sizes]
      /\ chunk'.start = chunk.start
      /\ chunk'.transforms = chunk.transforms /\ chunk'.stored = n
  BY <1>2, <1>3, <1>5 DEF Plan
<1>7. Fields(chunk') = Fields(chunk)
  BY <1>6 DEF Fields
<1>8. /\ Continues(read, read', {"stored"}) /\ Len(read') = Len(read) + 1
      /\ read'[Len(read) + 1] = [field |-> "stored", value |-> sizes]
  BY <1>3, Taken DEF Base
<1>9. TypeOK'
  BY <1>3, <1>6 DEF Base, TypeOK
<1>10. Gates'
  <2>1. read' # <<>> /\ read'[1] = read[1]
    BY <1>2, <1>8, FirstStays DEF Base
  <2> QED
    BY <1>2, <1>3, <2>1, ChunkGates DEF ChunkPhases, V
<1>11. ReadFits'
  BY <1>1, <1>2, <1>3, <1>8 DEF ReadFits, Room, Offset
<1>12. ChunkAsRead'
  <2>1. /\ chunk.headers.start = 0 /\ \A i \in DOMAIN chunks : Complete(chunks[i])
        /\ Len(chunk.nodes) = chunk.transforms /\ chunk.nodes = BuildNodes(Fields(chunk))
        /\ chunk.start <= Len(read)
    BY <1>1 DEF Base, ChunkAsRead, NodesRead, InChunk
  <2>2. chunk'.start <= Len(read')
    BY <1>2, <1>6, <1>8, <2>1 DEF Plan
  <2> QED
    BY <1>3, <1>5, <1>6, <1>7, <2>1, <2>2 DEF ChunkAsRead, NodesRead, InChunk, HeaderPhases
<1>13. SummaryExact'
  BY <1>1, <1>3 DEF Base, SummaryExact, Counted
<1> QED
  BY <1>1, <1>3, <1>4, <1>5, <1>6, <1>8, <1>9, <1>10, <1>11, <1>12, <1>13 DEF Base, Continues

LEMMA CountChunkSteps ==
  ASSUME Base, CountChunk, phase' # "done"
  PROVE  /\ Base' /\ phase = "summary" /\ phase' = "payload" /\ summary' = SummaryWith(chunk)
         /\ UNCHANGED <<op, verify, read, header, chunk, chunks, checked, result>>
         /\ summary'.chunks <= MaxChunks /\ summary'.transforms <= MaxNodes
         /\ summary'.stored <= MaxStreams /\ summary'.regenerated <= MaxStreams
<1>1. phase = "summary" /\ phase' = "payload" /\ summary' = SummaryWith(chunk)
      /\ UNCHANGED <<op, verify, read, header, chunk, chunks, checked, result>>
      /\ SummaryError(SummaryWith(chunk)) = "Ok"
  BY DEF CountChunk, Proceed, Fail, ChunkStep
<1>2. /\ V \in Versions /\ V \in 8 .. 27 /\ V \in Nat /\ read # <<>>
      /\ read[1] = [field |-> "magic", value |-> V] /\ (V < 21 => chunks = <<>>)
      /\ chunk \in Plan /\ chunks \in Seq(Plan)
  BY <1>1, BeforeChunkStep DEF ChunkPhases
<1>3. summary'.chunks <= MaxChunks /\ summary'.transforms <= MaxNodes
      /\ summary'.stored <= MaxStreams /\ summary'.regenerated <= MaxStreams
  BY <1>1 DEF SummaryError, Check
<1>4. summary' \in [chunks : Nat, transforms : Nat, stored : Nat, regenerated : Nat]
  <2>1. Len(chunk.nodes) \in Nat /\ Len(chunk.sizes) \in Nat /\ RegeneratedBy(chunk) \in Nat
    BY <1>2, PlanFields
  <2>2. summary \in [chunks : Nat, transforms : Nat, stored : Nat, regenerated : Nat]
    BY DEF Base, TypeOK
  <2> DEFINE a == summary.chunks + 1
             b == summary.transforms + Len(chunk.nodes)
             d == summary.stored + Len(chunk.sizes)
             e == summary.regenerated + RegeneratedBy(chunk)
  <2>3. a \in Nat /\ b \in Nat /\ d \in Nat /\ e \in Nat
    <3>1. /\ summary.chunks \in Nat /\ summary.transforms \in Nat /\ summary.stored \in Nat
          /\ summary.regenerated \in Nat
      BY <2>2
    <3>2. a \in Nat /\ b \in Nat
      BY <2>1, <3>1
    <3>3. d \in Nat /\ e \in Nat
      BY <2>1, <3>1
    <3> QED
      BY <3>2, <3>3
  <2>4. summary' = [chunks |-> a, transforms |-> b, stored |-> d, regenerated |-> e]
    BY <1>1 DEF SummaryWith
  <2> HIDE DEF a, b, d, e
  <2> QED
    BY <2>3, <2>4
<1>5. Len(chunk.nodes) = chunk.transforms /\ Len(chunk.sizes) = chunk.stored
  BY <1>1 DEF Base, ChunkAsRead, NodesRead, InChunk
<1>6. TypeOK'
  BY <1>1, <1>4, <1>5 DEF Base, TypeOK
<1>7. Gates'
  BY <1>1, <1>2, ChunkGates DEF ChunkPhases, V
<1>8. ReadFits'
  BY <1>1 DEF Base, ReadFits
<1>9. ChunkAsRead'
  BY <1>1 DEF Base, ChunkAsRead, NodesRead, InChunk, HeaderPhases
<1>10. SummaryExact'
  <2>1. summary = Totals(chunks)
    BY <1>1 DEF Base, SummaryExact, Counted
  <2>2. summary' = Totals(Append(chunks, chunk))
    BY <1>1, <1>2, <2>1, TotalsAppended DEF SummaryWith
  <2> QED
    BY <1>1, <2>2 DEF SummaryExact, Counted
<1> QED
  BY <1>1, <1>3, <1>6, <1>7, <1>8, <1>9, <1>10 DEF Base

LEMMA ReadPayloadSteps ==
  ASSUME Base, ReadPayload, phase' # "done"
  PROVE  /\ Base' /\ phase = "payload" /\ phase' = "checksums"
         /\ UNCHANGED <<op, verify, header, chunks, summary, checked, result>>
         /\ chunk' = Located(chunk, Len(read)) /\ Small(chunk)
         /\ Continues(read, read', {"payload"}) /\ Len(read') = Len(read) + PayloadBytes(chunk)
         /\ PayloadBytes(chunk) \in Nat
<1> DEFINE bytes == PayloadBytes(chunk)
           payload == [i \in 1 .. bytes |-> [field |-> "payload", value |-> 0]]
<1>1. /\ phase = "payload" /\ PayloadError(chunk) = "Ok" /\ Room(bytes)
      /\ read' = read \o payload
      /\ chunk' = Located(chunk, Len(read)) /\ phase' = "checksums"
      /\ UNCHANGED <<op, verify, header, chunks, summary, checked, result>>
  BY DEF ReadPayload, Proceed, Fail, ChunkStep, Offset
<1>2. /\ V \in Versions /\ V \in 8 .. 27 /\ V \in Nat /\ read # <<>> /\ Len(read) \in Nat
      /\ Len(read) >= 1
      /\ read[1] = [field |-> "magic", value |-> V] /\ (V < 21 => chunks = <<>>)
      /\ chunk \in Plan /\ chunks \in Seq(Plan)
  BY <1>1, BeforeChunkStep DEF ChunkPhases
<1>3. bytes \in Nat
  BY <1>2, PlanFields DEF PayloadBytes
<1>4. Continues(read, read', {"payload"}) /\ Len(read') = Len(read) + bytes
  <2> HIDE DEF bytes
  <2>1. payload \in [1 .. bytes -> {[field |-> "payload", value |-> 0]}]
    OBVIOUS
  <2>2. \A i \in 1 .. bytes : payload[i].field \in {"payload"}
    OBVIOUS
  <2> HIDE DEF payload
  <2>3. payload \in Seq({[field |-> "payload", value |-> 0]}) /\ Len(payload) = bytes
    BY <1>3, <2>1, SeqDef
  <2>4. IsRead(payload) /\ IsRead(read)
    BY <2>3 DEF IsRead, Base
  <2>5. \A i \in 1 .. Len(payload) : payload[i].field \in {"payload"}
    BY <2>2, <2>3
  <2>6. Continues(read, read \o payload, {"payload"}) /\ Len(read \o payload) = Len(read) + Len(payload)
    BY <2>4, <2>5, ReadJoined, Zenon
  <2> QED
    BY <1>1, <2>3, <2>6
<1> HIDE DEF bytes, payload
<1>5. /\ chunk' \in Plan /\ chunk'.nodes = chunk.nodes /\ chunk'.sizes = chunk.sizes
      /\ chunk'.transforms = chunk.transforms /\ chunk'.stored = chunk.stored
      /\ chunk'.headers.start = Len(read) /\ chunk'.start = chunk.start
  <2>1. chunk' = Located(chunk, Len(read)) /\ chunk \in Plan /\ Len(read) \in Nat
    BY <1>1, <1>2
  <2> DEFINE c == Located(chunk, Len(read))
  <2>2. /\ c \in Plan /\ c.headers = [start |-> Len(read), len |-> TransformHeader(chunk)]
        /\ c.nodes = chunk.nodes /\ c.sizes = chunk.sizes
        /\ c.transforms = chunk.transforms /\ c.stored = chunk.stored /\ c.start = chunk.start
    BY <2>1, LocatedIsPlan, Zenon
  <2> HIDE DEF c
  <2> QED
    BY <2>1, <2>2 DEF c
<1>6. Small(chunk)
  BY <1>1 DEF PayloadError, Check, Small
<1>7. /\ Len(chunk.nodes) = chunk.transforms /\ chunk.nodes = BuildNodes(Fields(chunk))
      /\ Len(chunk.sizes) = chunk.stored /\ chunk.start <= Len(read)
      /\ \A i \in DOMAIN chunks : Complete(chunks[i])
  BY <1>1 DEF Base, ChunkAsRead, NodesRead, InChunk
<1>8. TypeOK'
  BY <1>1, <1>5, <1>7 DEF Base, TypeOK
<1>9. Gates'
  <2>1. read' # <<>> /\ read'[1] = read[1]
    BY <1>2, <1>4, FirstStays DEF Base
  <2> QED
    BY <1>1, <1>2, <2>1, ChunkGates DEF ChunkPhases, V
<1>10. ReadFits'
  BY <1>1, <1>2, <1>3, <1>4 DEF ReadFits, Room, Offset
<1>11. Complete(chunk')
  <2>1. Fields(chunk') = Fields(chunk) /\ Small(chunk')
    BY <1>5, <1>6, SameMeasures
  <2>2. Located(chunk', Len(read)) = Located(chunk, Len(read))
    <3>1. TransformHeader(chunk') = TransformHeader(chunk)
      BY <1>5, SameMeasures
    <3>2. chunk' = [chunk EXCEPT !.headers = [start |-> Len(read), len |-> TransformHeader(chunk)],
            !.ranges = [i \in DOMAIN chunk.sizes |->
              [start |-> Len(read) + TransformHeader(chunk) + SumOver(SubSeq(chunk.sizes, 1, i - 1)),
               len |-> chunk.sizes[i]]]]
      BY <1>1 DEF Located
    <3> QED
      BY <1>2, <1>5, <3>1, <3>2 DEF Located, Plan
  <2> QED
    BY <1>1, <1>5, <1>7, <2>1, <2>2 DEF Complete
<1>12. ChunkAsRead'
  <2>1. Fields(chunk') = Fields(chunk)
    BY <1>5, SameMeasures
  <2>2. chunk'.start <= Len(read')
    BY <1>2, <1>3, <1>4, <1>5, <1>7 DEF Plan
  <2>3. chunk'.headers.start > 0
    BY <1>2, <1>5
  <2> QED
    BY <1>1, <1>5, <1>7, <1>11, <2>1, <2>2, <2>3 DEF ChunkAsRead, NodesRead, InChunk, HeaderPhases
<1>13. SummaryExact'
  <2>1. summary = Totals(Append(chunks, chunk))
    BY <1>1 DEF Base, SummaryExact, Counted
  <2>2. Totals(Append(chunks, chunk)) = Totals(Append(chunks, chunk'))
    BY <1>2, <1>5, TotalsSame
  <2> QED
    BY <1>1, <2>1, <2>2 DEF SummaryExact, Counted
<1> QED
  BY <1>1, <1>3, <1>4, <1>6, <1>8, <1>9, <1>10, <1>12, <1>13 DEF Base, Continues, bytes

(* The fields of the checksums of a chunk.                                 *)
DecodedField(flags) ==
  IF "decoded" \in flags THEN <<[field |-> "decoded", value |-> 0]>> ELSE <<>>
EncodedField(flags, matches) ==
  IF "encoded" \in flags THEN <<[field |-> "encoded", value |-> matches]>> ELSE <<>>

ChecksumsAdded(r, t, flags, matches) ==
  /\ Continues(r, t, {"decoded", "encoded"})
  /\ Len(t) = Len(r) + (IF "decoded" \in flags THEN 1 ELSE 0)
                     + (IF "encoded" \in flags THEN 1 ELSE 0)
  /\ "decoded" \in flags => t[Len(r) + 1] = [field |-> "decoded", value |-> 0]
  /\ "encoded" \in flags => t[Len(t)] = [field |-> "encoded", value |-> matches]

LEMMA ChecksumFields ==
  ASSUME NEW r, IsRead(r), NEW flags, NEW matches, NEW t,
         t = r \o DecodedField(flags) \o EncodedField(flags, matches)
  PROVE  ChecksumsAdded(r, t, flags, matches)
<1> DEFINE D == "decoded" \in flags
           E == "encoded" \in flags
           d == [field |-> "decoded", value |-> 0]
           e == [field |-> "encoded", value |-> matches]
           mid == IF D THEN Append(r, d) ELSE r
           all == IF E THEN Append(mid, e) ELSE mid
<1>1. d.field = "decoded" /\ e.field = "encoded" /\ Len(r) \in Nat
  BY DEF IsRead
<1>2. Continues(r, Append(r, d), {"decoded"}) /\ Len(Append(r, d)) = Len(r) + 1
      /\ Append(r, d)[Len(r) + 1] = d
  BY <1>1, ReadAppended
<1>3. IsRead(mid) /\ Continues(r, mid, {"decoded"})
      /\ Len(mid) = Len(r) + (IF D THEN 1 ELSE 0) /\ (D => mid[Len(r) + 1] = d)
  BY <1>1, <1>2, ReadStays DEF Continues
<1>4. mid = r \o DecodedField(flags)
  <2>1. PICK S : r \in Seq(S)
    BY DEF IsRead
  <2> QED
    BY <2>1, AppendIsJoin, JoinNothing DEF DecodedField
<1> HIDE DEF mid
<1>5. Continues(mid, Append(mid, e), {"encoded"}) /\ Len(Append(mid, e)) = Len(mid) + 1
      /\ Append(mid, e)[Len(mid) + 1] = e
  BY <1>1, <1>3, ReadAppended
<1>6. all = t
  <2>1. PICK S : mid \in Seq(S)
    BY <1>3 DEF IsRead
  <2> QED
    BY <1>4, <2>1, AppendIsJoin, JoinNothing DEF EncodedField
<1> HIDE DEF d, e
<1>7. Len(t) = Len(mid) + (IF E THEN 1 ELSE 0) /\ Continues(mid, t, {"encoded"})
      /\ (E => t[Len(mid) + 1] = e)
  <2>1. CASE E
    BY <1>5, <1>6, <2>1
  <2>2. CASE ~E
    <3>1. t = mid /\ Continues(mid, mid, {"encoded"}) /\ Len(mid) \in Nat
      BY <1>3, <1>6, <2>2, ReadStays DEF Continues
    <3>2. Len(t) = Len(mid) + 0
      BY <3>1
    <3> HIDE DEF E
    <3> QED
      BY <2>2, <3>1, <3>2
  <2> QED
    BY <2>1, <2>2
<1> HIDE DEF all
<1>8. Continues(r, t, {"decoded", "encoded"})
  <2>1. {"decoded"} \cup {"encoded"} = {"decoded", "encoded"}
    OBVIOUS
  <2>2. Continues(r, t, {"decoded"} \cup {"encoded"})
    BY <1>3, <1>7, ContinuesOn, Zenon
  <2> QED
    BY <2>1, <2>2
<1>9. D => t[Len(r) + 1] = d
  BY <1>1, <1>3, <1>7 DEF Continues
<1>10. E => t[Len(t)] = e
  BY <1>7
<1> QED
  BY <1>3, <1>7, <1>8, <1>9, <1>10 DEF d, e, ChecksumsAdded

LEMMA ReadChecksumsSteps ==
  ASSUME Base, ReadChecksums, phase' # "done"
  PROVE  /\ Base' /\ phase = "checksums" /\ phase' = "chunks"
         /\ UNCHANGED <<op, verify, header, summary, result>>
         /\ chunk' = NoChunk
         /\ chunks' = Append(chunks, [chunk EXCEPT !.decoded = "decoded" \in header.flags,
                                                   !.encoded = "encoded" \in header.flags])
         /\ Continues(read, read', {"decoded", "encoded"})
         /\ Len(read') = Len(read) + (IF "decoded" \in header.flags THEN 1 ELSE 0)
                                   + (IF "encoded" \in header.flags THEN 1 ELSE 0)
         /\ "decoded" \in header.flags =>
              read'[Len(read) + 1] = [field |-> "decoded", value |-> 0]
         /\ "encoded" \in header.flags =>
              \E matches \in BOOLEAN :
                 /\ verify => matches
                 /\ read'[Len(read')] = [field |-> "encoded", value |-> matches]
                 /\ checked' = Verified(ChecksumStart, Len(read') - 1)
         /\ "encoded" \notin header.flags => checked' = checked
<1> DEFINE D == "decoded" \in header.flags
           E == "encoded" \in header.flags
           decoded == IF D THEN <<[field |-> "decoded", value |-> 0]>> ELSE <<>>
           end     == Offset + Len(decoded)
<1>1. phase = "checksums" /\ Room(Len(decoded) + IF E THEN 1 ELSE 0)
  BY DEF ReadChecksums
<1>2. PICK matches \in IF E THEN BOOLEAN ELSE {TRUE} :
        /\ read' = read \o decoded \o
                (IF E THEN <<[field |-> "encoded", value |-> matches]>> ELSE <<>>)
        /\ verify => matches
        /\ checked' = IF E THEN Verified(ChecksumStart, end) ELSE checked
        /\ chunks' = Append(chunks, [chunk EXCEPT !.decoded = decoded # <<>>, !.encoded = E])
        /\ chunk' = NoChunk /\ phase' = "chunks"
        /\ UNCHANGED <<op, verify, header, summary, result>>
  BY DEF ReadChecksums, Proceed, Fail, ChunkStep, Check
<1>3. /\ V \in Versions /\ V \in 8 .. 27 /\ V \in Nat /\ read # <<>> /\ Len(read) \in Nat
      /\ Len(read) >= 1
      /\ read[1] = [field |-> "magic", value |-> V] /\ (V < 21 => chunks = <<>>)
      /\ chunk \in Plan /\ chunks \in Seq(Plan)
  BY <1>1, BeforeChunkStep DEF ChunkPhases
<1>4. /\ IsRead(read) /\ IsRead(read')
      /\ Continues(read, read', {"decoded", "encoded"})
      /\ Len(decoded) = (IF D THEN 1 ELSE 0)
      /\ Len(read') = Len(read) + Len(decoded) + (IF E THEN 1 ELSE 0)
      /\ D => read'[Len(read) + 1] = [field |-> "decoded", value |-> 0]
      /\ E => read'[Len(read')] = [field |-> "encoded", value |-> matches]
  <2>1. IsRead(read)
    BY DEF Base
  <2>4. read' = read \o DecodedField(header.flags) \o EncodedField(header.flags, matches)
    BY <1>2, Zenon DEF DecodedField, EncodedField
  <2>2. /\ Continues(read, read', {"decoded", "encoded"})
        /\ Len(read') = Len(read) + (IF D THEN 1 ELSE 0) + (IF E THEN 1 ELSE 0)
        /\ D => read'[Len(read) + 1] = [field |-> "decoded", value |-> 0]
        /\ E => read'[Len(read')] = [field |-> "encoded", value |-> matches]
    <3>1. ChecksumsAdded(read, read', header.flags, matches)
      BY <2>1, <2>4, ChecksumFields, Zenon
    <3> QED
      BY <3>1 DEF ChecksumsAdded
  <2>3. Len(decoded) = (IF D THEN 1 ELSE 0)
    OBVIOUS
  <2> QED
    BY <2>1, <2>2, <2>3 DEF Continues
<1>19. op = "parse" => Len(read') <= MaxFrameBytes
  <2>1. op = "parse" => Len(read) + (Len(decoded) + (IF E THEN 1 ELSE 0)) <= MaxFrameBytes
    BY <1>1 DEF Room, Offset
  <2>2. Len(read') = Len(read) + (Len(decoded) + (IF E THEN 1 ELSE 0))
    <3>1. /\ Len(read') = Len(read) + Len(decoded) + (IF E THEN 1 ELSE 0)
          /\ Len(decoded) \in Nat /\ (IF E THEN 1 ELSE 0) \in Nat
      BY <1>4
    <3> HIDE DEF decoded, E
    <3> QED
      BY <1>3, <3>1
  <2> QED
    BY <2>1, <2>2
<1>5. decoded # <<>> <=> D
  OBVIOUS
<1> HIDE DEF decoded
<1>6. D \in BOOLEAN /\ E \in BOOLEAN /\ (decoded # <<>>) = D
  BY <1>5
<1> HIDE DEF D, E
<1>7. chunks' = Append(chunks, [chunk EXCEPT !.decoded = D, !.encoded = E])
  BY <1>2, <1>6
<1> DEFINE c == [chunk EXCEPT !.decoded = D, !.encoded = E]
<1>8. /\ c \in Plan /\ c.nodes = chunk.nodes /\ c.sizes = chunk.sizes /\ c.headers = chunk.headers
  BY <1>3, <1>6 DEF Plan
<1>9. Complete(c)
  <2>1. Complete(chunk)
    BY <1>1 DEF Base, ChunkAsRead, NodesRead, InChunk
  <2>2. Fields(c) = Fields(chunk) /\ TransformHeader(c) = TransformHeader(chunk) /\ Small(c) = Small(chunk)
    BY <1>8, SameMeasures
  <2>3. chunk = Located(chunk, chunk.headers.start)
    BY <2>1 DEF Complete
  <2>4. c = Located(c, chunk.headers.start)
    BY <1>3, <1>8, <2>2, <2>3 DEF Located, Plan
  <2> QED
    BY <1>8, <2>1, <2>2, <2>4 DEF Complete
<1> HIDE DEF c
<1>10. chunks' = Append(chunks, c) /\ chunks' \in Seq(Plan) /\ chunks' # <<>>
       /\ \A i \in DOMAIN chunks' : Complete(chunks'[i])
  <2>1. chunks' = Append(chunks, c)
    BY <1>7 DEF c
  <2>2. \A i \in DOMAIN chunks : Complete(chunks[i])
    BY <1>1 DEF Base, ChunkAsRead, NodesRead, InChunk
  <2>3. Append(chunks, c) \in Seq(Plan) /\ Append(chunks, c) # <<>>
    <3>1. chunks \in Seq(Plan) /\ c \in Plan
      BY <1>3, <1>8
    <3> QED
      BY <3>1
  <2>4. \A i \in DOMAIN Append(chunks, c) : Append(chunks, c)[i] = c \/ (i \in DOMAIN chunks /\ Append(chunks, c)[i] = chunks[i])
    BY <1>3
  <2> QED
    BY <1>9, <2>1, <2>2, <2>3, <2>4
<1>11. E => checked' = Verified(ChecksumStart, Len(read') - 1)
  BY <1>2, <1>3, <1>4 DEF Offset
<1>12. checked' \subseteq ByteRange
  <2>1. checked \subseteq ByteRange /\ chunk.start \in Nat /\ chunk.start <= Len(read)
    BY <1>1, <1>3 DEF Base, TypeOK, Plan, ChunkAsRead, InChunk, NodesRead
  <2>2. CASE ~E
    BY <1>2, <2>1, <2>2
  <2>3. CASE E
    <3>1. ChecksumStart \in Nat /\ ChecksumStart <= Len(read)
      BY <1>1, <1>3, <2>1 DEF ChecksumStart
    <3>2. Len(read') - 1 - ChecksumStart \in Nat
      BY <1>3, <1>4, <2>3, <3>1 DEF Continues
    <3> QED
      BY <1>11, <2>1, <2>3, <3>1, <3>2 DEF Verified, ByteRange
  <2> QED
    BY <2>2, <2>3
<1>13. TypeOK'
  BY <1>2, <1>10, <1>12, NoChunkIsPlan DEF Base, TypeOK
<1>14. Gates'
  <2>1. read' # <<>> /\ read'[1] = read[1]
    BY <1>3, <1>4, FirstStays
  <2> QED
    BY <1>2, <1>3, <1>10, <2>1, ChunkGates DEF ChunkPhases, V
<1>15. ReadFits'
  BY <1>1, <1>2, <1>19 DEF ReadFits
<1>16. ChunkAsRead'
  BY <1>2, <1>10, NoChunkIsPlan DEF ChunkAsRead, NodesRead, InChunk, HeaderPhases
<1>17. SummaryExact'
  <2>1. summary = Totals(Append(chunks, chunk))
    BY <1>1 DEF Base, SummaryExact, Counted
  <2>2. Totals(Append(chunks, chunk)) = Totals(Append(chunks, c))
    BY <1>3, <1>8, TotalsSame
  <2> QED
    BY <1>2, <1>10, <2>1, <2>2 DEF SummaryExact, Counted
<1>18. E => \E m \in BOOLEAN :
                 /\ verify => m
                 /\ read'[Len(read')] = [field |-> "encoded", value |-> m]
                 /\ checked' = Verified(ChecksumStart, Len(read') - 1)
  BY <1>2, <1>4, <1>11
<1> QED
  BY <1>1, <1>2, <1>4, <1>7, <1>13, <1>14, <1>15, <1>16, <1>17, <1>18 DEF Base, D, E

LEMMA EndChunksSteps ==
  ASSUME Base, EndChunks
  PROVE  /\ Base' /\ phase = "chunks" /\ phase' = "scanned" /\ op # "header"
         /\ UNCHANGED <<op, verify, header, chunk, chunks, summary, checked, result>>
         /\ Continues(read, read', {"end"})
         /\ IF V < 21 THEN chunks # <<>> /\ read' = read
            ELSE /\ Len(read') = Len(read) + 1
                 /\ read'[Len(read) + 1] = [field |-> "end", value |-> 0]
<1>1. /\ phase = "chunks" /\ phase' = "scanned" /\ op # "header"
      /\ IF V < 21 THEN summary.chunks > 0 /\ UNCHANGED read ELSE Room(1) /\ Take("end", 0)
      /\ UNCHANGED <<op, verify, header, chunk, chunks, summary, checked, result>>
  BY DEF EndChunks, ChunkStep
<1>2. /\ V \in Versions /\ V \in 8 .. 27 /\ V \in Nat /\ read # <<>> /\ Len(read) \in Nat
      /\ read[1] = [field |-> "magic", value |-> V] /\ chunks \in Seq(Plan)
  BY <1>1, BeforeChunkStep DEF ChunkPhases
<1>3. V < 21 => chunks # <<>>
  <2>1. summary.chunks = Len(chunks)
    BY <1>1 DEF Base, SummaryExact, Counted, Totals
  <2> QED
    BY <1>1, <1>2, <2>1
<1>4. ~(V < 21) => /\ Continues(read, read', {"end"}) /\ Len(read') = Len(read) + 1
                   /\ read'[Len(read) + 1] = [field |-> "end", value |-> 0]
  BY <1>1, Taken DEF Base
<1>5. Continues(read, read', {"end"})
  <2>1. V < 21 => read' = read
    BY <1>1
  <2>2. Continues(read, read, {"end"})
    BY ReadStays DEF Base
  <2> QED
    BY <1>4, <2>1, <2>2
<1>6. TypeOK'
  BY <1>1 DEF Base, TypeOK
<1>7. Gates'
  <2>1. read' # <<>> /\ read'[1] = read[1]
    BY <1>2, <1>5, FirstStays DEF Base
  <2> QED
    BY <1>1, <1>2, <1>3, <2>1, ChunkGates DEF ChunkPhases, V
<1>8. ReadFits'
  <2>1. CASE V < 21
    BY <1>1, <2>1 DEF ReadFits, Base
  <2>2. CASE ~(V < 21)
    BY <1>1, <1>2, <1>4, <2>2 DEF ReadFits, Room, Offset
  <2> QED
    BY <2>1, <2>2
<1>9. ChunkAsRead'
  BY <1>1 DEF Base, ChunkAsRead, NodesRead, InChunk, HeaderPhases
<1>10. SummaryExact'
  BY <1>1 DEF Base, SummaryExact, Counted
<1> QED
  BY <1>1, <1>3, <1>4, <1>5, <1>6, <1>7, <1>8, <1>9, <1>10 DEF Base, Continues

-----------------------------------------------------------------------------
(* The steps that end the reading.                                         *)
LEMMA TakenFits ==
  ASSUME Base, NEW name \in FieldNames, NEW value, Take(name, value), Room(1), op' = op
  PROVE  Continues(read, read', FieldNames) /\ ReadFits'
<1>1. Continues(read, read', {name}) /\ Len(read') = Len(read) + 1
  BY Taken DEF Base
<1> QED
  BY <1>1 DEF Continues, ReadFits, Room, Offset

LEMMA SameReadFits ==
  ASSUME Base, UNCHANGED <<op, read>>
  PROVE  Continues(read, read', FieldNames) /\ ReadFits'
BY ReadStays DEF Base, ReadFits

Refusal == \E kind \in ErrorNames : Fail(kind)

LEMMA TakenRefused ==
  ASSUME Base, \E name \in FieldNames : \E value : Take(name, value), Room(1), Refusal
  PROVE  Refusal /\ Continues(read, read', FieldNames) /\ ReadFits'
BY TakenFits DEF Refusal, Fail

LEMMA HeaderRefuses ==
  ASSUME Base, phase' = "done",
         \/ TooLong \/ ReadMagic \/ ReadFlags \/ ReadBundleId \/ ReadOutputs \/ BadType
         \/ ReadSize \/ ReadStringCounts \/ ReadComment \/ ReadHeaderChecksum
  PROVE  Refusal /\ Continues(read, read', FieldNames) /\ ReadFits'
<1>1. CASE TooLong
  <2>1. Refusal /\ UNCHANGED <<op, read>>
    BY <1>1 DEF TooLong, Refusal, Fail, ErrorNames
  <2> QED
    BY <2>1, SameReadFits
<1>2. CASE ReadMagic
  <2>1. (\E value : Take("magic", value)) /\ Room(1) /\ Refusal
    BY <1>2 DEF ReadMagic, Proceed, Check, Refusal, ErrorNames
  <2> QED
    BY <2>1, TakenRefused DEF FieldNames
<1>3. CASE ReadFlags
  BY <1>3 DEF ReadFlags
<1>4. CASE ReadBundleId
  <2>1. (\E value : Take("bundle", value)) /\ Room(1) /\ Refusal
    BY <1>4 DEF ReadBundleId, Proceed, Check, Refusal, ErrorNames
  <2> QED
    BY <2>1, TakenRefused DEF FieldNames
<1>5. CASE ReadOutputs
  <2>1. PICK types \in Values.types :
          /\ IF V < 14 THEN UNCHANGED read ELSE Take("outputs", types)
          /\ Refusal
    BY <1>5 DEF ReadOutputs, Proceed, Check, Refusal, ErrorNames
  <2>2. Room(1)
    BY <1>5 DEF ReadOutputs
  <2>3. op' = op
    BY <2>1 DEF Refusal, Fail
  <2>4. CASE V < 14
    BY <2>1, <2>3, <2>4, SameReadFits
  <2>5. CASE ~(V < 14)
    BY <2>1, <2>2, <2>5, TakenRefused DEF FieldNames
  <2> QED
    BY <2>4, <2>5
<1>6. CASE BadType
  <2>1. (\E value : Take("bad type", value)) /\ Room(1) /\ Refusal
    BY <1>6 DEF BadType, Refusal, ErrorNames
  <2> QED
    BY <2>1, TakenRefused DEF FieldNames
<1>7. CASE ReadSize
  <2>1. (\E value : Take("size", value)) /\ Room(1) /\ Refusal
    BY <1>7 DEF ReadSize, Proceed, SizeError, Check, Refusal, ErrorNames
  <2> QED
    BY <2>1, TakenRefused DEF FieldNames
<1>8. CASE ReadStringCounts
  BY <1>8 DEF ReadStringCounts, AfterStrings, AfterComment
<1>9. CASE ReadComment
  <2>1. (\E value : Take("comment", value)) /\ Room(1) /\ Refusal
    <3>1. AfterComment(header.flags) # "done"
      BY DEF AfterComment
    <3> QED
      BY <1>9, <3>1 DEF ReadComment, Proceed, Check, Refusal, ErrorNames
  <2> QED
    BY <2>1, TakenRefused DEF FieldNames
<1>10. CASE ReadHeaderChecksum
  <2>1. (\E value : Take("sum", value)) /\ Room(1) /\ Refusal
    BY <1>10 DEF ReadHeaderChecksum, Proceed, Check, Refusal, ErrorNames
  <2> QED
    BY <2>1, TakenRefused DEF FieldNames
<1> QED
  BY <1>1, <1>2, <1>3, <1>4, <1>5, <1>6, <1>7, <1>8, <1>9, <1>10

LEMMA ChunksRefuse ==
  ASSUME Base, phase' = "done",
         \/ EndChunks \/ ReadCounts \/ LongZero \/ ReadChunkFlags \/ ReadGraph
         \/ ReadStoredSizes \/ CountChunk \/ ReadPayload \/ ReadChecksums \/ Truncated
  PROVE  Refusal /\ Continues(read, read', FieldNames) /\ ReadFits'
<1>1. CASE EndChunks
  BY <1>1 DEF EndChunks
<1>2. CASE ReadCounts
  <2>1. PICK nodes, streams :
          /\ read' = read \o << [field |-> "nodes", value |-> nodes],
                                [field |-> "streams", value |-> streams] >>
          /\ Refusal /\ Room(2)
    BY <1>2 DEF ReadCounts, Proceed, Check, Refusal, ErrorNames
  <2> DEFINE two == << [field |-> "nodes", value |-> nodes],
                       [field |-> "streams", value |-> streams] >>
  <2>2. IsRead(two) /\ Len(two) = 2 /\ \A i \in 1 .. Len(two) : two[i].field \in FieldNames
    <3>1. \A i \in 1 .. 2 : two[i].field \in FieldNames
      <4>1. two[1].field = "nodes" /\ two[2].field = "streams"
        OBVIOUS
      <4> HIDE DEF two
      <4>2. "nodes" \in FieldNames /\ "streams" \in FieldNames
        BY DEF FieldNames
      <4> QED
        BY <4>1, <4>2
    <3> QED
      BY <3>1, TwoFields
  <2>3. read' = read \o two
    BY <2>1
  <2> HIDE DEF two
  <2>4. Continues(read, read \o two, FieldNames) /\ Len(read \o two) = Len(read) + Len(two)
    BY <2>2, ReadJoined, Zenon DEF Base
  <2>5. ReadFits'
    BY <2>1, <2>2, <2>3, <2>4 DEF Refusal, Fail, ReadFits, Room, Offset
  <2> QED
    BY <2>1, <2>3, <2>4, <2>5
<1>3. CASE LongZero
  <2>1. (\E value : Take("long zero", value)) /\ Room(1) /\ Refusal
    BY <1>3 DEF LongZero, Refusal, ErrorNames
  <2> QED
    BY <2>1, TakenRefused DEF FieldNames
<1>4. CASE ReadChunkFlags
  BY <1>4 DEF ReadChunkFlags
<1>5. CASE ReadGraph
  <2>1. (\E value : Take("graph", value)) /\ Room(1) /\ Refusal
    BY <1>5 DEF ReadGraph, Proceed, Check, Refusal, ErrorNames
  <2> QED
    BY <2>1, TakenRefused DEF FieldNames
<1>6. CASE ReadStoredSizes
  <2>1. (\E value : Take("stored", value)) /\ Room(1) /\ Refusal
    BY <1>6 DEF ReadStoredSizes, Proceed, Check, Refusal, ErrorNames
  <2> QED
    BY <2>1, TakenRefused DEF FieldNames
<1>7. CASE CountChunk
  <2>1. Refusal /\ UNCHANGED <<op, read>>
    BY <1>7 DEF CountChunk, Proceed, SummaryError, Check, Refusal, Fail, ErrorNames
  <2> QED
    BY <2>1, SameReadFits
<1>8. CASE ReadPayload
  <2>1. Refusal /\ UNCHANGED <<op, read>>
    BY <1>8 DEF ReadPayload, Proceed, PayloadError, Check, Refusal, Fail, ErrorNames
  <2> QED
    BY <2>1, SameReadFits
<1>9. CASE ReadChecksums
  <2> DEFINE decoded == DecodedField(header.flags)
             more == IF "encoded" \in header.flags THEN 1 ELSE 0
  <2>1. PICK matches :
          /\ read' = read \o decoded \o EncodedField(header.flags, matches)
          /\ Room(Len(decoded) + more) /\ Refusal
    BY <1>9 DEF ReadChecksums, Proceed, Check, Refusal, ErrorNames, DecodedField, EncodedField
  <2>2. Continues(read, read', {"decoded", "encoded"})
        /\ Len(read') = Len(read) + (IF "decoded" \in header.flags THEN 1 ELSE 0) + more
    <3>1. read' = read \o DecodedField(header.flags) \o EncodedField(header.flags, matches)
      BY <2>1
    <3>2. IsRead(read)
      BY DEF Base
    <3>3. ChecksumsAdded(read, read', header.flags, matches)
      BY <3>1, <3>2, ChecksumFields, Zenon
    <3> QED
      BY <3>3 DEF ChecksumsAdded
  <2>3. Len(decoded) = (IF "decoded" \in header.flags THEN 1 ELSE 0)
    BY DEF DecodedField
  <2>4. Len(read) \in Nat /\ Len(decoded) \in Nat /\ more \in Nat
    BY <2>2, <2>3 DEF Continues
  <2>5. op = "parse" => Len(read) + (Len(decoded) + more) <= MaxFrameBytes
    BY <2>1 DEF Room, Offset
  <2>6. Len(read') = Len(read) + Len(decoded) + more
    BY <2>2, <2>3
  <2> HIDE DEF decoded, more
  <2>7. op = "parse" => Len(read') <= MaxFrameBytes
    BY <2>4, <2>5, <2>6
  <2>8. Continues(read, read', FieldNames) /\ op' = op
    BY <2>1, <2>2 DEF Continues, FieldNames, Refusal, Fail
  <2> QED
    BY <2>1, <2>7, <2>8 DEF ReadFits
<1>10. CASE Truncated
  <2>1. Refusal /\ UNCHANGED <<op, read>>
    BY <1>10 DEF Truncated, Refusal, Fail, ErrorNames
  <2> QED
    BY <2>1, SameReadFits
<1> QED
  BY <1>1, <1>2, <1>3, <1>4, <1>5, <1>6, <1>7, <1>8, <1>9, <1>10

(* A step that ends the reading, or does nothing.                          *)
Ends ==
  /\ phase' = "done" \/ phase' = phase
  /\ UNCHANGED <<op, verify, header, chunk, chunks, summary, checked>>

LEMMA EndsKeepBase == ASSUME Base, Ends, UNCHANGED read PROVE Base'
<1>1. CASE phase' = "done"
  <2>1. TypeOK'
    BY <1>1 DEF Base, TypeOK, Ends
  <2>2. Gates'
    BY <1>1 DEF Gates, HeaderPhases, V, Ends
  <2>3. ChunkAsRead'
    BY <1>1 DEF Base, ChunkAsRead, NodesRead, InChunk, HeaderPhases, Ends
  <2>4. SummaryExact' /\ ReadFits'
    BY <1>1 DEF Base, SummaryExact, ReadFits, Ends
  <2> QED
    BY <2>1, <2>2, <2>3, <2>4 DEF Base
<1>2. CASE phase' = phase
  <2>1. TypeOK'
    BY <1>2 DEF Base, TypeOK, Ends
  <2>2. Gates'
    BY <1>2 DEF Base, Gates, HeaderPhases, V, Ends
  <2>3. ChunkAsRead'
    BY <1>2 DEF Base, ChunkAsRead, NodesRead, InChunk, HeaderPhases, Ends
  <2>4. SummaryExact' /\ ReadFits'
    BY <1>2 DEF Base, SummaryExact, Counted, ReadFits, Ends
  <2> QED
    BY <2>1, <2>2, <2>3, <2>4 DEF Base
<1> QED
  BY <1>1, <1>2 DEF Ends

HeaderAction ==
  \/ ReadMagic \/ ReadFlags \/ ReadBundleId \/ ReadOutputs \/ ReadSize \/ ReadStringCounts
  \/ ReadComment \/ ReadHeaderChecksum
Refusing ==
  \/ TooLong \/ BadType \/ LongZero \/ Truncated \/ HeaderAction
  \/ ReadCounts \/ ReadGraph \/ ReadStoredSizes \/ CountChunk \/ ReadPayload \/ ReadChecksums
Finishing == FinishHeader \/ FinishSize \/ TrailingBytes \/ Validate

LEMMA FinishingEnds ==
  ASSUME Finishing
  PROVE  Ends /\ UNCHANGED read /\ phase' = "done"
BY DEF Finishing, FinishHeader, HeaderStep, FinishSize, TrailingBytes, Validate, Done, Ends

LEMMA HeaderSteps ==
  ASSUME Base, HeaderAction, phase' # "done"
  PROVE  HeaderMoves /\ HeaderKept
BY ReadMagicSteps, ReadFlagsSteps, ReadBundleIdSteps, ReadOutputsSteps, ReadSizeSteps,
   ReadStringCountsSteps, ReadCommentSteps, ReadHeaderChecksumSteps DEF HeaderAction

(* How each step goes on: the rest of the file looks at these cases.       *)
LEMMA StepCases ==
  ASSUME Base, Next
  PROVE  \/ phase' # "done" /\ HeaderAction
         \/ phase' # "done" /\ (ReadCounts \/ ReadChunkFlags \/ ReadGraph \/ ReadStoredSizes
                                \/ CountChunk \/ ReadPayload \/ ReadChecksums \/ EndChunks)
         \/ phase' = "done" /\ Refusing /\ Refusal /\ Continues(read, read', FieldNames) /\ ReadFits'
         \/ phase' = "done" /\ Finishing
<1>1. CASE phase' # "done"
  <2>1. ~TooLong /\ ~BadType /\ ~LongZero /\ ~Truncated /\ ~Finishing
    BY <1>1, FinishingEnds DEF TooLong, BadType, LongZero, Truncated, Fail
  <2> QED
    BY <1>1, <2>1 DEF Next, HeaderAction, Finishing
<1>2. CASE phase' = "done"
  <2>1. ~ReadChunkFlags /\ ~EndChunks
    BY <1>2 DEF ReadChunkFlags, EndChunks
  <2>2. Refusing \/ Finishing
    BY <2>1 DEF Next, Refusing, Finishing, HeaderAction
  <2>3. Refusing => Refusal /\ Continues(read, read', FieldNames) /\ ReadFits'
    BY <1>2, HeaderRefuses, ChunksRefuse DEF Refusing, HeaderAction
  <2> QED
    BY <1>2, <2>2, <2>3
<1> QED
  BY <1>1, <1>2

LEMMA BaseStep == ASSUME Base, [Next]_vars PROVE Base'
<1>1. CASE phase' # "done" /\ HeaderAction
  BY <1>1, HeaderSteps, HeaderKeepsChunk
<1>2. CASE phase' # "done" /\ (ReadCounts \/ ReadChunkFlags \/ ReadGraph \/ ReadStoredSizes
                               \/ CountChunk \/ ReadPayload \/ ReadChecksums \/ EndChunks)
  BY <1>2, ReadCountsSteps, ReadChunkFlagsSteps, ReadGraphSteps, ReadStoredSizesSteps,
     CountChunkSteps, ReadPayloadSteps, ReadChecksumsSteps, EndChunksSteps
<1>3. CASE Refusal /\ Continues(read, read', FieldNames) /\ ReadFits'
  BY <1>3, FailKeeps DEF Refusal, Continues
<1>4. CASE Finishing
  BY <1>4, FinishingEnds, EndsKeepBase
<1>5. CASE UNCHANGED vars
  BY <1>5, EndsKeepBase DEF vars, Ends
<1> QED
  BY <1>1, <1>2, <1>3, <1>4, <1>5, StepCases

LEMMA TotalsOfNothing ==
  Totals(<<>>) = [chunks |-> 0, transforms |-> 0, stored |-> 0, regenerated |-> 0]
<1>1. Sum(<<>>) = 0
  BY SumEmpty
<1>2. Len(<<>>) = 0 /\ DOMAIN <<>> = {}
  OBVIOUS
<1>3. /\ [i \in DOMAIN <<>> |-> Len(<<>>[i].nodes)] = <<>>
      /\ [i \in DOMAIN <<>> |-> Len(<<>>[i].sizes)] = <<>>
      /\ [i \in DOMAIN <<>> |-> RegeneratedBy(<<>>[i])] = <<>>
  BY <1>2
<1> QED
  BY <1>1, <1>2, <1>3 DEF Totals, SumOver, Sum

LEMMA BaseInit == ASSUME Init PROVE Base
<1>1. read = <<>> /\ IsRead(read) /\ Len(read) = 0
  <2>1. read = <<>>
    BY DEF Init
  <2>2. <<>> \in Seq({})
    OBVIOUS
  <2> QED
    BY <2>1, <2>2 DEF IsRead
<1>2. TypeOK
  BY NoChunkIsPlan DEF Init, TypeOK, NoHeader, Flags, Types
<1>3. Gates
  BY DEF Init, Gates, NoHeader, HeaderPhases
<1>4. ReadFits
  BY <1>1, LimitAssumption DEF ReadFits
<1>5. ChunkAsRead
  BY NoChunkIsPlan DEF Init, ChunkAsRead, HeaderPhases, NodesRead, InChunk
<1>6. SummaryExact
  <2>1. chunks = <<>> /\ Counted = <<>>
    BY DEF Init, Counted
  <2> QED
    BY <2>1, TotalsOfNothing DEF Init, SummaryExact
<1> QED
  BY <1>1, <1>2, <1>3, <1>4, <1>5, <1>6 DEF Base

-----------------------------------------------------------------------------
(* The limits.                                                             *)

(* The sizes of the header change where the next one was admitted.         *)
LEMMA SizesStep ==
  ASSUME Base, Next
  PROVE  \/ header'.sizes = header.sizes
         \/ \E size \in Nat :
              /\ header'.sizes = Append(header.sizes, size)
              /\ size <= MaxBufferBytes /\ SumOver(header.sizes) + size <= MaxDecodedBytes
<1>1. CASE ReadSize
  <2>1. CASE header' = header
    BY <2>1
  <2>2. CASE header' # header
    <3>1. phase = "size" /\ V \in Versions /\ V \in Nat
      BY <1>1 DEF ReadSize, Base, Gates
    <3>2. PICK field \in Nat :
            LET size == IF V >= 21 THEN field - 1 ELSE field
            IN  /\ SizeError(size) = "Ok"
                /\ header' = [header EXCEPT !.sizes = Append(@, size)]
      BY <1>1, <2>2, <3>1, ValuesTyped DEF ReadSize, Base, Proceed, Fail
    <3> DEFINE size == IF V >= 21 THEN field - 1 ELSE field
    <3>3. size \in Int /\ SizeError(size) = "Ok" /\ header' = [header EXCEPT !.sizes = Append(header.sizes, size)]
      BY <3>1, <3>2
    <3> HIDE DEF size
    <3>4. size >= 0 /\ size <= MaxBufferBytes /\ SumOver(header.sizes) + size <= MaxDecodedBytes
      BY <3>3 DEF SizeError, Check
    <3>5. header'.sizes = Append(header.sizes, size)
      BY <3>3 DEF Base, TypeOK
    <3> QED
      BY <3>3, <3>4, <3>5
  <2> QED
    BY <2>1, <2>2
<1>2. CASE HeaderAction /\ ~ReadSize
  <2>1. header' = header \/ \E e : \/ header' = [header EXCEPT !.version = e]
                                  \/ header' = [header EXCEPT !.flags = e]
                                  \/ header' = [header EXCEPT !.types = e]
                                  \/ header' = [header EXCEPT !.strings = e]
    <3>1. CASE ReadMagic
      BY <3>1 DEF ReadMagic, Proceed, Fail
    <3>2. CASE ReadFlags
      BY <3>2 DEF ReadFlags
    <3>3. CASE ReadBundleId
      BY <3>3 DEF ReadBundleId, Proceed, Fail
    <3>4. CASE ReadOutputs
      BY <3>4 DEF ReadOutputs, Proceed, Fail
    <3>5. CASE ReadStringCounts
      BY <3>5 DEF ReadStringCounts
    <3>6. CASE ReadComment
      BY <3>6 DEF ReadComment, Proceed, Fail
    <3>7. CASE ReadHeaderChecksum
      BY <3>7 DEF ReadHeaderChecksum, Proceed, Fail
    <3> QED
      BY <1>2, <3>1, <3>2, <3>3, <3>4, <3>5, <3>6, <3>7 DEF HeaderAction
  <2> QED
    BY <2>1 DEF Base, TypeOK
<1>3. CASE ReadChunkFlags
  <2>1. \E e : header' = [header EXCEPT !.flags = e]
    BY <1>3, ReadChunkFlagsSteps
  <2> QED
    BY <2>1 DEF Base, TypeOK
<1>4. CASE phase' # "done" /\ (ReadCounts \/ ReadGraph \/ ReadStoredSizes \/ CountChunk
                               \/ ReadPayload \/ ReadChecksums \/ EndChunks)
  <2>1. header' = header
    BY <1>4, ReadCountsSteps, ReadGraphSteps, ReadStoredSizesSteps, CountChunkSteps,
       ReadPayloadSteps, ReadChecksumsSteps, EndChunksSteps
  <2> QED
    BY <2>1
<1>5. CASE Refusal
  BY <1>5 DEF Refusal, Fail
<1>6. CASE Finishing
  BY <1>6, FinishingEnds DEF Ends
<1> QED
  BY <1>1, <1>2, <1>3, <1>4, <1>5, <1>6, StepCases

(* The totals change where a chunk was counted.                            *)
LEMMA SummaryStep ==
  ASSUME Base, Next
  PROVE  \/ summary' = summary
         \/ /\ summary'.chunks <= MaxChunks /\ summary'.transforms <= MaxNodes
            /\ summary'.stored <= MaxStreams /\ summary'.regenerated <= MaxStreams
<1>1. CASE phase' # "done" /\ HeaderAction
  BY <1>1, HeaderSteps DEF HeaderMoves, HeaderStep
<1>2. CASE phase' # "done" /\ (ReadCounts \/ ReadChunkFlags \/ ReadGraph \/ ReadStoredSizes
                               \/ ReadPayload \/ ReadChecksums \/ EndChunks)
  BY <1>2, ReadCountsSteps, ReadChunkFlagsSteps, ReadGraphSteps, ReadStoredSizesSteps,
     ReadPayloadSteps, ReadChecksumsSteps, EndChunksSteps
<1>3. CASE phase' # "done" /\ CountChunk
  BY <1>3, CountChunkSteps
<1>4. CASE Refusal
  BY <1>4 DEF Refusal, Fail
<1>5. CASE Finishing
  BY <1>5, FinishingEnds DEF Ends
<1> QED
  BY <1>1, <1>2, <1>3, <1>4, <1>5, StepCases

LEMMA AdmittedStep == ASSUME Base, Admitted, [Next]_vars PROVE Admitted'
<1>1. CASE UNCHANGED vars
  BY <1>1 DEF Admitted, vars
<1>2. ASSUME Next
      PROVE  /\ SumOver(header'.sizes) <= MaxDecodedBytes
             /\ \A k \in DOMAIN header'.sizes : header'.sizes[k] <= MaxBufferBytes
  <2>1. CASE header'.sizes = header.sizes
    BY <2>1 DEF Admitted
  <2>2. ASSUME NEW size \in Nat, header'.sizes = Append(header.sizes, size),
               size <= MaxBufferBytes, SumOver(header.sizes) + size <= MaxDecodedBytes
        PROVE  /\ SumOver(header'.sizes) <= MaxDecodedBytes
               /\ \A k \in DOMAIN header'.sizes : header'.sizes[k] <= MaxBufferBytes
    <3> DEFINE s == header.sizes
               n == Len(s)
               t == header'.sizes
    <3>1. s \in Seq(Nat) /\ n \in Nat /\ DOMAIN s = 1 .. n
      BY HeaderTyped DEF Base
    <3>2. t = Append(s, size)
      BY <2>2
    <3>3. \A k \in DOMAIN s : s[k] <= MaxBufferBytes
      BY DEF Admitted
    <3> HIDE DEF s, t, n
    <3>4. DOMAIN t = 1 .. n + 1 /\ (\A i \in 1 .. n : t[i] = s[i]) /\ t[n + 1] = size
      BY <3>1, <3>2 DEF n
    <3>5. Sum(t) = Sum(s) + size
      BY <3>1, <3>4, SumLast
    <3>6. \A k \in DOMAIN t : t[k] <= MaxBufferBytes
      BY <2>2, <3>1, <3>3, <3>4
    <3>7. SumOver(t) <= MaxDecodedBytes
      BY <2>2, <3>5 DEF SumOver, Sum, s
    <3> QED
      BY <3>6, <3>7 DEF t
  <2> QED
    BY <1>2, <2>1, <2>2, SizesStep
<1>3. CASE Next
  BY <1>2, <1>3, SummaryStep DEF Admitted
<1> QED
  BY <1>1, <1>3

LEMMA AdmittedInit == ASSUME Init PROVE Admitted
<1>1. header.sizes = <<>> /\ summary = [chunks |-> 0, transforms |-> 0, stored |-> 0, regenerated |-> 0]
  BY DEF Init, NoHeader
<1>2. SumOver(<<>>) = 0
  <2>1. Sum(<<>>) = 0
    BY SumEmpty
  <2> QED
    BY <2>1 DEF SumOver, Sum
<1> QED
  BY <1>1, <1>2, LimitAssumption DEF Admitted

(* What a verdict says: a frame that was accepted had room and was         *)
(* counted, and only the last check of the plan could call it              *)
(* inconsistent.                                                           *)
Verdicts ==
  /\ phase # "done" => result = "none"
  /\ result \in ErrorNames \cup {"none", "Ok", "Trailing", "InvalidGraph"}
  /\ result = "Ok" /\ op # "header" => Len(read) <= MaxFrameBytes /\ summary = Totals(chunks)

(* The start of each part that follows a sum.                              *)
LEMMA SumsFollow ==
  ASSUME NEW s \in Seq(Nat), NEW n \in Nat, n <= Len(s)
  PROVE  /\ SumOver(Firsts(s, 0)) = 0 /\ SumOver(Firsts(s, Len(s))) = SumOver(s)
         /\ SumOver(Firsts(s, n)) \in Nat
         /\ n > 0 => SumOver(Firsts(s, n)) = SumOver(Firsts(s, n - 1)) + s[n]
<1>1. Firsts(s, Len(s)) = s
  BY FirstsFacts
<1>2. Sum(Firsts(s, 0)) = 0
  BY SumFirsts
<1>3. Sum(Firsts(s, n)) \in Nat
  BY SumNat
<1>4. ASSUME n > 0 PROVE Sum(Firsts(s, n)) = Sum(Firsts(s, n - 1)) + s[n]
  <2>1. n - 1 \in Nat /\ (n - 1) + 1 = n
    BY <1>4
  <2> QED
    BY <2>1, SumFirsts
<1> QED
  BY <1>1, <1>2, <1>3, <1>4 DEF SumOver, Sum

(* A complete plan passes the checks that compare it with itself.          *)
LEMMA CompleteIsConsistent == ASSUME NEW c \in Plan, Complete(c) PROVE ChunkConsistent(c)
<1> DEFINE n == Len(c.nodes)
           F == Fields(c)
           H == Headers(F)
           start(i) == c.nodes[i].start
<1>1. /\ n \in Nat /\ DOMAIN c.nodes = 1 .. n /\ F \in [1 .. n -> NodeField]
      /\ H \in Seq(Nat) /\ Len(H) = n /\ TransformHeader(c) = SumOver(H)
      /\ TransformHeader(c) \in Nat
      /\ Len(c.sizes) \in Nat /\ DOMAIN c.sizes = 1 .. Len(c.sizes) /\ c.sizes \in Seq(Nat)
  BY PlanFields
<1>2. c.nodes = BuildNodes(F)
  BY DEF Complete
<1>3. \A i \in 1 .. n : start(i) = SumOver(Firsts(H, i - 1))
  BY <1>1, <1>2, NodesBuilt
<1>4. \A i \in 1 .. n : H[i] = c.nodes[i].field.header
  BY <1>1 DEF Headers, Fields
<1>5. c.headers.start \in Nat
  BY DEF Plan, ByteRange
<1>6. /\ c.headers = [start |-> c.headers.start, len |-> TransformHeader(c)]
      /\ c.ranges = [i \in 1 .. Len(c.sizes) |->
              [start |-> c.headers.start + TransformHeader(c) + SumOver(Firsts(c.sizes, i - 1)),
               len |-> c.sizes[i]]]
  BY <1>5, LocatedIsPlan DEF Complete
<1> HIDE DEF F, H
<1>7. \A i \in 1 .. n : start(i) = IF i = 1 THEN 0 ELSE start(i - 1) + c.nodes[i - 1].field.header
  <2> TAKE i \in 1 .. n
  <2>1. CASE i = 1
    <3>1. 0 \in Nat /\ 0 <= Len(H) /\ i - 1 = 0
      BY <1>1, <2>1
    <3>2. SumOver(Firsts(H, 0)) = 0
      BY <1>1, <3>1, SumsFollow
    <3> QED
      BY <1>3, <2>1, <3>1, <3>2
  <2>2. CASE i # 1
    <3>1. i - 1 \in 1 .. n /\ i - 1 \in Nat /\ i - 1 <= Len(H) /\ i - 1 > 0
      BY <1>1, <2>2
    <3>2. SumOver(Firsts(H, i - 1)) = SumOver(Firsts(H, (i - 1) - 1)) + H[i - 1]
      BY <1>1, <3>1, SumsFollow
    <3>3. start(i) = SumOver(Firsts(H, i - 1)) /\ start(i - 1) = SumOver(Firsts(H, (i - 1) - 1))
      BY <1>3, <3>1
    <3>4. H[i - 1] = c.nodes[i - 1].field.header
      BY <1>4, <3>1
    <3> QED
      BY <2>2, <3>2, <3>3, <3>4
  <2> QED
    BY <2>1, <2>2
<1>8. n > 0 => start(n) + c.nodes[n].field.header = c.headers.len
  <2> SUFFICES ASSUME n > 0 PROVE start(n) + c.nodes[n].field.header = c.headers.len
    OBVIOUS
  <2>1. n \in 1 .. n /\ n <= Len(H)
    BY <1>1
  <2>2. SumOver(Firsts(H, n)) = SumOver(Firsts(H, n - 1)) + H[n] /\ SumOver(Firsts(H, Len(H))) = SumOver(H)
    BY <1>1, <2>1, SumsFollow
  <2>3. start(n) = SumOver(Firsts(H, n - 1)) /\ H[n] = c.nodes[n].field.header
    BY <1>3, <1>4, <2>1
  <2>4. c.headers.len = SumOver(H)
    BY <1>1, <1>6
  <2> QED
    BY <1>1, <2>2, <2>3, <2>4
<1> DEFINE m == Len(c.sizes)
           first == c.headers.start + c.headers.len
<1>9. c.headers.len = TransformHeader(c)
  BY <1>6
<1>10. /\ DOMAIN c.ranges = 1 .. m /\ Len(c.ranges) = m
       /\ \A i \in 1 .. m : /\ c.ranges[i].len = c.sizes[i]
                            /\ c.ranges[i].start = first + SumOver(Firsts(c.sizes, i - 1))
  <2>1. c.ranges \in Seq(ByteRange)
    BY DEF Plan
  <2>2. DOMAIN c.ranges = 1 .. m
    BY <1>6
  <2>3. Len(c.ranges) = m
    BY <1>1, <2>1, <2>2
  <2>4. \A i \in 1 .. m : c.ranges[i] =
           [start |-> first + SumOver(Firsts(c.sizes, i - 1)), len |-> c.sizes[i]]
    BY <1>6, <1>9
  <2> HIDE DEF first
  <2>5. \A i \in 1 .. m : /\ c.ranges[i].len = c.sizes[i]
                           /\ c.ranges[i].start = first + SumOver(Firsts(c.sizes, i - 1))
    <3> TAKE i \in 1 .. m
    <3> DEFINE p == first + SumOver(Firsts(c.sizes, i - 1))
    <3>1. c.ranges[i] = [start |-> p, len |-> c.sizes[i]]
      BY <2>4
    <3> HIDE DEF p
    <3>2. c.ranges[i].len = c.sizes[i] /\ c.ranges[i].start = p
      BY <3>1
    <3> QED
      BY <3>2 DEF p
  <2> QED
    BY <2>2, <2>3, <2>5
<1>11. first \in Nat
  BY <1>1, <1>5, <1>9
<1> HIDE DEF m, first
<1>12. \A i \in 1 .. m : c.ranges[i].start =
          IF i = 1 THEN first ELSE c.ranges[i - 1].start + c.ranges[i - 1].len
  <2> TAKE i \in 1 .. m
  <2>1. CASE i = 1
    <3>1. 0 \in Nat /\ 0 <= Len(c.sizes) /\ i - 1 = 0
      BY <1>1, <2>1
    <3>2. SumOver(Firsts(c.sizes, 0)) = 0
      BY <1>1, <3>1, SumsFollow
    <3> QED
      BY <1>10, <1>11, <2>1, <3>1, <3>2
  <2>2. CASE i # 1
    <3>1. i - 1 \in 1 .. m /\ i - 1 \in Nat /\ i - 1 <= Len(c.sizes) /\ i - 1 > 0
          /\ (i - 1) - 1 \in Nat /\ (i - 1) - 1 <= Len(c.sizes)
      BY <1>1, <2>2 DEF m
    <3>2. /\ SumOver(Firsts(c.sizes, i - 1)) = SumOver(Firsts(c.sizes, (i - 1) - 1)) + c.sizes[i - 1]
          /\ SumOver(Firsts(c.sizes, i - 1)) \in Nat
      <4>1. i - 1 \in Nat /\ i - 1 <= Len(c.sizes) /\ i - 1 > 0 /\ c.sizes \in Seq(Nat)
        BY <1>1, <3>1
      <4> QED
        BY <4>1, SumsFollow
    <3>3. /\ c.ranges[i].start = first + SumOver(Firsts(c.sizes, i - 1))
          /\ c.ranges[i - 1].start = first + SumOver(Firsts(c.sizes, (i - 1) - 1))
          /\ c.ranges[i - 1].len = c.sizes[i - 1]
      BY <1>10, <3>1
    <3>4. SumOver(Firsts(c.sizes, (i - 1) - 1)) \in Nat
      <4>1. (i - 1) - 1 \in Nat /\ (i - 1) - 1 <= Len(c.sizes) /\ c.sizes \in Seq(Nat)
        BY <1>1, <3>1
      <4> QED
        BY <4>1, SumsFollow
    <3>5. c.sizes[i - 1] \in Nat
      BY <1>1, <3>1 DEF m
    <3> QED
      BY <1>11, <2>2, <3>2, <3>3, <3>4, <3>5
  <2> QED
    BY <2>1, <2>2
<1>13. Follows(c.ranges, c.headers.start + c.headers.len)
  BY <1>10, <1>12 DEF Follows, first
<1>14. Follows([i \in DOMAIN c.nodes |->
               [start |-> c.nodes[i].start, len |-> c.nodes[i].field.header]], 0)
  <2> DEFINE r == [i \in DOMAIN c.nodes |->
               [start |-> c.nodes[i].start, len |-> c.nodes[i].field.header]]
  <2>1. DOMAIN r = 1 .. n /\ \A i \in 1 .. n : r[i].start = start(i) /\ r[i].len = c.nodes[i].field.header
    BY <1>1
  <2> HIDE DEF r
  <2>2. \A i \in 1 .. n : i # 1 => i - 1 \in 1 .. n
    BY <1>1
  <2>3. \A i \in DOMAIN r : r[i].start = IF i = 1 THEN 0 ELSE r[i - 1].start + r[i - 1].len
    BY <1>7, <2>1, <2>2
  <2>4. Follows(r, 0)
    BY <2>3 DEF Follows
  <2> QED
    BY <2>4 DEF r
<1>15. c.nodes # <<>> => Last(c.nodes).start + Last(c.nodes).field.header = c.headers.len
  <2> SUFFICES ASSUME c.nodes # <<>>
               PROVE  Last(c.nodes).start + Last(c.nodes).field.header = c.headers.len
    OBVIOUS
  <2>1. n > 0
    <3>1. c.nodes \in Seq(NodePlan)
      BY PlanFields
    <3> QED
      BY <3>1
  <2> QED
    BY <1>8, <2>1 DEF Last
<1> QED
  BY <1>10, <1>13, <1>14, <1>15 DEF ChunkConsistent, m

LEMMA ScannedPlan ==
  ASSUME Base, phase = "scanned"
  PROVE  summary = Totals(chunks) /\ PlanConsistent /\ op # "header"
<1>1. summary = Totals(chunks)
  BY DEF Base, SummaryExact, Counted
<1>2. chunks \in Seq(Plan) /\ \A i \in DOMAIN chunks : Complete(chunks[i])
  BY DEF Base, TypeOK, ChunkAsRead
<1>3. \A i \in DOMAIN chunks : ChunkConsistent(chunks[i])
  <2> TAKE i \in DOMAIN chunks
  <2>1. chunks[i] \in Plan
    BY <1>2
  <2> QED
    BY <1>2, <2>1, CompleteIsConsistent
<1>4. op # "header"
  BY DEF Base, Gates
<1> QED
  BY <1>1, <1>3, <1>4 DEF PlanConsistent

LEMMA VerdictsStep == ASSUME Base, Verdicts, [Next]_vars PROVE Verdicts'
<1>1. CASE UNCHANGED vars
  BY <1>1 DEF Verdicts, vars
<1>2. CASE phase' # "done" /\ HeaderAction
  BY <1>2, HeaderSteps DEF HeaderMoves, HeaderPhases, Verdicts
<1>3. CASE phase' # "done" /\ (ReadCounts \/ ReadChunkFlags \/ ReadGraph \/ ReadStoredSizes
                               \/ CountChunk \/ ReadPayload \/ ReadChecksums \/ EndChunks)
  <2>1. phase # "done" /\ result' = result
    BY <1>3, ReadCountsSteps, ReadChunkFlagsSteps, ReadGraphSteps, ReadStoredSizesSteps,
       CountChunkSteps, ReadPayloadSteps, ReadChecksumsSteps, EndChunksSteps
  <2> QED
    BY <2>1 DEF Verdicts
<1>4. CASE Refusal
  BY <1>4 DEF Verdicts, Refusal, Fail, ErrorNames
<1>5. CASE FinishHeader
  BY <1>5 DEF FinishHeader, HeaderStep, Verdicts
<1>6. CASE FinishSize
  <2>1. summary = Totals(chunks)
    BY <1>6, ScannedPlan DEF FinishSize
  <2>2. phase' = "done" /\ UNCHANGED <<read, summary, chunks>>
        /\ result' = (IF Len(read) <= MaxFrameBytes THEN "Ok" ELSE "max_frame_bytes")
    BY <1>6 DEF FinishSize, Done, Offset
  <2>3. Totals(chunks)' = Totals(chunks)
    BY <2>2 DEF Totals, RegeneratedBy, Regenerated, Fields
  <2> QED
    BY <2>1, <2>2 DEF Verdicts, ErrorNames
<1>7. CASE TrailingBytes
  BY <1>7 DEF TrailingBytes, Done, Verdicts
<1>8. CASE Validate
  <2>1. summary = Totals(chunks) /\ PlanConsistent
    BY <1>8, ScannedPlan DEF Validate
  <2>2. phase' = "done" /\ UNCHANGED <<read, summary, chunks>> /\ op = "parse"
        /\ result' \in {"InvalidGraph", "Ok"}
    BY <1>8, <2>1 DEF Validate, Done
  <2>3. Len(read) <= MaxFrameBytes
    BY <2>2 DEF Base, ReadFits
  <2> QED
    BY <2>1, <2>2, <2>3 DEF Verdicts
<1> QED
  BY <1>1, <1>2, <1>3, <1>4, <1>5, <1>6, <1>7, <1>8, StepCases DEF Finishing

LEMMA ReadingInvariant == Spec => [](Base /\ Admitted /\ Verdicts)
<1>1. Init => Base /\ Admitted /\ Verdicts
  BY BaseInit, AdmittedInit DEF Init, Verdicts
<1>2. Base /\ Admitted /\ Verdicts /\ [Next]_vars => (Base /\ Admitted /\ Verdicts)'
  BY BaseStep, AdmittedStep, VerdictsStep
<1> QED
  BY <1>1, <1>2, PTL DEF Spec

(* RedundantChecksNeverFail, for all fields and limits: the plan that the  *)
(* readers of the header and of the chunks build passes every check of     *)
(* validate.rs that compares the plan with itself, and the totals that     *)
(* ChunkSummary::add counted chunk by chunk are those of the whole plan.   *)
THEOREM PlansAreConsistent == Spec => []RedundantChecksNeverFail
<1>1. Base /\ Verdicts => RedundantChecksNeverFail
  BY DEF Base, Verdicts, ErrorNames, RedundantChecksNeverFail
<1> QED
  BY <1>1, ReadingInvariant, PTL

(* ScanWithinLimits, for all fields and limits: what parse_frame and       *)
(* frame_size accept stays within every limit that is set, whatever the    *)
(* fields said on the way.                                                 *)
THEOREM ScansStayWithinLimits == Spec => []ScanWithinLimits
<1>1. ASSUME Base, Admitted, Verdicts PROVE ScanWithinLimits
  <2> SUFFICES ASSUME result = "Ok", op # "header" PROVE
        /\ Len(read) <= MaxFrameBytes
        /\ SumOver(header.sizes) <= MaxDecodedBytes
        /\ \A k \in DOMAIN header.sizes : header.sizes[k] <= MaxBufferBytes
        /\ Len(chunks) <= MaxChunks
        /\ SumOver([i \in DOMAIN chunks |-> Len(chunks[i].nodes)]) <= MaxNodes
        /\ SumOver([i \in DOMAIN chunks |-> Len(chunks[i].sizes)]) <= MaxStreams
        /\ SumOver([i \in DOMAIN chunks |-> RegeneratedBy(chunks[i])]) <= MaxStreams
        /\ \A i \in DOMAIN chunks :
             /\ TransformHeader(chunks[i]) <= MaxTransformHeaderBytes
             /\ StoredBytes(chunks[i]) <= MaxStoredStreamBytes
    BY DEF ScanWithinLimits
  <2>1. Len(read) <= MaxFrameBytes /\ summary = Totals(chunks)
    BY <1>1 DEF Verdicts
  <2>2. /\ summary.chunks = Len(chunks)
        /\ summary.transforms = SumOver([i \in DOMAIN chunks |-> Len(chunks[i].nodes)])
        /\ summary.stored = SumOver([i \in DOMAIN chunks |-> Len(chunks[i].sizes)])
        /\ summary.regenerated = SumOver([i \in DOMAIN chunks |-> RegeneratedBy(chunks[i])])
    BY <2>1 DEF Totals
  <2>3. \A i \in DOMAIN chunks : Small(chunks[i])
    BY <1>1 DEF Base, ChunkAsRead, Complete
  <2> QED
    BY <1>1, <2>1, <2>2, <2>3 DEF Admitted, Small
<1> QED
  BY <1>1, ReadingInvariant, PTL

-----------------------------------------------------------------------------
(* The checksums.                                                          *)
AllUnchecked == checked = {} /\ \A i \in DOMAIN read : read[i].field \notin Exempt

(* Fields that are no checksum leave what is checked as it is.             *)
LEMMA UncheckedOn ==
  ASSUME AllUnchecked, NEW names, Continues(read, read', names), names \cap Exempt = {},
         checked' = checked
  PROVE  AllUnchecked'
BY DEF AllUnchecked, Continues

LEMMA CheckedOn ==
  ASSUME NEW n \in Nat, NEW f, NEW g, NEW cs, CheckedUpTo(n, f, cs), NEW names,
         Continues(f, g, names), names \cap Exempt = {}
  PROVE  CheckedUpTo(n, g, cs)
<1>1. n <= Len(g) /\ \A r \in cs : r.start + r.len <= n
  BY DEF CheckedUpTo, Continues
<1>2. \A i \in 1 .. n : g[i] = f[i]
  BY DEF CheckedUpTo, Continues
<1>3. \A i \in 1 .. n : IF g[i].field \in Exempt THEN \A r \in cs : i \notin Covers(r)
                        ELSE CoveredOnce(i, cs)
  BY <1>2 DEF CheckedUpTo, CoveredOnce
<1>4. \A i \in n + 1 .. Len(g) : g[i].field \notin Exempt
  BY DEF CheckedUpTo, Continues
<1> QED
  BY <1>1, <1>3, <1>4 DEF CheckedUpTo

LEMMA UncheckedIsUpToZero ==
  ASSUME NEW f, IsRead(f), \A i \in DOMAIN f : f[i].field \notin Exempt
  PROVE  CheckedUpTo(0, f, {})
<1>1. Len(f) \in Nat /\ DOMAIN f = 1 .. Len(f)
  BY DEF IsRead
<1> QED
  BY <1>1 DEF CheckedUpTo

(* A checksum over all fields not yet covered covers them.                 *)
LEMMA CheckedMore ==
  ASSUME NEW n \in Nat, NEW f, NEW g, NEW cs \in SUBSET ByteRange, CheckedUpTo(n, f, cs),
         NEW m \in Nat, m >= n, Len(g) = m + 1, Len(f) \in Nat, Len(f) <= m,
         \A i \in 1 .. Len(f) : g[i] = f[i],
         \A i \in Len(f) + 1 .. m : g[i].field \notin Exempt,
         g[m + 1].field \in Exempt,
         NEW ds, ds = cs \cup {[start |-> n, len |-> m - n]}
  PROVE  CheckedUpTo(m + 1, g, ds)
<1> DEFINE new == [start |-> n, len |-> m - n]
<1>1. new.start = n /\ new.len = m - n /\ Covers(new) = n + 1 .. m
  BY DEF Covers
<1>2. \A r \in cs : /\ r.start \in Nat /\ r.len \in Nat /\ r.start + r.len <= n
                         /\ \A i \in Int : i > n => i \notin Covers(r)
  <2> TAKE r \in cs
  <2>1. r.start \in Nat /\ r.len \in Nat /\ r.start + r.len <= n
    BY DEF CheckedUpTo, ByteRange
  <2> QED
    BY <2>1 DEF Covers
<1> HIDE DEF new
<1>3. ds = cs \cup {new}
  BY DEF new
<1>4. \A r \in ds : r.start + r.len <= m + 1
  BY <1>1, <1>2, <1>3
<1>5. \A i \in 1 .. n : IF g[i].field \in Exempt THEN \A r \in ds : i \notin Covers(r)
                        ELSE CoveredOnce(i, ds)
  <2> TAKE i \in 1 .. n
  <2>1. g[i] = f[i] /\ i \notin Covers(new)
    BY <1>1 DEF CheckedUpTo
  <2>2. IF f[i].field \in Exempt THEN \A r \in cs : i \notin Covers(r) ELSE CoveredOnce(i, cs)
    BY DEF CheckedUpTo
  <2> QED
    BY <1>3, <2>1, <2>2 DEF CoveredOnce
<1>6. \A i \in n + 1 .. m : g[i].field \notin Exempt /\ CoveredOnce(i, ds)
  <2> TAKE i \in n + 1 .. m
  <2>1. g[i].field \notin Exempt
    <3>1. CASE i <= Len(f)
      BY <3>1 DEF CheckedUpTo
    <3>2. CASE i > Len(f)
      BY <3>2
    <3> QED
      BY <3>1, <3>2
  <2>2. i \in Covers(new) /\ \A r \in cs : i \notin Covers(r)
    BY <1>1, <1>2
  <2> QED
    BY <1>3, <2>1, <2>2 DEF CoveredOnce
<1>7. g[m + 1].field \in Exempt /\ \A r \in ds : (m + 1) \notin Covers(r)
  BY <1>1, <1>2, <1>3
<1>8. \A i \in 1 .. m + 1 : i \in 1 .. n \/ i \in n + 1 .. m \/ i = m + 1
  OBVIOUS
<1>9. \A i \in 1 .. m + 1 :
        IF g[i].field \in Exempt THEN \A r \in ds : i \notin Covers(r)
        ELSE CoveredOnce(i, ds)
  BY <1>5, <1>6, <1>7, <1>8
<1>10. \A i \in (m + 1) + 1 .. Len(g) : g[i].field \notin Exempt
  OBVIOUS
<1>11. m + 1 <= Len(g)
  OBVIOUS
<1> QED
  BY <1>4, <1>9, <1>10, <1>11, Zenon DEF CheckedUpTo

(* One that covers nothing may follow.                                     *)
LEMMA CheckedEnd ==
  ASSUME NEW n \in Nat, NEW f, NEW g, NEW cs \in SUBSET ByteRange, CheckedUpTo(n, f, cs),
         Len(f) = n, Len(g) = n + 1, \A i \in 1 .. n : g[i] = f[i], g[n + 1].field \in Exempt
  PROVE  CheckedUpTo(n + 1, g, cs)
<1>1. \A r \in cs : r.start + r.len <= n + 1 /\ (n + 1) \notin Covers(r)
  <2> TAKE r \in cs
  <2>1. r.start \in Nat /\ r.len \in Nat /\ r.start + r.len <= n
    BY DEF CheckedUpTo, ByteRange
  <2> QED
    BY <2>1 DEF Covers
<1>2. \A i \in 1 .. n : IF g[i].field \in Exempt THEN \A r \in cs : i \notin Covers(r)
                        ELSE CoveredOnce(i, cs)
  BY DEF CheckedUpTo
<1>3. \A i \in 1 .. n + 1 :
        IF g[i].field \in Exempt THEN \A r \in cs : i \notin Covers(r) ELSE CoveredOnce(i, cs)
  <2> TAKE i \in 1 .. n + 1
  <2>1. CASE i \in 1 .. n
    BY <1>2, <2>1
  <2>2. CASE i = n + 1
    BY <1>1, <2>2
  <2> QED
    BY <2>1, <2>2
<1>4. n + 1 <= Len(g) /\ \A i \in (n + 1) + 1 .. Len(g) : g[i].field \notin Exempt
  OBVIOUS
<1> QED
  BY <1>1, <1>3, <1>4, Zenon DEF CheckedUpTo

(* The fields of the header up to its checksum.                            *)
PlainFields == {"magic", "flags", "bundle", "outputs", "size", "strings", "comment"}

LEMMA HeaderReads ==
  ASSUME Base, HeaderAction, ~ReadHeaderChecksum, phase' # "done"
  PROVE  /\ Continues(read, read', PlainFields) /\ checked' = checked
         /\ phase' = "sum" => "encoded" \in header'.flags
         /\ phase' = "chunks" => "encoded" \notin header'.flags
<1> DEFINE Result == /\ \/ read' = read
                        \/ \E name \in PlainFields : \E value : Take(name, value)
                     /\ checked' = checked
                     /\ phase' = "sum" => "encoded" \in header'.flags
                     /\ phase' = "chunks" => "encoded" \notin header'.flags
<1>1. ASSUME ReadMagic PROVE Result
  <2>1. (\E value : Take("magic", value)) /\ phase' \in {"flags", "outputs"} /\ checked' = checked
    BY <1>1 DEF ReadMagic, Proceed, Fail
  <2> QED
    BY <2>1 DEF PlainFields
<1>2. ASSUME ReadFlags PROVE Result
  <2>1. (\E value : Take("flags", value)) /\ phase' \in {"bundle", "outputs"} /\ checked' = checked
    BY <1>2 DEF ReadFlags
  <2> QED
    BY <2>1 DEF PlainFields
<1>3. ASSUME ReadBundleId PROVE Result
  <2>1. (\E value : Take("bundle", value)) /\ phase' = "outputs" /\ checked' = checked
    BY <1>3 DEF ReadBundleId, Proceed, Fail
  <2> QED
    BY <2>1 DEF PlainFields
<1>4. ASSUME ReadOutputs PROVE Result
  <2>1. (read' = read \/ \E value : Take("outputs", value)) /\ phase' = "size" /\ checked' = checked
    BY <1>4 DEF ReadOutputs, Proceed, Fail
  <2> QED
    BY <2>1 DEF PlainFields
<1>5. ASSUME ReadSize PROVE Result
  <2>1. /\ \E value : Take("size", value)
        /\ phase' \in {"size", "strings", "chunks"} /\ (phase' = "chunks" => V < 21) /\ checked' = checked
    <3>1. phase = "size" /\ V \in Nat
      BY <1>5 DEF ReadSize, Base, Gates
    <3> QED
      BY <1>5, <3>1 DEF ReadSize, Proceed, Fail
  <2>2. V < 21 => header.flags = {}
    BY <1>5 DEF ReadSize, Base, Gates, HeaderPhases
  <2>3. header'.flags = header.flags
    <3>1. header' = header \/ \E e : header' = [header EXCEPT !.sizes = e]
      BY <1>5 DEF ReadSize, Proceed, Fail
    <3> QED
      BY <3>1 DEF Base, TypeOK
  <2> QED
    BY <2>1, <2>2, <2>3 DEF PlainFields
<1>6. ASSUME ReadStringCounts PROVE Result
  <2>1. /\ read' = read \/ \E value : Take("strings", value)
        /\ phase' = AfterStrings(header.flags) /\ checked' = checked
        /\ \E e : header' = [header EXCEPT !.strings = e]
    BY <1>6 DEF ReadStringCounts
  <2>2. header'.flags = header.flags
    BY <2>1 DEF Base, TypeOK
  <2> QED
    BY <2>1, <2>2 DEF PlainFields, AfterStrings, AfterComment
<1>7. ASSUME ReadComment PROVE Result
  <2>1. /\ \E value : Take("comment", value)
        /\ phase' = AfterComment(header.flags) /\ UNCHANGED <<checked, header>>
    BY <1>7 DEF ReadComment, Proceed, Fail
  <2> QED
    BY <2>1 DEF PlainFields, AfterComment
<1>8. Result
  BY <1>1, <1>2, <1>3, <1>4, <1>5, <1>6, <1>7 DEF HeaderAction
<1>9. Continues(read, read', PlainFields)
  <2>1. IsRead(read)
    BY DEF Base
  <2>2. CASE read' = read
    BY <2>1, <2>2, ReadStays
  <2>3. ASSUME NEW name \in PlainFields, NEW value, Take(name, value)
        PROVE  Continues(read, read', PlainFields)
    <3>1. Continues(read, read', {name})
      BY <2>1, <2>3, Taken
    <3> QED
      BY <3>1 DEF Continues
  <2> QED
    BY <1>8, <2>2, <2>3
<1> QED
  BY <1>8, <1>9

(* From the end of the header on.                                          *)
CoveredTo(n) == verify /\ "encoded" \in header.flags => CheckedUpTo(n, read, checked)
NoneCovered == "encoded" \notin header.flags => AllUnchecked

LEMMA ChecksCoverStep ==
  ASSUME Base, Verdicts, ChecksCoverAll, Next
  PROVE  ChecksCoverAll'
<1> USE DEF Exempt
<1>1. /\ IsRead(read) /\ Len(read) \in Nat /\ DOMAIN read = 1 .. Len(read) /\ Base' /\ Verdicts'
      /\ IsRead(read')
  BY BaseStep, VerdictsStep DEF Base, IsRead
<1>2. ASSUME AllUnchecked', phase' \notin {"chunks", "scanned", "done"},
             phase' = "sum" => "encoded" \in header'.flags, ChecksumStart' = 0
      PROVE  ChecksCoverAll'
  <2>1. CheckedUpTo(0, read', checked')
    <3>1. checked' = {} /\ \A i \in DOMAIN read' : read'[i].field \notin Exempt
      BY <1>2 DEF AllUnchecked
    <3> QED
      BY <1>1, <3>1, UncheckedIsUpToZero
  <2>2. result' = "none"
    BY <1>1, <1>2 DEF Verdicts
  <2> QED
    BY <1>2, <2>1, <2>2 DEF ChecksCoverAll, AllUnchecked, Frontier
<1>3. ASSUME phase' \notin HeaderPhases \cup {"done"}, phase' # "scanned" => NoneCovered',
             phase' = "scanned" /\ "encoded" \notin header'.flags => checked' = {},
             CoveredTo(Frontier)'
      PROVE  ChecksCoverAll'
  <2>1. result' = "none"
    BY <1>1, <1>3 DEF Verdicts
  <2> QED
    BY <1>3, <2>1 DEF ChecksCoverAll, CoveredTo, NoneCovered, AllUnchecked
<1>4. CASE phase' # "done" /\ HeaderAction /\ ~ReadHeaderChecksum
  <2>1. HeaderMoves
    BY <1>4, HeaderSteps
  <2>2. AllUnchecked
    BY <2>1 DEF HeaderMoves, ChecksCoverAll, AllUnchecked
  <2>3. /\ Continues(read, read', PlainFields) /\ checked' = checked
        /\ phase' = "sum" => "encoded" \in header'.flags
        /\ phase' = "chunks" => "encoded" \notin header'.flags
    BY <1>4, HeaderReads
  <2>4. AllUnchecked'
    BY <2>2, <2>3, UncheckedOn DEF PlainFields
  <2>5. chunk' = NoChunk
    BY <2>1 DEF HeaderMoves, HeaderStep, Base, ChunkAsRead
  <2>6. CASE phase' = "chunks"
    <3>1. "encoded" \notin header'.flags
      BY <2>3, <2>6
    <3> QED
      BY <1>3, <2>4, <2>6, <3>1 DEF NoneCovered, CoveredTo, HeaderPhases
  <2>7. CASE phase' # "chunks"
    <3>1. ChecksumStart' = 0
      BY <2>5 DEF ChecksumStart, NoChunk
    <3>2. phase' \in HeaderPhases
      BY <2>1, <2>7 DEF HeaderMoves
    <3> QED
      BY <1>2, <2>3, <2>4, <2>7, <3>1, <3>2 DEF HeaderPhases
  <2> QED
    BY <2>6, <2>7
<1>5. CASE phase' # "done" /\ ReadHeaderChecksum
  <2>1. PICK matches \in BOOLEAN :
          /\ phase = "sum" /\ Take("sum", matches) /\ checked' = Verified(0, Offset)
          /\ phase' = "chunks" /\ UNCHANGED <<op, verify, header>>
    BY <1>5 DEF ReadHeaderChecksum, Proceed, Fail, HeaderStep
  <2>2. /\ Continues(read, read', {"sum"}) /\ Len(read') = Len(read) + 1
        /\ read'[Len(read) + 1].field = "sum"
    <3>1. /\ Continues(read, read', {"sum"}) /\ Len(read') = Len(read) + 1
          /\ read'[Len(read) + 1] = [field |-> "sum", value |-> matches]
      BY <1>1, <2>1, Taken
    <3> QED
      BY <3>1
  <2>3. AllUnchecked /\ "encoded" \in header'.flags
    BY <2>1 DEF ChecksCoverAll, AllUnchecked, HeaderPhases
  <2>4. ASSUME verify PROVE CheckedUpTo(Len(read) + 1, read', checked')
    <3>1. CheckedUpTo(0, read, checked) /\ checked = {}
      BY <1>1, <2>3, UncheckedIsUpToZero DEF AllUnchecked
    <3>2. checked' = checked \cup {[start |-> 0, len |-> Len(read) - 0]}
      BY <2>1, <2>4 DEF Verified, Offset
    <3> DEFINE m == Len(read)
    <3>3. m \in Nat /\ m >= 0 /\ Len(read') = m + 1 /\ Len(read) \in Nat /\ Len(read) <= m
      BY <1>1, <2>2
    <3>4. /\ \A i \in 1 .. Len(read) : read'[i] = read[i]
          /\ \A i \in Len(read) + 1 .. m : read'[i].field \notin Exempt
          /\ read'[m + 1].field \in Exempt
      BY <1>1, <2>2 DEF Continues
    <3>5. checked \subseteq ByteRange
      BY <3>1
    <3> QED
      BY <3>1, <3>2, <3>3, <3>4, <3>5, CheckedMore, Zenon
  <2>5. CoveredTo(Frontier)'
    <3>1. Frontier' = Len(read) + 1
      BY <2>1, <2>2 DEF Frontier
    <3> QED
      BY <2>1, <2>4, <3>1 DEF CoveredTo
  <2> QED
    BY <1>3, <2>1, <2>3, <2>5 DEF NoneCovered, HeaderPhases
<1>6. CASE EndChunks
  <2>1. /\ phase = "chunks" /\ phase' = "scanned"
        /\ UNCHANGED <<op, verify, header, chunk, chunks, summary, checked, result>>
        /\ Continues(read, read', {"end"})
        /\ IF V < 21 THEN read' = read
           ELSE Len(read') = Len(read) + 1 /\ read'[Len(read) + 1].field = "end"
    BY <1>6, EndChunksSteps
  <2>2. ASSUME verify, "encoded" \in header.flags PROVE CheckedUpTo(Len(read'), read', checked')
    <3>1. CheckedUpTo(Len(read), read, checked) /\ checked \subseteq ByteRange
      BY <2>1, <2>2 DEF ChecksCoverAll, Frontier, Base, TypeOK
    <3>2. CASE V < 21
      BY <2>1, <3>1, <3>2
    <3>3. CASE ~(V < 21)
      <4>1. /\ Len(read') = Len(read) + 1 /\ read'[Len(read) + 1].field \in Exempt
            /\ checked' = checked /\ \A i \in 1 .. Len(read) : read'[i] = read[i]
        BY <2>1, <3>3 DEF Continues
      <4> QED
        BY <1>1, <3>1, <4>1, CheckedEnd
    <3> QED
      BY <3>2, <3>3
  <2>3. "encoded" \notin header.flags => checked = {}
    BY <2>1 DEF ChecksCoverAll
  <2>4. CoveredTo(Frontier)'
    BY <2>1, <2>2 DEF CoveredTo, Frontier
  <2> QED
    BY <1>3, <2>1, <2>3, <2>4 DEF HeaderPhases
<1>7. CASE phase' # "done" /\ ReadCounts
  <2>1. /\ phase = "chunks" /\ phase' = IF V < 21 THEN "chunk flags" ELSE "graph"
        /\ V < 21 => chunks = <<>>
        /\ UNCHANGED <<op, verify, header, chunks, summary, checked, result>>
        /\ Continues(read, read', {"nodes", "streams"})
        /\ chunk'.start = Len(read)
    BY <1>7, ReadCountsSteps DEF NoChunk
  <2>2. NoneCovered'
    <3>1. "encoded" \notin header.flags => AllUnchecked
      BY <2>1 DEF ChecksCoverAll, AllUnchecked
    <3>2. AllUnchecked => AllUnchecked'
      BY <2>1, UncheckedOn
    <3> QED
      BY <2>1, <3>1, <3>2 DEF NoneCovered
  <2>3. V < 21 => header.flags = {}
    BY <2>1 DEF Base, Gates
  <2>4. V' = V /\ V \in Nat
    BY <2>1 DEF V, Base, TypeOK
  <2>5. CoveredTo(Frontier)'
    <3>1. CASE V < 21
      BY <2>1, <2>3, <3>1 DEF CoveredTo
    <3>2. CASE V >= 21
      <4>1. Frontier' = Len(read)
        BY <2>1, <2>4, <3>2 DEF Frontier, ChecksumStart
      <4>2. verify /\ "encoded" \in header.flags => CheckedUpTo(Len(read), read, checked)
        BY <2>1 DEF ChecksCoverAll, Frontier
      <4>3. CheckedUpTo(Len(read), read, checked) => CheckedUpTo(Len(read), read', checked')
        BY <1>1, <2>1, CheckedOn
      <4> QED
        BY <2>1, <4>1, <4>2, <4>3 DEF CoveredTo
    <3> QED
      BY <2>4, <3>1, <3>2
  <2> QED
    BY <1>3, <2>1, <2>2, <2>5 DEF HeaderPhases
<1>8. CASE ReadChunkFlags
  <2>1. /\ phase = "chunk flags" /\ phase' = "graph" /\ V < 21
        /\ UNCHANGED <<op, verify, chunk, chunks, summary, checked, result>>
        /\ header' = [header EXCEPT !.flags = header'.flags]
        /\ Continues(read, read', {"flags"})
    BY <1>8, ReadChunkFlagsSteps
  <2>2. header.flags = {}
    BY <2>1, BeforeChunkStep DEF ChunkPhases
  <2>3. AllUnchecked
    BY <2>1, <2>2 DEF ChecksCoverAll, AllUnchecked
  <2>4. AllUnchecked'
    BY <2>1, <2>3, UncheckedOn
  <2>5. V' = V
    BY <2>1 DEF Base, TypeOK, V
  <2>6. ChecksumStart' = 0
    <3>1. V \in Nat
      BY <2>1, BeforeChunkStep DEF ChunkPhases
    <3>2. V' \in Nat /\ V' < 21
      BY <2>1, <2>5, <3>1
    <3>3. ~(V' >= 21)
      BY <3>2
    <3> QED
      BY <3>3 DEF ChecksumStart
  <2> QED
    BY <1>2, <2>1, <2>4, <2>6
<1>9. CASE phase' # "done" /\ (ReadGraph \/ ReadStoredSizes \/ CountChunk \/ ReadPayload)
  <2>1. /\ phase \in {"graph", "stored", "summary", "payload"}
        /\ phase' \in {"stored", "summary", "payload", "checksums"}
        /\ UNCHANGED <<op, verify, header, checked, result>>
        /\ Continues(read, read', {"graph", "stored", "payload"})
        /\ chunk'.start = chunk.start
    <3>1. chunk \in Plan
      BY DEF Base, TypeOK
    <3>2. CASE ReadGraph
      <4>1. /\ phase = "graph" /\ phase' = "stored"
            /\ UNCHANGED <<op, verify, header, chunks, summary, checked, result>>
            /\ chunk' = [chunk EXCEPT !.nodes = chunk'.nodes]
            /\ Continues(read, read', {"graph"})
        BY <1>9, <3>2, ReadGraphSteps
      <4> QED
        BY <3>1, <4>1 DEF Continues, Plan
    <3>3. CASE ReadStoredSizes
      <4>1. /\ phase = "stored" /\ phase' = "summary"
            /\ UNCHANGED <<op, verify, header, chunks, summary, checked, result>>
            /\ chunk' = [chunk EXCEPT !.sizes = chunk'.sizes]
            /\ Continues(read, read', {"stored"})
        BY <1>9, <3>3, ReadStoredSizesSteps
      <4> QED
        BY <3>1, <4>1 DEF Continues, Plan
    <3>4. CASE CountChunk
      <4>1. /\ phase = "summary" /\ phase' = "payload"
            /\ UNCHANGED <<op, verify, read, header, chunk, chunks, checked, result>>
        BY <1>9, <3>4, CountChunkSteps
      <4>2. Continues(read, read, {"graph", "stored", "payload"})
        BY <1>1, ReadStays
      <4> QED
        BY <4>1, <4>2
    <3>5. CASE ReadPayload
      <4>1. /\ phase = "payload" /\ phase' = "checksums"
            /\ UNCHANGED <<op, verify, header, chunks, summary, checked, result>>
            /\ chunk' = Located(chunk, Len(read))
            /\ Continues(read, read', {"payload"})
        BY <1>9, <3>5, ReadPayloadSteps
      <4>2. chunk'.start = chunk.start
        BY <1>1, <3>1, <4>1, LocatedIsPlan
      <4> QED
        BY <4>1, <4>2 DEF Continues
    <3> QED
      BY <1>9, <3>2, <3>3, <3>4, <3>5
  <2>2. V' = V /\ ChecksumStart' = ChecksumStart
    BY <2>1 DEF V, ChecksumStart
  <2>3. NoneCovered'
    <3>1. "encoded" \notin header.flags => AllUnchecked
      BY <2>1 DEF ChecksCoverAll, AllUnchecked
    <3>2. AllUnchecked => AllUnchecked'
      BY <2>1, UncheckedOn
    <3> QED
      BY <2>1, <3>1, <3>2 DEF NoneCovered
  <2>4. CoveredTo(Frontier)'
    <3>1. Frontier = ChecksumStart /\ Frontier' = ChecksumStart
      BY <2>1, <2>2 DEF Frontier
    <3>2. ChecksumStart \in Nat
      BY DEF ChecksumStart, Base, TypeOK, Plan
    <3>3. verify /\ "encoded" \in header.flags => CheckedUpTo(ChecksumStart, read, checked)
      BY <2>1, <3>1 DEF ChecksCoverAll
    <3>4. CheckedUpTo(ChecksumStart, read, checked) => CheckedUpTo(ChecksumStart, read', checked)
      BY <2>1, <3>2, CheckedOn
    <3> QED
      BY <2>1, <3>1, <3>3, <3>4 DEF CoveredTo
  <2> QED
    BY <1>3, <2>1, <2>3, <2>4 DEF HeaderPhases
<1>10. CASE phase' # "done" /\ ReadChecksums
  <2>1. /\ phase = "checksums" /\ phase' = "chunks"
        /\ UNCHANGED <<op, verify, header, summary, result>>
        /\ Continues(read, read', {"decoded", "encoded"})
        /\ Len(read') = Len(read) + (IF "decoded" \in header.flags THEN 1 ELSE 0)
                                  + (IF "encoded" \in header.flags THEN 1 ELSE 0)
        /\ "decoded" \in header.flags =>
              read'[Len(read) + 1] = [field |-> "decoded", value |-> 0]
        /\ "encoded" \in header.flags =>
              \E matches \in BOOLEAN :
                 /\ verify => matches
                 /\ read'[Len(read')] = [field |-> "encoded", value |-> matches]
                 /\ checked' = Verified(ChecksumStart, Len(read') - 1)
        /\ "encoded" \notin header.flags => checked' = checked
    BY <1>10, ReadChecksumsSteps
  <2>2. NoneCovered'
    <3> SUFFICES ASSUME "encoded" \notin header.flags PROVE AllUnchecked'
      BY <2>1 DEF NoneCovered
    <3>1. AllUnchecked /\ checked' = checked
      BY <2>1 DEF ChecksCoverAll, AllUnchecked
    <3>2. Continues(read, read', {"decoded"})
      <4>1. \A i \in Len(read) + 1 .. Len(read') : i = Len(read) + 1 /\ "decoded" \in header.flags
        BY <1>1, <2>1
      <4>2. \A i \in Len(read) + 1 .. Len(read') : read'[i].field \in {"decoded"}
        BY <2>1, <4>1
      <4> QED
        BY <2>1, <4>2 DEF Continues
    <3> QED
      BY <3>1, <3>2, UncheckedOn
  <2>3. ASSUME verify, "encoded" \in header.flags PROVE CheckedUpTo(Len(read'), read', checked')
    <3> DEFINE m == Len(read') - 1
    <3>1. m \in Nat /\ Len(read') = m + 1 /\ Len(read) <= m
          /\ m = Len(read) + (IF "decoded" \in header.flags THEN 1 ELSE 0)
      BY <1>1, <2>1, <2>3
    <3>2. /\ read'[m + 1].field = "encoded"
          /\ checked' = checked \cup {[start |-> ChecksumStart, len |-> m - ChecksumStart]}
      <4>2. PICK matches :
              /\ read'[Len(read')] = [field |-> "encoded", value |-> matches]
              /\ checked' = Verified(ChecksumStart, Len(read') - 1)
        BY <2>1, <2>3
      <4>1. read'[Len(read')].field = "encoded" /\ checked' = Verified(ChecksumStart, m)
        BY <4>2
      <4> HIDE DEF m
      <4> QED
        BY <2>3, <3>1, <4>1 DEF Verified
    <3> HIDE DEF m
    <3>3. \A i \in 1 .. Len(read) : read'[i] = read[i]
      BY <2>1 DEF Continues
    <3>4. \A i \in Len(read) + 1 .. m : read'[i].field \notin Exempt
      <4>1. CASE "decoded" \in header.flags
        <5>1. read'[Len(read) + 1].field = "decoded"
          BY <2>1, <4>1
        <5>2. \A i \in Len(read) + 1 .. m : i = Len(read) + 1
          BY <1>1, <3>1, <4>1
        <5> QED
          BY <5>1, <5>2
      <4>2. CASE "decoded" \notin header.flags
        <5>1. m = Len(read)
          BY <1>1, <3>1, <4>2
        <5> QED
          BY <1>1, <5>1
      <4> QED
        BY <4>1, <4>2
    <3>5. ChecksumStart \in Nat /\ checked \in SUBSET ByteRange
      BY DEF ChecksumStart, Base, TypeOK, Plan
    <3>6. CheckedUpTo(ChecksumStart, read, checked)
      BY <2>1, <2>3 DEF ChecksCoverAll, Frontier
    <3>7. m >= ChecksumStart
      <4>1. ChecksumStart <= Len(read)
        BY <3>6 DEF CheckedUpTo
      <4>2. Len(read) \in Nat /\ m \in Nat /\ Len(read) <= m /\ ChecksumStart \in Nat
        BY <1>1, <3>1, <3>5
      <4> QED
        BY <4>1, <4>2
    <3>8. read'[m + 1].field \in Exempt
      BY <3>2
    <3>9. CheckedUpTo(m + 1, read', checked')
      BY <1>1, <3>1, <3>2, <3>3, <3>4, <3>5, <3>6, <3>7, <3>8, CheckedMore
    <3> QED
      BY <3>1, <3>9
  <2>4. CoveredTo(Frontier)'
    BY <2>1, <2>3 DEF CoveredTo, Frontier
  <2> QED
    BY <1>3, <2>1, <2>2, <2>4 DEF HeaderPhases
<1>11. CASE Refusal
  <2>1. phase' = "done" /\ result' # "Ok"
    BY <1>11 DEF Refusal, Fail, ErrorNames
  <2> QED
    BY <2>1 DEF ChecksCoverAll, HeaderPhases
<1>12. CASE FinishHeader \/ FinishSize \/ TrailingBytes
  <2>1. phase' = "done" /\ ~(result' = "Ok" /\ op' = "parse")
    BY <1>12 DEF FinishHeader, FinishSize, TrailingBytes, Done, HeaderStep
  <2> QED
    BY <2>1 DEF ChecksCoverAll, HeaderPhases
<1>13. CASE Validate
  <2>1. phase = "scanned" /\ phase' = "done" /\ UNCHANGED <<op, verify, read, header, checked>>
    BY <1>13 DEF Validate, Done
  <2>2. verify /\ "encoded" \in header.flags => CheckedUpTo(Len(read), read, checked)
    BY <2>1 DEF ChecksCoverAll, Frontier
  <2> QED
    BY <2>1, <2>2 DEF ChecksCoverAll, HeaderPhases
<1> QED
  BY <1>4, <1>5, <1>6, <1>7, <1>8, <1>9, <1>10, <1>11, <1>12, <1>13, StepCases
  DEF Finishing

(* EveryFieldChecked, for all fields and limits: when the reader accepts a *)
(* frame with compressed checksums and verifies them, every field of the   *)
(* header, of every chunk header, every payload byte and every content     *)
(* checksum is under exactly one verified checksum.                        *)
THEOREM FieldsAreCheckedOnce == Spec => []EveryFieldChecked
<1>1. Init => ChecksCoverAll
  <2> SUFFICES ASSUME Init PROVE ChecksCoverAll
    OBVIOUS
  <2>1. /\ phase = "magic" /\ checked = {} /\ DOMAIN read = {} /\ result = "none"
        /\ "encoded" \notin header.flags
    BY DEF Init, NoHeader
  <2> QED
    BY <2>1 DEF ChecksCoverAll
<1>2. Base /\ Verdicts /\ ChecksCoverAll /\ [Next]_vars => ChecksCoverAll'
  <2>1. CASE UNCHANGED vars
    BY <2>1 DEF vars, ChecksCoverAll, HeaderPhases, Frontier, ChecksumStart, V
  <2> QED
    BY <2>1, ChecksCoverStep
<1>3. Base /\ ChecksCoverAll => EveryFieldChecked
  <2> SUFFICES ASSUME Base, ChecksCoverAll, result = "Ok", op = "parse", verify,
                      "encoded" \in header.flags, NEW i \in DOMAIN read
               PROVE  Cardinality({r \in checked : i \in Covers(r)}) =
                        IF read[i].field \in {"sum", "encoded", "end"} THEN 0 ELSE 1
    BY DEF EveryFieldChecked
  <2>1. CheckedUpTo(Len(read), read, checked) /\ i \in 1 .. Len(read)
    BY DEF ChecksCoverAll, Base, IsRead
  <2> DEFINE over == {r \in checked : i \in Covers(r)}
  <2>2. CASE read[i].field \in Exempt
    <3>1. over = {}
      BY <2>1, <2>2 DEF CheckedUpTo
    <3> QED
      BY <2>2, <3>1, FS_EmptySet DEF Exempt
  <2>3. CASE read[i].field \notin Exempt
    <3>1. CoveredOnce(i, checked)
      BY <2>1, <2>3 DEF CheckedUpTo
    <3>2. PICK r \in checked : i \in Covers(r)
      BY <3>1 DEF CoveredOnce
    <3>3. over = {r}
      BY <3>1, <3>2 DEF CoveredOnce
    <3> QED
      BY <2>3, <3>3, FS_Singleton DEF Exempt
  <2> QED
    BY <2>2, <2>3
<1> QED
  BY <1>1, <1>2, <1>3, ReadingInvariant, PTL DEF Spec

-----------------------------------------------------------------------------
(* The payload.                                                            *)
Tiles(parts, X) == Disjoint(parts) /\ UNION {Covers(parts[i]) : i \in DOMAIN parts} = X

LEMMA TilesNothing == Tiles(<<>>, {})
<1>1. DOMAIN <<>> = {}
  OBVIOUS
<1> QED
  BY <1>1 DEF Tiles, Disjoint

(* Tilings of disjoint sets are one of their union.                        *)
LEMMA TilesJoin ==
  ASSUME NEW a \in Seq(ByteRange), NEW b \in Seq(ByteRange), NEW X, NEW Y,
         Tiles(a, X), Tiles(b, Y), X \cap Y = {}
  PROVE  Tiles(a \o b, X \cup Y)
<1> DEFINE n == Len(a)
           m == Len(b)
           c == a \o b
<1>1. /\ n \in Nat /\ m \in Nat /\ DOMAIN a = 1 .. n /\ DOMAIN b = 1 .. m
      /\ DOMAIN c = 1 .. n + m
      /\ \A i \in 1 .. n : c[i] = a[i]
      /\ \A i \in n + 1 .. n + m : c[i] = b[i - n] /\ i - n \in 1 .. m
      /\ \A i \in 1 .. m : c[n + i] = b[i] /\ n + i \in n + 1 .. n + m
  OBVIOUS
<1> HIDE DEF n, m, c
<1>2. \A i \in 1 .. n : Covers(c[i]) \subseteq X /\ Covers(c[i]) = Covers(a[i])
  BY <1>1 DEF Tiles
<1>3. \A i \in n + 1 .. n + m : Covers(c[i]) \subseteq Y /\ Covers(c[i]) = Covers(b[i - n])
  BY <1>1 DEF Tiles
<1>4. \A i \in 1 .. n + m : i \in 1 .. n \/ i \in n + 1 .. n + m
  BY <1>1
<1>5. Disjoint(c)
  <2> SUFFICES ASSUME NEW i \in 1 .. n + m, NEW j \in 1 .. n + m, i # j
               PROVE  Covers(c[i]) \cap Covers(c[j]) = {}
    BY <1>1 DEF Disjoint
  <2>1. CASE i \in 1 .. n /\ j \in 1 .. n
    BY <1>1, <1>2, <2>1 DEF Tiles, Disjoint
  <2>2. CASE i \in n + 1 .. n + m /\ j \in n + 1 .. n + m
    <3>1. i - n \in DOMAIN b /\ j - n \in DOMAIN b /\ i - n # j - n
      BY <1>1, <2>2
    <3> QED
      BY <1>3, <2>2, <3>1 DEF Tiles, Disjoint
  <2>3. CASE i \in 1 .. n /\ j \in n + 1 .. n + m
    BY <1>2, <1>3, <2>3
  <2>4. CASE i \in n + 1 .. n + m /\ j \in 1 .. n
    BY <1>2, <1>3, <2>4
  <2> QED
    BY <1>4, <2>1, <2>2, <2>3, <2>4
<1>6. UNION {Covers(c[i]) : i \in 1 .. n + m} = X \cup Y
  <2>1. \A x \in X : \E i \in 1 .. n + m : x \in Covers(c[i])
    <3> TAKE x \in X
    <3>1. PICK i \in 1 .. n : x \in Covers(a[i])
      BY <1>1 DEF Tiles
    <3>2. i \in 1 .. n + m
      BY <1>1
    <3> QED
      BY <1>2, <3>1, <3>2
  <2>2. \A x \in Y : \E i \in 1 .. n + m : x \in Covers(c[i])
    <3> TAKE x \in Y
    <3>1. PICK i \in 1 .. m : x \in Covers(b[i])
      BY <1>1 DEF Tiles
    <3>2. n + i \in 1 .. n + m /\ c[n + i] = b[i]
      BY <1>1
    <3> QED
      BY <3>1, <3>2
  <2>3. \A i \in 1 .. n + m : Covers(c[i]) \subseteq X \cup Y
    BY <1>2, <1>3, <1>4
  <2> QED
    BY <2>1, <2>2, <2>3
<1> QED
  BY <1>1, <1>5, <1>6 DEF Tiles, c

(* Ranges that follow each other tile what they span.                      *)
LEMMA RangesTile ==
  ASSUME NEW sizes \in Seq(Nat), NEW start \in Nat, NEW parts, DOMAIN parts = 1 .. Len(sizes),
         \A i \in 1 .. Len(sizes) : /\ parts[i].start = start + SumOver(Firsts(sizes, i - 1))
                                    /\ parts[i].len = sizes[i]
  PROVE  Tiles(parts, start + 1 .. start + SumOver(sizes))
<1> DEFINE n == Len(sizes)
           S(k) == SumOver(Firsts(sizes, k))
<1>1. n \in Nat
  OBVIOUS
<1>2. S(0) = 0 /\ S(n) = SumOver(sizes)
  BY <1>1, SumsFollow
<1>3. \A k \in 0 .. n : S(k) \in Nat
  <2> TAKE k \in 0 .. n
  <2>1. k \in Nat /\ k <= Len(sizes)
    BY <1>1
  <2> QED
    BY <2>1, SumsFollow
<1>4. \A k \in 1 .. n : S(k) = S(k - 1) + sizes[k]
  <2> TAKE k \in 1 .. n
  <2>1. k \in Nat /\ k <= Len(sizes) /\ k > 0
    BY <1>1
  <2> QED
    BY <2>1, SumsFollow
<1>5. \A i, j \in 0 .. n : i <= j => S(i) <= S(j)
  <2> TAKE i, j \in 0 .. n
  <2>1. i \in Nat /\ j \in Nat /\ j <= Len(sizes)
    BY <1>1
  <2>2. i <= j => Sum(Firsts(sizes, i)) <= Sum(Firsts(sizes, j))
    BY <2>1, SumGrows
  <2> QED
    BY <2>2 DEF SumOver, Sum
<1> HIDE DEF S, n
<1>6. \A i \in 1 .. n : Covers(parts[i]) = start + S(i - 1) + 1 .. start + S(i)
  <2> TAKE i \in 1 .. n
  <2>1. i - 1 \in 0 .. n /\ i \in 0 .. n
    BY <1>1
  <2>2. parts[i].start = start + S(i - 1) /\ parts[i].len = sizes[i]
    BY DEF S, n
  <2>3. sizes[i] \in Nat
    BY DEF n
  <2>4. (start + S(i - 1)) + sizes[i] = start + S(i)
    BY <1>3, <1>4, <2>1, <2>3
  <2> QED
    BY <2>2, <2>4 DEF Covers
<1>7. Disjoint(parts)
  <2>1. ASSUME NEW i \in 1 .. n, NEW j \in 1 .. n, i < j
        PROVE  Covers(parts[i]) \cap Covers(parts[j]) = {}
    <3>1. i \in 0 .. n /\ j - 1 \in 0 .. n /\ i <= j - 1 /\ i - 1 \in 0 .. n /\ j \in 0 .. n
      BY <1>1, <2>1
    <3>2. S(i) <= S(j - 1)
      BY <1>5, <3>1
    <3>3. S(i) \in Nat /\ S(j - 1) \in Nat /\ S(i - 1) \in Nat /\ S(j) \in Nat
      BY <1>3, <3>1
    <3> QED
      BY <1>6, <3>2, <3>3
  <2>2. DOMAIN parts = 1 .. n
    BY DEF n
  <2>3. ASSUME NEW i \in 1 .. n, NEW j \in 1 .. n, i # j
        PROVE  Covers(parts[i]) \cap Covers(parts[j]) = {}
    <3>1. i < j \/ j < i
      BY <1>1, <2>3
    <3>2. CASE i < j
      BY <2>1, <3>2
    <3>3. CASE j < i
      BY <2>1, <3>3
    <3> QED
      BY <3>1, <3>2, <3>3
  <2> QED
    BY <2>2, <2>3 DEF Disjoint
<1> DEFINE Upto(k) == UNION {Covers(parts[i]) : i \in 1 .. k}
           T == {k \in Nat : Upto(k) = start + 1 .. start + S(k)}
<1>8. 0 \in T
  BY <1>2
<1>9. ASSUME NEW k \in Nat, k < n, k \in T PROVE k + 1 \in T
  <2>1. Upto(k + 1) = Upto(k) \cup Covers(parts[k + 1])
    OBVIOUS
  <2>2. k + 1 \in 1 .. n /\ (k + 1) - 1 = k /\ k \in 0 .. n /\ k + 1 \in 0 .. n
    BY <1>1, <1>9
  <2>3. Covers(parts[k + 1]) = start + S(k) + 1 .. start + S(k + 1)
    BY <1>6, <2>2
  <2>4. S(k) <= S(k + 1) /\ S(k) \in Nat /\ S(k + 1) \in Nat
    BY <1>3, <1>5, <2>2
  <2>5. Upto(k) = start + 1 .. start + S(k)
    BY <1>9
  <2> HIDE DEF Upto
  <2> DEFINE a == start + S(k)
             b == start + S(k + 1)
  <2>7. a \in Nat /\ b \in Nat /\ start \in Nat /\ start <= a /\ a <= b
    BY <2>4
  <2>8. Upto(k + 1) = (start + 1 .. a) \cup (a + 1 .. b)
    BY <2>1, <2>3, <2>5
  <2> HIDE DEF a, b
  <2>9. (start + 1 .. a) \cup (a + 1 .. b) = start + 1 .. b
    BY <2>7
  <2>6. Upto(k + 1) = start + 1 .. start + S(k + 1)
    BY <2>8, <2>9 DEF b
  <2> QED
    BY <2>6
<1> HIDE DEF T
<1>12. \A k \in Nat : k < n /\ k \in T => k + 1 \in T
  BY <1>9
<1>13. \A k \in Nat : k <= n => k \in T
  BY <1>1, <1>8, <1>12, BoundedInduction
<1>10. n \in T
  BY <1>1, <1>13
<1>11. Upto(n) = start + 1 .. start + S(n)
  BY <1>10 DEF T
<1> QED
  BY <1>2, <1>7, <1>11 DEF Tiles, n

(* The parts of the payload of a chunk.                                    *)
PartsOf(c) == NodeHeaders(c) \o c.ranges

LEMMA PartsTyped ==
  ASSUME NEW c \in Plan
  PROVE  NodeHeaders(c) \in Seq(ByteRange) /\ c.ranges \in Seq(ByteRange) /\ PartsOf(c) \in Seq(ByteRange)
<1>1. c.headers.start \in Nat /\ c.ranges \in Seq(ByteRange) /\ c.nodes \in Seq(NodePlan)
  BY DEF Plan, ByteRange
<1> DEFINE n == Len(c.nodes)
<1>2. n \in Nat /\ DOMAIN c.nodes = 1 .. n
  BY <1>1
<1>3. \A i \in 1 .. n : c.nodes[i].start \in Nat /\ c.nodes[i].field.header \in Nat
  <2> TAKE i \in 1 .. n
  <2>1. c.nodes[i] \in NodePlan
    BY <1>1, <1>2
  <2> QED
    BY <2>1 DEF NodePlan, NodeField
<1> HIDE DEF n
<1> DEFINE h == [i \in 1 .. n |->
                  [start |-> c.headers.start + c.nodes[i].start, len |-> c.nodes[i].field.header]]
<1>4. h \in [1 .. n -> ByteRange]
  BY <1>1, <1>3 DEF ByteRange
<1>5. NodeHeaders(c) = h
  BY <1>2 DEF NodeHeaders
<1> HIDE DEF h
<1>6. h \in Seq(ByteRange)
  BY <1>2, <1>4, SeqDef
<1>7. h \o c.ranges \in Seq(ByteRange)
  BY <1>1, <1>6
<1> QED
  BY <1>1, <1>5, <1>6, <1>7 DEF PartsOf

LEMMA ChunkTiled ==
  ASSUME NEW c \in Plan, NEW start \in Nat, c.nodes = BuildNodes(Fields(c))
  PROVE  Tiles(PartsOf(Located(c, start)), start + 1 .. start + PayloadBytes(c))
<1> DEFINE d == Located(c, start)
           n == Len(c.nodes)
           F == Fields(c)
           H == Headers(F)
           TH == TransformHeader(c)
<1>1. /\ n \in Nat /\ DOMAIN c.nodes = 1 .. n /\ F \in [1 .. n -> NodeField]
      /\ H \in Seq(Nat) /\ Len(H) = n /\ TH = SumOver(H) /\ TH \in Nat /\ StoredBytes(c) \in Nat
      /\ c.sizes \in Seq(Nat) /\ Len(c.sizes) \in Nat
  BY PlanFields
<1>2. /\ d \in Plan /\ d.headers = [start |-> start, len |-> TH]
      /\ d.nodes = c.nodes
      /\ d.ranges = [i \in 1 .. Len(c.sizes) |->
              [start |-> start + TH + SumOver(Firsts(c.sizes, i - 1)), len |-> c.sizes[i]]]
      /\ \A i \in 1 .. Len(c.sizes) : SumOver(Firsts(c.sizes, i - 1)) \in Nat
  BY LocatedIsPlan
<1>3. \A i \in 1 .. n : c.nodes[i].start = SumOver(Firsts(H, i - 1))
  <2>1. c.nodes = BuildNodes(F) /\ F \in [1 .. n -> NodeField] /\ n \in Nat
    BY <1>1 DEF F
  <2>2. \A i \in 1 .. n : c.nodes[i].start = SumOver(Firsts(Headers(F), i - 1))
    BY <2>1, NodesBuilt, Zenon
  <2> QED
    BY <2>2 DEF H
<1>4. \A i \in 1 .. n : H[i] = c.nodes[i].field.header
  BY <1>1 DEF Headers, Fields
<1> HIDE DEF d, n, F, H, TH
<1>5. Tiles(NodeHeaders(d), start + 1 .. start + SumOver(H))
  <2>1. NodeHeaders(d) = [i \in 1 .. n |->
          [start |-> start + c.nodes[i].start, len |-> c.nodes[i].field.header]]
    BY <1>1, <1>2 DEF NodeHeaders
  <2>2. \A i \in 1 .. n : /\ NodeHeaders(d)[i].start = start + SumOver(Firsts(H, i - 1))
                          /\ NodeHeaders(d)[i].len = H[i]
    BY <1>3, <1>4, <2>1
  <2>3. DOMAIN NodeHeaders(d) = 1 .. Len(H)
    BY <1>1, <2>1
  <2> QED
    BY <1>1, <2>2, <2>3, RangesTile
<1>6. Tiles(d.ranges, (start + TH) + 1 .. (start + TH) + SumOver(c.sizes))
  <2>1. DOMAIN d.ranges = 1 .. Len(c.sizes)
    BY <1>2
  <2>2. \A i \in 1 .. Len(c.sizes) :
          /\ d.ranges[i].start = (start + TH) + SumOver(Firsts(c.sizes, i - 1))
          /\ d.ranges[i].len = c.sizes[i]
    <3> TAKE i \in 1 .. Len(c.sizes)
    <3> DEFINE p == (start + TH) + SumOver(Firsts(c.sizes, i - 1))
    <3>1. d.ranges[i] = [start |-> p, len |-> c.sizes[i]]
      BY <1>2
    <3> HIDE DEF p
    <3>2. d.ranges[i].start = p /\ d.ranges[i].len = c.sizes[i]
      BY <3>1
    <3> QED
      BY <3>2 DEF p
  <2>3. start + TH \in Nat
    BY <1>1
  <2> QED
    BY <1>1, <2>1, <2>2, <2>3, RangesTile
<1>7. NodeHeaders(d) \in Seq(ByteRange) /\ d.ranges \in Seq(ByteRange)
  BY <1>2, PartsTyped
<1> DEFINE X == start + 1 .. start + SumOver(H)
           Y == (start + TH) + 1 .. (start + TH) + SumOver(c.sizes)
<1>8. X \cap Y = {} /\ X \cup Y = start + 1 .. start + PayloadBytes(c)
  <2>1. PayloadBytes(c) = SumOver(H) + SumOver(c.sizes) /\ SumOver(c.sizes) \in Nat
        /\ TH = SumOver(H) /\ SumOver(H) \in Nat
    BY <1>1 DEF PayloadBytes, StoredBytes, TH
  <2> QED
    BY <2>1
<1> HIDE DEF X, Y
<1>9. Tiles(NodeHeaders(d) \o d.ranges, X \cup Y)
  BY <1>5, <1>6, <1>7, <1>8, TilesJoin DEF X, Y
<1> QED
  BY <1>8, <1>9 DEF PartsOf, d

(* The parts of the chunks of a plan, one chunk more at a time.            *)
PartsIn(plans) == FlattenSeq([k \in DOMAIN plans |-> PartsOf(plans[k])])
PayloadOf(r)   == {i \in DOMAIN r : r[i].field = "payload"}

LEMMA TiledMeans == PayloadTiled <=> Tiles(PartsIn(PlansLocated), PayloadOf(read))
<1>1. PayloadParts = PartsIn(PlansLocated)
  BY DEF PayloadParts, PartsIn, PartsOf
<1> QED
  BY <1>1 DEF PayloadTiled, Tiles, PayloadOf

LEMMA PartListTyped ==
  ASSUME NEW plans \in Seq(Plan)
  PROVE  /\ [k \in DOMAIN plans |-> PartsOf(plans[k])] \in Seq(Seq(ByteRange))
         /\ Len([k \in DOMAIN plans |-> PartsOf(plans[k])]) = Len(plans)
         /\ PartsIn(plans) \in Seq(ByteRange)
<1> DEFINE n == Len(plans)
           s == [k \in DOMAIN plans |-> PartsOf(plans[k])]
           U == Seq(ByteRange)
<1>1. n \in Nat /\ DOMAIN plans = 1 .. n /\ \A k \in 1 .. n : plans[k] \in Plan
  OBVIOUS
<1>2. \A k \in 1 .. n : PartsOf(plans[k]) \in U
  BY <1>1, PartsTyped
<1>3. s \in [1 .. n -> U]
  BY <1>1, <1>2
<1> HIDE DEF n, s, U
<1>4. s \in Seq(U) /\ Len(s) = n
  BY <1>1, <1>3, SeqDef
<1>5. FlattenSeq(s) \in Seq(ByteRange)
  BY <1>4, FlattenType DEF U
<1> QED
  BY <1>4, <1>5 DEF n, s, U, PartsIn

LEMMA PartsAdded ==
  ASSUME NEW plans \in Seq(Plan), NEW c \in Plan
  PROVE  PartsIn(Append(plans, c)) = PartsIn(plans) \o PartsOf(c)
<1> DEFINE n == Len(plans)
           more == Append(plans, c)
           s == [k \in DOMAIN plans |-> PartsOf(plans[k])]
           t == [k \in DOMAIN more |-> PartsOf(more[k])]
<1>1. /\ n \in Nat /\ DOMAIN plans = 1 .. n /\ DOMAIN more = 1 .. n + 1 /\ more \in Seq(Plan)
      /\ Len(more) = n + 1 /\ more[n + 1] = c /\ \A k \in 1 .. n : more[k] = plans[k]
  OBVIOUS
<1>2. s \in Seq(Seq(ByteRange)) /\ Len(s) = n
  BY PartListTyped
<1>3. t \in Seq(Seq(ByteRange)) /\ Len(t) = n + 1
  BY <1>1, PartListTyped
<1>4. t[n + 1] = PartsOf(c) /\ \A k \in 1 .. n : t[k] = s[k]
  BY <1>1
<1>5. FlattenSeq(s) = PartsIn(plans) /\ FlattenSeq(t) = PartsIn(more)
  BY DEF PartsIn
<1> HIDE DEF n, s, t, more
<1>6. FlattenSeq(t) = FlattenSeq(s) \o t[Len(t)]
  <2>1. \A i \in 1 .. Len(s) : t[i] = s[i]
    BY <1>2, <1>4
  <2>2. Len(t) = Len(s) + 1
    BY <1>2, <1>3
  <2> QED
    BY <1>2, <1>3, <2>1, <2>2, FlattenLast
<1> QED
  BY <1>3, <1>4, <1>5, <1>6 DEF more

(* A field that is not payload leaves the payload as it is.                *)
LEMMA PayloadKept ==
  ASSUME NEW r, NEW t, NEW names, Continues(r, t, names), "payload" \notin names
  PROVE  PayloadOf(t) = PayloadOf(r)
BY DEF PayloadOf, Continues

(* Where neither the chunks nor the payload change.                        *)
LEMMA TiledStays ==
  ASSUME PayloadTiled, NEW names, Continues(read, read', names), "payload" \notin names,
         PartsIn(PlansLocated') = PartsIn(PlansLocated)
  PROVE  PayloadTiled'
<1>1. PayloadOf(read') = PayloadOf(read)
  BY PayloadKept
<1>2. Tiles(PartsIn(PlansLocated), PayloadOf(read))
  BY TiledMeans
<1>3. Tiles(PartsIn(PlansLocated'), PayloadOf(read'))
  BY <1>1, <1>2
<1>4. PayloadParts' = PartsIn(PlansLocated')
  BY DEF PayloadParts, PartsIn, PartsOf, NodeHeaders
<1> QED
  BY <1>3, <1>4 DEF PayloadTiled, Tiles, PayloadOf

(* The payload of a chunk extends the tiling.                              *)
LEMMA PayloadTiledRead ==
  ASSUME Base, PayloadTiled, ReadPayload, phase' # "done"
  PROVE  PayloadTiled'
<1> DEFINE n == Len(read)
           bytes == PayloadBytes(chunk)
           d == Located(chunk, n)
           X == PayloadOf(read)
           Y == n + 1 .. n + bytes
<1>1. /\ phase = "payload" /\ chunks' = chunks /\ chunk' = d /\ bytes \in Nat
      /\ Continues(read, read', {"payload"}) /\ Len(read') = n + bytes
  BY ReadPayloadSteps
<1>2. n \in Nat /\ n >= 1 /\ chunk \in Plan /\ chunks \in Seq(Plan)
  BY <1>1, BeforeChunkStep DEF ChunkPhases
<1>3. chunk.nodes = BuildNodes(Fields(chunk)) /\ chunk.headers.start = 0
  BY <1>1 DEF Base, ChunkAsRead, NodesRead
<1>4. d \in Plan /\ d.headers.start = n
  <2>1. d.headers = [start |-> n, len |-> TransformHeader(chunk)] /\ d \in Plan
    BY <1>2, LocatedIsPlan
  <2> HIDE DEF d
  <2> QED
    BY <2>1
<1>5. PlansLocated = chunks
  BY <1>3 DEF PlansLocated
<1>6. PlansLocated' = Append(chunks, d)
  BY <1>1, <1>2, <1>4 DEF PlansLocated
<1>7. Tiles(PartsOf(d), Y)
  BY <1>2, <1>3, ChunkTiled
<1>8. Tiles(PartsIn(chunks), X)
  BY <1>5, TiledMeans
<1>9. X \cap Y = {} /\ PayloadOf(read') = X \cup Y
  <2>1. DOMAIN read = 1 .. n /\ DOMAIN read' = 1 .. n + bytes
    BY <1>1 DEF Continues
  <2>2. \A i \in n + 1 .. n + bytes : read'[i].field = "payload"
    BY <1>1 DEF Continues
  <2>3. \A i \in 1 .. n : read'[i] = read[i]
    BY <1>1 DEF Continues
  <2> QED
    BY <1>1, <1>2, <2>1, <2>2, <2>3 DEF PayloadOf
<1> HIDE DEF n, bytes, d, X, Y
<1>10. Tiles(PartsIn(chunks) \o PartsOf(d), X \cup Y)
  <2>1. PartsIn(chunks) \in Seq(ByteRange) /\ PartsOf(d) \in Seq(ByteRange)
    BY <1>2, <1>4, PartListTyped, PartsTyped
  <2> QED
    BY <1>7, <1>8, <1>9, <2>1, TilesJoin
<1>11. Tiles(PartsIn(PlansLocated'), PayloadOf(read'))
  BY <1>2, <1>4, <1>6, <1>9, <1>10, PartsAdded
<1>12. PayloadParts' = PartsIn(PlansLocated')
  BY DEF PayloadParts, PartsIn, PartsOf, NodeHeaders
<1> QED
  BY <1>11, <1>12 DEF PayloadTiled, Tiles, PayloadOf

LEMMA PayloadTiledStep ==
  ASSUME Base, PayloadTiled, Next
  PROVE  PayloadTiled'
<1>1. ASSUME UNCHANGED <<chunk, chunks>>, NEW names, Continues(read, read', names),
             "payload" \notin names
      PROVE  PayloadTiled'
  <2>1. PlansLocated' = PlansLocated
    BY <1>1 DEF PlansLocated
  <2> QED
    BY <1>1, <2>1, TiledStays
<1>2. ASSUME chunks' = chunks, chunk.headers.start = 0, chunk'.headers.start = 0,
             NEW names, Continues(read, read', names), "payload" \notin names
      PROVE  PayloadTiled'
  <2>1. PlansLocated' = PlansLocated
    BY <1>2 DEF PlansLocated
  <2> QED
    BY <1>2, <2>1, TiledStays
<1>3. Continues(read, read, {})
  BY ReadStays DEF Base
<1>4. phase \notin {"checksums", "done"} => chunk.headers.start = 0
  BY DEF Base, ChunkAsRead
<1>5. Base' => (phase' \notin {"checksums", "done"} => chunk'.headers.start = 0)
  BY DEF Base, ChunkAsRead
<1>6. CASE phase' # "done" /\ HeaderAction
  <2>1. HeaderMoves
    BY <1>6, HeaderSteps
  <2> QED
    BY <1>1, <2>1 DEF HeaderMoves, HeaderStep, FieldNames
<1>7. CASE phase' # "done" /\ ReadCounts
  <2>1. /\ phase = "chunks" /\ phase' \in {"chunk flags", "graph"} /\ chunks' = chunks /\ Base'
        /\ Continues(read, read', {"nodes", "streams"})
    BY <1>7, ReadCountsSteps
  <2> QED
    BY <1>2, <1>4, <1>5, <2>1
<1>8. CASE ReadChunkFlags
  BY <1>1, <1>8, ReadChunkFlagsSteps
<1>9. CASE phase' # "done" /\ ReadGraph
  <2>1. /\ phase = "graph" /\ phase' = "stored" /\ chunks' = chunks /\ Base'
        /\ Continues(read, read', {"graph"})
    BY <1>9, ReadGraphSteps
  <2> QED
    BY <1>2, <1>4, <1>5, <2>1
<1>10. CASE phase' # "done" /\ ReadStoredSizes
  <2>1. /\ phase = "stored" /\ phase' = "summary" /\ chunks' = chunks /\ Base'
        /\ Continues(read, read', {"stored"})
    BY <1>10, ReadStoredSizesSteps
  <2> QED
    BY <1>2, <1>4, <1>5, <2>1
<1>11. CASE phase' # "done" /\ CountChunk
  <2>1. UNCHANGED <<read, chunk, chunks>>
    BY <1>11, CountChunkSteps
  <2> QED
    BY <1>1, <1>3, <2>1
<1>12. CASE phase' # "done" /\ ReadPayload
  BY <1>12, PayloadTiledRead
<1>13. CASE phase' # "done" /\ ReadChecksums
  <2> DEFINE c == [chunk EXCEPT !.decoded = "decoded" \in header.flags,
                                !.encoded = "encoded" \in header.flags]
  <2>1. /\ phase = "checksums" /\ chunk' = NoChunk /\ chunks' = Append(chunks, c)
        /\ Continues(read, read', {"decoded", "encoded"})
    BY <1>13, ReadChecksumsSteps
  <2>2. chunk \in Plan /\ chunks \in Seq(Plan)
    BY DEF Base, TypeOK
  <2>3. /\ c \in Plan /\ c.nodes = chunk.nodes /\ c.headers = chunk.headers
        /\ c.ranges = chunk.ranges
    <3> DEFINE D == "decoded" \in header.flags
               E == "encoded" \in header.flags
    <3>1. D \in BOOLEAN /\ E \in BOOLEAN
      OBVIOUS
    <3> HIDE DEF D, E
    <3>2. /\ [chunk EXCEPT !.decoded = D, !.encoded = E] \in Plan
          /\ [chunk EXCEPT !.decoded = D, !.encoded = E].nodes = chunk.nodes
          /\ [chunk EXCEPT !.decoded = D, !.encoded = E].headers = chunk.headers
          /\ [chunk EXCEPT !.decoded = D, !.encoded = E].ranges = chunk.ranges
      BY <2>2, <3>1 DEF Plan
    <3> QED
      BY <3>2 DEF D, E
  <2> HIDE DEF c
  <2>4. PartsOf(c) = PartsOf(chunk)
    BY <2>3 DEF PartsOf, NodeHeaders
  <2>5. PartsIn(Append(chunks, c)) = PartsIn(Append(chunks, chunk))
    BY <2>2, <2>3, <2>4, PartsAdded
  <2>6. PlansLocated' = Append(chunks, c)
    BY <2>1, NoChunkIsPlan DEF PlansLocated
  <2>7. chunk.headers.start > 0
    BY <2>1 DEF Base, ChunkAsRead
  <2>8. PlansLocated = Append(chunks, chunk)
    BY <2>7 DEF PlansLocated
  <2> QED
    BY <2>1, <2>5, <2>6, <2>8, TiledStays
<1>14. CASE EndChunks
  <2>1. UNCHANGED <<chunk, chunks>> /\ Continues(read, read', {"end"})
    BY <1>14, EndChunksSteps
  <2> QED
    BY <1>1, <2>1
<1>15. CASE Refusal /\ Continues(read, read', FieldNames)
  BY <1>1, <1>15 DEF Refusal, Fail, FieldNames
<1>16. CASE Finishing
  <2>1. UNCHANGED <<read, chunk, chunks>>
    BY <1>16, FinishingEnds DEF Ends
  <2> QED
    BY <1>1, <1>3, <2>1
<1> QED
  BY <1>6, <1>7, <1>8, <1>9, <1>10, <1>11, <1>12, <1>13, <1>14, <1>15, <1>16, StepCases

(* Whatever frame is read, and however far: the node headers and stored    *)
(* streams of its chunks share no byte and leave no payload byte out       *)
(* (ChunkPlan::set_payload_start).                                         *)
THEOREM PayloadIsTiled == Spec => []PayloadTiled
<1>1. Init => PayloadTiled
  <2> SUFFICES ASSUME Init PROVE PayloadTiled
    OBVIOUS
  <2>1. read = <<>> /\ chunks = <<>> /\ chunk = NoChunk
    BY DEF Init
  <2>2. PlansLocated = <<>>
    BY <2>1, NoChunkIsPlan DEF PlansLocated
  <2>3. PayloadOf(read) = {}
    BY <2>1 DEF PayloadOf
  <2>4. PartsIn(<<>>) = <<>>
    <3> DEFINE s == [k \in DOMAIN <<>> |-> PartsOf(<<>>[k])]
    <3>1. s = <<>>
      OBVIOUS
    <3>2. Len(s) = 0 /\ PartsIn(<<>>) = FlattenSeq(s)
      BY <3>1 DEF PartsIn
    <3> HIDE DEF s
    <3> QED
      BY <3>1, <3>2, FlattenEmpty
  <2> QED
    BY <2>2, <2>3, <2>4, TilesNothing, TiledMeans
<1>2. Base /\ PayloadTiled /\ [Next]_vars => PayloadTiled'
  <2> SUFFICES ASSUME Base, PayloadTiled, [Next]_vars PROVE PayloadTiled'
    OBVIOUS
  <2>1. CASE Next
    BY <2>1, PayloadTiledStep
  <2>2. CASE UNCHANGED vars
    <3>1. PlansLocated' = PlansLocated /\ Continues(read, read', {})
      BY <2>2, ReadStays DEF vars, PlansLocated, Base
    <3> QED
      BY <3>1, TiledStays
  <2> QED
    BY <2>1, <2>2
<1>3. Spec => []Base
  BY ReadingInvariant, PTL
<1> QED
  BY <1>1, <1>2, <1>3, PTL DEF Spec

-----------------------------------------------------------------------------
(* The shortcut, field by field.                                           *)
Again(r, i) == \E j \in 1 .. i - 1 : r[j].field = "graph"

LEMMA FastHeaderField ==
  ASSUME NEW r, NEW i, NEW trailing
  PROVE  /\ r[i].field = "magic" =>
              FastField(r, i, trailing) = IF r[i].value \notin 8 .. 27 THEN "error"
                                          ELSE IF r[i].value >= 21 THEN "go" ELSE "none"
         /\ r[i].field = "flags" =>
              FastField(r, i, trailing) =
                IF FromByte(r[i].value, r[1].value) \cap {"comment", "bundle"} = {} THEN "go" ELSE "none"
         /\ r[i].field = "outputs" =>
              FastField(r, i, trailing) = IF r[i].value # <<"Serial">> THEN "none"
                                          ELSE IF MaxStreams >= 1 THEN "go" ELSE "error"
         /\ r[i].field = "size" =>
              FastField(r, i, trailing) = IF FastSizeFits(r[i].value) THEN "go" ELSE "error"
         /\ r[i].field \in {"sum", "encoded"} =>
              FastField(r, i, trailing) = IF verify => r[i].value THEN "go" ELSE "error"
         /\ r[i].field \in {"strings", "decoded", "payload"} => FastField(r, i, trailing) = "go"
<1>1. ASSUME r[i].field = "magic"
      PROVE  FastField(r, i, trailing) = IF r[i].value \notin 8 .. 27 THEN "error"
                                         ELSE IF r[i].value >= 21 THEN "go" ELSE "none"
  BY <1>1 DEF FastField
<1>2. ASSUME r[i].field = "flags"
      PROVE  FastField(r, i, trailing) =
               IF FromByte(r[i].value, r[1].value) \cap {"comment", "bundle"} = {} THEN "go" ELSE "none"
  BY <1>2 DEF FastField
<1>3. ASSUME r[i].field = "outputs"
      PROVE  FastField(r, i, trailing) = IF r[i].value # <<"Serial">> THEN "none"
                                         ELSE IF MaxStreams >= 1 THEN "go" ELSE "error"
  BY <1>3 DEF FastField
<1>4. ASSUME r[i].field = "size"
      PROVE  FastField(r, i, trailing) = IF FastSizeFits(r[i].value) THEN "go" ELSE "error"
  BY <1>4 DEF FastField
<1>5. ASSUME r[i].field \in {"sum", "encoded"}
      PROVE  FastField(r, i, trailing) = IF verify => r[i].value THEN "go" ELSE "error"
  BY <1>5 DEF FastField
<1>6. ASSUME r[i].field \in {"strings", "decoded", "payload"}
      PROVE  FastField(r, i, trailing) = "go"
  BY <1>6 DEF FastField
<1> QED
  BY <1>1, <1>2, <1>3, <1>4, <1>5, <1>6

FastNode(n) == n.id = "zstd" /\ n.header = 0 /\ n.regens = 1 /\ n.plain

FastUnknown(n, v) == n.id = "zstd" /\ ~Known(n, v)
FastStores(size)  == size <= MaxBufferBytes /\ size <= MaxStoredStreamBytes

LEMMA FastNodes ==
  ASSUME NEW r, NEW i, NEW trailing, r[i].field = "nodes"
  PROVE  FastField(r, i, trailing) = IF Again(r, i) THEN "none" ELSE "go"
BY DEF FastField, Again

LEMMA FastLongZero ==
  ASSUME NEW r, NEW i, NEW trailing, r[i].field = "long zero"
  PROVE  FastField(r, i, trailing) = IF Again(r, i) THEN "none" ELSE "error"
BY DEF FastField, Again

LEMMA FastStreams ==
  ASSUME NEW r, NEW i, NEW trailing, r[i].field = "streams"
  PROVE  FastField(r, i, trailing) = IF r[i].value # 1 \/ r[i - 1].value # 1 THEN "none"
                                    ELSE IF MayDecodeOne THEN "go" ELSE "error"
BY DEF FastField, MayDecodeOne

LEMMA FastGraph ==
  ASSUME NEW r, NEW i, NEW trailing, r[i].field = "graph"
  PROVE  FastField(r, i, trailing) = IF FastUnknown(r[i].value[1], r[1].value) THEN "error"
                                    ELSE IF FastNode(r[i].value[1]) THEN "go" ELSE "none"
BY DEF FastField, FastNode, FastUnknown

LEMMA FastStored ==
  ASSUME NEW r, NEW i, NEW trailing, r[i].field = "stored"
  PROVE  FastField(r, i, trailing) = IF FastStores(r[i].value[1]) THEN "go" ELSE "error"
BY DEF FastField, FastStores

LEMMA FastEnd ==
  ASSUME NEW r, NEW i, NEW trailing, r[i].field = "end"
  PROVE  FastField(r, i, trailing) = IF Again(r, i) /\ ~trailing THEN "frame" ELSE "none"
BY DEF FastField, Again

LEMMA FastOtherField ==
  ASSUME NEW r, NEW i, NEW trailing,
         r[i].field \notin {"magic", "flags", "outputs", "size", "sum", "encoded", "nodes",
                            "long zero", "streams", "graph", "stored", "end"}
  PROVE  FastField(r, i, trailing) = "go"
BY DEF FastField

(* What it says of a field depends on the fields up to it.                 *)
LEMMA FastLooksBack ==
  ASSUME NEW r, NEW t, NEW i \in Nat, i >= 1, \A j \in 1 .. i : t[j] = r[j],
         i = 1 => r[i].field = "magic", NEW trailing
  PROVE  FastField(t, i, trailing) = FastField(r, i, trailing)
<1>1. t[i] = r[i] /\ t[1] = r[1]
  OBVIOUS
<1>2. Again(t, i) <=> Again(r, i)
  BY DEF Again
<1>3. r[i].field # "magic" => t[i - 1] = r[i - 1]
  OBVIOUS
<1>4. CASE r[i].field \in {"magic", "flags", "outputs", "size", "sum", "encoded"}
  BY <1>1, <1>4, FastHeaderField
<1>10. CASE r[i].field = "nodes"
  BY <1>1, <1>2, <1>10, FastNodes
<1>11. CASE r[i].field = "long zero"
  BY <1>1, <1>2, <1>11, FastLongZero
<1>12. CASE r[i].field = "streams"
  BY <1>1, <1>3, <1>12, FastStreams
<1>13. CASE r[i].field = "graph"
  BY <1>1, <1>13, FastGraph
<1>14. CASE r[i].field = "stored"
  BY <1>1, <1>14, FastStored
<1>15. CASE r[i].field = "end"
  BY <1>1, <1>2, <1>15, FastEnd
<1>7. CASE r[i].field \notin {"magic", "flags", "outputs", "size", "sum", "encoded", "nodes",
                            "long zero", "streams", "graph", "stored", "end"}
  <2>1. FastField(r, i, trailing) = "go"
    BY <1>7, FastOtherField
  <2>2. FastField(t, i, trailing) = "go"
    BY <1>1, <1>7, FastOtherField
  <2> QED
    BY <2>1, <2>2
<1> QED
  BY <1>4, <1>7, <1>10, <1>11, <1>12, <1>13, <1>14, <1>15

(* What it says of an input is what it says of the first field that does   *)
(* not make it go on.                                                      *)
Stops(r, trailing, i) ==
  /\ i \in DOMAIN r /\ FastField(r, i, trailing) # "go"
  /\ \A j \in 1 .. i - 1 : FastField(r, j, trailing) = "go"

LEMMA FastStops ==
  ASSUME NEW r, IsRead(r), NEW trailing, NEW i, Stops(r, trailing, i)
  PROVE  FastVerdict(r, trailing) = FastField(r, i, trailing)
<1>1. Len(r) \in Nat /\ DOMAIN r = 1 .. Len(r)
  BY DEF IsRead
<1>2. \A k \in DOMAIN r : Stops(r, trailing, k) => k = i
  BY <1>1 DEF Stops
<1>3. i \in DOMAIN r
  BY DEF Stops
<1> DEFINE first == CHOOSE k \in DOMAIN r :
                      ~(FastField(r, k, trailing) = "go")
                      /\ \A j \in 1 .. k - 1 : FastField(r, j, trailing) = "go"
<1>4. first = i
  BY <1>2, <1>3 DEF Stops
<1>5. FastVerdict(r, trailing) =
        IF \A k \in DOMAIN r : FastField(r, k, trailing) = "go" THEN "go"
        ELSE FastField(r, first, trailing)
  BY DEF FastVerdict
<1> QED
  BY <1>3, <1>4, <1>5 DEF Stops

LEMMA FastGoes ==
  ASSUME NEW r, NEW trailing, \A i \in DOMAIN r : FastField(r, i, trailing) = "go"
  PROVE  FastVerdict(r, trailing) = "go"
BY DEF FastVerdict

(* One of these two is the case.                                           *)
LEMMA FastCases ==
  ASSUME NEW r, IsRead(r), NEW trailing
  PROVE  \/ \A i \in DOMAIN r : FastField(r, i, trailing) = "go"
         \/ \E i \in DOMAIN r : Stops(r, trailing, i)
<1> SUFFICES ASSUME \E i \in DOMAIN r : FastField(r, i, trailing) # "go"
             PROVE  \E i \in DOMAIN r : Stops(r, trailing, i)
  OBVIOUS
<1>1. Len(r) \in Nat /\ DOMAIN r = 1 .. Len(r)
  BY DEF IsRead
<1> DEFINE S == {i \in DOMAIN r : FastField(r, i, trailing) # "go"}
<1>2. S \subseteq Nat /\ S # {}
  BY <1>1
<1>3. PICK m \in S : \A x \in S : m <= x
  <2> HIDE DEF S
  <2> QED
    BY <1>2, LeastElement
<1>4. Stops(r, trailing, m)
  BY <1>1, <1>3 DEF Stops
<1> QED
  BY <1>3, <1>4

(* Once it stopped, later fields do not matter;                            *)
LEMMA FastStaysStopped ==
  ASSUME NEW r, IsRead(r), NEW t, NEW names, Continues(r, t, names), NEW trailing,
         r # <<>> => r[1].field = "magic", FastVerdict(r, trailing) # "go"
  PROVE  FastVerdict(t, trailing) = FastVerdict(r, trailing)
<1>1. PICK i \in DOMAIN r : Stops(r, trailing, i)
  BY FastCases, FastGoes
<1>2. /\ Len(r) \in Nat /\ DOMAIN r = 1 .. Len(r) /\ IsRead(t) /\ DOMAIN t = 1 .. Len(t)
      /\ Len(t) \in Nat /\ Len(r) <= Len(t) /\ \A j \in 1 .. Len(r) : t[j] = r[j]
  BY DEF Continues
<1>3. r[1].field = "magic" /\ i \in 1 .. Len(r)
  BY <1>1, <1>2
<1>4. \A k \in 1 .. i : FastField(t, k, trailing) = FastField(r, k, trailing)
  <2> TAKE k \in 1 .. i
  <2>1. k \in Nat /\ k >= 1 /\ \A j \in 1 .. k : t[j] = r[j]
    BY <1>2, <1>3
  <2> QED
    BY <1>3, <2>1, FastLooksBack
<1>5. Stops(t, trailing, i)
  BY <1>1, <1>2, <1>3, <1>4 DEF Stops
<1>6. FastVerdict(t, trailing) = FastField(t, i, trailing)
  BY <1>2, <1>5, FastStops
<1>7. FastVerdict(r, trailing) = FastField(r, i, trailing)
  BY <1>1, FastStops
<1> QED
  BY <1>3, <1>4, <1>6, <1>7

(* where it goes on, the first of them that stops it does.                 *)
LEMMA FastGoesOn ==
  ASSUME NEW r, IsRead(r), NEW t, NEW names, Continues(r, t, names), NEW trailing,
         r # <<>> => r[1].field = "magic", FastVerdict(r, trailing) = "go"
  PROVE  /\ (\A i \in Len(r) + 1 .. Len(t) : FastField(t, i, trailing) = "go")
              => FastVerdict(t, trailing) = "go"
         /\ \A n \in Len(r) + 1 .. Len(t) :
              /\ FastField(t, n, trailing) # "go"
              /\ \A i \in Len(r) + 1 .. n - 1 : FastField(t, i, trailing) = "go"
              => FastVerdict(t, trailing) = FastField(t, n, trailing)
<1>1. /\ Len(r) \in Nat /\ DOMAIN r = 1 .. Len(r) /\ IsRead(t) /\ DOMAIN t = 1 .. Len(t)
      /\ Len(t) \in Nat /\ Len(r) <= Len(t) /\ \A j \in 1 .. Len(r) : t[j] = r[j]
  BY DEF Continues
<1>2. \A i \in DOMAIN r : FastField(r, i, trailing) = "go"
  <2>1. \A i \in DOMAIN r : ~Stops(r, trailing, i)
    BY FastStops DEF Stops
  <2> QED
    BY <2>1, FastCases
<1>3. \A k \in 1 .. Len(r) : FastField(t, k, trailing) = "go"
  <2> TAKE k \in 1 .. Len(r)
  <2>1. k \in Nat /\ k >= 1 /\ \A j \in 1 .. k : t[j] = r[j]
    BY <1>1
  <2>2. r[1].field = "magic"
    BY <1>1
  <2>3. FastField(t, k, trailing) = FastField(r, k, trailing)
    BY <2>1, <2>2, FastLooksBack
  <2> QED
    BY <1>1, <1>2, <2>3
<1>4. ASSUME \A i \in Len(r) + 1 .. Len(t) : FastField(t, i, trailing) = "go"
      PROVE  FastVerdict(t, trailing) = "go"
  <2>1. \A i \in DOMAIN t : FastField(t, i, trailing) = "go"
    BY <1>1, <1>3, <1>4
  <2> QED
    BY <2>1, FastGoes
<1>5. ASSUME NEW n \in Len(r) + 1 .. Len(t), FastField(t, n, trailing) # "go",
             \A i \in Len(r) + 1 .. n - 1 : FastField(t, i, trailing) = "go"
      PROVE  FastVerdict(t, trailing) = FastField(t, n, trailing)
  <2>1. \A i \in 1 .. n - 1 : FastField(t, i, trailing) = "go"
    BY <1>1, <1>3, <1>5
  <2>2. Stops(t, trailing, n)
    BY <1>1, <1>5, <2>1 DEF Stops
  <2> QED
    BY <1>1, <2>2, FastStops
<1> QED
  BY <1>4, <1>5

LEMMA FastOneMore ==
  ASSUME NEW r, IsRead(r), NEW t, NEW names, Continues(r, t, names), NEW trailing,
         r # <<>> => r[1].field = "magic", FastVerdict(r, trailing) = "go", Len(t) = Len(r) + 1
  PROVE  FastVerdict(t, trailing) = FastField(t, Len(t), trailing)
<1>1. Len(r) \in Nat /\ Len(t) \in Nat
  BY DEF Continues
<1>2. \A i \in Len(r) + 1 .. Len(t) : i = Len(t)
  BY <1>1
<1>3. CASE FastField(t, Len(t), trailing) = "go"
  <2>1. \A i \in Len(r) + 1 .. Len(t) : FastField(t, i, trailing) = "go"
    BY <1>2, <1>3
  <2> QED
    BY <1>3, <2>1, FastGoesOn
<1>4. CASE FastField(t, Len(t), trailing) # "go"
  <2>1. Len(t) \in Len(r) + 1 .. Len(t) /\ \A i \in Len(r) + 1 .. Len(t) - 1 : FastField(t, i, trailing) = "go"
    BY <1>1
  <2> QED
    BY <1>4, <2>1, FastGoesOn
<1> QED
  BY <1>3, <1>4

(* Bytes after the end only take frames back.                              *)
LEMMA FastTrailing ==
  ASSUME NEW r, IsRead(r), FastVerdict(r, FALSE) # "go"
  PROVE  FastVerdict(r, TRUE) = IF FastVerdict(r, FALSE) = "frame" THEN "none"
                                ELSE FastVerdict(r, FALSE)
<1>1. PICK i \in DOMAIN r : Stops(r, FALSE, i)
  BY FastCases, FastGoes
<1>2. \A k : FastField(r, k, TRUE) = IF FastField(r, k, FALSE) = "frame" THEN "none"
                                     ELSE FastField(r, k, FALSE)
  <2> TAKE k
  <2>1. CASE r[k].field \in {"magic", "flags", "outputs", "size", "sum", "encoded"}
    <3>1. CASE r[k].field = "magic"
      BY <3>1, FastHeaderField
    <3>2. CASE r[k].field = "flags"
      BY <3>2, FastHeaderField
    <3>3. CASE r[k].field = "outputs"
      BY <3>3, FastHeaderField
    <3>4. CASE r[k].field = "size"
      BY <3>4, FastHeaderField
    <3>5. CASE r[k].field = "sum"
      BY <3>5, FastHeaderField
    <3>6. CASE r[k].field = "encoded"
      BY <3>6, FastHeaderField
    <3> QED
      BY <2>1, <3>1, <3>2, <3>3, <3>4, <3>5, <3>6
  <2>2. CASE r[k].field \in {"nodes", "long zero", "streams", "graph", "stored"}
    <3>1. CASE r[k].field = "nodes"
      BY <3>1, FastNodes
    <3>2. CASE r[k].field = "long zero"
      BY <3>2, FastLongZero
    <3>3. CASE r[k].field = "streams"
      BY <3>3, FastStreams
    <3>4. CASE r[k].field = "graph"
      BY <3>4, FastGraph
    <3>5. CASE r[k].field = "stored"
      BY <3>5, FastStored
    <3> QED
      BY <2>2, <3>1, <3>2, <3>3, <3>4, <3>5
  <2>3. CASE r[k].field = "end"
    BY <2>3, FastEnd
  <2>4. CASE r[k].field \notin {"magic", "flags", "outputs", "size", "sum", "encoded", "nodes",
                              "long zero", "streams", "graph", "stored", "end"}
    BY <2>4, FastOtherField
  <2> QED
    BY <2>1, <2>2, <2>3, <2>4
<1>3. Stops(r, TRUE, i)
  <2>1. FastField(r, i, TRUE) # "go"
    BY <1>1, <1>2 DEF Stops
  <2>2. \A j \in 1 .. i - 1 : FastField(r, j, TRUE) = "go"
    BY <1>1, <1>2 DEF Stops
  <2> QED
    BY <1>1, <2>1, <2>2 DEF Stops
<1>4. FastVerdict(r, TRUE) = FastField(r, i, TRUE) /\ FastVerdict(r, FALSE) = FastField(r, i, FALSE)
  BY <1>1, <1>3, FastStops
<1> QED
  BY <1>2, <1>4

-----------------------------------------------------------------------------
(* What was read of the chunks, step by step.                              *)
LEMMA FieldKept ==
  ASSUME NEW r, NEW t, NEW names, Continues(r, t, names), NEW name, name \notin names
  PROVE  HasField(t, name) <=> HasField(r, name)
BY DEF HasField, Continues

LEMMA FieldAdded ==
  ASSUME NEW r, NEW t, NEW names, Continues(r, t, names), NEW i \in Len(r) + 1 .. Len(t),
         NEW name, t[i].field = name
  PROVE  HasField(t, name)
BY DEF HasField, Continues

ChunkFields == {"graph", "decoded", "stored"}

(* A step that adds none of them and leaves the chunks as they are.        *)
LEMMA FieldsReadOn ==
  ASSUME FieldsRead, NEW names, Continues(read, read', names), names \cap ChunkFields = {},
         chunks' = chunks, NodesRead' <=> NodesRead,
         phase \in {"summary", "payload", "checksums"} =>
           phase' \in {"summary", "payload", "checksums"} \/ chunks # <<>>
  PROVE  FieldsRead'
<1>1. /\ HasField(read', "graph") <=> HasField(read, "graph")
      /\ HasField(read', "decoded") <=> HasField(read, "decoded")
      /\ HasField(read', "stored") <=> HasField(read, "stored")
  BY FieldKept DEF ChunkFields
<1>2. HasField(read', "graph") <=> NodesRead' \/ chunks' # <<>>
  BY <1>1 DEF FieldsRead
<1>3. HasField(read', "decoded") <=> \E i \in DOMAIN chunks' : chunks'[i].decoded
  BY <1>1 DEF FieldsRead
<1>4. HasField(read', "stored") =>
        phase' \in {"summary", "payload", "checksums"} \/ chunks' # <<>>
  BY <1>1 DEF FieldsRead
<1> QED
  BY <1>2, <1>3, <1>4 DEF FieldsRead

(* The chunk that is complete is the last of them.                         *)
LEMMA ChunkCompleted ==
  ASSUME Base, ReadChecksums, phase' # "done", NEW c,
         c = [chunk EXCEPT !.decoded = "decoded" \in header.flags,
                           !.encoded = "encoded" \in header.flags]
  PROVE  /\ phase = "checksums" /\ phase' = "chunks" /\ chunks' = Append(chunks, c)
         /\ chunks \in Seq(Plan) /\ Len(chunks) \in Nat /\ DOMAIN chunks' = 1 .. Len(chunks) + 1
         /\ Len(chunks') = Len(chunks) + 1 /\ DOMAIN chunks = 1 .. Len(chunks)
         /\ chunks'[Len(chunks) + 1] = c /\ \A i \in 1 .. Len(chunks) : chunks'[i] = chunks[i]
         /\ chunks' # <<>>
         /\ c \in Plan /\ c.nodes = chunk.nodes /\ c.sizes = chunk.sizes /\ c.ranges = chunk.ranges
         /\ c.decoded = ("decoded" \in header.flags)
         /\ Len(c.nodes) = chunk.transforms /\ Len(c.sizes) = chunk.stored
<1>1. phase = "checksums" /\ phase' = "chunks" /\ chunks' = Append(chunks, c)
  BY ReadChecksumsSteps
<1>2. chunk \in Plan /\ chunks \in Seq(Plan)
  BY DEF Base, TypeOK
<1>3. Len(chunk.nodes) = chunk.transforms /\ Len(chunk.sizes) = chunk.stored
  BY <1>1 DEF Base, TypeOK
<1>4. /\ c \in Plan /\ c.nodes = chunk.nodes /\ c.sizes = chunk.sizes /\ c.ranges = chunk.ranges
      /\ c.decoded = ("decoded" \in header.flags)
  <2> DEFINE D == "decoded" \in header.flags
             E == "encoded" \in header.flags
  <2>1. D \in BOOLEAN /\ E \in BOOLEAN /\ c = [chunk EXCEPT !.decoded = D, !.encoded = E]
    OBVIOUS
  <2> HIDE DEF D, E
  <2>2. /\ c \in Plan /\ c.nodes = chunk.nodes /\ c.sizes = chunk.sizes
        /\ c.ranges = chunk.ranges /\ c.decoded = D
    BY <1>2, <2>1 DEF Plan
  <2> QED
    BY <2>2 DEF D
<1>5. /\ Len(chunks) \in Nat /\ DOMAIN chunks' = 1 .. Len(chunks) + 1
      /\ Len(chunks') = Len(chunks) + 1 /\ DOMAIN chunks = 1 .. Len(chunks)
      /\ chunks'[Len(chunks) + 1] = c /\ \A i \in 1 .. Len(chunks) : chunks'[i] = chunks[i]
      /\ chunks' # <<>>
  BY <1>1, <1>2, <1>4
<1> QED
  BY <1>1, <1>2, <1>3, <1>4, <1>5

LEMMA FieldsReadStep ==
  ASSUME Base, FieldsRead, Next, phase' # "done"
  PROVE  FieldsRead'
<1> USE DEF ChunkFields, NodesRead
<1>1. CASE HeaderAction /\ ~ReadHeaderChecksum
  <2>1. HeaderMoves /\ Continues(read, read', PlainFields)
    BY <1>1, HeaderSteps, HeaderReads
  <2>2. chunks' = chunks /\ ~NodesRead /\ ~NodesRead'
        /\ phase \notin {"summary", "payload", "checksums"}
    BY <2>1 DEF HeaderMoves, HeaderStep, HeaderPhases
  <2> QED
    BY <2>1, <2>2, FieldsReadOn DEF PlainFields
<1>2. CASE ReadHeaderChecksum
  <2>1. HeaderMoves
    BY <1>2, HeaderSteps DEF HeaderAction
  <2>2. Continues(read, read', {"sum"})
    <3>1. PICK matches \in BOOLEAN : Take("sum", matches)
      BY <1>2 DEF ReadHeaderChecksum
    <3> QED
      BY <3>1, Taken DEF Base
  <2>3. chunks' = chunks /\ ~NodesRead /\ ~NodesRead'
        /\ phase \notin {"summary", "payload", "checksums"}
    BY <2>1 DEF HeaderMoves, HeaderStep, HeaderPhases
  <2> QED
    BY <2>2, <2>3, FieldsReadOn
<1>3. CASE ReadCounts
  <2>1. /\ phase = "chunks" /\ phase' \in {"chunk flags", "graph"} /\ chunks' = chunks
        /\ Continues(read, read', {"nodes", "streams"})
    BY <1>3, ReadCountsSteps
  <2> QED
    BY <2>1, FieldsReadOn
<1>4. CASE ReadChunkFlags
  <2>1. /\ phase = "chunk flags" /\ phase' = "graph" /\ chunks' = chunks
        /\ Continues(read, read', {"flags"})
    BY <1>4, ReadChunkFlagsSteps
  <2> QED
    BY <2>1, FieldsReadOn
<1>5. CASE ReadGraph
  <2>1. /\ phase = "graph" /\ phase' = "stored" /\ chunks' = chunks
        /\ Continues(read, read', {"graph"}) /\ Len(read') = Len(read) + 1
        /\ read'[Len(read) + 1] = [field |-> "graph", value |-> Fields(chunk')]
    BY <1>5, ReadGraphSteps
  <2>2. HasField(read', "graph")
    <3>1. Len(read) + 1 \in Len(read) + 1 .. Len(read') /\ read'[Len(read) + 1].field = "graph"
      BY <2>1 DEF Continues
    <3> QED
      BY <2>1, <3>1, FieldAdded
  <2>3. /\ HasField(read', "decoded") <=> HasField(read, "decoded")
        /\ HasField(read', "stored") <=> HasField(read, "stored")
    BY <2>1, FieldKept
  <2>4. HasField(read', "graph") <=> NodesRead' \/ chunks' # <<>>
    BY <2>1, <2>2
  <2>5. HasField(read', "decoded") <=> \E i \in DOMAIN chunks' : chunks'[i].decoded
    BY <2>1, <2>3 DEF FieldsRead
  <2>6. HasField(read', "stored") =>
          phase' \in {"summary", "payload", "checksums"} \/ chunks' # <<>>
    BY <2>1, <2>3 DEF FieldsRead
  <2> QED
    BY <2>4, <2>5, <2>6 DEF FieldsRead
<1>6. CASE ReadStoredSizes
  <2>1. /\ phase = "stored" /\ phase' = "summary" /\ chunks' = chunks
        /\ Continues(read, read', {"stored"})
    BY <1>6, ReadStoredSizesSteps
  <2>2. /\ HasField(read', "decoded") <=> HasField(read, "decoded")
        /\ HasField(read', "graph") <=> HasField(read, "graph")
    BY <2>1, FieldKept
  <2>3. HasField(read', "graph") <=> NodesRead' \/ chunks' # <<>>
    BY <2>1, <2>2 DEF FieldsRead
  <2>4. HasField(read', "decoded") <=> \E i \in DOMAIN chunks' : chunks'[i].decoded
    BY <2>1, <2>2 DEF FieldsRead
  <2> QED
    BY <2>1, <2>3, <2>4 DEF FieldsRead
<1>7. CASE CountChunk
  <2>1. phase = "summary" /\ phase' = "payload" /\ UNCHANGED <<read, chunks>>
    BY <1>7, CountChunkSteps
  <2>2. Continues(read, read', {})
    BY <2>1, ReadStays DEF Base
  <2> QED
    BY <2>1, <2>2, FieldsReadOn
<1>8. CASE ReadPayload
  <2>1. /\ phase = "payload" /\ phase' = "checksums" /\ chunks' = chunks
        /\ Continues(read, read', {"payload"})
    BY <1>8, ReadPayloadSteps
  <2> QED
    BY <2>1, FieldsReadOn
<1>9. CASE ReadChecksums
  <2> DEFINE c == [chunk EXCEPT !.decoded = "decoded" \in header.flags,
                                !.encoded = "encoded" \in header.flags]
             n == Len(chunks)
  <2>1. /\ phase = "checksums" /\ phase' = "chunks" /\ n \in Nat
        /\ DOMAIN chunks' = 1 .. n + 1 /\ DOMAIN chunks = 1 .. n
        /\ chunks'[n + 1] = c /\ \A i \in 1 .. n : chunks'[i] = chunks[i]
        /\ chunks' # <<>> /\ c.decoded = ("decoded" \in header.flags)
    BY <1>9, ChunkCompleted
  <2>2. /\ Continues(read, read', {"decoded", "encoded"})
        /\ Len(read') = Len(read) + (IF "decoded" \in header.flags THEN 1 ELSE 0)
                                  + (IF "encoded" \in header.flags THEN 1 ELSE 0)
        /\ "decoded" \in header.flags => read'[Len(read) + 1] = [field |-> "decoded", value |-> 0]
        /\ "encoded" \in header.flags =>
             \E matches \in BOOLEAN : read'[Len(read')] = [field |-> "encoded", value |-> matches]
    BY <1>9, ReadChecksumsSteps
  <2> HIDE DEF c, n
  <2>3. HasField(read', "graph") <=> HasField(read, "graph")
    BY <2>2, FieldKept
  <2>4. HasField(read', "graph")
    BY <2>1, <2>3 DEF FieldsRead
  <2>5. (\E i \in DOMAIN chunks' : chunks'[i].decoded)
          <=> (\E i \in DOMAIN chunks : chunks[i].decoded) \/ "decoded" \in header.flags
    <3>1. ASSUME NEW i \in DOMAIN chunks', chunks'[i].decoded
          PROVE  (\E k \in DOMAIN chunks : chunks[k].decoded) \/ "decoded" \in header.flags
      <4>1. i \in 1 .. n \/ i = n + 1
        BY <2>1, <3>1
      <4>2. CASE i \in 1 .. n
        BY <2>1, <3>1, <4>2
      <4>3. CASE i = n + 1
        BY <2>1, <3>1, <4>3
      <4> QED
        BY <4>1, <4>2, <4>3
    <3>2. ASSUME NEW i \in DOMAIN chunks, chunks[i].decoded
          PROVE  \E k \in DOMAIN chunks' : chunks'[k].decoded
      <4>1. i \in DOMAIN chunks' /\ chunks'[i] = chunks[i]
        BY <2>1
      <4> QED
        BY <3>2, <4>1
    <3>3. ASSUME "decoded" \in header.flags PROVE \E k \in DOMAIN chunks' : chunks'[k].decoded
      <4>1. n + 1 \in DOMAIN chunks'
        BY <2>1
      <4>2. c.decoded
        BY <2>1, <3>3, Zenon
      <4>3. chunks'[n + 1].decoded
        BY <2>1, <4>2
      <4> QED
        BY <4>1, <4>3
    <3> QED
      BY <3>1, <3>2, <3>3
  <2>6. HasField(read', "decoded") <=> HasField(read, "decoded") \/ "decoded" \in header.flags
    <3>1. CASE "decoded" \in header.flags
      <4>1. Len(read) + 1 \in Len(read) + 1 .. Len(read') /\ read'[Len(read) + 1].field = "decoded"
        BY <2>2, <3>1 DEF Continues
      <4> QED
        BY <2>2, <3>1, <4>1, FieldAdded
    <3>2. CASE "decoded" \notin header.flags
      <4>1. \A i \in Len(read) + 1 .. Len(read') : read'[i].field = "encoded"
        <5>1. Len(read) \in Nat /\ Len(read') \in Nat
          BY <2>2 DEF Continues
        <5>2. CASE "encoded" \in header.flags
          <6>1. Len(read') = Len(read) + 1
            BY <2>2, <3>2, <5>1, <5>2
          <6>2. PICK matches \in BOOLEAN : read'[Len(read')] = [field |-> "encoded", value |-> matches]
            BY <2>2, <5>2
          <6>3. read'[Len(read')].field = "encoded"
            BY <6>2
          <6> QED
            BY <5>1, <6>1, <6>3
        <5>3. CASE "encoded" \notin header.flags
          <6>1. Len(read') = Len(read)
            BY <2>2, <3>2, <5>1, <5>3
          <6> QED
            BY <5>1, <6>1
        <5> QED
          BY <5>2, <5>3
      <4>2. Continues(read, read', {"encoded"})
        BY <2>2, <4>1 DEF Continues
      <4> QED
        BY <3>2, <4>2, FieldKept
    <3> QED
      BY <3>1, <3>2
  <2>7. HasField(read', "decoded") <=> \E i \in DOMAIN chunks' : chunks'[i].decoded
    BY <2>5, <2>6 DEF FieldsRead
  <2>8. HasField(read', "graph") <=> NodesRead' \/ chunks' # <<>>
    BY <2>1, <2>4
  <2> QED
    BY <2>1, <2>7, <2>8 DEF FieldsRead
<1>10. CASE EndChunks
  <2>1. /\ phase = "chunks" /\ phase' = "scanned" /\ chunks' = chunks
        /\ Continues(read, read', {"end"})
    BY <1>10, EndChunksSteps
  <2> QED
    BY <2>1, FieldsReadOn
<1> QED
  BY <1>1, <1>2, <1>3, <1>4, <1>5, <1>6, <1>7, <1>8, <1>9, <1>10, StepCases

-----------------------------------------------------------------------------
(* Where each step leads, and what it keeps of the header.                 *)
AfterMagic   == {"magic"}
AfterFlags   == {"magic", "flags"}
AfterOutputs == {"magic", "flags", "bundle", "outputs"}
AfterSize    == {"magic", "flags", "bundle", "outputs", "size"}

HeaderKeeps ==
  /\ phase \notin AfterMagic => V' = V
  /\ phase \notin AfterFlags \cup {"chunk flags"} => header'.flags = header.flags
  /\ phase \notin AfterOutputs => header'.types = header.types
  /\ phase \notin AfterSize => header'.sizes = header.sizes

Onward ==
  /\ phase' \notin AfterMagic
  /\ phase' \in AfterFlags => phase \in AfterMagic
  /\ phase' \in AfterOutputs => phase \in AfterOutputs
  /\ phase' \in AfterSize => phase \in AfterSize

LEMMA StepsOnward ==
  ASSUME Base, Next, phase' # "done"
  PROVE  HeaderKeeps /\ Onward
<1> USE DEF AfterMagic, AfterFlags, AfterOutputs, AfterSize
<1>0. header \in [version : Nat, flags : SUBSET Flags, types : Seq(Types), sizes : Seq(Nat),
                  strings : Seq(SUBSET Nat)]
  BY DEF Base, TypeOK
<1>1. CASE ReadMagic
  <2>1. phase = "magic" /\ phase' \in {"flags", "outputs"}
    BY <1>1 DEF ReadMagic, Proceed, Fail
  <2> QED
    BY <2>1 DEF HeaderKeeps, Onward
<1>2. CASE ReadFlags
  <2>1. PICK byte : /\ phase = "flags" /\ header' = [header EXCEPT !.flags = FromByte(byte, V)]
                    /\ phase' \in {"bundle", "outputs"}
    BY <1>2 DEF ReadFlags
  <2> QED
    BY <1>0, <2>1 DEF HeaderKeeps, Onward, V
<1>3. CASE ReadBundleId
  <2>1. phase = "bundle" /\ phase' = "outputs" /\ header' = header
    BY <1>3 DEF ReadBundleId, Proceed, Fail
  <2> QED
    BY <2>1 DEF HeaderKeeps, Onward, V
<1>4. CASE ReadOutputs
  <2>1. PICK types : /\ phase = "outputs" /\ header' = [header EXCEPT !.types = types]
                     /\ phase' = "size"
    BY <1>4 DEF ReadOutputs, Proceed, Fail
  <2> QED
    BY <1>0, <2>1 DEF HeaderKeeps, Onward, V
<1>5. CASE ReadSize
  <2>1. PICK sizes : /\ phase = "size" /\ header' = [header EXCEPT !.sizes = sizes]
                     /\ phase' \in {"size", "strings", "chunks"}
    BY <1>5 DEF ReadSize, Proceed, Fail
  <2> QED
    BY <1>0, <2>1 DEF HeaderKeeps, Onward, V
<1>6. CASE ReadStringCounts
  <2>1. PICK strings : /\ phase = "strings" /\ header' = [header EXCEPT !.strings = strings]
                       /\ phase' \in {"comment", "sum", "chunks"}
    BY <1>6 DEF ReadStringCounts, AfterStrings, AfterComment
  <2> QED
    BY <1>0, <2>1 DEF HeaderKeeps, Onward, V
<1>7. CASE ReadComment
  <2>1. phase = "comment" /\ phase' \in {"sum", "chunks"} /\ header' = header
    BY <1>7 DEF ReadComment, Proceed, Fail, AfterComment
  <2> QED
    BY <2>1 DEF HeaderKeeps, Onward, V
<1>8. CASE ReadHeaderChecksum
  <2>1. phase = "sum" /\ phase' = "chunks" /\ header' = header
    BY <1>8 DEF ReadHeaderChecksum, Proceed, Fail
  <2> QED
    BY <2>1 DEF HeaderKeeps, Onward, V
<1>9. CASE ReadChunkFlags
  <2>1. PICK flags : phase = "chunk flags" /\ phase' = "graph" /\ header' = [header EXCEPT !.flags = flags]
    BY <1>9, ReadChunkFlagsSteps
  <2> QED
    BY <1>0, <2>1 DEF HeaderKeeps, Onward, V
<1>10. CASE ReadCounts \/ ReadGraph \/ ReadStoredSizes \/ CountChunk \/ ReadPayload \/ ReadChecksums
            \/ EndChunks
  <2>1. header' = header /\ phase' \in ChunkPhases
    BY <1>10, ReadCountsSteps, ReadGraphSteps, ReadStoredSizesSteps, CountChunkSteps,
       ReadPayloadSteps, ReadChecksumsSteps, EndChunksSteps DEF ChunkPhases
  <2> QED
    BY <2>1 DEF HeaderKeeps, Onward, V, ChunkPhases
<1> QED
  BY <1>1, <1>2, <1>3, <1>4, <1>5, <1>6, <1>7, <1>8, <1>9, <1>10, StepCases DEF HeaderAction

(* The steps within a chunk.                                               *)
WithinChunk ==
  /\ chunks' = chunks /\ InChunk'
  /\ chunk'.transforms = chunk.transforms /\ chunk'.stored = chunk.stored
  /\ NodesRead => NodesRead' /\ chunk'.nodes = chunk.nodes
  /\ phase = "graph" => phase' = "stored"
  /\ phase = "stored" => phase' = "summary"
  /\ phase = "summary" => phase' = "payload" /\ chunk' = chunk /\ summary.chunks + 1 <= MaxChunks
  /\ phase = "payload" => phase' = "checksums" /\ Small(chunk)

LEMMA ChunkMoves ==
  ASSUME Base, Next, phase' # "done"
  PROVE  \/ ~InChunk /\ chunks' = chunks
         \/ InChunk /\ WithinChunk
         \/ InChunk /\ NodesRead /\ ReadChecksums
<1> USE DEF InChunk, NodesRead
<1>0. chunk \in Plan
  BY DEF Base, TypeOK
<1>1. CASE HeaderAction
  BY <1>1, HeaderSteps DEF HeaderMoves, HeaderStep, HeaderPhases
<1>2. CASE ReadCounts \/ ReadChunkFlags \/ EndChunks
  BY <1>2, ReadCountsSteps, ReadChunkFlagsSteps, EndChunksSteps
<1>3. CASE ReadGraph
  <2>1. PICK nodes : /\ phase = "graph" /\ phase' = "stored" /\ chunks' = chunks
                     /\ chunk' = [chunk EXCEPT !.nodes = nodes]
    BY <1>3, ReadGraphSteps
  <2> QED
    BY <1>0, <2>1 DEF WithinChunk, Plan
<1>4. CASE ReadStoredSizes
  <2>1. PICK sizes : /\ phase = "stored" /\ phase' = "summary" /\ chunks' = chunks
                     /\ chunk' = [chunk EXCEPT !.sizes = sizes]
    BY <1>4, ReadStoredSizesSteps
  <2> QED
    BY <1>0, <2>1 DEF WithinChunk, Plan
<1>5. CASE CountChunk
  <2>1. /\ phase = "summary" /\ phase' = "payload" /\ chunks' = chunks /\ chunk' = chunk
        /\ summary' = SummaryWith(chunk) /\ summary'.chunks <= MaxChunks
    BY <1>5, CountChunkSteps
  <2>2. summary.chunks + 1 <= MaxChunks
    BY <2>1 DEF SummaryWith
  <2> QED
    BY <2>1, <2>2 DEF WithinChunk
<1>6. CASE ReadPayload
  <2>1. /\ phase = "payload" /\ phase' = "checksums" /\ chunks' = chunks
        /\ chunk' = Located(chunk, Len(read)) /\ Small(chunk)
    BY <1>6, ReadPayloadSteps
  <2>2. chunk'.transforms = chunk.transforms /\ chunk'.stored = chunk.stored /\ chunk'.nodes = chunk.nodes
    BY <1>0, <2>1 DEF Located, Plan
  <2> QED
    BY <2>1, <2>2 DEF WithinChunk
<1>7. CASE ReadChecksums
  BY <1>7, ReadChecksumsSteps
<1> QED
  BY <1>1, <1>2, <1>3, <1>4, <1>5, <1>6, <1>7, StepCases

(* A frame that was handed over stays so;                                  *)
LEMMA OffStays ==
  ASSUME Base, OffFastPath, Next, phase' # "done"
  PROVE  OffFastPath'
<1> USE DEF AfterMagic, AfterFlags, AfterOutputs, AfterSize
<1>0. HeaderKeeps /\ Onward
  BY StepsOnward
<1>1. CASE phase # "magic" /\ V < 21
  <2>1. phase' # "magic" /\ V' = V
    BY <1>0, <1>1 DEF HeaderKeeps, Onward
  <2> QED
    BY <1>1, <2>1 DEF OffFastPath
<1>2. CASE ~(phase # "magic" /\ V < 21) /\ phase \notin {"magic", "flags"}
           /\ header.flags \cap {"comment", "bundle"} # {}
  <2>1. phase # "chunk flags"
    BY <1>2 DEF Base, Gates
  <2>2. phase' \notin {"magic", "flags"} /\ header'.flags = header.flags
    BY <1>0, <1>2, <2>1 DEF HeaderKeeps, Onward
  <2> QED
    BY <1>2, <2>2 DEF OffFastPath
<1>3. CASE phase \notin {"magic", "flags", "bundle", "outputs"} /\ header.types # <<"Serial">>
  <2>1. phase' \notin {"magic", "flags", "bundle", "outputs"} /\ header'.types = header.types
    BY <1>0, <1>3 DEF HeaderKeeps, Onward
  <2> QED
    BY <1>3, <2>1 DEF OffFastPath
<1>4. CASE phase = "scanned" /\ chunks = <<>>
  <2>1. FALSE
    <3>1. ~HeaderAction
      BY <1>4, HeaderSteps DEF HeaderMoves, HeaderPhases
    <3> QED
      BY <1>4, <3>1, StepCases, ReadCountsSteps, ReadChunkFlagsSteps, ReadGraphSteps,
         ReadStoredSizesSteps, CountChunkSteps, ReadPayloadSteps, ReadChecksumsSteps, EndChunksSteps
  <2> QED
    BY <2>1
<1>5. CASE \/ InChunk /\ (chunks # <<>> \/ chunk.transforms # 1 \/ chunk.stored # 1)
           \/ NodesRead /\ ~ZstdNode(chunk)
  <2>0. InChunk
    BY <1>5 DEF InChunk
  <2>1. CASE WithinChunk
    <3>1. InChunk' /\ chunks' = chunks /\ chunk'.transforms = chunk.transforms
          /\ chunk'.stored = chunk.stored
      BY <2>1 DEF WithinChunk
    <3>2. CASE chunks # <<>> \/ chunk.transforms # 1 \/ chunk.stored # 1
      BY <3>1, <3>2 DEF OffFastPath
    <3>3. CASE NodesRead /\ ~ZstdNode(chunk)
      <4>1. NodesRead' /\ chunk'.nodes = chunk.nodes
        BY <2>1, <3>3 DEF WithinChunk
      <4>2. ~ZstdNode(chunk')
        BY <3>3, <4>1 DEF ZstdNode
      <4> QED
        BY <4>1, <4>2 DEF OffFastPath
    <3> QED
      BY <1>5, <3>2, <3>3
  <2>2. CASE NodesRead /\ ReadChecksums
    <3> DEFINE c == [chunk EXCEPT !.decoded = "decoded" \in header.flags,
                                  !.encoded = "encoded" \in header.flags]
               n == Len(chunks)
    <3>1. /\ n \in Nat /\ DOMAIN chunks' = 1 .. n + 1 /\ Len(chunks') = n + 1
          /\ chunks'[n + 1] = c /\ c.nodes = chunk.nodes
          /\ Len(c.nodes) = chunk.transforms /\ Len(c.sizes) = chunk.stored
          /\ chunks \in Seq(Plan)
      BY <2>2, ChunkCompleted
    <3> HIDE DEF c
    <3>2. CASE chunks # <<>>
      <4>1. n > 0
        BY <3>1, <3>2
      <4> QED
        BY <3>1, <4>1 DEF OffFastPath
    <3>3. CASE chunk.transforms # 1 \/ chunk.stored # 1 \/ ~ZstdNode(chunk)
      <4>1. ZstdNode(c) <=> ZstdNode(chunk)
        BY <3>1 DEF ZstdNode
      <4>2. ~OneZstdNode(c)
        BY <3>1, <3>3, <4>1 DEF OneZstdNode, ZstdNode
      <4>3. n + 1 \in DOMAIN chunks'
        BY <3>1
      <4>4. \E i \in DOMAIN chunks' : ~OneZstdNode(chunks'[i])
        BY <3>1, <4>2, <4>3
      <4> QED
        BY <4>4 DEF OffFastPath
    <3> QED
      BY <1>5, <3>2, <3>3
  <2> QED
    BY <2>0, <2>1, <2>2, ChunkMoves
<1>6. CASE Len(chunks) > 1 \/ \E i \in DOMAIN chunks : ~OneZstdNode(chunks[i])
  <2>1. CASE chunks' = chunks
    BY <1>6, <2>1 DEF OffFastPath
  <2>2. CASE ReadChecksums
    <3> DEFINE c == [chunk EXCEPT !.decoded = "decoded" \in header.flags,
                                  !.encoded = "encoded" \in header.flags]
               n == Len(chunks)
    <3>1. /\ n \in Nat /\ DOMAIN chunks' = 1 .. n + 1 /\ Len(chunks') = n + 1 /\ DOMAIN chunks = 1 .. n
          /\ \A i \in 1 .. n : chunks'[i] = chunks[i]
      BY <2>2, ChunkCompleted
    <3>2. CASE n > 1
      BY <3>1, <3>2 DEF OffFastPath
    <3>3. CASE \E i \in DOMAIN chunks : ~OneZstdNode(chunks[i])
      <4>1. PICK i \in DOMAIN chunks : ~OneZstdNode(chunks[i])
        BY <3>3
      <4>2. i \in DOMAIN chunks' /\ chunks'[i] = chunks[i]
        BY <3>1
      <4>3. \E k \in DOMAIN chunks' : ~OneZstdNode(chunks'[k])
        BY <4>1, <4>2
      <4> QED
        BY <4>3 DEF OffFastPath
    <3> QED
      BY <1>6, <3>2, <3>3
  <2> QED
    BY <2>1, <2>2, ChunkMoves DEF WithinChunk
<1> QED
  BY <1>1, <1>2, <1>3, <1>4, <1>5, <1>6 DEF OffFastPath

(* and one that was refused will be.                                       *)
LEMMA DoomedStays ==
  ASSUME Base, Doomed, Next, phase' # "done"
  PROVE  Doomed'
<1> DEFINE n == Len(chunks)
<1>0. chunk \in Plan /\ chunk.transforms \in Nat /\ summary.chunks \in Nat
  BY DEF Base, TypeOK, Plan
<1>1. CASE MaxChunks = 0 /\ phase \in {"graph", "stored", "summary"}
  <2>1. WithinChunk
    BY <1>1, ChunkMoves, ReadChecksumsSteps DEF InChunk, NodesRead
  <2>2. phase # "summary"
    BY <1>0, <1>1, <2>1 DEF WithinChunk
  <2> QED
    BY <1>1, <2>1, <2>2 DEF WithinChunk, Doomed
<1>2. CASE MaxGraphDepth = 0 /\ InChunk /\ chunk.transforms > 0
  <2>1. CASE WithinChunk
    BY <1>2, <2>1 DEF WithinChunk, Doomed
  <2>2. CASE ReadChecksums
    <3> DEFINE c == [chunk EXCEPT !.decoded = "decoded" \in header.flags,
                                  !.encoded = "encoded" \in header.flags]
    <3>1. n \in Nat /\ DOMAIN chunks' = 1 .. n + 1 /\ chunks'[n + 1] = c /\ Len(c.nodes) = chunk.transforms
      BY <2>2, ChunkCompleted
    <3> HIDE DEF c
    <3>2. c.nodes # <<>>
      BY <1>2, <3>1
    <3>3. n + 1 \in DOMAIN chunks'
      BY <3>1
    <3>4. \E i \in DOMAIN chunks' : chunks'[i].nodes # <<>>
      BY <3>1, <3>2, <3>3
    <3> QED
      BY <1>2, <3>4 DEF Doomed
  <2> QED
    BY <1>2, <2>1, <2>2, ChunkMoves
<1>3. CASE MaxGraphDepth = 0 /\ \E i \in DOMAIN chunks : chunks[i].nodes # <<>>
  <2>1. CASE chunks' = chunks
    BY <1>3, <2>1 DEF Doomed
  <2>2. CASE ReadChecksums
    <3> DEFINE c == [chunk EXCEPT !.decoded = "decoded" \in header.flags,
                                  !.encoded = "encoded" \in header.flags]
    <3>1. /\ n \in Nat /\ DOMAIN chunks' = 1 .. n + 1 /\ DOMAIN chunks = 1 .. n
          /\ \A i \in 1 .. n : chunks'[i] = chunks[i]
      BY <2>2, ChunkCompleted
    <3>2. PICK i \in DOMAIN chunks : chunks[i].nodes # <<>>
      BY <1>3
    <3>3. i \in DOMAIN chunks' /\ chunks'[i] = chunks[i]
      BY <3>1
    <3>4. \E k \in DOMAIN chunks' : chunks'[k].nodes # <<>>
      BY <3>2, <3>3
    <3> QED
      BY <1>3, <3>4 DEF Doomed
  <2> QED
    BY <2>1, <2>2, ChunkMoves DEF WithinChunk
<1>4. CASE phase \in {"summary", "payload"} /\ StoredBytes(chunk) > MaxStoredStreamBytes
  <2>1. WithinChunk
    BY <1>4, ChunkMoves, ReadChecksumsSteps DEF InChunk, NodesRead
  <2>2. phase = "summary" /\ chunk' = chunk /\ phase' = "payload"
    <3>1. MaxStoredStreamBytes \in Nat /\ StoredBytes(chunk) \in Nat
      BY <1>0, PlanFields, LimitAssumption
    <3> QED
      BY <1>4, <2>1, <3>1 DEF WithinChunk, Small
  <2> QED
    BY <1>4, <2>2 DEF Doomed
<1> QED
  BY <1>1, <1>2, <1>3, <1>4 DEF Doomed

(* The options do not change, so neither does what is said of a field.     *)
LEMMA VerdictMoves ==
  ASSUME verify' = verify
  PROVE  Fast' = FastVerdict(read', FALSE)
BY DEF Fast, FastVerdict, FastField

(* A frame the shortcut has not given up, before its next field, and what  *)
(* that field may lead to.                                                 *)
OnPath == Base /\ FieldsRead /\ OnFastPath /\ Fast = "go" /\ phase # "done"

Parting ==
  /\ phase' = "done" =>
       Fast' # "frame" /\ (Fast' = "go" => result' \in {"Truncated", "max_frame_bytes"})
  /\ phase' # "done" => Together'

LEMMA FirstField ==
  ASSUME Base, phase # "done"
  PROVE  /\ IsRead(read) /\ Len(read) \in Nat
         /\ phase = "magic" => read = <<>> /\ Len(read) = 0
         /\ phase # "magic" => /\ V \in Versions /\ V \in 8 .. 27 /\ read # <<>> /\ Len(read) >= 1
                               /\ read[1] = [field |-> "magic", value |-> V]
         /\ read # <<>> => read[1].field = "magic"
<1>1. IsRead(read) /\ Len(read) \in Nat
  BY DEF Base, IsRead
<1>2. phase = "magic" => read = <<>>
  BY DEF Base, Gates
<1>3. phase # "magic" => /\ V \in Versions /\ V \in 8 .. 27 /\ read # <<>>
                         /\ read[1] = [field |-> "magic", value |-> V]
  BY DEF Base, Gates
<1>4. read # <<>> => Len(read) >= 1
  BY <1>1, ReadStays, FirstStays
<1>5. read = <<>> => Len(read) = 0
  OBVIOUS
<1> QED
  BY <1>1, <1>2, <1>3, <1>4, <1>5

OneMore(n, name, value) ==
  /\ Len(read) \in Nat /\ Len(read') = n
  /\ read'[n].field = name /\ read'[n].value = value
  /\ Continues(read, read', {name}) /\ \A i \in 1 .. Len(read) : read'[i] = read[i]
  /\ phase # "magic" => read'[1].value = V
  /\ Fast' = FastField(read', n, FALSE)

LEMMA PathOneMore ==
  ASSUME OnPath, verify' = verify, NEW name, NEW value, Take(name, value),
         NEW n, n = Len(read) + 1
  PROVE  OneMore(n, name, value)
<1>1. /\ IsRead(read) /\ Len(read) \in Nat /\ (read # <<>> => read[1].field = "magic")
      /\ phase # "magic" => Len(read) >= 1 /\ read[1] = [field |-> "magic", value |-> V]
  BY FirstField DEF OnPath
<1>2. /\ Continues(read, read', {name}) /\ Len(read') = n
      /\ read'[n].field = name /\ read'[n].value = value
  <2>1. /\ Continues(read, read', {name}) /\ Len(read') = Len(read) + 1
        /\ read'[Len(read) + 1] = [field |-> name, value |-> value]
    BY <1>1, Taken
  <2> QED
    BY <2>1
<1>3. \A i \in 1 .. Len(read) : read'[i] = read[i]
  BY <1>2 DEF Continues
<1>4. phase # "magic" => read'[1].value = V
  BY <1>1, <1>3
<1>5. Fast' = FastField(read', n, FALSE)
  BY <1>1, <1>2, VerdictMoves, FastOneMore DEF OnPath, Fast
<1> QED
  BY <1>1, <1>2, <1>3, <1>4, <1>5 DEF OneMore

LEMMA PathStill ==
  ASSUME Fast = "go", verify' = verify, read' = read
  PROVE  Fast' = "go"
BY VerdictMoves DEF Fast

LEMMA StoppedStays ==
  ASSUME Base, phase # "done", Fast # "go", verify' = verify, NEW names, Continues(read, read', names)
  PROVE  Fast' = Fast
BY FirstField, VerdictMoves, FastStaysStopped DEF Fast

(* The fields of the header.                                               *)
LEMMA PathReadMagic == ASSUME OnPath, ReadMagic PROVE Parting
<1>1. PICK v \in Versions :
        /\ phase = "magic" /\ Take("magic", v)
        /\ Proceed(Check(v \in 8 .. 27, "Unsupported", "Ok"),
             /\ header' = [header EXCEPT !.version = v]
             /\ phase' = IF v >= 21 THEN "flags" ELSE "outputs"
             /\ HeaderStep /\ UNCHANGED checked)
  BY DEF ReadMagic
<1>2. verify' = verify
  BY <1>1 DEF Proceed, Fail, HeaderStep
<1>3. Len(read) = 0
  BY <1>1, FirstField DEF OnPath
<1>4. /\ Len(read') = 1 /\ read'[1].field = "magic" /\ read'[1].value = v
      /\ Fast' = FastField(read', 1, FALSE)
  <2>1. Take("magic", v) /\ 1 = Len(read) + 1
    BY <1>1, <1>3
  <2>2. OneMore(1, "magic", v)
    BY <1>2, <2>1, PathOneMore
  <2> QED
    BY <2>1, <2>2 DEF OneMore
<1>5. Fast' = IF v \notin 8 .. 27 THEN "error" ELSE IF v >= 21 THEN "go" ELSE "none"
  BY <1>4, FastHeaderField
<1>6. CASE phase' = "done"
  BY <1>1, <1>5, <1>6 DEF Proceed, Check, Parting
<1>7. CASE phase' # "done"
  <2>1. /\ v \in 8 .. 27 /\ header' = [header EXCEPT !.version = v]
        /\ phase' = (IF v >= 21 THEN "flags" ELSE "outputs") /\ chunks' = chunks
    BY <1>1, <1>7 DEF Proceed, Check, Fail, HeaderStep
  <2>2. V' = v
    BY <2>1 DEF OnPath, Base, TypeOK, V
  <2>3. chunks = <<>>
    BY <1>1 DEF OnPath, OnFastPath
  <2>4. v >= 21 => OnFastPath'
    BY <1>4, <2>1, <2>2, <2>3 DEF OnFastPath, InChunk, NodesRead
  <2>5. ~(v >= 21) => OffFastPath'
    BY <2>1, <2>2 DEF OffFastPath
  <2> QED
    BY <1>5, <1>7, <2>1, <2>4, <2>5 DEF Parting, Together
<1> QED
  BY <1>6, <1>7

LEMMA PathReadFlags == ASSUME OnPath, ReadFlags PROVE Parting
<1>1. PICK byte :
        /\ phase = "flags" /\ Take("flags", byte)
        /\ header' = [header EXCEPT !.flags = FromByte(byte, V)]
        /\ phase' = IF "bundle" \in FromByte(byte, V) THEN "bundle" ELSE "outputs"
        /\ HeaderStep
  BY DEF ReadFlags
<1>2. verify' = verify /\ chunks' = chunks
  BY <1>1 DEF HeaderStep
<1>3. Len(read) = 1 /\ chunks = <<>> /\ V >= 21
  BY <1>1 DEF OnPath, OnFastPath
<1>4. /\ Len(read') = 2 /\ read'[2].field = "flags" /\ read'[2].value = byte /\ read'[1].value = V
      /\ Fast' = FastField(read', 2, FALSE)
  <2>1. Take("flags", byte) /\ 2 = Len(read) + 1 /\ phase # "magic"
    BY <1>1, <1>3
  <2>2. OneMore(2, "flags", byte)
    BY <1>2, <2>1, PathOneMore
  <2> QED
    BY <2>1, <2>2 DEF OneMore
<1>5. Fast' = IF FromByte(byte, V) \cap {"comment", "bundle"} = {} THEN "go" ELSE "none"
  BY <1>4, FastHeaderField
<1>6. V' = V /\ header'.flags = FromByte(byte, V)
  BY <1>1 DEF OnPath, Base, TypeOK, V
<1>7. FromByte(byte, V) \cap {"comment", "bundle"} = {} => OnFastPath'
  BY <1>1, <1>2, <1>3, <1>4, <1>6 DEF OnFastPath, InChunk, NodesRead
<1>8. FromByte(byte, V) \cap {"comment", "bundle"} # {} => OffFastPath'
  BY <1>1, <1>6 DEF OffFastPath
<1> QED
  BY <1>1, <1>5, <1>7, <1>8 DEF Parting, Together

LEMMA PathReadOutputs == ASSUME OnPath, ReadOutputs PROVE Parting
<1>0. /\ phase = "outputs" /\ Len(read) = 2 /\ chunks = <<>> /\ V >= 21 /\ V \in Nat
      /\ header.flags \cap {"comment", "bundle"} = {}
  <2>1. phase = "outputs"
    BY DEF ReadOutputs
  <2> QED
    BY <2>1, FirstField DEF OnPath, OnFastPath
<1>1. PICK types :
        /\ Take("outputs", types)
        /\ Proceed(Check(Len(types) <= InputLimit(V), "Malformed",
                   Check(Len(types) <= MaxStreams, "max_streams",
                   Check(types # <<>>, "Malformed", "Ok"))),
             /\ header' = [header EXCEPT !.types = types] /\ phase' = "size"
             /\ HeaderStep /\ UNCHANGED checked)
  <2>1. ~(V < 14)
    BY <1>0
  <2> QED
    BY <2>1, Zenon DEF ReadOutputs
<1>2. verify' = verify
  BY <1>1 DEF Proceed, Fail, HeaderStep
<1>4. /\ Len(read') = 3 /\ read'[3].field = "outputs" /\ read'[3].value = types
      /\ Fast' = FastField(read', 3, FALSE)
  <2>1. Take("outputs", types) /\ 3 = Len(read) + 1
    BY <1>0, <1>1
  <2>2. OneMore(3, "outputs", types)
    BY <1>2, <2>1, PathOneMore
  <2> QED
    BY <2>1, <2>2 DEF OneMore
<1>5. Fast' = IF types # <<"Serial">> THEN "none" ELSE IF MaxStreams >= 1 THEN "go" ELSE "error"
  BY <1>4, FastHeaderField
<1>6. types = <<"Serial">> => Len(types) = 1 /\ types # <<>> /\ Len(types) <= InputLimit(V)
  BY <1>0 DEF InputLimit
<1>7. CASE phase' = "done"
  <2>1. types = <<"Serial">> => ~(MaxStreams >= 1)
    BY <1>1, <1>6, <1>7, LimitAssumption DEF Proceed, Check
  <2> QED
    BY <1>5, <1>7, <2>1 DEF Parting
<1>8. CASE phase' # "done"
  <2>1. /\ Len(types) <= MaxStreams /\ header' = [header EXCEPT !.types = types]
        /\ phase' = "size" /\ chunks' = chunks
    BY <1>1, <1>8 DEF Proceed, Check, Fail, HeaderStep
  <2>2. V' = V /\ header'.flags = header.flags /\ header'.types = types
    BY <2>1 DEF OnPath, Base, TypeOK, V
  <2>3. types = <<"Serial">> => MaxStreams >= 1 /\ OnFastPath'
    BY <1>0, <1>4, <1>6, <2>1, <2>2, LimitAssumption DEF OnFastPath, InChunk, NodesRead
  <2>4. types # <<"Serial">> => OffFastPath'
    BY <2>1, <2>2 DEF OffFastPath
  <2> QED
    BY <1>5, <1>8, <2>1, <2>3, <2>4 DEF Parting, Together
<1> QED
  BY <1>7, <1>8

LEMMA PathReadSize == ASSUME OnPath, ReadSize PROVE Parting
<1>0. /\ phase = "size" /\ Len(read) = 3 /\ chunks = <<>> /\ V >= 21 /\ V \in Nat
      /\ header.flags \cap {"comment", "bundle"} = {} /\ header.types = <<"Serial">>
  <2>1. phase = "size"
    BY DEF ReadSize
  <2> QED
    BY <2>1, FirstField DEF OnPath, OnFastPath
<1>1. header.sizes = <<>> /\ SumOver(header.sizes) = 0
  <2>1. Len(header.sizes) < Len(header.types) /\ Len(header.types) = 1
    BY <1>0 DEF OnPath, Base, Gates
  <2>2. header.sizes \in Seq(Nat)
    BY HeaderTyped DEF OnPath, Base
  <2>3. header.sizes = <<>>
    BY <2>1, <2>2
  <2>4. DOMAIN header.sizes = {}
    BY <2>3
  <2> QED
    BY <2>3, <2>4, SumEmpty DEF SumOver, Sum
<1>2. PICK field \in Nat :
        /\ Take("size", field)
        /\ Proceed(SizeError(field - 1),
             /\ header' = [header EXCEPT !.sizes = Append(@, field - 1)]
             /\ phase' = IF Len(header.sizes) + 1 < Len(header.types) THEN "size"
                         ELSE IF V >= 21 THEN "strings" ELSE "chunks"
             /\ HeaderStep /\ UNCHANGED checked)
  <2>1. V \in Versions
    BY <1>0, FirstField DEF OnPath
  <2> QED
    BY <1>0, <2>1, ValuesTyped DEF ReadSize, OnPath, Base
<1>3. verify' = verify
  BY <1>2 DEF Proceed, Fail, HeaderStep
<1>4. /\ Len(read') = 4 /\ read'[4].field = "size" /\ read'[4].value = field
      /\ Fast' = FastField(read', 4, FALSE)
  <2>1. Take("size", field) /\ 4 = Len(read) + 1
    BY <1>0, <1>2
  <2>2. OneMore(4, "size", field)
    BY <1>3, <2>1, PathOneMore
  <2> QED
    BY <2>1, <2>2 DEF OneMore
<1>5. Fast' = IF FastSizeFits(field) THEN "go" ELSE "error"
  BY <1>4, FastHeaderField
<1>6. SizeError(field - 1) = "Ok" <=> FastSizeFits(field)
  <2>1. MaxBufferBytes \in Nat /\ MaxDecodedBytes \in Nat
    BY LimitAssumption
  <2> QED
    BY <1>1, <1>2, <2>1 DEF SizeError, FastSizeFits, Check
<1>7. CASE phase' = "done"
  <2>1. SizeError(field - 1) # "Ok"
    BY <1>2, <1>7 DEF Proceed
  <2> QED
    BY <1>5, <1>6, <1>7, <2>1 DEF Parting
<1>8. CASE phase' # "done"
  <2>1. /\ FastSizeFits(field) /\ header' = [header EXCEPT !.sizes = Append(@, field - 1)]
        /\ phase' = IF Len(header.sizes) + 1 < Len(header.types) THEN "size"
                    ELSE IF V >= 21 THEN "strings" ELSE "chunks"
        /\ chunks' = chunks
    BY <1>2, <1>6, <1>8 DEF Proceed, Fail, HeaderStep
  <2>2. phase' = "strings"
    BY <1>0, <1>1, <2>1
  <2>3. /\ V' = V /\ header'.flags = header.flags /\ header'.types = header.types
        /\ header'.sizes = Append(<<>>, field - 1)
    BY <1>1, <2>1 DEF OnPath, Base, TypeOK, V
  <2>4. header'.sizes = <<read'[4].value - 1>>
    BY <1>4, <2>3
  <2>5. OnFastPath'
    BY <1>0, <1>4, <2>1, <2>2, <2>3, <2>4 DEF OnFastPath, InChunk, NodesRead
  <2> QED
    BY <1>5, <1>8, <2>1, <2>2, <2>5 DEF Parting, Together
<1> QED
  BY <1>7, <1>8

(* After the header's sizes: the path stays while the fields do.           *)
LEMMA PathAfterSizes ==
  ASSUME OnPath, phase \in {"strings", "sum"}, phase' \in {"sum", "chunks"}, chunks' = chunks,
         V' = V, header'.flags = header.flags, header'.types = header.types,
         header'.sizes = header.sizes, NEW names, Continues(read, read', names)
  PROVE  OnFastPath'
<1>1. /\ Len(read) >= 4 /\ chunks = <<>> /\ V >= 21 /\ Len(read) \in Nat
      /\ header.flags \cap {"comment", "bundle"} = {} /\ header.types = <<"Serial">>
      /\ header.sizes = <<read[4].value - 1>>
  BY FirstField DEF OnPath, OnFastPath
<1>2. Len(read') >= 4 /\ read'[4] = read[4]
  BY <1>1 DEF Continues
<1>3. /\ phase' \notin {"magic", "flags", "outputs", "size", "bundle", "comment", "chunk flags",
                        "summary", "payload", "checksums", "done"}
      /\ chunks' = <<>> /\ ~InChunk' /\ ~NodesRead'
  BY <1>1 DEF InChunk, NodesRead
<1>4. /\ header'.flags \cap {"comment", "bundle"} = {} /\ header'.types = <<"Serial">>
      /\ V' >= 21
  BY <1>1
<1>5. header'.sizes = <<read'[4].value - 1>>
  BY <1>1, <1>2
<1>6. Len(chunks') <= 1
  <2>1. chunks' = <<>>
    BY <1>3
  <2> QED
    BY <2>1
<1> QED
  BY <1>2, <1>3, <1>4, <1>5, <1>6 DEF OnFastPath

LEMMA PathReadStringCounts == ASSUME OnPath, ReadStringCounts PROVE Parting
<1>0. phase = "strings" /\ header.types = <<"Serial">> /\ header.flags \cap {"comment", "bundle"} = {}
  <2>1. phase = "strings"
    BY DEF ReadStringCounts
  <2> QED
    BY <2>1 DEF OnPath, OnFastPath
<1>1. {k \in DOMAIN header.types : header.types[k] = "String"} = {}
  BY <1>0
<1>2. PICK strings :
        /\ read' = read /\ header' = [header EXCEPT !.strings = strings]
        /\ phase' = AfterStrings(header.flags) /\ HeaderStep
  BY <1>1 DEF ReadStringCounts
<1>3. phase' \in {"sum", "chunks"}
  BY <1>0, <1>2 DEF AfterStrings, AfterComment
<1>4. /\ V' = V /\ header'.flags = header.flags /\ header'.types = header.types
      /\ header'.sizes = header.sizes
  BY <1>2 DEF OnPath, Base, TypeOK, V
<1>5. Continues(read, read', {})
  BY <1>2, ReadStays DEF OnPath, Base
<1>6. OnFastPath'
  BY <1>0, <1>2, <1>3, <1>4, <1>5, PathAfterSizes DEF HeaderStep
<1>7. Fast' = "go"
  BY <1>2, PathStill DEF OnPath, HeaderStep
<1> QED
  BY <1>3, <1>6, <1>7 DEF Parting, Together

LEMMA PathReadHeaderChecksum == ASSUME OnPath, ReadHeaderChecksum PROVE Parting
<1>1. PICK matches \in BOOLEAN :
        /\ phase = "sum" /\ Take("sum", matches)
        /\ Proceed(Check(verify => matches, "ChecksumMismatch", "Ok"),
             /\ checked' = Verified(0, Offset) /\ phase' = "chunks"
             /\ HeaderStep /\ UNCHANGED header)
  BY DEF ReadHeaderChecksum
<1>2. verify' = verify
  BY <1>1 DEF Proceed, Fail, HeaderStep
<1> DEFINE n == Len(read) + 1
<1>3. /\ Continues(read, read', {"sum"}) /\ read'[n].field = "sum" /\ read'[n].value = matches
      /\ Fast' = FastField(read', n, FALSE)
  <2> HIDE DEF n
  <2>1. n = Len(read) + 1
    BY DEF n
  <2>2. OneMore(n, "sum", matches)
    BY <1>1, <1>2, <2>1, PathOneMore
  <2> QED
    BY <2>1, <2>2 DEF OneMore
<1> HIDE DEF n
<1>4. Fast' = IF verify => matches THEN "go" ELSE "error"
  BY <1>3, FastHeaderField
<1>5. CASE phase' = "done"
  <2>1. ~(verify => matches)
    BY <1>1, <1>5 DEF Proceed, Check
  <2> QED
    BY <1>4, <1>5, <2>1 DEF Parting
<1>6. CASE phase' # "done"
  <2>1. (verify => matches) /\ phase' = "chunks" /\ header' = header /\ chunks' = chunks
    BY <1>1, <1>6 DEF Proceed, Check, Fail, HeaderStep
  <2>2. OnFastPath'
    BY <1>1, <1>3, <2>1, PathAfterSizes DEF V
  <2> QED
    BY <1>4, <1>6, <2>1, <2>2 DEF Parting, Together
<1> QED
  BY <1>5, <1>6

-----------------------------------------------------------------------------
(* The fields of a chunk.                                                  *)
HeaderOnPath ==
  /\ phase \in {"chunks", "graph", "stored", "summary", "payload", "checksums", "scanned"}
  /\ Len(read) >= 4 /\ V >= 21 /\ header.flags \cap {"comment", "bundle"} = {}
  /\ header.types = <<"Serial">> /\ header.sizes = <<read[4].value - 1>>

ChunkOnPath ==
  /\ InChunk => chunk.transforms = 1 /\ chunk.stored = 1
  /\ NodesRead => ZstdNode(chunk)
  /\ phase \in {"summary", "payload"} =>
       StoredBytes(chunk) <= MaxStoredStreamBytes
       /\ StoredAt(read, [start |-> Len(read), len |-> chunk.sizes[1]])
  /\ phase = "checksums" => StoredAt(read, chunk.ranges[1])

LEMMA PathParts ==
  ASSUME HeaderOnPath', ChunkOnPath', InChunk' => MayDecodeOne /\ chunks' = <<>>,
         chunks' # <<>> => /\ Len(chunks') = 1 /\ OneZstdNode(chunks'[1]) /\ MayDecodeOne
                           /\ StoredAt(read', chunks'[1].ranges[1])
  PROVE  OnFastPath'
<1>1. Len(chunks') <= 1
  <2>1. CASE chunks' = <<>>
    BY <2>1
  <2>2. CASE chunks' # <<>>
    <3>1. Len(chunks') = 1
      BY <2>2, Zenon
    <3> QED
      BY <3>1
  <2> QED
    BY <2>1, <2>2
<1>2. chunks' # <<>> => phase' \in {"chunks", "scanned"}
  BY DEF HeaderOnPath, InChunk, NodesRead
<1> QED
  BY <1>1, <1>2 DEF OnFastPath, HeaderOnPath, ChunkOnPath

LEMMA OnPathChunk ==
  ASSUME OnPath, phase \in ChunkPhases
  PROVE  /\ HeaderOnPath /\ ChunkOnPath /\ (InChunk \/ chunks # <<>> => MayDecodeOne)
         /\ V \in Nat /\ Len(read) \in Nat /\ IsRead(read)
         /\ chunks # <<>> => /\ Len(chunks) = 1 /\ OneZstdNode(chunks[1]) /\ ~InChunk
                             /\ StoredAt(read, chunks[1].ranges[1])
<1>1. HeaderOnPath /\ ChunkOnPath /\ (InChunk \/ chunks # <<>> => MayDecodeOne)
  BY DEF OnPath, OnFastPath, HeaderOnPath, ChunkOnPath, ChunkPhases
<1>2. V \in Nat /\ Len(read) \in Nat /\ IsRead(read)
  <2>1. phase # "magic" /\ phase # "done"
    BY DEF ChunkPhases
  <2>2. V \in 8 .. 27 /\ Len(read) \in Nat /\ IsRead(read)
    BY <2>1, FirstField DEF OnPath
  <2> QED
    BY <2>2
<1>3. chunks \in Seq(Plan)
  BY DEF OnPath, Base, TypeOK
<1>4. ASSUME chunks # <<>>
      PROVE  Len(chunks) = 1 /\ OneZstdNode(chunks[1]) /\ ~InChunk /\ StoredAt(read, chunks[1].ranges[1])
  <2>1. Len(chunks) <= 1 /\ phase \in {"chunks", "scanned"} /\ OneZstdNode(chunks[1])
        /\ StoredAt(read, chunks[1].ranges[1])
    BY <1>4 DEF OnPath, OnFastPath
  <2>2. Len(chunks) = 1
    BY <1>3, <1>4, <2>1
  <2> QED
    BY <2>1, <2>2 DEF InChunk, NodesRead
<1> QED
  BY <1>1, <1>2, <1>4

(* A step that leaves the header alone.                                    *)
LEMMA PathHeaderKept ==
  ASSUME OnPath, phase \in ChunkPhases, header' = header, NEW names, Continues(read, read', names),
         phase' \in {"chunks", "graph", "stored", "summary", "payload", "checksums", "scanned"}
  PROVE  HeaderOnPath'
<1>1. HeaderOnPath /\ Len(read) \in Nat
  BY OnPathChunk
<1>2. Len(read') >= 4 /\ read'[4] = read[4]
  BY <1>1 DEF HeaderOnPath, Continues
<1>3. V' = V
  BY DEF V
<1> QED
  BY <1>1, <1>2, <1>3 DEF HeaderOnPath

LEMMA StoredKept ==
  ASSUME NEW r, NEW t, NEW names, Continues(r, t, names), "stored" \notin names, NEW range,
         StoredAt(r, range)
  PROVE  StoredAt(t, range)
<1>1. PICK k \in DOMAIN r : /\ \A j \in DOMAIN r : r[j].field = "stored" <=> j = k
                            /\ range = [start |-> k, len |-> r[k].value[1]]
  BY DEF StoredAt
<1>2. k \in DOMAIN t /\ t[k] = r[k]
  BY DEF Continues
<1>3. \A j \in DOMAIN t : t[j].field = "stored" <=> j = k
  <2> TAKE j \in DOMAIN t
  <2>1. CASE j \in 1 .. Len(r)
    BY <1>1, <2>1 DEF Continues
  <2>2. CASE j \in Len(r) + 1 .. Len(t)
    <3>1. t[j].field # "stored"
      BY <2>2 DEF Continues
    <3>2. j # k
      BY <2>2 DEF Continues
    <3> QED
      BY <3>1, <3>2
  <2> QED
    BY <2>1, <2>2 DEF Continues
<1> QED
  BY <1>1, <1>2, <1>3 DEF StoredAt

LEMMA AgainMeans ==
  ASSUME NEW r, NEW t, NEW names, Continues(r, t, names), NEW n, n = Len(r) + 1
  PROVE  Again(t, n) <=> HasField(r, "graph")
<1>1. Len(r) \in Nat /\ DOMAIN r = 1 .. Len(r) /\ n - 1 = Len(r) /\ \A j \in 1 .. Len(r) : t[j] = r[j]
  BY DEF Continues
<1> QED
  BY <1>1 DEF Again, HasField

LEMMA PathEndChunks == ASSUME OnPath, EndChunks PROVE Parting
<1>0. /\ phase = "chunks" /\ HeaderOnPath
      /\ chunks # <<>> => /\ Len(chunks) = 1 /\ OneZstdNode(chunks[1]) /\ MayDecodeOne
                          /\ StoredAt(read, chunks[1].ranges[1])
  <2>1. phase = "chunks"
    BY DEF EndChunks
  <2> QED
    BY <2>1, OnPathChunk DEF ChunkPhases
<1>1. /\ phase' = "scanned" /\ UNCHANGED <<verify, header, chunk, chunks>> /\ Take("end", 0)
  <2>1. ~(V < 21)
    BY <1>0, OnPathChunk DEF ChunkPhases, HeaderOnPath
  <2> QED
    BY <2>1 DEF EndChunks, ChunkStep
<1> DEFINE n == Len(read) + 1
<1>2. /\ Continues(read, read', {"end"}) /\ read'[n].field = "end"
      /\ Fast' = FastField(read', n, FALSE)
  <2>1. n = Len(read) + 1
    OBVIOUS
  <2> HIDE DEF n
  <2>2. OneMore(n, "end", 0)
    BY <1>1, <2>1, PathOneMore
  <2> QED
    BY <2>1, <2>2 DEF OneMore
<1>3. Fast' = IF Again(read', n) THEN "frame" ELSE "none"
  <2> HIDE DEF n
  <2> QED
    BY <1>2, FastEnd
<1>4. Again(read', n) <=> chunks # <<>>
  <2>1. Again(read', n) <=> HasField(read, "graph")
    BY <1>2, AgainMeans
  <2>2. HasField(read, "graph") <=> chunks # <<>>
    BY <1>0 DEF OnPath, FieldsRead, NodesRead
  <2> QED
    BY <2>1, <2>2
<1>5. CASE chunks = <<>>
  <2>1. OffFastPath'
    BY <1>1, <1>5 DEF OffFastPath
  <2> QED
    BY <1>1, <1>3, <1>4, <1>5, <2>1 DEF Parting, Together
<1>6. CASE chunks # <<>>
  <2>1. HeaderOnPath'
    BY <1>0, <1>1, <1>2, PathHeaderKept DEF ChunkPhases
  <2>2. StoredAt(read', chunks[1].ranges[1])
    BY <1>0, <1>2, <1>6, StoredKept
  <2>3. ~InChunk' /\ ChunkOnPath'
    BY <1>1 DEF ChunkOnPath, InChunk, NodesRead
  <2>4. OnFastPath'
    <3>1. /\ chunks' # <<>> /\ Len(chunks') = 1 /\ OneZstdNode(chunks'[1])
          /\ StoredAt(read', chunks'[1].ranges[1]) /\ MayDecodeOne
      BY <1>0, <1>1, <1>6, <2>2
    <3> QED
      BY <2>1, <2>3, <3>1, PathParts
  <2> QED
    BY <1>1, <1>3, <1>4, <1>6, <2>4 DEF Parting, Together
<1> QED
  BY <1>5, <1>6

LEMMA PathLongZero == ASSUME OnPath, LongZero PROVE Parting
<1>1. verify' = verify /\ Take("long zero", 0) /\ phase' = "done"
  BY DEF LongZero, Fail
<1> DEFINE n == Len(read) + 1
<1>2. read'[n].field = "long zero" /\ Fast' = FastField(read', n, FALSE)
  <2>1. n = Len(read) + 1
    OBVIOUS
  <2> HIDE DEF n
  <2>2. OneMore(n, "long zero", 0)
    BY <1>1, <2>1, PathOneMore
  <2> QED
    BY <2>1, <2>2 DEF OneMore
<1>3. Fast' = IF Again(read', n) THEN "none" ELSE "error"
  <2> HIDE DEF n
  <2> QED
    BY <1>2, FastLongZero
<1> QED
  BY <1>1, <1>3 DEF Parting

(* The counts are two fields, of which the second decides about both.      *)
LEMMA PathTwoMore ==
  ASSUME OnPath, phase = "chunks", verify' = verify, NEW nodes, NEW streams,
         read' = read \o << [field |-> "nodes", value |-> nodes],
                            [field |-> "streams", value |-> streams] >>
  PROVE  /\ Continues(read, read', {"nodes", "streams"})
         /\ chunks # <<>> => Fast' = "none"
         /\ chunks = <<>> => Fast' = IF streams # 1 \/ nodes # 1 THEN "none"
                                     ELSE IF MayDecodeOne THEN "go" ELSE "error"
<1> DEFINE a == [field |-> "nodes", value |-> nodes]
           b == [field |-> "streams", value |-> streams]
           two == <<a, b>>
           n == Len(read) + 1
<1>0. IsRead(read) /\ Len(read) \in Nat /\ (read # <<>> => read[1].field = "magic")
  BY FirstField DEF OnPath
<1>1. /\ Continues(read, read', {"nodes", "streams"}) /\ Len(read') = Len(read) + 2
      /\ read'[n] = a /\ read'[n + 1] = b
  <2>1. IsRead(two) /\ Len(two) = 2 /\ two[1] = a /\ two[2] = b
    BY TwoFields
  <2>2. read' = read \o two
    OBVIOUS
  <2> HIDE DEF two
  <2> DEFINE names == {"nodes", "streams"}
  <2>3. \A i \in 1 .. Len(two) : two[i].field \in names
    BY <2>1
  <2> HIDE DEF names
  <2>4. /\ Continues(read, read \o two, names) /\ Len(two) \in Nat
        /\ Len(read \o two) = Len(read) + Len(two)
        /\ \A i \in 1 .. Len(two) : (read \o two)[Len(read) + i] = two[i]
    <3>1. IsRead(two) /\ IsRead(read)
      BY <1>0, <2>1
    <3> QED
      BY <2>3, <3>1, ReadJoined, Zenon
  <2>5. read'[Len(read) + 1] = a /\ read'[Len(read) + 2] = b
    BY <2>1, <2>2, <2>4
  <2>6. Continues(read, read', {"nodes", "streams"})
    BY <2>2, <2>4, Zenon DEF names
  <2>7. Len(read') = Len(read) + 2 /\ (Len(read) + 1) + 1 = Len(read) + 2
    BY <1>0, <2>1, <2>2, <2>4
  <2> QED
    BY <2>5, <2>6, <2>7
<1>2. /\ read'[n].field = "nodes" /\ read'[n].value = nodes
      /\ read'[n + 1].field = "streams" /\ read'[n + 1].value = streams
  BY <1>1
<1> DEFINE m == n + 1
<1>3. /\ n \in Len(read) + 1 .. Len(read') /\ m \in Len(read) + 1 .. Len(read')
      /\ \A i \in Len(read) + 1 .. Len(read') : i = n \/ i = m
      /\ \A i \in Len(read) + 1 .. m - 1 : i = n
      /\ \A i \in Len(read) + 1 .. n - 1 : FALSE
  <2>1. Len(read) \in Nat /\ Len(read') = Len(read) + 2
    BY <1>0, <1>1
  <2> QED
    BY <2>1
<1>4. m - 1 = n /\ n = Len(read) + 1 /\ read'[m].field = "streams" /\ read'[m].value = streams
  BY <1>0, <1>2
<1> HIDE DEF a, b, two, n, m
<1>5. FastField(read', n, FALSE) = IF chunks # <<>> THEN "none" ELSE "go"
  <2>1. Again(read', n) <=> HasField(read, "graph")
    BY <1>1, <1>4, AgainMeans
  <2>2. HasField(read, "graph") <=> chunks # <<>>
    BY DEF OnPath, FieldsRead, NodesRead
  <2>3. FastField(read', n, FALSE) = IF Again(read', n) THEN "none" ELSE "go"
    BY <1>2, FastNodes
  <2> QED
    BY <2>1, <2>2, <2>3
<1>6. FastField(read', m, FALSE) = IF streams # 1 \/ nodes # 1 THEN "none"
                                   ELSE IF MayDecodeOne THEN "go" ELSE "error"
  <2>1. read'[m].field = "streams" /\ read'[m].value = streams /\ read'[m - 1].value = nodes
    BY <1>2, <1>4
  <2>2. FastField(read', m, FALSE) = IF read'[m].value # 1 \/ read'[m - 1].value # 1 THEN "none"
                                     ELSE IF MayDecodeOne THEN "go" ELSE "error"
    BY <2>1, FastStreams
  <2> QED
    BY <2>1, <2>2
<1>7. Fast' = FastVerdict(read', FALSE) /\ FastVerdict(read, FALSE) = "go"
  BY VerdictMoves DEF OnPath, Fast
<1>8. CASE chunks # <<>>
  <2>1. FastField(read', n, FALSE) = "none"
    BY <1>5, <1>8
  <2>2. FastVerdict(read', FALSE) = FastField(read', n, FALSE)
    BY <1>0, <1>1, <1>3, <1>7, <2>1, FastGoesOn
  <2> QED
    BY <1>1, <1>7, <1>8, <2>1, <2>2
<1>9. CASE chunks = <<>>
  <2>1. FastField(read', n, FALSE) = "go"
    BY <1>5, <1>9
  <2>2. ASSUME FastField(read', m, FALSE) = "go"
        PROVE  FastVerdict(read', FALSE) = FastField(read', m, FALSE)
    <3>1. \A i \in Len(read) + 1 .. Len(read') : FastField(read', i, FALSE) = "go"
      BY <1>3, <2>1, <2>2
    <3>2. FastVerdict(read', FALSE) = "go"
      BY <1>0, <1>1, <1>7, <3>1, FastGoesOn
    <3> QED
      BY <2>2, <3>2
  <2>3. ASSUME FastField(read', m, FALSE) # "go"
        PROVE  FastVerdict(read', FALSE) = FastField(read', m, FALSE)
    <3>1. \A i \in Len(read) + 1 .. m - 1 : FastField(read', i, FALSE) = "go"
      BY <1>3, <2>1
    <3> QED
      BY <1>0, <1>1, <1>3, <1>7, <2>3, <3>1, FastGoesOn
  <2>4. Fast' = FastField(read', m, FALSE)
    BY <1>7, <2>2, <2>3
  <2> QED
    BY <1>1, <1>6, <1>9, <2>4
<1> QED
  BY <1>1, <1>8, <1>9

LEMMA PathReadCounts == ASSUME OnPath, ReadCounts PROVE Parting
<1>0. phase = "chunks" /\ V \in Nat /\ V >= 21
  <2>1. phase = "chunks"
    BY DEF ReadCounts
  <2> QED
    BY <2>1, OnPathChunk DEF ChunkPhases, HeaderOnPath
<1>1. PICK nodes \in Nat, streams \in Nat :
        /\ read' = read \o << [field |-> "nodes", value |-> nodes],
                              [field |-> "streams", value |-> streams] >>
        /\ Proceed(Check(nodes <= NodeLimit(V), "Malformed",
                   Check(streams <= StreamLimit(V), "Malformed",
                   Check(nodes <= MaxNodes, "max_nodes",
                   Check(streams <= MaxStreams, "max_streams", "Ok")))),
             /\ chunk' = [NoChunk EXCEPT !.start = Offset, !.transforms = nodes, !.stored = streams]
             /\ phase' = IF V < 21 THEN "chunk flags" ELSE "graph"
             /\ ChunkStep /\ UNCHANGED <<header, chunks, summary, checked>>)
  <2>1. V \in Versions
    BY <1>0, FirstField DEF OnPath
  <2> QED
    BY <2>1, ValuesTyped DEF ReadCounts, OnPath, Base
<1>2. verify' = verify
  BY <1>1 DEF Proceed, Fail, ChunkStep
<1>3. /\ Continues(read, read', {"nodes", "streams"})
      /\ chunks # <<>> => Fast' = "none"
      /\ chunks = <<>> => Fast' = IF streams # 1 \/ nodes # 1 THEN "none"
                                  ELSE IF MayDecodeOne THEN "go" ELSE "error"
  <2>1. read' = read \o << [field |-> "nodes", value |-> nodes],
                           [field |-> "streams", value |-> streams] >>
    BY <1>1
  <2> QED
    BY <1>0, <1>2, <2>1, PathTwoMore
<1>4. MaxNodes \in Nat /\ MaxStreams \in Nat /\ MaxChunks \in Nat /\ MaxGraphDepth \in Nat
  BY LimitAssumption
<1>5. CASE phase' = "done"
  <2>1. ~(nodes <= NodeLimit(V) /\ streams <= StreamLimit(V) /\ nodes <= MaxNodes /\ streams <= MaxStreams)
    BY <1>1, <1>5 DEF Proceed, Check
  <2>2. 1 <= NodeLimit(V) /\ 1 <= StreamLimit(V)
    BY DEF NodeLimit, StreamLimit
  <2>3. ~(nodes = 1 /\ streams = 1 /\ MayDecodeOne)
    BY <1>4, <2>1, <2>2 DEF MayDecodeOne
  <2> QED
    BY <1>3, <1>5, <2>3 DEF Parting
<1>6. CASE phase' # "done"
  <2>1. /\ nodes <= MaxNodes /\ streams <= MaxStreams
        /\ chunk' = [NoChunk EXCEPT !.start = Offset, !.transforms = nodes, !.stored = streams]
        /\ phase' = "graph" /\ header' = header /\ chunks' = chunks
    <3> DEFINE error == Check(nodes <= NodeLimit(V), "Malformed",
                        Check(streams <= StreamLimit(V), "Malformed",
                        Check(nodes <= MaxNodes, "max_nodes",
                        Check(streams <= MaxStreams, "max_streams", "Ok"))))
    <3>1. error = "Ok"
      BY <1>1, <1>6 DEF Proceed, Fail
    <3>2. nodes <= MaxNodes /\ streams <= MaxStreams
      BY <3>1 DEF Check
    <3>3. /\ chunk' = [NoChunk EXCEPT !.start = Offset, !.transforms = nodes, !.stored = streams]
          /\ phase' = (IF V < 21 THEN "chunk flags" ELSE "graph") /\ header' = header /\ chunks' = chunks
      BY <1>1, <3>1 DEF Proceed
    <3>4. ~(V < 21)
      BY <1>0
    <3> QED
      BY <3>2, <3>3, <3>4
  <2>2. chunk'.transforms = nodes /\ chunk'.stored = streams /\ InChunk' /\ ~NodesRead'
    BY <2>1 DEF NoChunk, InChunk, NodesRead
  <2>3. chunks # <<>> \/ streams # 1 \/ nodes # 1 => OffFastPath'
    BY <2>1, <2>2 DEF OffFastPath
  <2>4. ASSUME chunks = <<>>, streams = 1, nodes = 1, MayDecodeOne
        PROVE  OnFastPath'
    <3>1. HeaderOnPath'
      BY <1>0, <1>3, <2>1, PathHeaderKept DEF ChunkPhases
    <3>2. ChunkOnPath'
      BY <2>1, <2>2, <2>4 DEF ChunkOnPath
    <3>3. chunks' = <<>>
      BY <2>1, <2>4
    <3> QED
      BY <2>4, <3>1, <3>2, <3>3, PathParts
  <2>5. ASSUME streams = 1, nodes = 1, ~MayDecodeOne
        PROVE  Doomed'
    <3>1. MaxChunks = 0 \/ MaxGraphDepth = 0
      BY <1>4, <2>1, <2>5 DEF MayDecodeOne
    <3>2. chunk'.transforms > 0
      BY <2>2, <2>5
    <3> QED
      BY <2>1, <2>2, <3>1, <3>2 DEF Doomed
  <2> QED
    BY <1>3, <1>6, <2>1, <2>3, <2>4, <2>5 DEF Parting, Together
<1> QED
  BY <1>5, <1>6

(* What a single node, or a single stream, adds up to.                     *)
LEMMA SumOfOne ==
  ASSUME NEW s, DOMAIN s = 1 .. 1, s[1] \in Int
  PROVE  SumOver(s) = s[1]
<1> DEFINE e == [i \in 1 .. 0 |-> 0]
<1>1. DOMAIN e = 1 .. 0 /\ DOMAIN e = {} /\ DOMAIN s = 1 .. (0 + 1)
  OBVIOUS
<1> HIDE DEF e
<1>2. Sum(e) = 0
  BY <1>1, SumEmpty
<1>3. \A i \in 1 .. 0 : s[i] = e[i]
  OBVIOUS
<1>4. Sum(s) = Sum(e) + s[0 + 1]
  BY <1>1, <1>3, SumLast
<1>5. Sum(s) = s[1]
  BY <1>2, <1>4
<1> QED
  BY <1>5 DEF SumOver, Sum

LEMMA NodeOfOne ==
  ASSUME NEW nodes, DOMAIN nodes = 1 .. 1, nodes[1] \in NodeField, FastNode(nodes[1])
  PROVE  HeaderBytes(nodes) = 0 /\ Regenerated(nodes) = 1
<1>1. nodes[1].header = 0 /\ nodes[1].regens = 1
  BY DEF FastNode
<1> DEFINE h == [i \in DOMAIN nodes |-> nodes[i].header]
           g == [i \in DOMAIN nodes |-> nodes[i].regens]
<1>2. DOMAIN h = 1 .. 1 /\ h[1] = 0 /\ DOMAIN g = 1 .. 1 /\ g[1] = 1
  BY <1>1
<1>3. HeaderBytes(nodes) = SumOver(h) /\ Regenerated(nodes) = SumOver(g)
  BY DEF HeaderBytes, Regenerated
<1> HIDE DEF h, g
<1> QED
  BY <1>2, <1>3, SumOfOne

LEMMA ZstdMeasures ==
  ASSUME NEW c \in Plan, ZstdNode(c)
  PROVE  TransformHeader(c) = 0 /\ RegeneratedBy(c) = 1 /\ Len(c.nodes) = 1
<1>1. Len(c.nodes) = 1 /\ Fields(c) \in [1 .. 1 -> NodeField] /\ DOMAIN c.nodes = 1 .. 1
  BY PlanFields DEF ZstdNode
<1>2. Fields(c)[1] = c.nodes[1].field /\ Fields(c)[1] \in NodeField /\ DOMAIN Fields(c) = 1 .. 1
  BY <1>1 DEF Fields
<1>3. FastNode(Fields(c)[1])
  BY <1>2 DEF ZstdNode, FastNode
<1> QED
  BY <1>1, <1>2, <1>3, NodeOfOne DEF TransformHeader, RegeneratedBy

LEMMA StoredOfOne ==
  ASSUME NEW c, c.sizes \in Seq(Nat), Len(c.sizes) = 1
  PROVE  StoredBytes(c) = c.sizes[1] /\ c.sizes[1] \in Nat
<1>1. DOMAIN c.sizes = 1 .. 1 /\ c.sizes[1] \in Nat
  OBVIOUS
<1>2. c.sizes[1] \in Int
  BY <1>1
<1> QED
  BY <1>1, <1>2, SumOfOne DEF StoredBytes

LEMMA NodesOfOne ==
  ASSUME NEW fields \in [1 .. 1 -> NodeField], NEW c, c.nodes = BuildNodes(fields)
  PROVE  Len(c.nodes) = 1 /\ Fields(c) = fields /\ DOMAIN c.nodes = 1 .. 1
<1> DEFINE n == 1
<1>1. n \in Nat /\ fields \in [1 .. n -> NodeField]
  OBVIOUS
<1> HIDE DEF n
<1>2. Len(c.nodes) = n /\ Fields(c) = fields /\ DOMAIN c.nodes = 1 .. n
  BY <1>1, NodesBuilt
<1> QED
  BY <1>2 DEF n

LEMMA PathReadGraph == ASSUME OnPath, ReadGraph PROVE Parting
<1>0. /\ phase = "graph" /\ chunks = <<>> /\ V \in Nat /\ V >= 21 /\ chunk.transforms = 1 /\ chunk.stored = 1
      /\ MayDecodeOne /\ header.flags \cap {"comment", "bundle"} = {} /\ chunk \in Plan
  <2>1. phase = "graph"
    BY DEF ReadGraph
  <2>2. chunk \in Plan
    BY DEF OnPath, Base, TypeOK
  <2> QED
    BY <2>1, <2>2, OnPathChunk DEF ChunkPhases, HeaderOnPath, ChunkOnPath, InChunk
<1>1. PICK nodes \in [1 .. 1 -> Values.graph] :
        /\ \A i \in DOMAIN nodes : nodes[i].dict # {} => HasDicts
        /\ Take("graph", nodes)
        /\ Proceed(Check(\A i \in DOMAIN nodes : Known(nodes[i], V), "Unsupported",
                   Check(\A i \in DOMAIN nodes : nodes[i].regens <= NodeInputs(V), "Malformed",
                   Check(\A i \in DOMAIN nodes :
                           \A d \in nodes[i].dict : d <= MaxDictsPerBundle, "Malformed",
                   Check(Regenerated(nodes) <= StreamLimit(V), "Malformed", "Ok")))),
             /\ chunk' = [chunk EXCEPT !.nodes = BuildNodes(nodes)]
             /\ phase' = "stored"
             /\ ChunkStep /\ UNCHANGED <<header, chunks, summary, checked>>)
  BY <1>0 DEF ReadGraph
<1> DEFINE known  == \A i \in DOMAIN nodes : Known(nodes[i], V)
           inputs == \A i \in DOMAIN nodes : nodes[i].regens <= NodeInputs(V)
           dicts  == \A i \in DOMAIN nodes : \A d \in nodes[i].dict : d <= MaxDictsPerBundle
           few    == Regenerated(nodes) <= StreamLimit(V)
           error  == Check(known, "Unsupported",
                     Check(inputs, "Malformed", Check(dicts, "Malformed", Check(few, "Malformed", "Ok"))))
           node   == nodes[1]
<1>2. verify' = verify
  BY <1>1 DEF Proceed, Fail, ChunkStep
<1>3. nodes \in [1 .. 1 -> NodeField] /\ DOMAIN nodes = 1 .. 1 /\ node \in NodeField
  <2>1. V \in Versions
    BY <1>0, FirstField DEF OnPath
  <2> QED
    BY <1>1, <2>1, ValuesTyped DEF OnPath, Base
<1>4. node.dict = {}
  <2>1. ~HasDicts
    BY <1>0 DEF HasDicts
  <2> QED
    BY <1>1, <1>3, <2>1
<1> DEFINE n == Len(read) + 1
<1>5. /\ Continues(read, read', {"graph"}) /\ read'[n].field = "graph" /\ read'[n].value = nodes
      /\ read'[1].value = V /\ Fast' = FastField(read', n, FALSE)
  <2>1. n = Len(read) + 1 /\ Take("graph", nodes) /\ phase # "magic"
    BY <1>0, <1>1
  <2> HIDE DEF n
  <2>2. OneMore(n, "graph", nodes)
    BY <1>2, <2>1, PathOneMore
  <2> QED
    BY <2>1, <2>2 DEF OneMore
<1>6. Fast' = IF FastUnknown(node, V) THEN "error" ELSE IF FastNode(node) THEN "go" ELSE "none"
  <2> HIDE DEF n
  <2> QED
    BY <1>5, FastGraph
<1>7. FastNode(node) => inputs /\ dicts /\ few
  <2> SUFFICES ASSUME FastNode(node) PROVE inputs /\ dicts /\ few
    OBVIOUS
  <2>1. inputs
    <3>1. 1 <= NodeInputs(V)
      BY <1>0 DEF NodeInputs, InputLimit
    <3>2. node.regens = 1
      BY DEF FastNode
    <3> QED
      BY <1>3, <3>1, <3>2
  <2>2. dicts
    BY <1>3, <1>4
  <2>3. few
    <3>1. Regenerated(nodes) = 1
      BY <1>3, NodeOfOne
    <3>2. 1 <= StreamLimit(V)
      BY DEF StreamLimit
    <3> QED
      BY <3>1, <3>2
  <2> QED
    BY <2>1, <2>2, <2>3
<1>8. known <=> Known(node, V)
  BY <1>3
<1>9. CASE phase' = "done"
  <2>1. error # "Ok"
    BY <1>1, <1>9 DEF Proceed
  <2>2. ~(known /\ inputs /\ dicts /\ few)
    <3> HIDE DEF known, inputs, dicts, few
    <3> QED
      BY <2>1 DEF Check
  <2>3. FastNode(node) => FastUnknown(node, V)
    <3> HIDE DEF known, inputs, dicts, few
    <3> QED
      BY <1>7, <1>8, <2>2 DEF FastUnknown, FastNode
  <2> QED
    BY <1>6, <1>9, <2>3 DEF Parting
<1>10. CASE phase' # "done"
  <2>1. error = "Ok"
    BY <1>1, <1>10 DEF Proceed, Fail
  <2>2. known
    <3> HIDE DEF known, inputs, dicts, few
    <3> QED
      BY <2>1 DEF Check
  <2>3. ~FastUnknown(node, V)
    BY <1>8, <2>2 DEF FastUnknown
  <2>4. /\ phase' = "stored" /\ chunk' = [chunk EXCEPT !.nodes = BuildNodes(nodes)]
        /\ header' = header /\ chunks' = chunks
    BY <1>1, <2>1 DEF Proceed
  <2>5. /\ chunk'.nodes = BuildNodes(nodes) /\ chunk'.transforms = 1 /\ chunk'.stored = 1
    BY <1>0, <2>4 DEF Plan
  <2>6. Len(chunk'.nodes) = 1 /\ Fields(chunk') = nodes /\ DOMAIN chunk'.nodes = 1 .. 1
    <3>1. nodes \in [1 .. 1 -> NodeField] /\ chunk'.nodes = BuildNodes(nodes)
      BY <1>3, <2>5
    <3> HIDE DEF known, inputs, dicts, few, error, node, n
    <3> QED
      BY <3>1, NodesOfOne
  <2>7. chunk'.nodes[1].field = node
    <3>1. Fields(chunk')[1] = chunk'.nodes[1].field
      BY <2>6 DEF Fields
    <3> QED
      BY <2>6, <3>1
  <2>8. ZstdNode(chunk') <=> FastNode(node)
    BY <1>4, <2>6, <2>7 DEF ZstdNode, FastNode
  <2>9. InChunk' /\ NodesRead'
    BY <2>4 DEF InChunk, NodesRead
  <2>10. ASSUME FastNode(node) PROVE OnFastPath'
    <3>1. HeaderOnPath'
      BY <1>0, <1>5, <2>4, PathHeaderKept DEF ChunkPhases
    <3>2. ChunkOnPath'
      BY <2>4, <2>5, <2>8, <2>10 DEF ChunkOnPath
    <3>3. chunks' = <<>>
      BY <1>0, <2>4
    <3> QED
      BY <1>0, <3>1, <3>2, <3>3, PathParts
  <2>11. ASSUME ~FastNode(node) PROVE OffFastPath'
    BY <2>8, <2>9, <2>11 DEF OffFastPath
  <2> QED
    BY <1>6, <1>10, <2>3, <2>4, <2>10, <2>11 DEF Parting, Together
<1> QED
  BY <1>9, <1>10

LEMMA PathReadStoredSizes == ASSUME OnPath, ReadStoredSizes PROVE Parting
<1>0. /\ phase = "stored" /\ chunks = <<>> /\ chunk.transforms = 1 /\ chunk.stored = 1 /\ ZstdNode(chunk)
      /\ MayDecodeOne /\ chunk \in Plan /\ Len(read) \in Nat
  <2>1. phase = "stored"
    BY DEF ReadStoredSizes
  <2>2. chunk \in Plan
    BY DEF OnPath, Base, TypeOK
  <2> QED
    BY <2>1, <2>2, OnPathChunk DEF ChunkPhases, HeaderOnPath, ChunkOnPath, InChunk, NodesRead
<1>1. PICK sizes \in [1 .. 1 -> Values.stored] :
        /\ Take("stored", sizes)
        /\ Proceed(Check(\A i \in DOMAIN sizes : sizes[i] <= MaxBufferBytes, "max_buffer_bytes", "Ok"),
             /\ chunk' = [chunk EXCEPT !.sizes = sizes] /\ phase' = "summary"
             /\ ChunkStep /\ UNCHANGED <<header, chunks, summary, checked>>)
  BY <1>0 DEF ReadStoredSizes
<1> DEFINE fits  == \A i \in DOMAIN sizes : sizes[i] <= MaxBufferBytes
           error == Check(fits, "max_buffer_bytes", "Ok")
           size  == sizes[1]
           n     == Len(read) + 1
<1>2. verify' = verify
  BY <1>1 DEF Proceed, Fail, ChunkStep
<1>3. sizes \in [1 .. 1 -> Nat] /\ DOMAIN sizes = 1 .. 1 /\ size \in Nat
  <2>1. V \in Versions
    BY <1>0, FirstField DEF OnPath
  <2> QED
    BY <1>1, <2>1, ValuesTyped DEF OnPath, Base
<1>4. sizes \in Seq(Nat) /\ Len(sizes) = 1
  <2>1. 1 \in Nat
    OBVIOUS
  <2> QED
    BY <1>3, <2>1, FunctionIsSeq
<1>5. /\ Continues(read, read', {"stored"}) /\ read'[n].field = "stored" /\ read'[n].value = sizes
      /\ Fast' = FastField(read', n, FALSE) /\ Len(read') = n
  <2>1. n = Len(read) + 1 /\ Take("stored", sizes)
    BY <1>1
  <2> HIDE DEF n
  <2>2. OneMore(n, "stored", sizes)
    BY <1>2, <2>1, PathOneMore
  <2> QED
    BY <2>1, <2>2 DEF OneMore
<1>6. Fast' = IF FastStores(size) THEN "go" ELSE "error"
  <2> HIDE DEF n
  <2> QED
    BY <1>5, FastStored
<1>7. fits <=> size <= MaxBufferBytes
  BY <1>3
<1>8. CASE phase' = "done"
  <2>1. error # "Ok"
    BY <1>1, <1>8 DEF Proceed
  <2>2. ~fits
    <3> HIDE DEF fits
    <3> QED
      BY <2>1 DEF Check
  <2>3. ~FastStores(size)
    BY <1>7, <2>2 DEF FastStores
  <2> QED
    BY <1>6, <1>8, <2>3 DEF Parting
<1>9. CASE phase' # "done"
  <2>1. error = "Ok"
    BY <1>1, <1>9 DEF Proceed, Fail
  <2>2. fits
    <3> HIDE DEF fits
    <3> QED
      BY <2>1 DEF Check
  <2>3. /\ phase' = "summary" /\ chunk' = [chunk EXCEPT !.sizes = sizes]
        /\ header' = header /\ chunks' = chunks
    BY <1>1, <2>1 DEF Proceed
  <2>4. /\ chunk'.sizes = sizes /\ chunk'.transforms = 1 /\ chunk'.stored = 1 /\ chunk'.nodes = chunk.nodes
    BY <1>0, <2>3 DEF Plan
  <2>5. StoredBytes(chunk') = size
    BY <1>4, <2>4, StoredOfOne
  <2>6. InChunk' /\ NodesRead' /\ ZstdNode(chunk')
    BY <1>0, <2>3, <2>4 DEF InChunk, NodesRead, ZstdNode
  <2>7. ASSUME FastStores(size) PROVE OnFastPath'
    <3>1. HeaderOnPath'
      BY <1>0, <1>5, <2>3, PathHeaderKept DEF ChunkPhases
    <3>2. StoredAt(read', [start |-> Len(read'), len |-> chunk'.sizes[1]])
      <4>1. \A j \in DOMAIN read : read[j].field # "stored"
        BY <1>0 DEF OnPath, FieldsRead, HasField
      <4>2. n \in DOMAIN read' /\ \A j \in DOMAIN read' : j # n => j \in DOMAIN read /\ read'[j] = read[j]
        BY <1>0, <1>5 DEF Continues
      <4>3. \A j \in DOMAIN read' : read'[j].field = "stored" <=> j = n
        BY <1>5, <4>1, <4>2
      <4>4. [start |-> Len(read'), len |-> chunk'.sizes[1]] = [start |-> n, len |-> read'[n].value[1]]
        BY <1>5, <2>4
      <4> HIDE DEF n
      <4> QED
        BY <4>2, <4>3, <4>4 DEF StoredAt
    <3>3. ChunkOnPath'
      BY <2>3, <2>4, <2>5, <2>6, <2>7, <3>2 DEF ChunkOnPath, FastStores
    <3>4. chunks' = <<>>
      BY <1>0, <2>3
    <3> QED
      BY <1>0, <3>1, <3>3, <3>4, PathParts
  <2>8. ASSUME ~FastStores(size) PROVE Doomed'
    <3>1. size > MaxStoredStreamBytes
      BY <1>3, <1>7, <2>2, <2>8, LimitAssumption DEF FastStores
    <3> QED
      BY <2>3, <2>5, <3>1 DEF Doomed
  <2> QED
    BY <1>6, <1>9, <2>3, <2>7, <2>8 DEF Parting, Together
<1> QED
  BY <1>8, <1>9

LEMMA PathCountChunk == ASSUME OnPath, CountChunk PROVE Parting
<1>0. /\ phase = "summary" /\ chunks = <<>> /\ chunk \in Plan /\ MayDecodeOne
      /\ ZstdNode(chunk) /\ HeaderOnPath /\ ChunkOnPath /\ read' = read
  <2>1. phase = "summary" /\ read' = read
    BY DEF CountChunk
  <2>2. chunk \in Plan
    BY DEF OnPath, Base, TypeOK
  <2> QED
    BY <2>1, <2>2, OnPathChunk DEF ChunkPhases, ChunkOnPath, InChunk, NodesRead
<1>1. Proceed(SummaryError(SummaryWith(chunk)),
        /\ summary' = SummaryWith(chunk) /\ phase' = "payload"
        /\ ChunkStep /\ UNCHANGED <<header, chunk, chunks, checked>>)
  BY DEF CountChunk
<1>2. SummaryError(SummaryWith(chunk)) = "Ok"
  <2>1. summary = [chunks |-> 0, transforms |-> 0, stored |-> 0, regenerated |-> 0]
    <3>1. summary = Totals(<<>>)
      BY <1>0 DEF OnPath, Base, SummaryExact, Counted
    <3> QED
      BY <3>1, TotalsOfNothing
  <2>2. Len(chunk.nodes) = 1 /\ RegeneratedBy(chunk) = 1
    BY <1>0, ZstdMeasures
  <2>3. Len(chunk.sizes) = 1
    <3>1. Len(chunk.sizes) = chunk.stored
      BY <1>0 DEF OnPath, Base, ChunkAsRead
    <3> QED
      BY <1>0, <3>1 DEF ChunkOnPath, InChunk, NodesRead
  <2>4. SummaryWith(chunk) = [chunks |-> 1, transforms |-> 1, stored |-> 1, regenerated |-> 1]
    BY <2>1, <2>2, <2>3 DEF SummaryWith
  <2>5. 1 <= MaxChunks /\ 1 <= MaxNodes /\ 1 <= MaxStreams
    BY <1>0, LimitAssumption DEF MayDecodeOne
  <2> DEFINE s == SummaryWith(chunk)
  <2>6. s.chunks = 1 /\ s.transforms = 1 /\ s.stored = 1 /\ s.regenerated = 1
    BY <2>4
  <2> HIDE DEF s
  <2>7. SummaryError(s) = "Ok"
    BY <2>5, <2>6 DEF SummaryError, Check
  <2> QED
    BY <2>7 DEF s
<1>3. phase' = "payload" /\ UNCHANGED <<verify, header, chunk, chunks>>
  BY <1>1, <1>2 DEF Proceed, ChunkStep
<1>4. Fast' = "go"
  BY <1>0, <1>3, PathStill DEF OnPath
<1>5. OnFastPath'
  <2>1. Continues(read, read', {})
    BY <1>0, ReadStays DEF OnPath, Base
  <2>2. HeaderOnPath'
    BY <1>0, <1>3, <2>1, PathHeaderKept DEF ChunkPhases
  <2>3. StoredBytes(chunk') = StoredBytes(chunk) /\ (ZstdNode(chunk') <=> ZstdNode(chunk))
    BY <1>3
  <2>4. ChunkOnPath'
    BY <1>0, <1>3, <2>3 DEF ChunkOnPath, InChunk, NodesRead
  <2>5. chunks' = <<>>
    BY <1>0, <1>3
  <2> QED
    BY <1>0, <2>2, <2>4, <2>5, PathParts
<1> QED
  BY <1>3, <1>4, <1>5 DEF Parting, Together

LEMMA PathReadPayload == ASSUME OnPath, ReadPayload PROVE Parting
<1>0. /\ phase = "payload" /\ chunks = <<>> /\ chunk \in Plan /\ MayDecodeOne
      /\ ZstdNode(chunk) /\ HeaderOnPath /\ ChunkOnPath /\ Len(read) \in Nat
      /\ chunk.transforms = 1 /\ chunk.stored = 1
      /\ StoredBytes(chunk) <= MaxStoredStreamBytes
      /\ StoredAt(read, [start |-> Len(read), len |-> chunk.sizes[1]])
  <2>1. phase = "payload"
    BY DEF ReadPayload
  <2>2. chunk \in Plan
    BY DEF OnPath, Base, TypeOK
  <2> QED
    BY <2>1, <2>2, OnPathChunk DEF ChunkPhases, ChunkOnPath, InChunk, NodesRead
<1>1. TransformHeader(chunk) = 0 /\ Len(chunk.sizes) = 1 /\ chunk.sizes \in Seq(Nat)
  <2>1. Len(chunk.sizes) = chunk.stored
    BY <1>0 DEF OnPath, Base, ChunkAsRead
  <2> QED
    BY <1>0, <2>1, ZstdMeasures DEF Plan
<1>2. PayloadError(chunk) = "Ok"
  <2>1. 0 <= MaxTransformHeaderBytes
    BY LimitAssumption
  <2> QED
    BY <1>0, <1>1, <2>1 DEF PayloadError, Check
<1>3. phase' = "checksums"
  BY <1>2 DEF ReadPayload, Proceed
<1>4. /\ UNCHANGED <<verify, header, chunks>> /\ chunk' = Located(chunk, Len(read))
      /\ Continues(read, read', {"payload"})
  BY <1>3, ReadPayloadSteps DEF OnPath
<1>5. Fast' = "go"
  <2>1. \A i \in Len(read) + 1 .. Len(read') : FastField(read', i, FALSE) = "go"
    <3> TAKE i \in Len(read) + 1 .. Len(read')
    <3>1. read'[i].field = "payload"
      BY <1>4 DEF Continues
    <3> QED
      BY <3>1, FastHeaderField
  <2>2. IsRead(read) /\ (read # <<>> => read[1].field = "magic")
    BY FirstField DEF OnPath
  <2>3. FastVerdict(read, FALSE) = "go"
    BY DEF OnPath, Fast
  <2>4. FastVerdict(read', FALSE) = "go"
    BY <1>4, <2>1, <2>2, <2>3, FastGoesOn
  <2> QED
    BY <1>4, <2>4, VerdictMoves
<1>6. OnFastPath'
  <2>1. HeaderOnPath'
    BY <1>0, <1>3, <1>4, PathHeaderKept DEF ChunkPhases
  <2> DEFINE c == Located(chunk, Len(read))
             range == [start |-> Len(read), len |-> chunk.sizes[1]]
  <2>2. c.nodes = chunk.nodes /\ c.transforms = 1 /\ c.stored = 1
    BY <1>0, LocatedIsPlan
  <2>3. c.ranges[1] = range
    <3>1. c.ranges = [i \in 1 .. Len(chunk.sizes) |->
            [start |-> Len(read) + TransformHeader(chunk) + SumOver(Firsts(chunk.sizes, i - 1)),
             len |-> chunk.sizes[i]]]
      BY <1>0, LocatedIsPlan
    <3>2. 1 \in 1 .. Len(chunk.sizes) /\ 1 - 1 = 0
      BY <1>1
    <3> HIDE DEF c
    <3>3. c.ranges[1] = [start |-> Len(read) + TransformHeader(chunk) + SumOver(Firsts(chunk.sizes, 0)),
                         len |-> chunk.sizes[1]]
      BY <3>1, <3>2
    <3>4. SumOver(Firsts(chunk.sizes, 0)) = 0
      BY SumFirsts DEF SumOver, Sum
    <3>5. Len(read) + TransformHeader(chunk) + SumOver(Firsts(chunk.sizes, 0)) = Len(read)
      BY <1>0, <1>1, <3>4
    <3> QED
      BY <3>3, <3>5
  <2>4. StoredAt(read', range)
    BY <1>0, <1>4, StoredKept
  <2>5. ZstdNode(chunk')
    BY <1>0, <1>4, <2>2 DEF ZstdNode
  <2>6. chunk'.transforms = 1 /\ chunk'.stored = 1 /\ chunk'.ranges[1] = range
    BY <1>4, <2>2, <2>3
  <2> HIDE DEF c, range
  <2>7. ChunkOnPath'
    BY <1>3, <2>4, <2>5, <2>6 DEF ChunkOnPath
  <2>8. chunks' = <<>>
    BY <1>0, <1>4
  <2> QED
    BY <1>0, <2>1, <2>7, <2>8, PathParts
<1> QED
  BY <1>3, <1>5, <1>6 DEF Parting, Together

(* Of the checksums after a chunk only the compressed one can fail.        *)
LEMMA FastChecksums ==
  ASSUME NEW r, NEW t, NEW flags, NEW matches, ChecksumsAdded(r, t, flags, matches), Len(r) \in Nat
  PROVE  /\ \A i \in Len(r) + 1 .. Len(t) :
              i # Len(t) \/ "encoded" \notin flags => FastField(t, i, FALSE) = "go"
         /\ "encoded" \in flags =>
              /\ Len(t) \in Len(r) + 1 .. Len(t)
              /\ FastField(t, Len(t), FALSE) = IF verify => matches THEN "go" ELSE "error"
<1> DEFINE D == "decoded" \in flags
           E == "encoded" \in flags
           d == IF D THEN 1 ELSE 0
           e == IF E THEN 1 ELSE 0
<1>0. /\ d \in {0, 1} /\ e \in {0, 1} /\ (d = 1 <=> D) /\ (e = 1 <=> E)
  OBVIOUS
<1>1. /\ Len(t) = Len(r) + d + e
      /\ D => t[Len(r) + 1].field = "decoded"
      /\ E => t[Len(t)].field = "encoded" /\ t[Len(t)].value = matches
  <2>1. /\ Len(t) = Len(r) + d + e
        /\ D => t[Len(r) + 1] = [field |-> "decoded", value |-> 0]
        /\ E => t[Len(t)] = [field |-> "encoded", value |-> matches]
    BY Zenon DEF ChecksumsAdded
  <2> HIDE DEF D, E, d, e
  <2> QED
    BY <2>1
<1> HIDE DEF D, E, d, e
<1>2. Len(t) \in Nat /\ (E => Len(t) \in Len(r) + 1 .. Len(t))
  BY <1>0, <1>1
<1>3. ASSUME NEW i \in Len(r) + 1 .. Len(t), i # Len(t) \/ ~E
      PROVE  FastField(t, i, FALSE) = "go"
  <2>1. D /\ i = Len(r) + 1
    <3>1. CASE E
      BY <1>0, <1>1, <1>3, <3>1
    <3>2. CASE ~E
      BY <1>0, <1>1, <1>3, <3>2
    <3> QED
      BY <3>1, <3>2
  <2>2. t[i].field = "decoded"
    BY <1>1, <2>1
  <2> QED
    BY <2>2, FastHeaderField
<1>4. ASSUME E PROVE FastField(t, Len(t), FALSE) = IF verify => matches THEN "go" ELSE "error"
  <2>1. t[Len(t)].field = "encoded" /\ t[Len(t)].value = matches
    BY <1>1, <1>4
  <2> QED
    BY <2>1, FastHeaderField
<1> QED
  BY <1>2, <1>3, <1>4 DEF E

LEMMA PathReadChecksums == ASSUME OnPath, ReadChecksums PROVE Parting
<1>0. /\ phase = "checksums" /\ chunks = <<>> /\ chunk \in Plan /\ MayDecodeOne
      /\ ZstdNode(chunk) /\ StoredAt(read, chunk.ranges[1])
      /\ chunk.stored = 1 /\ IsRead(read) /\ Len(read) \in Nat
  <2>1. phase = "checksums"
    BY DEF ReadChecksums
  <2>2. chunk \in Plan
    BY DEF OnPath, Base, TypeOK
  <2> QED
    BY <2>1, <2>2, OnPathChunk DEF ChunkPhases, ChunkOnPath, InChunk, NodesRead
<1> DEFINE flags == header.flags
           E == "encoded" \in flags
<1>1. PICK matches \in IF E THEN BOOLEAN ELSE {TRUE} :
        /\ read' = read \o DecodedField(flags) \o EncodedField(flags, matches)
        /\ phase' = "done" => ~(verify => matches)
        /\ phase' # "done" => (verify => matches) /\ phase' = "chunks" /\ header' = header
        /\ verify' = verify
  BY DEF ReadChecksums, DecodedField, EncodedField, Proceed, Check, Fail, ChunkStep
<1>2. ChecksumsAdded(read, read', flags, matches)
  <2>1. read' = read \o DecodedField(flags) \o EncodedField(flags, matches)
    BY <1>1
  <2> HIDE DEF flags
  <2> QED
    BY <1>0, <2>1, ChecksumFields
<1>3. /\ Continues(read, read', {"decoded", "encoded"})
      /\ \A i \in Len(read) + 1 .. Len(read') :
           i # Len(read') \/ ~E => FastField(read', i, FALSE) = "go"
      /\ E => /\ Len(read') \in Len(read) + 1 .. Len(read')
              /\ FastField(read', Len(read'), FALSE) = IF verify => matches THEN "go" ELSE "error"
  <2>1. Continues(read, read', {"decoded", "encoded"})
    BY <1>2 DEF ChecksumsAdded
  <2> HIDE DEF flags
  <2> QED
    BY <1>0, <1>2, <2>1, FastChecksums
<1>4. Fast' = FastVerdict(read', FALSE) /\ FastVerdict(read, FALSE) = "go"
      /\ (read # <<>> => read[1].field = "magic")
  BY <1>1, VerdictMoves, FirstField DEF OnPath, Fast
<1>5. CASE phase' = "done"
  <2>1. E /\ ~(verify => matches)
    BY <1>1, <1>5
  <2>2. FastField(read', Len(read'), FALSE) = "error"
    BY <1>3, <2>1
  <2>3. \A i \in Len(read) + 1 .. Len(read') - 1 : FastField(read', i, FALSE) = "go"
    <3>1. Len(read) \in Nat /\ Len(read') \in Nat
      BY <1>3 DEF Continues
    <3> HIDE DEF E
    <3> TAKE i \in Len(read) + 1 .. Len(read') - 1
    <3>2. i \in Len(read) + 1 .. Len(read') /\ i # Len(read')
      BY <3>1
    <3> QED
      BY <1>3, <3>2
  <2>4. FastVerdict(read', FALSE) = FastField(read', Len(read'), FALSE)
    <3> HIDE DEF E, flags
    <3> QED
      BY <1>0, <1>3, <1>4, <2>1, <2>2, <2>3, FastGoesOn
  <2> QED
    BY <1>4, <1>5, <2>2, <2>4 DEF Parting
<1>6. CASE phase' # "done"
  <2>1. (verify => matches) /\ phase' = "chunks" /\ header' = header
    BY <1>1, <1>6
  <2>2. \A i \in Len(read) + 1 .. Len(read') : FastField(read', i, FALSE) = "go"
    <3> TAKE i \in Len(read) + 1 .. Len(read')
    <3>1. CASE i # Len(read') \/ ~E
      BY <1>3, <3>1
    <3>2. CASE i = Len(read') /\ E
      BY <1>3, <2>1, <3>2
    <3> QED
      BY <3>1, <3>2
  <2>3. Fast' = "go"
    <3> HIDE DEF E, flags
    <3>1. FastVerdict(read', FALSE) = "go"
      BY <1>0, <1>3, <1>4, <2>2, FastGoesOn
    <3> QED
      BY <1>4, <3>1
  <2> DEFINE c == [chunk EXCEPT !.decoded = "decoded" \in header.flags,
                                !.encoded = "encoded" \in header.flags]
  <2>4. /\ chunks' = Append(chunks, c) /\ c.nodes = chunk.nodes /\ c.ranges = chunk.ranges
        /\ Len(c.sizes) = chunk.stored
    <3>1. c = [chunk EXCEPT !.decoded = "decoded" \in header.flags,
                            !.encoded = "encoded" \in header.flags]
      OBVIOUS
    <3> HIDE DEF c
    <3> QED
      BY <1>6, <3>1, ChunkCompleted DEF OnPath
  <2> HIDE DEF c
  <2>5. chunks' # <<>> /\ Len(chunks') = 1 /\ chunks'[1] = c
    <3>1. chunks' = <<c>>
      BY <1>0, <2>4
    <3> QED
      BY <3>1
  <2>6. OneZstdNode(c)
    BY <1>0, <2>4 DEF OneZstdNode, ZstdNode
  <2>7. StoredAt(read', c.ranges[1])
    <3>1. "stored" \notin {"decoded", "encoded"} /\ Continues(read, read', {"decoded", "encoded"})
      BY <1>3
    <3> QED
      BY <1>0, <2>4, <3>1, StoredKept
  <2>8. HeaderOnPath'
    BY <1>0, <1>3, <2>1, PathHeaderKept DEF ChunkPhases
  <2>9. ~InChunk' /\ ChunkOnPath'
    BY <2>1 DEF ChunkOnPath, InChunk, NodesRead
  <2>10. OnFastPath'
    BY <1>0, <2>5, <2>6, <2>7, <2>8, <2>9, PathParts
  <2> QED
    BY <1>6, <2>1, <2>3, <2>10 DEF Parting, Together
<1> QED
  BY <1>5, <1>6

(* A field without a value of the shortcut's kind does not come up, and an *)
(* input that ends is no verdict.                                          *)
LEMMA PathStep == ASSUME OnPath, Next, ~Finishing PROVE Parting
<1>1. CASE TooLong \/ Truncated
  <2>1. read' = read /\ verify' = verify /\ phase' = "done" /\ result' \in {"Truncated", "max_frame_bytes"}
    BY <1>1 DEF TooLong, Truncated, Fail
  <2>2. Fast' = "go"
    BY <2>1, PathStill DEF OnPath
  <2> QED
    BY <2>1, <2>2 DEF Parting
<1>2. ~ReadBundleId /\ ~ReadComment /\ ~ReadChunkFlags
  BY DEF OnPath, OnFastPath, ReadBundleId, ReadComment, ReadChunkFlags
<1>3. ~BadType
  <2>1. phase # "magic" => V >= 21
    BY DEF OnPath, OnFastPath
  <2>2. BadType => phase = "outputs" /\ V = 14
    BY DEF BadType
  <2>3. ~(14 >= 21)
    OBVIOUS
  <2> QED
    BY <2>1, <2>2, <2>3
<1>4. CASE ReadMagic \/ ReadFlags \/ ReadOutputs \/ ReadSize \/ ReadStringCounts \/ ReadHeaderChecksum
  BY <1>4, PathReadMagic, PathReadFlags, PathReadOutputs, PathReadSize, PathReadStringCounts,
     PathReadHeaderChecksum
<1>5. CASE EndChunks \/ ReadCounts \/ LongZero \/ ReadGraph \/ ReadStoredSizes \/ CountChunk
           \/ ReadPayload \/ ReadChecksums
  BY <1>5, PathEndChunks, PathReadCounts, PathLongZero, PathReadGraph, PathReadStoredSizes,
     PathCountChunk, PathReadPayload, PathReadChecksums
<1> QED
  BY <1>1, <1>2, <1>3, <1>4, <1>5 DEF Next, Finishing

-----------------------------------------------------------------------------
(* The two readers side by side.                                           *)
LEMMA NextFromBefore == ASSUME Next PROVE phase # "done"
BY DEF Next, TooLong, ReadMagic, ReadFlags, ReadBundleId, ReadOutputs, BadType, ReadSize,
       ReadStringCounts, ReadComment, ReadHeaderChecksum, FinishHeader, EndChunks, ReadCounts,
       LongZero, ReadChunkFlags, ReadGraph, ReadStoredSizes, CountChunk, ReadPayload,
       ReadChecksums, Truncated, FinishSize, TrailingBytes, Validate

LEMMA RefusedBeforeTheEnd == ASSUME Refusing PROVE phase # "scanned"
BY DEF Refusing, HeaderAction, TooLong, ReadMagic, ReadFlags, ReadBundleId, ReadOutputs, BadType,
       ReadSize, ReadStringCounts, ReadComment, ReadHeaderChecksum, ReadCounts, LongZero, ReadGraph,
       ReadStoredSizes, CountChunk, ReadPayload, ReadChecksums, Truncated

(* Steps only add fields, and leave the options as they are.               *)
LEMMA StepsAdd ==
  ASSUME Base, Next
  PROVE  /\ verify' = verify /\ op' = op /\ \E names : Continues(read, read', names)
         /\ phase' # "done" => phase # "scanned"
<1>0. IsRead(read)
  BY DEF Base
<1>1. CASE phase' # "done" /\ HeaderAction
  BY <1>1, HeaderSteps DEF HeaderMoves, HeaderStep, HeaderPhases
<1>2. CASE phase' # "done" /\ (ReadCounts \/ ReadChunkFlags \/ ReadGraph \/ ReadStoredSizes)
  <2>1. CASE ReadCounts
    BY <1>2, <2>1, ReadCountsSteps
  <2>2. CASE ReadChunkFlags
    BY <1>2, <2>2, ReadChunkFlagsSteps
  <2>3. CASE ReadGraph
    BY <1>2, <2>3, ReadGraphSteps
  <2>4. CASE ReadStoredSizes
    BY <1>2, <2>4, ReadStoredSizesSteps
  <2> QED
    BY <1>2, <2>1, <2>2, <2>3, <2>4
<1>3. CASE phase' # "done" /\ (CountChunk \/ ReadPayload \/ ReadChecksums \/ EndChunks)
  <2>1. CASE CountChunk
    BY <1>0, <1>3, <2>1, CountChunkSteps, ReadStays
  <2>2. CASE ReadPayload
    BY <1>3, <2>2, ReadPayloadSteps
  <2>3. CASE ReadChecksums
    BY <1>3, <2>3, ReadChecksumsSteps
  <2>4. CASE EndChunks
    <3>1. read' = read \/ Take("end", 0)
      BY <2>4 DEF EndChunks
    <3>2. \E names : Continues(read, read', names)
      BY <1>0, <3>1, ReadStays, Taken
    <3> QED
      BY <1>3, <2>4, <3>2, EndChunksSteps
  <2> QED
    BY <1>3, <2>1, <2>2, <2>3, <2>4
<1>4. CASE phase' = "done" /\ Refusing /\ Refusal /\ Continues(read, read', FieldNames)
  BY <1>4 DEF Refusal, Fail
<1>5. CASE phase' = "done" /\ Finishing
  <2>1. read' = read /\ verify' = verify /\ op' = op
    BY <1>5, FinishingEnds DEF Ends
  <2>2. Continues(read, read', {})
    BY <1>0, <2>1, ReadStays
  <2> QED
    BY <1>5, <2>1, <2>2
<1> QED
  BY <1>1, <1>2, <1>3, <1>4, <1>5, StepCases

LEMMA TogetherStep ==
  ASSUME Base, ReadersTogether, Next, phase' # "done"
  PROVE  ReadersTogether'
<1>1. phase # "done" /\ FieldsRead /\ Together /\ ~Finishing
  BY NextFromBefore, FinishingEnds DEF ReadersTogether
<1>2. FieldsRead'
  BY <1>1, FieldsReadStep
<1>3. Together'
  <2>1. CASE Fast = "go"
    <3>1. OnPath
      BY <1>1, <2>1 DEF OnPath, Together
    <3>2. Parting
      BY <1>1, <3>1, PathStep
    <3> QED
      BY <3>2 DEF Parting
  <2>2. CASE Fast # "go"
    <3>1. verify' = verify /\ phase # "scanned" /\ \E names : Continues(read, read', names)
      BY StepsAdd
    <3>2. Fast' = Fast
      BY <1>1, <2>2, <3>1, StoppedStays
    <3>3. Fast # "frame"
      BY <1>1, <3>1 DEF Together
    <3>4. Fast = "none" => OffFastPath'
      BY <1>1, OffStays DEF Together
    <3>5. Fast = "error" => Doomed'
      BY <1>1, DoomedStays DEF Together
    <3> QED
      BY <2>2, <3>2, <3>3, <3>4, <3>5 DEF Together
  <2> QED
    BY <2>1, <2>2
<1> QED
  BY <1>2, <1>3 DEF ReadersTogether

(* What the shortcut may say.                                              *)
LEMMA FastSays ==
  ASSUME NEW r, IsRead(r), NEW trailing
  PROVE  FastVerdict(r, trailing) \in {"go", "none", "error", "frame"}
<1>1. \A k : FastField(r, k, trailing) \in {"go", "none", "error", "frame"}
  <2> TAKE k
  <2>1. CASE r[k].field \in {"magic", "flags", "outputs", "size", "sum", "encoded"}
    BY <2>1, FastHeaderField
  <2>2. CASE r[k].field \in {"nodes", "long zero", "streams", "graph", "stored", "end"}
    <3>1. CASE r[k].field = "nodes"
      BY <3>1, FastNodes
    <3>2. CASE r[k].field = "long zero"
      BY <3>2, FastLongZero
    <3>3. CASE r[k].field = "streams"
      BY <3>3, FastStreams
    <3>4. CASE r[k].field = "graph"
      BY <3>4, FastGraph
    <3>5. CASE r[k].field = "stored"
      BY <3>5, FastStored
    <3>6. CASE r[k].field = "end"
      BY <3>6, FastEnd
    <3> QED
      BY <2>2, <3>1, <3>2, <3>3, <3>4, <3>5, <3>6
  <2>3. CASE r[k].field \notin {"magic", "flags", "outputs", "size", "sum", "encoded", "nodes",
                                "long zero", "streams", "graph", "stored", "end"}
    BY <2>3, FastOtherField
  <2> QED
    BY <2>1, <2>2, <2>3
<1>2. CASE \A i \in DOMAIN r : FastField(r, i, trailing) = "go"
  BY <1>2, FastGoes
<1>3. CASE \E i \in DOMAIN r : Stops(r, trailing, i)
  <2>1. PICK i : Stops(r, trailing, i)
    BY <1>3
  <2>2. FastVerdict(r, trailing) = FastField(r, i, trailing)
    BY <2>1, FastStops
  <2> QED
    BY <1>1, <2>2
<1> QED
  BY <1>2, <1>3, FastCases

(* FastPathAgrees, for what the shortcut says of the fields of an input    *)
(* and what the reader makes of them.                                      *)
AgreedOn(fast, kind, r, head, plans) ==
  /\ fast = "go" => kind = "Truncated"
  /\ fast = "frame" => kind = "Ok"
  /\ kind = "Ok" => fast \in {"frame", "none"}
  /\ kind = "Ok" =>
       (fast = "frame" <=>
          /\ head.version >= 21 /\ head.flags \cap {"comment", "bundle"} = {}
          /\ head.types = <<"Serial">>
          /\ Len(plans) = 1 /\ OneZstdNode(plans[1]))
  /\ fast = "frame" =>
       FastFrame(r) = [stored  |-> plans[1].ranges[1], decoded |-> plans[1].decoded,
                       bytes   |-> head.sizes[1], frame |-> Len(r)]

LEMMA VerdictOnAll ==
  ASSUME verify' = verify
  PROVE  FastVerdict(read, result = "Trailing")' = FastVerdict(read', result' = "Trailing")
BY DEF FastVerdict, FastField

LEMMA AgreedNext ==
  ASSUME verify' = verify, NEW trailing \in BOOLEAN, trailing <=> result' = "Trailing",
         AgreedOn(FastVerdict(read', trailing), result', read', header', chunks')
  PROVE  FastPathAgrees'
<1> DEFINE now == FastVerdict(read, result = "Trailing")
           more == result' = "Trailing"
<1>1. now' = FastVerdict(read', trailing)
  <2>1. now' = FastVerdict(read', more)
    BY VerdictOnAll
  <2>2. more \in BOOLEAN /\ (more <=> result' = "Trailing")
    OBVIOUS
  <2> HIDE DEF more, now
  <2>3. more = trailing
    BY <2>2
  <2> QED
    BY <2>1, <2>3
<1>2. FastPathAgrees <=>
        (phase = "done" /\ op = "parse" /\ result # "max_frame_bytes" =>
           AgreedOn(now, result, read, header, chunks))
  BY DEF FastPathAgrees, AgreedOn, V
<1> QED
  BY <1>1 DEF FastPathAgrees, AgreedOn, V, FastFrame, OneZstdNode, ZstdNode

(* A refused frame.                                                        *)
LEMMA AgreeOnRefusal ==
  ASSUME Base, ReadersTogether, Next, phase' = "done", Refusing, Refusal
  PROVE  FastPathAgrees'
<1>1. phase # "done" /\ phase # "scanned" /\ FieldsRead /\ Together /\ ~Finishing
  <2>1. phase # "done" /\ phase # "scanned"
    BY NextFromBefore, RefusedBeforeTheEnd
  <2>2. ~Finishing
    <3>1. ~FinishSize /\ ~TrailingBytes /\ ~Validate
      BY <2>1 DEF FinishSize, TrailingBytes, Validate
    <3>2. FinishHeader => result' = "Ok"
      BY DEF FinishHeader
    <3>3. result' # "Ok"
      BY DEF Refusal, Fail, ErrorNames
    <3> QED
      BY <3>1, <3>2, <3>3 DEF Finishing
  <2> QED
    BY <2>1, <2>2 DEF ReadersTogether
<1>2. result' \in ErrorNames /\ verify' = verify
  BY DEF Refusal, Fail
<1>3. CASE result' = "max_frame_bytes"
  BY <1>3 DEF FastPathAgrees
<1>4. CASE result' # "max_frame_bytes"
  <2>1. Fast' # "frame" /\ (Fast' = "go" => result' = "Truncated")
    <3>1. CASE Fast = "go"
      <4>1. OnPath
        BY <1>1, <3>1 DEF OnPath, Together
      <4> QED
        BY <1>1, <1>4, <4>1, PathStep DEF Parting
    <3>2. CASE Fast # "go"
      <4>1. Fast' = Fast
        BY <1>1, <3>2, StepsAdd, StoppedStays
      <4>2. Fast # "frame"
        BY <1>1 DEF Together
      <4> QED
        BY <3>2, <4>1, <4>2
    <3> QED
      BY <3>1, <3>2
  <2>2. Fast' = FastVerdict(read', FALSE)
    BY <1>2, VerdictMoves
  <2>3. result' # "Ok" /\ result' # "Trailing"
    BY <1>2 DEF ErrorNames
  <2>4. AgreedOn(FastVerdict(read', FALSE), result', read', header', chunks')
    BY <2>1, <2>2, <2>3 DEF AgreedOn
  <2> QED
    BY <1>2, <2>3, <2>4, AgreedNext
<1> QED
  BY <1>3, <1>4

(* A frame with more after it, which the shortcut does not take either.    *)
LEMMA AgreeOnTrailing ==
  ASSUME Base, ReadersTogether, TrailingBytes
  PROVE  FastPathAgrees'
<1>1. phase = "scanned" /\ read' = read /\ verify' = verify /\ result' = "Trailing"
  BY DEF TrailingBytes, Done
<1>2. FastVerdict(read, FALSE) # "go"
  BY <1>1 DEF ReadersTogether, Together, Fast
<1>3. FastVerdict(read, TRUE) \notin {"go", "frame"}
  BY <1>2, FastTrailing DEF Base
<1>4. AgreedOn(FastVerdict(read', TRUE), result', read', header', chunks')
  BY <1>1, <1>3 DEF AgreedOn
<1> QED
  BY <1>1, <1>4, AgreedNext

(* The frame that the shortcut makes out is the one that was read.         *)
LEMMA SameFrame ==
  ASSUME Base, FieldsRead, OnFastPath, phase = "scanned", chunks # <<>>
  PROVE  /\ Len(chunks) = 1 /\ chunks[1] \in Plan /\ OneZstdNode(chunks[1])
         /\ FastFrame(read) = [stored  |-> chunks[1].ranges[1], decoded |-> chunks[1].decoded,
                               bytes   |-> header.sizes[1], frame |-> Len(read)]
<1>1. chunks \in Seq(Plan) /\ Len(chunks) <= 1 /\ OneZstdNode(chunks[1])
  BY DEF Base, TypeOK, OnFastPath
<1>2. Len(chunks) = 1 /\ DOMAIN chunks = 1 .. 1 /\ chunks[1] \in Plan
  <2>1. Len(chunks) \in Nat /\ Len(chunks) # 0 /\ DOMAIN chunks = 1 .. Len(chunks)
    BY <1>1
  <2>2. Len(chunks) = 1
    BY <1>1, <2>1
  <2> QED
    BY <1>1, <2>1, <2>2
<1>3. chunks[1].decoded \in BOOLEAN
  BY <1>2 DEF Plan
<1>4. header.sizes = <<read[4].value - 1>>
  BY DEF OnFastPath
<1>5. PICK k \in DOMAIN read : /\ \A j \in DOMAIN read : read[j].field = "stored" <=> j = k
                               /\ chunks[1].ranges[1] = [start |-> k, len |-> read[k].value[1]]
  BY DEF OnFastPath, StoredAt
<1> DEFINE i == CHOOSE j \in DOMAIN read : read[j].field = "stored"
           decoded == \E j \in DOMAIN read : read[j].field = "decoded"
<1>6. i = k
  BY <1>5
<1>7. decoded = chunks[1].decoded
  <2>1. decoded <=> \E j \in DOMAIN chunks : chunks[j].decoded
    BY DEF FieldsRead, HasField
  <2>2. (\E j \in DOMAIN chunks : chunks[j].decoded) <=> chunks[1].decoded
    BY <1>2
  <2>3. decoded <=> chunks[1].decoded
    BY <2>1, <2>2
  <2> HIDE DEF decoded
  <2> QED
    BY <1>3, <2>3
<1>8. FastFrame(read) = [stored  |-> [start |-> i, len |-> read[i].value[1]], decoded |-> decoded,
                         bytes   |-> read[4].value - 1, frame |-> Len(read)]
  BY DEF FastFrame
<1>9. header.sizes[1] = read[4].value - 1
  BY <1>4
<1> HIDE DEF i, decoded
<1> QED
  BY <1>1, <1>2, <1>5, <1>6, <1>7, <1>8, <1>9

(* What is left to say of a scanned frame is whether its graphs decode.    *)
LEMMA AgreeOnValidate ==
  ASSUME Base, ReadersTogether, Validate
  PROVE  FastPathAgrees'
<1> DEFINE Enough(c) == Len(header.types) <= RegeneratedBy(c) + Len(c.sizes)
<1>1. /\ phase = "scanned" /\ read' = read /\ verify' = verify /\ header' = header /\ chunks' = chunks
      /\ FieldsRead /\ Together
  BY DEF Validate, Done, ReadersTogether
<1>2. PICK fits \in [DOMAIN chunks -> BOOLEAN] :
        /\ \A i \in DOMAIN chunks :
             /\ chunks[i].nodes # <<>> /\ MaxGraphDepth = 0 => ~fits[i]
             /\ OneZstdNode(chunks[i]) /\ Len(header.types) = 1 => fits[i] = (MaxGraphDepth >= 1)
        /\ result' = IF \E i \in DOMAIN chunks : ~fits[i] \/ ~Enough(chunks[i])
                     THEN "InvalidGraph"
                     ELSE IF PlanConsistent THEN "Ok" ELSE "Inconsistent"
  BY DEF Validate, Done
<1> DEFINE refused == \E i \in DOMAIN chunks : ~fits[i] \/ ~Enough(chunks[i])
<1>3. result' = IF refused THEN "InvalidGraph" ELSE "Ok"
  <2>1. PlanConsistent
    BY <1>1, ScannedPlan
  <2> HIDE DEF refused
  <2> QED
    BY <1>2, <2>1 DEF refused
<1>4. Fast \in {"none", "error", "frame"}
  <2>1. Fast # "go"
    BY <1>1 DEF Together
  <2>2. IsRead(read)
    BY DEF Base
  <2> QED
    BY <2>1, <2>2, FastSays DEF Fast
<1>5. result' # "Trailing"
  BY <1>3
<1> DEFINE ofKind == /\ V >= 21 /\ header.flags \cap {"comment", "bundle"} = {}
                     /\ header.types = <<"Serial">>
                     /\ Len(chunks) = 1 /\ OneZstdNode(chunks[1])
<1>6. SUFFICES AgreedOn(Fast, result', read, header, chunks)
  <2>1. AgreedOn(Fast, result', read, header, chunks) =>
          AgreedOn(FastVerdict(read', FALSE), result', read', header', chunks')
    BY <1>1 DEF Fast
  <2> QED
    BY <1>1, <1>5, <2>1, AgreedNext
<1>7. CASE Fast = "frame"
  <2>1. OnFastPath /\ chunks # <<>> /\ MayDecodeOne
    BY <1>1, <1>7 DEF Together, OnFastPath
  <2>2. /\ Len(chunks) = 1 /\ chunks[1] \in Plan /\ OneZstdNode(chunks[1])
        /\ FastFrame(read) = [stored  |-> chunks[1].ranges[1], decoded |-> chunks[1].decoded,
                              bytes   |-> header.sizes[1], frame |-> Len(read)]
    BY <1>1, <2>1, SameFrame
  <2>3. ofKind
    BY <1>1, <2>1, <2>2 DEF OnFastPath
  <2>4. DOMAIN chunks = 1 .. 1 /\ Len(header.types) = 1
    <3>1. chunks \in Seq(Plan)
      BY DEF Base, TypeOK
    <3> QED
      BY <2>2, <2>3, <3>1
  <2>5. fits[1] /\ Enough(chunks[1])
    <3>1. fits[1] = (MaxGraphDepth >= 1) /\ MaxGraphDepth >= 1
      BY <1>2, <2>1, <2>2, <2>4 DEF MayDecodeOne
    <3>2. RegeneratedBy(chunks[1]) = 1 /\ Len(chunks[1].sizes) = 1
      BY <2>2, ZstdMeasures DEF OneZstdNode
    <3> QED
      BY <2>4, <3>1, <3>2
  <2>6. ~refused
    <3> HIDE DEF Enough
    <3> QED
      BY <2>4, <2>5
  <2>7. result' = "Ok"
    <3> HIDE DEF refused
    <3> QED
      BY <1>3, <2>6
  <2> QED
    BY <1>7, <2>2, <2>3, <2>7 DEF AgreedOn, V
<1>8. CASE Fast = "none"
  <2>1. OffFastPath /\ ~InChunk /\ ~NodesRead
    BY <1>1, <1>8 DEF Together, InChunk, NodesRead
  <2>2. ~ofKind
    <3> SUFFICES ASSUME ofKind PROVE FALSE
      OBVIOUS
    <3>1. V \in Nat /\ ~(V < 21)
      <4>1. V \in 8 .. 27
        BY <1>1 DEF Base, Gates
      <4>2. V >= 21
        OBVIOUS
      <4> HIDE DEF ofKind
      <4> QED
        BY <4>1, <4>2
    <3>2. chunks # <<>> /\ DOMAIN chunks = 1 .. 1
      <4>1. chunks \in Seq(Plan)
        BY DEF Base, TypeOK
      <4>2. Len(chunks) = 1
        OBVIOUS
      <4> HIDE DEF ofKind
      <4> QED
        BY <4>1, <4>2
    <3>3. \A i \in DOMAIN chunks : OneZstdNode(chunks[i])
      BY <3>2
    <3> QED
      BY <1>1, <2>1, <3>1, <3>2, <3>3 DEF OffFastPath
  <2> QED
    BY <1>8, <2>2 DEF AgreedOn, V
<1>9. CASE Fast = "error"
  <2>1. MaxGraphDepth = 0 /\ \E i \in DOMAIN chunks : chunks[i].nodes # <<>>
    BY <1>1, <1>9 DEF Together, Doomed, InChunk, NodesRead
  <2>2. refused
    <3> HIDE DEF Enough
    <3> QED
      BY <1>2, <2>1
  <2>3. result' = "InvalidGraph"
    <3> HIDE DEF refused
    <3> QED
      BY <1>3, <2>2
  <2> QED
    BY <1>9, <2>3 DEF AgreedOn
<1> QED
  BY <1>4, <1>7, <1>8, <1>9

LEMMA AgreeStep ==
  ASSUME Base, ReadersTogether, FastPathAgrees, [Next]_vars
  PROVE  ReadersTogether' /\ FastPathAgrees'
<1>1. CASE UNCHANGED vars
  <2>1. UNCHANGED <<op, verify, phase, read, header, chunk, chunks, summary, checked, result>>
    BY <1>1 DEF vars
  <2>2. Fast' = Fast
    BY <2>1, VerdictMoves DEF Fast
  <2>3. FieldsRead' <=> FieldsRead
    BY <2>1 DEF FieldsRead, NodesRead, HasField
  <2>4. OnFastPath' <=> OnFastPath
    BY <2>1 DEF OnFastPath, InChunk, NodesRead, V
  <2>5. (OffFastPath' <=> OffFastPath) /\ (Doomed' <=> Doomed)
    <3>1. OffFastPath' <=> OffFastPath
      BY <2>1 DEF OffFastPath, InChunk, NodesRead, V
    <3>2. Doomed' <=> Doomed
      BY <2>1 DEF Doomed, InChunk, NodesRead
    <3> QED
      BY <3>1, <3>2
  <2>6. ReadersTogether'
    BY <2>1, <2>2, <2>3, <2>4, <2>5 DEF ReadersTogether, Together
  <2>7. FastPathAgrees'
    <3> DEFINE now == FastVerdict(read, result = "Trailing")
    <3>1. now' = FastVerdict(read', result' = "Trailing")
      BY <2>1, VerdictOnAll
    <3>2. now' = now
      BY <2>1, <3>1
    <3>3. FastPathAgrees <=>
            (phase = "done" /\ op = "parse" /\ result # "max_frame_bytes" =>
               AgreedOn(now, result, read, header, chunks))
      BY DEF FastPathAgrees, AgreedOn, V
    <3>4. FastPathAgrees' <=>
            (phase' = "done" /\ op' = "parse" /\ result' # "max_frame_bytes" =>
               AgreedOn(now', result', read', header', chunks'))
      BY DEF FastPathAgrees, AgreedOn, V, FastFrame, OneZstdNode, ZstdNode
    <3> HIDE DEF now
    <3> QED
      BY <2>1, <3>2, <3>3, <3>4
  <2> QED
    BY <2>6, <2>7
<1>2. CASE Next /\ phase' # "done"
  <2>1. FastPathAgrees'
    BY <1>2 DEF FastPathAgrees
  <2> QED
    BY <1>2, <2>1, TogetherStep
<1>3. CASE Next /\ phase' = "done"
  <2>1. ReadersTogether'
    BY <1>3 DEF ReadersTogether
  <2>2. CASE Refusing /\ Refusal
    BY <1>3, <2>1, <2>2, AgreeOnRefusal
  <2>3. CASE FinishHeader \/ FinishSize
    <3>1. op # "parse" /\ op' = op
      BY <2>3 DEF FinishHeader, HeaderStep, FinishSize, Done
    <3>2. FastPathAgrees'
      BY <3>1 DEF FastPathAgrees
    <3> QED
      BY <2>1, <3>2
  <2>4. CASE TrailingBytes
    BY <2>1, <2>4, AgreeOnTrailing
  <2>5. CASE Validate
    BY <2>1, <2>5, AgreeOnValidate
  <2> QED
    BY <1>3, <2>2, <2>3, <2>4, <2>5, StepCases DEF Finishing
<1> QED
  BY <1>1, <1>2, <1>3

LEMMA AgreeInit == ASSUME Init PROVE ReadersTogether /\ FastPathAgrees
<1>1. /\ phase = "magic" /\ read = <<>> /\ chunks = <<>> /\ header = NoHeader /\ DOMAIN read = {}
      /\ Len(read) = 0 /\ Len(chunks) = 0
  BY DEF Init
<1>2. FieldsRead
  BY <1>1 DEF FieldsRead, HasField, NodesRead
<1>3. Fast = "go"
  BY <1>1, FastGoes DEF Fast
<1>4. OnFastPath
  BY <1>1 DEF OnFastPath, InChunk, NodesRead
<1> QED
  BY <1>1, <1>2, <1>3, <1>4 DEF ReadersTogether, Together, FastPathAgrees

(* FastPathAgrees, for all fields and limits: on every input the shortcut  *)
(* for frames of one zstd node (parse/fast_zstd.rs) and the full reader    *)
(* come to the same result.  It makes out a frame only where the full      *)
(* reader accepts one, with the same content; it takes every accepted      *)
(* frame of its kind; and it refuses none that the full reader accepts.    *)
THEOREM ReadersAgree == Spec => []FastPathAgrees
<1>1. Init => ReadersTogether /\ FastPathAgrees
  BY AgreeInit
<1>2. Base /\ ReadersTogether /\ FastPathAgrees /\ [Next]_vars => (ReadersTogether /\ FastPathAgrees)'
  BY AgreeStep
<1> QED
  BY <1>1, <1>2, ReadingInvariant, PTL DEF Spec

=============================================================================
