-------------------------------- MODULE Rolz --------------------------------
(***************************************************************************)
(* The rolz_deprecated node (lz/rolz.rs, lz/rolz_decoder.rs): sequences of *)
(* literals and matches, where a match may name its source as "the n-th    *)
(* last position that followed the same two bytes".  The decoder rebuilds  *)
(* the table of those positions while it decodes, so it must insert every  *)
(* position the encoder inserted, in the same order and at the same time.  *)
(*                                                                         *)
(* Bytes are values here, since the table depends on them.  Types and      *)
(* literals are parsed before the first sequence and belong to the call;   *)
(* what a sequence takes from the three value streams is chosen while it   *)
(* is read.  Positions count from 0, as in the code.                       *)
(***************************************************************************)
EXTENDS Integers, Sequences, SequencesExt, FiniteSets

CONSTANTS
  Byte,
  Jobs,         \* the calls, see Job
  Values,       \* Values[type]: what a sequence may read, see Value
  Rows,         \* the rows of the table: 1 << context_log in the code
  RowOf,        \* the hash of two bytes: RowOf[b, c] \in Rows
  RowSize,      \* 1 << row_log
  MinLength, LzMinLength, RepMinLength,
  MaxPredicted, \* u8::MAX
  MaxOutput     \* min(Limits::max_decoded_bytes, max_buffer_bytes)

TypeLz == 0
TypeRolz == 1
TypeRep == 3  \* TypeRep - 1 is REP0, which the decoder treats alike
ContextDepth == 2
RepSub == 4

(* Literals of order 0 are one stream; those of order 1 are split into     *)
(* clusters, and the byte before a literal says which one it is in.        *)
Literals == [streams : Seq(Seq(Byte)), cluster : [Byte -> Nat], max : Nat]

Job == [types : Seq(TypeLz .. TypeRep), literals : Literals, size : Nat]

Value == [lit : Nat, len : Nat, code : Nat]

Entry == [index : Nat, predicted : Nat]

ASSUME RolzAssumption ==
  /\ Byte \subseteq Nat /\ 0 \in Byte /\ Jobs \subseteq Job
  /\ \A j \in Jobs : \A b \in Byte :
       b <= j.literals.max => j.literals.cluster[b] \in DOMAIN j.literals.streams
  /\ \A y \in TypeLz .. TypeRep : Values[y] \subseteq Value
  /\ RowOf \in [Byte \X Byte -> Rows]
  /\ RowSize \in Nat \ {0} /\ MaxPredicted \in Nat /\ MaxOutput \in Nat
  /\ MinLength \in Nat \ {0} /\ {LzMinLength, RepMinLength} \subseteq Nat \ {0, 1}

VARIABLES
  job,
  phase,   \* begin, sequence, literals, insert, match, extend, rest or done
  out,
  taken,   \* cluster_offsets: literals taken from each stream
  left,    \* literals of the sequence still to be appended
  at,      \* the next position to insert
  reps,
  heads, entries, \* the table: rows are rings, newest entry at the head
  read,    \* the sequences read
  matched, \* length of the match of this sequence
  result

rolzVars == <<job, phase, out, taken, left, at, reps, heads, entries, read, matched, result>>

HasTable == TypeRolz \in ToSet(job.types)
Streams  == job.literals.streams
Total(lengths) == FoldLeft(LAMBDA n, length : n + length, 0, lengths)
Remaining == Total([k \in DOMAIN Streams |-> Len(Streams[k]) - taken[k]])

Empty == [index |-> 0, predicted |-> 0]

RolzInit ==
  /\ job \in Jobs
  /\ phase = "begin" /\ out = <<>> /\ taken = [k \in DOMAIN job.literals.streams |-> 0]
  /\ left = 0 /\ at = 0 /\ reps = <<1, 4, 8>> /\ matched = 0
  /\ heads = [r \in Rows |-> 0]
  /\ entries = [r \in Rows |-> [i \in 0 .. RowSize - 1 |-> Empty]]
  /\ read = <<>> /\ result = "none"
-----------------------------------------------------------------------------
Larger(a, b)  == IF a >= b THEN a ELSE b
Smaller(a, b) == IF a <= b THEN a ELSE b

Fail(kind) ==
  /\ phase' = "done" /\ result' = kind
  /\ UNCHANGED <<job, out, taken, left, at, reps, heads, entries, matched>>

(* parse_rolz_deprecated_payload and RolzDeprecatedDecoder::new: other     *)
(* parameters are refused, the table may be too large, and what precedes   *)
(* the sequences may be malformed (Unparsed, told apart here).             *)
Begin ==
  /\ phase = "begin"
  /\ IF job.size > MaxOutput THEN Fail("LimitExceeded")
     ELSE \/ \E kind \in {"Unsupported", "Unparsed", "LimitExceeded",
                          "AllocationFailed"} : Fail(kind)
          \/ /\ phase' = "sequence"
             /\ UNCHANGED <<job, out, taken, left, at, reps, heads, entries, matched, result>>
  /\ UNCHANGED read

ReadSequence ==
  /\ phase = "sequence" /\ Len(read) < Len(job.types)
  /\ \E v \in Values[job.types[Len(read) + 1]] :
       /\ read' = Append(read, v)
       /\ IF Len(out) + v.lit > job.size \/ v.lit > Remaining THEN Fail("Malformed")
          ELSE /\ left' = v.lit /\ at' = Larger(Len(out), ContextDepth)
               /\ phase' = "literals"
               /\ UNCHANGED <<job, out, taken, reps, heads, entries, matched, result>>

(* RolzDeprecatedLiteralCursor::extend_next, one literal.                  *)
AppendLiteral ==
  /\ phase \in {"literals", "rest"} /\ left > 0
  /\ LET context == IF out = <<>> THEN 0 ELSE Last(out)
         k       == job.literals.cluster[context]
     IN  IF context > job.literals.max \/ taken[k] = Len(Streams[k]) THEN Fail("Malformed")
         ELSE /\ out' = Append(out, Streams[k][taken[k] + 1])
              /\ taken' = [taken EXCEPT ![k] = @ + 1]
              /\ left' = left - 1
              /\ UNCHANGED <<job, phase, at, reps, heads, entries, matched, result>>
  /\ UNCHANGED read

EndLiterals ==
  /\ phase \in {"literals", "rest"} /\ left = 0
  /\ phase' = IF phase = "rest" THEN "done" ELSE IF HasTable THEN "insert" ELSE "match"
  /\ result' = IF phase = "rest" THEN "Ok" ELSE result
  /\ UNCHANGED <<job, out, taken, left, at, reps, heads, entries, read, matched>>
-----------------------------------------------------------------------------
(* The row of a position is the hash of the two bytes before it.           *)
RowAt(s, pos) == RowOf[s[pos - 1], s[pos]]

(* Slot i of a row, counted from its head, in the ring.                    *)
SlotMutant(r, i) == i
Slot(r, i) == IF heads[r] + i < RowSize THEN heads[r] + i ELSE heads[r] + i - RowSize

(* The i-th newest entry of a row.                                         *)
EntryAt(r, i) == entries[r][Slot(r, i)]

HeadBefore(r) == IF heads[r] = 0 THEN RowSize - 1 ELSE heads[r] - 1

(* RolzDeprecatedTable::put moves the head back and overwrites what is     *)
(* there, the oldest entry of the row.                                     *)
Put(s, pos, length) ==
  LET r == RowAt(s, pos)
  IN  /\ heads' = [heads EXCEPT ![r] = HeadBefore(r)]
      /\ entries' = [entries EXCEPT ![r][HeadBefore(r)] =
                       [index |-> pos + 1, predicted |-> Smaller(length, MaxPredicted)]]

(* insert_rolz_deprecated_literals, one position.                          *)
InsertLiteral ==
  /\ phase = "insert"
  /\ IF at < Len(out)
     THEN Put(out, at, 0) /\ at' = at + 1 /\ UNCHANGED phase
     ELSE phase' = "match" /\ UNCHANGED <<at, heads, entries>>
  /\ UNCHANGED <<job, out, taken, left, reps, read, matched, result>>

(* A length is coded relative to the one the entry predicts: the predicted *)
(* length is the code 0, and what would be the code of it is skipped.      *)
MatchLength(expected, encoded) ==
  IF encoded + MinLength > expected THEN encoded + MinLength
  ELSE IF encoded > 0 THEN encoded + MinLength - 1
  ELSE expected

(* The offset of a repeat code: one of the last three and a small delta.   *)
RepOffset(code) ==
  LET prev == reps[(code % 4) + 1]
  IN  IF code = 0 THEN prev ELSE prev + (code \div 4) - RepSub

RepOk(code) ==
  /\ code % 4 # 3
  /\ code # 0 /\ code % 4 = 0 => code \div 4 = RepSub
  /\ RepOffset(code) >= 0

TableEntry(code) == EntryAt(RowAt(out, Len(out)), code)

(* resolve_match: the checks, the offset and the length of each type.      *)
Resolves(type, v) ==
  IF type = TypeLz THEN v.code # 0
  ELSE IF type = TypeRolz
  THEN Len(out) >= ContextDepth /\ v.code < RowSize /\ TableEntry(v.code).index # 0
  ELSE RepOk(v.code)

OffsetOf(type, v) ==
  IF type = TypeLz THEN v.code
  ELSE IF type = TypeRolz THEN Len(out) - (TableEntry(v.code).index - 1)
  ELSE RepOffset(v.code)

LengthOf(type, v) ==
  IF type = TypeLz THEN v.len + LzMinLength
  ELSE IF type = TypeRolz THEN MatchLength(TableEntry(v.code).predicted, v.len)
  ELSE v.len + RepMinLength

RepsAfterMutant(type, v, offset) ==
  IF type \in {TypeLz, TypeRolz} \/ v.code % 4 # 0 THEN <<offset, reps[1], reps[2]>> ELSE reps
RepsAfter(type, v, offset) ==
  IF type \in {TypeLz, TypeRolz} \/ v.code % 4 = 2 THEN <<offset, reps[1], reps[2]>>
  ELSE IF v.code % 4 = 1 THEN <<offset, reps[1], reps[3]>>
  ELSE reps

(* append_lz_match: each byte repeats the one `offset` before it.          *)
MatchBytes(offset, length) ==
  [i \in 1 .. length |-> out[Len(out) - offset + 1 + ((i - 1) % offset)]]

(* append_match.  A ROLZ match is inserted before its bytes are there, the *)
(* others afterwards.  "Redundant" is an error that cannot happen: a table *)
(* entry at or behind the position that looks it up.                       *)
AppendMatch ==
  LET type   == job.types[Len(read)]
      v      == Last(read)
      offset == OffsetOf(type, v)
      length == LengthOf(type, v)
  IN  /\ phase = "match"
      /\ IF ~Resolves(type, v) THEN Fail("Malformed")
         ELSE IF type = TypeRolz /\ offset <= 0 THEN Fail("Redundant")
         ELSE IF offset \notin 1 .. Len(out) \/ Len(out) + length > job.size
         THEN Fail("Malformed")
         ELSE /\ out' = out \o MatchBytes(offset, length)
              /\ reps' = RepsAfter(type, v, offset)
              /\ IF type = TypeRolz THEN Put(out, Len(out), length)
                 ELSE UNCHANGED <<heads, entries>>
              /\ matched' = length /\ at' = Len(out)
              /\ phase' = IF type # TypeRolz /\ HasTable /\ Len(out) >= ContextDepth
                          THEN "extend" ELSE "sequence"
              /\ UNCHANGED <<job, taken, left, result>>
      /\ UNCHANGED read

(* insert_rolz_deprecated_lz_match: the start of the match and the position*)
(* after it, each with the rest of the match from there.                   *)
LastInsertMutant == Len(out) - matched
LastInsert == Len(out) - matched + 1

InsertMatch ==
  /\ phase = "extend"
  /\ Put(out, at, Len(out) - at)
  /\ at' = at + 1
  /\ phase' = IF at = LastInsert THEN "sequence" ELSE "extend"
  /\ UNCHANGED <<job, out, taken, left, reps, read, matched, result>>

(* The literals after the last sequence end the output exactly.            *)
Finish ==
  /\ phase = "sequence" /\ Len(read) = Len(job.types)
  /\ IF Len(out) + Remaining # job.size THEN Fail("Malformed")
     ELSE /\ left' = job.size - Len(out) /\ phase' = "rest"
          /\ UNCHANGED <<job, out, taken, at, reps, heads, entries, matched, result>>
  /\ UNCHANGED read

RolzNext ==
  \/ Begin \/ ReadSequence \/ AppendLiteral \/ EndLiterals \/ InsertLiteral
  \/ AppendMatch \/ InsertMatch \/ Finish

RolzSpec == RolzInit /\ [][RolzNext]_rolzVars
-----------------------------------------------------------------------------
Results == {"none", "Ok", "LimitExceeded", "AllocationFailed", "Unsupported",
            "Unparsed", "Malformed", "Redundant"}

(* The types of every variable; no literal is taken twice or from nowhere. *)
RolzTypes ==
  /\ job \in Jobs
  /\ phase \in {"begin", "sequence", "literals", "insert", "match", "extend", "rest", "done"}
  /\ out \in Seq(Byte) /\ taken \in [DOMAIN Streams -> Nat]
  /\ \A k \in DOMAIN Streams : taken[k] <= Len(Streams[k])
  /\ left \in Nat /\ at \in Nat /\ reps \in Nat \X Nat \X Nat /\ matched \in Nat
  /\ heads \in [Rows -> 0 .. RowSize - 1]
  /\ entries \in [Rows -> [0 .. RowSize - 1 -> Entry]]
  /\ read \in Seq(Value) /\ Len(read) <= Len(job.types)
  /\ result \in Results

Filled(r, i) == EntryAt(r, i).index # 0
Position(r, i) == EntryAt(r, i).index - 1

(* Every entry of a row is a position already decoded, behind the row's    *)
(* two bytes: a ROLZ match always copies from before itself, and the check *)
(* that it does never fails.                                               *)
PointsBack ==
  \A r \in Rows : \A i \in 0 .. RowSize - 1 :
    Filled(r, i) => /\ Position(r, i) \in ContextDepth .. Len(out) - 1
                    /\ RowAt(out, Position(r, i)) = r

(* A row runs from the last position inserted to the first, without gaps   *)
(* and with none inserted twice: the n-th slot is the n-th last position.  *)
NewestFirst ==
  \A r \in Rows : \A i, j \in 0 .. RowSize - 1 :
    i < j /\ Filled(r, j) => Filled(r, i) /\ Position(r, j) < Position(r, i)

(* What is decoded and still to be appended fits the declared size.  Where *)
(* the next position to be inserted can be, and what a match is.           *)
InStep ==
  /\ Len(out) + left <= job.size
  /\ phase \in {"begin", "sequence", "insert", "match", "extend"} => left = 0
  /\ phase \in {"literals", "insert", "extend"} =>
       /\ at >= ContextDepth
       /\ \A r \in Rows : \A i \in 0 .. RowSize - 1 : Filled(r, i) => Position(r, i) < at
  /\ phase \in {"literals", "insert", "match", "extend"} => Len(read) > 0
  /\ phase \in {"literals", "insert"} => at <= Larger(Len(out), ContextDepth)
  /\ phase = "extend" => at \in {LastInsert - 1, LastInsert} /\ matched >= 2

RolzInv == RolzTypes /\ PointsBack /\ NewestFirst /\ InStep /\ result # "Redundant"

(* What a call j should decode, from the values its sequences read: what is*)
(* decoded so far, the literals left, the positions inserted (the newest   *)
(* is last) and the last three offsets.                                    *)
Reaching(bytes, streams, known, recent) ==
  [ok |-> TRUE, out |-> bytes, streams |-> streams, known |-> known, recent |-> recent]

Began(j) == Reaching(<<>>, j.literals.streams, <<>>, <<1, 4, 8>>)

Undecoded(j) ==
  [ok |-> FALSE, out |-> <<>>, streams |-> j.literals.streams, known |-> <<>>,
   recent |-> <<1, 4, 8>>]

NextLiteral(j, r) ==
  LET context == IF r.out = <<>> THEN 0 ELSE Last(r.out)
      k       == j.literals.cluster[context]
  IN  IF ~r.ok \/ context > j.literals.max \/ r.streams[k] = <<>> THEN Undecoded(j)
      ELSE Reaching(Append(r.out, Head(r.streams[k])), [r.streams EXCEPT ![k] = Tail(@)],
                    r.known, r.recent)

Appended(j, r, n) ==
  LET after[i \in 0 .. n] == IF i = 0 THEN r ELSE NextLiteral(j, after[i - 1]) IN after[n]

(* The positions of literals from one position up to another, and those of *)
(* a match.  A position without two bytes before it is not inserted.       *)
LiteralEntries(from, to) ==
  LET first == Larger(from, ContextDepth)
  IN  [i \in 1 .. Larger(first, to) - first |-> [pos |-> first + i - 1, length |-> 0]]

MatchEntries(type, pos, length) ==
  IF pos < ContextDepth THEN <<>>
  ELSE IF type = TypeRolz THEN <<[pos |-> pos, length |-> length]>>
  ELSE <<[pos |-> pos, length |-> length], [pos |-> pos + 1, length |-> length - 1]>>

(* The position inserted in a row with n newer ones, if there is one.      *)
InRow(known, s, r) == {i \in DOMAIN known : RowAt(s, known[i].pos) = r}
Nth(known, s, r, n) ==
  {i \in InRow(known, s, r) : Cardinality({m \in InRow(known, s, r) : m > i}) = n}

(* The length of a ROLZ match is the one that has this code.               *)
Code(expected, length) ==
  IF expected < MinLength \/ length > expected THEN length - MinLength
  ELSE IF length = expected THEN 0 ELSE length - MinLength + 1
Coded(expected, code) ==
  CHOOSE length \in MinLength .. expected + code + MinLength : Code(expected, length) = code

(* The match of a sequence: its offset, at most 0 if there is none, and    *)
(* its length.                                                             *)
Match(r, type, v) ==
  LET rep  == v.code % 4
      same == Nth(r.known, r.out, RowAt(r.out, Len(r.out)), v.code)
      e    == r.known[CHOOSE i \in same : TRUE]
  IN  IF type = TypeLz THEN <<v.code, v.len + LzMinLength>>
      ELSE IF type # TypeRolz
      THEN <<IF rep = 3 THEN 0
             ELSE IF rep = 0 THEN IF v.code \in {0, 4 * RepSub} THEN r.recent[1] ELSE 0
             ELSE r.recent[rep + 1] + (v.code \div 4) - RepSub,
             v.len + RepMinLength>>
      ELSE IF Len(r.out) < ContextDepth \/ v.code >= RowSize \/ same = {} THEN <<0, 0>>
      ELSE <<Len(r.out) - e.pos, Coded(Smaller(e.length, MaxPredicted), v.len)>>

(* Every byte of a match repeats the one `offset` before it, and its offset*)
(* becomes the first of the recent ones.                                   *)
Copied(s, offset, n) ==
  LET byte[i \in 1 .. Len(s) + n] == IF i <= Len(s) THEN s[i] ELSE byte[i - offset] IN byte

Recent(old, type, v, offset) ==
  LET moved == IF type \in {TypeLz, TypeRolz} THEN 3 ELSE (v.code % 4) + 1
  IN  IF moved = 1 THEN old
      ELSE [i \in 1 .. 3 |-> IF i = 1 THEN offset ELSE IF i <= moved THEN old[i - 1] ELSE old[i]]

AfterMatch(r, type, v, match) ==
  Reaching(Copied(r.out, match[1], match[2]), r.streams,
           r.known \o MatchEntries(type, Len(r.out), match[2]),
           Recent(r.recent, type, v, match[1]))

WithLiterals(r, fits) ==
  Reaching(fits.out, fits.streams, r.known \o LiteralEntries(Len(r.out), Len(fits.out)),
           r.recent)

Decoded(j, r, type, v) ==
  LET fits  == Appended(j, r, v.lit)
      lits  == WithLiterals(r, fits)
      match == Match(lits, type, v)
  IN  IF ~fits.ok \/ match[1] \notin 1 .. Len(fits.out) \/ Len(fits.out) + match[2] > j.size
      THEN Undecoded(j)
      ELSE AfterMatch(lits, type, v, match)

Decoding(j, values) ==
  LET after[n \in 0 .. Len(values)] ==
        IF n = 0 THEN Began(j) ELSE Decoded(j, after[n - 1], j.types[n], values[n])
  IN  after[Len(values)]

Left(r) == Total([k \in DOMAIN r.streams |-> Len(r.streams[k])])
WholeOutput(j, r) == Appended(j, r, Left(r))

(* The rows hold what was inserted: the n-th entry is the n-th newest.     *)
TableIs(known) ==
  \A r \in Rows : \A n \in 0 .. RowSize - 1 :
    /\ Nth(known, out, r, n) = {} => ~Filled(r, n)
    /\ \A i \in Nth(known, out, r, n) :
         EntryAt(r, n) = [index |-> known[i].pos + 1,
                          predicted |-> Smaller(known[i].length, MaxPredicted)]

DecodesAs(d, whole) ==
  /\ phase = "sequence" =>
       d.ok /\ out = d.out /\ reps = d.recent /\ (HasTable => TableIs(d.known))
  /\ result = "Ok" => whole.ok /\ out = whole.out /\ Len(out) = job.size
  /\ result = "Malformed" =>
       \/ ~d.ok
       \/ Len(read) = Len(job.types) /\ ~(whole.ok /\ Len(whole.out) = job.size)

(* A call decodes what its sequences define, with the row of every context *)
(* the last positions behind it, and refuses a call only if it defines     *)
(* nothing of the declared size.                                           *)
RolzDecodesAsDefined ==
  DecodesAs(Decoding(job, read), WholeOutput(job, Decoding(job, read)))
=============================================================================
