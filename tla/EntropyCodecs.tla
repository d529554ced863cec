---------------------------- MODULE EntropyCodecs ----------------------------
(***************************************************************************)
(* The FSE and Huffman nodes (entropy/fse.rs, entropy/huffman.rs) and the  *)
(* sequence values of rolz_deprecated (lz/rolz.rs), which are read with    *)
(* the same backward bit reader.  An FSE table is what zrip builds from    *)
(* the counts and belongs to the input; a Huffman table is built here.     *)
(* Streams with size prefixes are parts: the size that is stored and the   *)
(* bytes it covers.                                                        *)
(***************************************************************************)
EXTENDS NumericCodecs

CONSTANTS
  FseLogs,     \* the table logs zrip takes: MIN_TABLE_LOG .. MAX_TABLE_LOG
  BatchSize,   \* FSE_BATCH: 4
  BatchMaxLog, \* 12
  ByteLog,     \* the table log the format allows for bytes: 12
  ZripLog,     \* the one zrip decodes: 11
  LargeLog,    \* 20, for 16-bit symbols
  ValueCodes,  \* codes of a sequence value: 59
  ValueLog     \* those below 2 ^ ValueLog are the value: 5

PowerOfTwo(n) == n > 0 /\ \E k \in 0 .. n : 2 ^ k = n
Log2(n) == CHOOSE k \in 0 .. n : 2 ^ k <= n /\ n < 2 ^ (k + 1)

(* The bits of zrip's ReverseBitReader in the order it reads them: from    *)
(* the one that ends the last byte down.  The last byte cannot be zero.    *)
Sealed(bytes) == bytes # <<>> /\ Last(bytes) # 0
Backwards(bytes) ==
  LET n == BitLen(bytes) - (ByteBits - HighBit(Last(bytes)))
  IN  [k \in 1 .. n |-> Bit(bytes, n - k)]

(* The first bit read is the highest; past the end a branchless read gives *)
(* zeros.                                                                  *)
Taken(bits, pos, n) ==
  FoldLeft(LAMBDA v, i : 2 * v + (IF pos + i <= Len(bits) THEN bits[pos + i] ELSE 0), 0, UpTo(n))
-----------------------------------------------------------------------------
(* fse_ncount: counts as 16-bit numbers, without the zeros at the end.     *)
FseNcount(in) ==
  LET used == {i \in DOMAIN in.counts : in.counts[i] # 0}
      n    == IF used = {} THEN 0 ELSE Max(used)
  IN  IF in.width # 1 THEN Refuse("InvalidType")
      ELSE IF ~in.parsed \/ in.trailing THEN Refuse("Malformed")
      ELSE IF TooLong(2 * n) THEN Refuse("LimitExceeded")
      ELSE Gives(Stream([i \in 1 .. n |-> in.counts[i] % Base ^ 2], 2).bytes)

(* The counts of fse_v2: -1 stands for a single state.                     *)
Signed(value) == IF 2 * value >= Base ^ 2 THEN value - Base ^ 2 ELSE value
Counts(bytes) == LET e == ElementsOf([bytes |-> bytes, width |-> 2])
                 IN  [i \in DOMAIN e |-> Signed(e[i])]
States(counts) == Sum([i \in DOMAIN counts |-> IF counts[i] = -1 THEN 1 ELSE counts[i]])

(* validate_fse_distribution.                                              *)
DistributionOk(counts) ==
  /\ Len(counts) \in 2 .. 256 /\ \A i \in DOMAIN counts : counts[i] >= -1
  /\ PowerOfTwo(States(counts)) /\ Log2(States(counts)) \in FseLogs

(* One symbol from the state of its lane, which is then updated.  The      *)
(* checked step refuses a state or bits that are not there.                *)
FseStep(bits, table, d) ==
  LET lane  == (Len(d.out) % Len(d.states)) + 1
      entry == table[(d.states[lane] % Len(table)) + 1]
  IN  [d EXCEPT !.out = Append(@, entry.symbol),
                !.states[lane] = entry.base + Taken(bits, d.pos, entry.bits),
                !.pos = Min({@ + entry.bits, Len(bits)})]

FseChecked(bits, table, d) ==
  LET state == d.states[(Len(d.out) % Len(d.states)) + 1]
  IN  IF ~d.ok \/ state >= Len(table) THEN [d EXCEPT !.ok = FALSE]
      ELSE IF d.pos + table[state + 1].bits > Len(bits) THEN [d EXCEPT !.ok = FALSE]
      ELSE FseStep(bits, table, d)

(* A batch of symbols is read without checks if the bits that remain are   *)
(* enough for the largest updates; after the first that are not, the       *)
(* checked loop takes over.                                                *)
BatchFitsMutant(bits, log, d) == Len(bits) - d.pos >= (BatchSize - 1) * log
BatchFits(bits, log, d) == Len(bits) - d.pos >= BatchSize * log

FseBatch(bits, table, log, updates, d) ==
  IF ~d.batch THEN d
  ELSE IF updates - Len(d.out) < BatchSize \/ ~BatchFits(bits, log, d) THEN [d EXCEPT !.batch = FALSE]
  ELSE FoldLeft(LAMBDA a, i : FseStep(bits, table, a), d, UpTo(BatchSize))

FseLast(table, d) ==
  LET state == d.states[(Len(d.out) % Len(d.states)) + 1]
  IN  IF ~d.ok \/ state >= Len(table) THEN [d EXCEPT !.ok = FALSE]
      ELSE [d EXCEPT !.out = Append(@, table[state + 1].symbol)]

(* decode_fse_symbols.                                                     *)
FseSymbols(bytes, count, lanes, table, log) ==
  LET bits    == Backwards(bytes)
      updates == count - lanes
      start   == [ok |-> TRUE, pos |-> lanes * log, out |-> <<>>,
                  states |-> [k \in 1 .. lanes |-> Taken(bits, (k - 1) * log, log)],
                  batch |-> log <= BatchMaxLog /\ Len(table) = 2 ^ log]
      batched == FoldLeft(LAMBDA d, i : FseBatch(bits, table, log, updates, d), start, UpTo(updates))
      checked == FoldLeft(LAMBDA d, i : FseChecked(bits, table, d), batched,
                          UpTo(updates - Len(batched.out)))
      ended   == FoldLeft(LAMBDA d, i : FseLast(table, d), checked, UpTo(lanes))
  IN  IF count < lanes \/ ~Sealed(bytes) THEN Refuse("Malformed")
      ELSE IF Len(bits) < lanes * log \/ ~ended.ok \/ ended.pos # Len(bits) THEN Refuse("Malformed")
      ELSE Gives(ended.out)

FseV2(in) ==
  LET counts == Counts(in.norm)
      log    == Log2(States(counts))
  IN  IF in.lanes \notin {2, 4} THEN Refuse("Unsupported")
      ELSE IF in.count < 2 THEN Refuse("Malformed")
      ELSE IF TooLong(in.count) THEN Refuse("LimitExceeded")
      ELSE IF ~DistributionOk(counts) \/ in.table = <<>> THEN Refuse("Malformed")
      ELSE FseSymbols(in.bytes, in.count, in.lanes, in.table, log)

(* The n-th symbol is the symbol of the n-th state; a state follows from   *)
(* the one `lanes` before it, and all bits are read.                       *)
FseDefined(bits, count, lanes, table, log) ==
  FoldLeft(LAMBDA a, n :
             LET entry == table[a.states[n - lanes] + 1]
             IN  IF ~a.ok \/ a.pos + entry.bits > Len(bits) THEN [a EXCEPT !.ok = FALSE]
                 ELSE [a EXCEPT !.states = Append(@, entry.base + Taken(bits, a.pos, entry.bits)),
                                !.pos = @ + entry.bits],
           [ok |-> Len(bits) >= lanes * log, pos |-> lanes * log,
            states |-> [k \in 1 .. lanes |-> Taken(bits, (k - 1) * log, log)]],
           [i \in 1 .. count - lanes |-> lanes + i])

FseV2Right(in, r) ==
  LET log == Log2(States(Counts(in.norm)))
      d   == FseDefined(Backwards(in.bytes), in.count, in.lanes, in.table, log)
  IN  IF r.error \in {"Unsupported", "LimitExceeded"} \/ ~DistributionOk(Counts(in.norm)) \/
         in.table = <<>> \/ in.count < in.lanes \/ ~Sealed(in.bytes)
      THEN r.error # "none"
      ELSE IF d.ok /\ d.pos = Len(Backwards(in.bytes))
      THEN r = Gives([n \in DOMAIN d.states |-> in.table[d.states[n] + 1].symbol])
      ELSE r = Refuse("Malformed")

FseNcountRight(in, r) ==
  r.error = "none" =>
    /\ \A i \in DOMAIN Counts(r.value) : Counts(r.value)[i] = in.counts[i]
    /\ \A i \in Len(Counts(r.value)) + 1 .. Len(in.counts) : in.counts[i] = 0
    /\ r.value # <<>> => Last(Counts(r.value)) # 0
-----------------------------------------------------------------------------
(* huffman_table_log: a weight w takes 2 ^ (w - 1) entries, and the        *)
(* entries of at least two symbols fill a table.                           *)
EntriesOf(weight) == IF weight = 0 THEN 0 ELSE 2 ^ (weight - 1)
TableSize(weights) == Sum([s \in DOMAIN weights |-> EntriesOf(weights[s])])

Normalized(weights, max) ==
  /\ \A s \in DOMAIN weights : weights[s] <= max
  /\ Cardinality({s \in DOMAIN weights : weights[s] > 0}) >= 2
  /\ PowerOfTwo(TableSize(weights))

(* huffman_rank_starts and HuffmanRanks::fill: lighter symbols first, and  *)
(* those of one weight in order.  A symbol is one less than its place.     *)
RankStartMutant(weights, w) == Sum([s \in DOMAIN weights |-> IF weights[s] > w THEN EntriesOf(weights[s]) ELSE 0])
RankStart(weights, w) ==
  Sum([s \in DOMAIN weights |-> IF weights[s] < w THEN EntriesOf(weights[s]) ELSE 0])

Fill(weights, log, f, s) ==
  LET w     == weights[s]
      start == f.next[w]
  IN  IF w = 0 THEN f
      ELSE IF start + EntriesOf(w) > 2 ^ log THEN [f EXCEPT !.overflow = TRUE]
      ELSE [f EXCEPT !.next[w] = @ + EntriesOf(w),
                     !.table = [e \in DOMAIN @ |->
                        IF e \in start + 1 .. start + EntriesOf(w)
                        THEN [symbol |-> s - 1, bits |-> log + 1 - w] ELSE @[e]]]

FilledTable(weights, log) ==
  FoldLeft(LAMBDA f, s : Fill(weights, log, f, s),
           [overflow |-> FALSE, table |-> [e \in 1 .. 2 ^ log |-> [symbol |-> 0, bits |-> 0]],
            next |-> [w \in 0 .. log + 1 |-> RankStart(weights, w)]],
           UpTo(Len(weights)))

(* build_complete_huffman_decode_table and build_large_....  "Redundant"   *)
(* is an error that cannot happen.                                         *)
NoTable(kind) == [error |-> kind, log |-> 0, table |-> <<>>]
TableOf(weights) ==
  LET log == Log2(TableSize(weights))
      f   == FilledTable(weights, log)
  IN  IF f.overflow THEN NoTable("Redundant") ELSE [error |-> "none", log |-> log, table |-> f.table]

ByteTable(weights) ==
  IF Len(weights) \notin 2 .. Base \/ ~Normalized(weights, ByteLog) THEN NoTable("Malformed")
  ELSE IF TableSize(weights) > 2 ^ ByteLog THEN NoTable("Malformed")
  ELSE IF TableSize(weights) > 2 ^ ZripLog THEN NoTable("Unsupported")
  ELSE TableOf(weights)

LargeTable(weights) ==
  IF Len(weights) \notin 2 .. Base ^ 2 \/ ~Normalized(weights, LargeLog) THEN NoTable("Malformed")
  ELSE IF TableSize(weights) > 2 ^ LargeLog THEN NoTable("Malformed")
  ELSE IF \E s \in DOMAIN weights : weights[s] > Log2(TableSize(weights)) THEN NoTable("Redundant")
  ELSE TableOf(weights)

(* decode_large_huffman_stream, one symbol: the next `log` bits, or the    *)
(* fewer that remain with zeros below, select the entry.                   *)
HuffmanStep(t, bits, d) ==
  LET remaining == Len(bits) - d.pos
      entry     == t.table[Taken(bits, d.pos, t.log) + 1]
  IN  IF ~d.ok \/ remaining = 0 \/ entry.bits > remaining THEN [d EXCEPT !.ok = FALSE]
      ELSE [d EXCEPT !.pos = @ + entry.bits, !.out = Append(@, entry.symbol)]

HuffmanBits(t, bits, count) ==
  LET d == FoldLeft(LAMBDA a, i : HuffmanStep(t, bits, a),
                    [ok |-> TRUE, pos |-> 0, out |-> <<>>], UpTo(count))
  IN  IF d.ok /\ d.pos = Len(bits) THEN Gives(d.out) ELSE Refuse("Malformed")

HuffmanStream(t, bytes, count) ==
  IF Sealed(bytes) THEN HuffmanBits(t, Backwards(bytes), count) ELSE Refuse("Malformed")

(* One stream that must have the expected size, or four that add up to it. *)
Joined(each) ==
  IF \E i \in DOMAIN each : each[i].error # "none" THEN Refuse("Malformed")
  ELSE Gives(FlattenSeq([i \in DOMAIN each |-> each[i].value]))

LargeStreams(t, parts, x4, count) ==
  IF Len(parts) # (IF x4 THEN 4 ELSE 1) \/ Sum([k \in DOMAIN parts |-> parts[k].count]) # count
  THEN Refuse("Malformed")
  ELSE Joined([i \in DOMAIN parts |-> HuffmanStream(t, parts[i].bytes, parts[i].count)])

(* zrip's decode_single_stream and decode_4_streams: the first three       *)
(* streams have a fourth of the symbols each, rounded up.                  *)
ZripSizes(x4, count) ==
  LET fourth == CeilDiv(count, 4)
  IN  IF x4 THEN <<fourth, fourth, fourth, count - 3 * fourth>> ELSE <<count>>

ZripStreams(t, parts, x4, count) ==
  LET sizes == ZripSizes(x4, count)
  IN  IF Len(parts) # Len(sizes) \/ Last(sizes) < 0 THEN Refuse("Malformed")
      ELSE LargeStreams(t, [i \in DOMAIN parts |-> [count |-> sizes[i], bytes |-> parts[i].bytes]],
                        x4, count)

HuffmanWith(in, t) ==
  IF in.count < 2 THEN Refuse("Malformed")
  ELSE IF TooLong(IF in.large THEN 2 * in.count ELSE in.count) THEN Refuse("LimitExceeded")
  ELSE IF t.error # "none" THEN Refuse(t.error)
  ELSE IF in.large THEN LargeStreams(t, in.parts, in.x4, in.count)
  ELSE ZripStreams(t, in.parts, in.x4, in.count)

HuffmanV2(in) ==
  HuffmanWith(in, IF in.large THEN LargeTable(in.weights) ELSE ByteTable(in.weights))

(* The code of a symbol: lighter symbols first, then in order, and each    *)
(* with the length its weight gives.                                       *)
CodeOf(weights, s) ==
  LET log    == Log2(TableSize(weights))
      first  == Sum([t \in DOMAIN weights |->
                  IF weights[t] < weights[s] \/ (weights[t] = weights[s] /\ t < s)
                  THEN EntriesOf(weights[t]) ELSE 0])
      length == log + 1 - weights[s]
  IN  [k \in 1 .. length |-> (first \div 2 ^ (log - k)) % 2]

Codes(weights, symbols) == FlattenSeq([i \in DOMAIN symbols |-> CodeOf(weights, symbols[i] + 1)])

HuffmanV2Right(in, r) ==
  /\ r.error # "Redundant"
  /\ r.error = "none" =>
       /\ Len(r.value) = in.count
       /\ Codes(in.weights, r.value)
            = FlattenSeq([i \in DOMAIN in.parts |-> Backwards(in.parts[i].bytes)])
-----------------------------------------------------------------------------
(* decode_rolz_deprecated_seq_values: the codes of a value are grouped by  *)
(* the Markov state of their sequence, and the totals say where each group *)
(* ends.                                                                   *)
MarkovStates == 0 .. 5
Markov == <<<<0, 1, 2, 5>>, <<0, 1, 3, 5>>, <<0, 1, 4, 5>>, <<0, 1, 4, 5>>, <<0, 1, 4, 5>>, <<0, 1, 2, 5>>>>

GroupStart(totals, state) == IF state = 0 THEN 0 ELSE totals[state]

ValueOf(code) ==
  IF code < 2 ^ ValueLog THEN [base |-> code, bits |-> 0]
  ELSE LET n == code - 2 ^ ValueLog + ValueLog IN [base |-> 2 ^ n, bits |-> n]

SeqStepMutant(in, codes, bits, a, type) ==
  LET state == Markov[1][type + 1]
      index == a.positions[state]
      v     == ValueOf(codes[index + 1])
  IN  IF ~a.ok \/ index >= in.totals[state + 1] THEN [a EXCEPT !.ok = FALSE]
      ELSE IF codes[index + 1] >= ValueCodes \/ a.pos + v.bits > Len(bits) THEN [a EXCEPT !.ok = FALSE]
      ELSE [a EXCEPT !.state = state, !.positions[state] = @ + 1, !.pos = @ + v.bits,
                     !.values = Append(@, v.base + Taken(bits, a.pos, v.bits))]
SeqStep(in, codes, bits, a, type) ==
  LET state == Markov[a.state + 1][type + 1]
      index == a.positions[state]
      v     == ValueOf(codes[index + 1])
  IN  IF ~a.ok \/ index >= in.totals[state + 1] THEN [a EXCEPT !.ok = FALSE]
      ELSE IF codes[index + 1] >= ValueCodes \/ a.pos + v.bits > Len(bits) THEN [a EXCEPT !.ok = FALSE]
      ELSE [a EXCEPT !.state = state, !.positions[state] = @ + 1, !.pos = @ + v.bits,
                     !.values = Append(@, v.base + Taken(bits, a.pos, v.bits))]

TotalsOk(totals, count) ==
  /\ \A i \in 1 .. Len(totals) - 1 : totals[i] <= totals[i + 1]
  /\ Last(totals) = count

SeqValues(in) ==
  LET codes == FlattenSeq(in.codes)
      bits  == Backwards(in.bytes)
      a     == FoldLeft(LAMBDA b, type : SeqStep(in, codes, bits, b, type),
                        [ok |-> TRUE, state |-> 0, pos |-> 0, values |-> <<>>,
                         positions |-> [s \in MarkovStates |-> GroupStart(in.totals, s)]],
                        in.types)
  IN  IF in.types = <<>> THEN Gives(<<>>)
      ELSE IF ~TotalsOk(in.totals, Len(in.types)) THEN Refuse("Malformed")
      ELSE IF \E s \in MarkovStates :
                Len(in.codes[s + 1]) # in.totals[s + 1] - GroupStart(in.totals, s)
      THEN Refuse("Malformed")
      ELSE IF ~Sealed(in.bytes) THEN Refuse("Malformed")
      ELSE IF ~a.ok \/ (\E s \in MarkovStates : a.positions[s] # in.totals[s + 1]) THEN Refuse("Malformed")
      ELSE IF a.pos # Len(bits) THEN Refuse("Malformed")
      ELSE Gives(a.values)

(* The state of a sequence is its type, except that a repeat of the last   *)
(* offset (type 2) is told apart by what came before it.                   *)
StateAt(types, n) ==
  IF types[n] # 2 THEN IF types[n] = 3 THEN 5 ELSE types[n]
  ELSE IF n = 1 \/ types[n - 1] \in {0, 3} THEN 2
  ELSE IF types[n - 1] = 1 THEN 3 ELSE 4

(* Each sequence takes the next code of its state; none is left over, and  *)
(* the bits are the extra bits of the values in order.                     *)
SeqValuesRight(in, r) ==
  LET Nth(n) == Cardinality({k \in 1 .. n : StateAt(in.types, k) = StateAt(in.types, n)})
      code(n) == in.codes[StateAt(in.types, n) + 1][Nth(n)]
      extra(n) == r.value[n] - ValueOf(code(n)).base
  IN  r.error = "none" /\ in.types # <<>> =>
        /\ \A s \in MarkovStates :
             Len(in.codes[s + 1]) = Cardinality({n \in DOMAIN in.types : StateAt(in.types, n) = s})
        /\ Backwards(in.bytes) =
             FlattenSeq([n \in DOMAIN in.types |->
               [k \in 1 .. ValueOf(code(n)).bits |-> (extra(n) \div 2 ^ (ValueOf(code(n)).bits - k)) % 2]])
        /\ \A n \in DOMAIN in.types : extra(n) \in 0 .. 2 ^ ValueOf(code(n)).bits - 1
=============================================================================
