---------------------------- MODULE MCNodeKernels ----------------------------
(* Small instances of the node kernels: the inputs each node is given.      *)
EXTENDS NodeKernels, TLC

-----------------------------------------------------------------------------
(* ROLZ: two bytes of input alphabet, three rows of two entries.            *)
MCByte == {0, 1}
MCRows == 0 .. 2
MCRowOf == (<<0, 0>> :> 0) @@ (<<0, 1>> :> 1) @@ (<<1, 0>> :> 1) @@ (<<1, 1>> :> 2)
Linear(s) == [streams |-> <<s>>, cluster |-> [b \in MCByte |-> 1], max |-> 255]
Clusters(s, t, max) == [streams |-> <<s, t>>, cluster |-> [b \in MCByte |-> b + 1], max |-> max]
MCLiterals == {Linear(<<0, 0, 0, 0, 0>>), Linear(<<0, 0, 1, 0, 1>>),
             Clusters(<<0, 1, 1>>, <<1, 0>>, 1), Clusters(<<0, 0, 1>>, <<>>, 0)}
MCTypes == UNION {[1 .. n -> 0 .. 3] : n \in 0 .. 2} \cup {<<0, 1, 1>>, <<1, 1, 2>>, <<0, 3, 1>>, <<3, 1, 3>>}
MCJobs == [types : MCTypes, literals : MCLiterals, size : {9, 11, 13}]
MCValues == [y \in 0 .. 3 |->
  IF y = 0 THEN [lit : {0, 3}, len : {0, 1}, code : 0 .. 3]
  ELSE IF y = 1 THEN [lit : {0, 1, 4}, len : {0, 1, 2}, code : 0 .. 2]
  ELSE [lit : {0, 2}, len : {1}, code : {0, 1, 3, 4, 13, 16, 17, 18, 21}]]

-----------------------------------------------------------------------------
(* Bit streams: bytes of two bits in a register of four bytes.              *)
BitPatterns == {{}, {0}, {9}, {1, 2}, {0, 3, 5, 8}, {2, 6, 7, 9, 10}, {4}, {5, 7}, 0 .. 11}
MCSources == {[size |-> n, ones |-> {k \in p : k < 2 * n}] : n \in {0, 1, 3, 4, 5, 6}, p \in BitPatterns}

-----------------------------------------------------------------------------
(* Codecs: bytes of four bits, elements of up to four bytes.                *)
Upto(n, S) == UNION {[1 .. k -> S] : k \in 0 .. n}
Patterns == Prefixes(<<9, 6, 15, 1, 12, 5, 10, 3>>) \cup Prefixes(<<15, 8, 7, 14, 0, 2, 13, 4>>)
Edge(w) == {0, 1, 2, MaxValue(w) \div 2, MaxValue(w)}
Of(n, w, S) == {Stream(e, w) : e \in Upto(n, S)}
Ragged(w) == [bytes |-> <<1>>, width |-> w]
Edges(n) == UNION {Of(n, w, Edge(w)) : w \in {1, 2, 4}} \cup {Ragged(2), Ragged(4), [bytes |-> <<1, 2, 3>>, width |-> 3]}
Small(n) == UNION {Of(n, w, {0, 1, 5, 9}) : w \in {1, 2, 4}} \cup {Ragged(2), [bytes |-> <<1, 2, 3>>, width |-> 3]}
Vars == Upto(2, {0, 1, 3, 7, 8, 9, 15}) \cup
  {<<8, 8, 8, 8, 8, 1>>, <<15, 15, 15, 15, 15, 1>>, <<15, 15, 15, 15, 15, 2>>, <<8, 8, 8, 8, 8>>,
   <<8, 8, 8, 8, 8, 9>>, <<8, 8, 8, 8, 8, 8, 1>>, <<9, 9, 0>>, <<1, 0, 0>>}

BitpackIn == [header : [width : {1, 2, 4}, bits : 1 .. 16, extra : {0, 1, 3}], stored : Patterns, serial : {FALSE}]
  \cup [header : [width : {1, 2}, bits : {3}, extra : {0, 1}], stored : Patterns, serial : {TRUE}]
BitunpackIn ==
  UNION {[stream : Of(3, w, {0, 1, 2 ^ b - 1}) \cup {Ragged(2)}, bits : {b}, trailing : {<<>>, <<1>>, <<4>>}] :
           w \in {1, 2, 4}, b \in {1, 2, 3, 4, 5, 7, 8, 9, 13, 16}}
  \cup [stream : {Ragged(3), Ragged(1)}, bits : {0, 1, 5}, trailing : {<<>>}]
ZigzagIn == [stream : Edges(2)]
DeltaIn == [stream : Edges(2), header : {<<>>, <<5>>, <<15, 15>>, <<1, 2, 3, 4>>}, old : BOOLEAN]
DivideByIn == [stream : Of(2, 1, {0, 1, 5, 15}) \cup Of(2, 2, {0, 3, 255}) \cup Of(1, 4, {0, 9}) \cup {Ragged(2), Ragged(3)}, header : Vars]
RangePackIn == [stream : Edges(2), width : {1, 2, 3, 4}, min : {<<>>, <<1>>, <<15>>, <<15, 15>>, <<0, 0, 1, 0>>, <<15, 15, 15, 15>>}]
BigEndianIn == [stream : Edges(2)]
ConstantIn == [stream : [bytes : Prefixes(<<7, 8, 9>>), width : 0 .. 3], header : Vars]
SparseIn == [distances : UNION {Of(3, w, 0 .. 2) : w \in {1, 2}} \cup {Ragged(4), Ragged(2)},
             values : Of(2, 1, {0, 5}) \cup Of(2, 2, {5, 255}) \cup {Ragged(2)}, header : {<<>>, <<5>>, <<1, 2>>}]
DedupIn == [stream : Edges(2), outputs : 0 .. 2]
  \cup [stream : {Stream([i \in 1 .. n |-> i % 3], 1) : n \in {10, 11, 14, 15, 16, 28, 29, 30, 31}}, outputs : 1 .. 3]
QuantizeIn == [table : {"offsets", "lengths"}, extra : Upto(2, {0, 1, 6, 15}), codes : Upto(2, 0 .. 10)]
PartitionIn ==
  [header : [width : {1, 4}, preset : {0, 1, 2, 3}, zero : {FALSE}, power : {0}, rest : {<<>>, <<1>>}],
   extra : {<<>>, <<5>>, <<6, 15>>}, codes : Upto(2, {0, 1, 4, 9})]
  \cup
  [header : [width : {1, 2}, preset : {NoPreset}, zero : BOOLEAN, power : {0, 2, 3},
             rest : Upto(2, {0, 1, 3, 6, 15}) \cup {<<4, 3, 5>>, <<1, 15, 15, 15, 15, 15, 1>>, <<15, 15, 15, 15, 15, 1, 2>>,
               <<15, 15, 15, 15, 15, 1, 2, 1>>, <<8, 8, 8, 8, 8, 1, 4>>}],
   extra : {<<>>, <<5>>, <<6, 15>>}, codes : Upto(2, 0 .. 2)]
MuxIn == [header : [split : {0, 1, 2, 4, 5}, bias : {0, 2}], muxed : Upto(2, {0, 3, 7, 12, 15}),
          longs : Of(2, 1, {0, 2, 15}) \cup Of(2, 2, {1, 254}) \cup {Ragged(2), Ragged(3)}]
BitsplitIn == [width : {1, 2, 3}, widths : Upto(2, {0, 1, 3, 4}) \cup {<<2, 5>>, <<4, 1, 3>>}, 
               parts : UNION {[1 .. n -> {Stream(<<1>>, 1), Stream(<<3, 7>>, 1), Stream(<<6, 0>>, 1), Stream(<<1, 30>>, 2), Ragged(3)}] : n \in 1 .. 3}]
MergeIn == [bitset : Of(3, 1, 0 .. 3) \cup {Ragged(2), Ragged(3)}, sizes : Upto(2, 0 .. 3) \cup {<<1, 1, 1, 1, 1>>}, merged : Prefixes(<<10, 20, 30>>)]
FlatpackIn == [alphabet : {[i \in 1 .. n |-> 15 - i] : n \in {0, 1, 2, 3, 5, 9}} \cup {[i \in 1 .. 17 |-> 0]}, packed : Upto(3, {0, 1, 2, 5, 8, 14})]
TransposeIn == [stream : [bytes : Patterns, width : 0 .. 4]]
LanesIn == [lanes : Upto(3, {<<>>, <<1, 2>>, <<3, 4>>, <<5>>})]
Ascending(first, n) == [i \in 1 .. n |-> (first + i) % 16]
Layouts == {<<8, 8, 2, 2, 4, 4>>, <<4, 4, 2, 2, 8, 8>>, <<2, 2, 4, 4, 8, 8>>}
StructIn == [fields : {[i \in 1 .. 6 |-> [bytes |-> Ascending(3 * i, l[i]), width |-> l[i]]] : l \in Layouts}
              \cup Upto(2, [bytes : Prefixes(<<1, 2, 3, 4>>), width : 0 .. 2])]
ConcatIn == [stream : [bytes : Prefixes(<<1, 2, 3, 4, 5>>), width : 0 .. 2], sizes : Upto(3, 0 .. 3), outputs : {1, 2, 3}]
SplitnIn == [parts : Upto(3, [bytes : Prefixes(<<1, 2>>), width : 0 .. 2])]
SentinelIn == [values : Of(3, 1, {0, 3, 15}) \cup Of(2, 2, {3, 255}) \cup {Ragged(2), Ragged(3)},
               exceptions : Of(2, 1, {3, 9}) \cup Of(2, 2, {7, 15}) \cup {Ragged(2)}, header : {<<>>, <<0>>, <<3>>, <<8>>, <<15, 3>>, <<3, 1>>}]
TokenizeIn == [alphabet : [bytes : Prefixes(<<1, 2, 3, 4>>), width : 0 .. 2], indices : Of(2, 1, 0 .. 3) \cup {Ragged(2), Ragged(3)}]
FloatIn == [type : {"float16"}, signFracs : Of(2, 2, {0, 1, 30, 31, 32}) \cup {Ragged(2)}, exponents : Upto(2, {0, 1, 7, 8})]
  \cup [type : {"bfloat16"}, signFracs : Of(2, 1, {0, 1, 14, 15}), exponents : Upto(2, {0, 1, 15})]
  \cup [type : {"float32"}, signFracs : Of(1, 1, {0}) \cup {[bytes |-> b, width |-> 3] : b \in [1 .. 3 -> {0, 1, 15}]}, exponents : Upto(1, {0, 1, 15})]
NcountIn == [counts : Upto(3, {-1, 0, 2}), width : {1, 2}, parsed : BOOLEAN, trailing : BOOLEAN]
E1(s, b, n) == [symbol |-> s, bits |-> b, base |-> n]
FseTables == {[counts |-> <<1, 1>>, table |-> <<E1(0, 1, 0), E1(1, 1, 0)>>],
  [counts |-> <<2, 2>>, table |-> <<E1(0, 1, 0), E1(1, 1, 0), E1(0, 1, 2), E1(1, 1, 2)>>],
  [counts |-> <<3, -1>>, table |-> <<E1(0, 1, 2), E1(0, 0, 0), E1(0, 0, 1), E1(1, 2, 0)>>],
  [counts |-> <<3, 0>>, table |-> <<>>], [counts |-> <<1, 1>>, table |-> <<>>]}
FseBytes == Upto(2, {0, 1, 4, 6, 9, 15}) \cup [1 .. 3 -> {2, 7, 9}] \cup [1 .. 4 -> {3, 12}]
FseIn == UNION {[norm : {Stream([i \in 1 .. 2 |-> f.counts[i] % 256], 2).bytes}, table : {f.table}, lanes : {2, 4}, count : {1} \cup 2 .. 11, bytes : FseBytes] : f \in FseTables}
  \cup [norm : {<<1>>}, table : {<<>>}, lanes : {3}, count : {2}, bytes : {<<1>>}]
HuffWeights == {<<1, 1>>, <<2, 1, 1>>, <<1, 2, 1>>, <<1, 1, 1, 1>>, <<0, 2, 0, 2>>, <<1, 2, 3, 1>>, <<1>>, <<2>>, <<2, 1>>, <<4, 4>>, <<1, 1, 2, 2, 2>>, <<3, 3>>}
HuffBytes == Upto(2, {0, 1, 3, 5, 6, 9, 12, 15})
HuffIn == [weights : HuffWeights, large : BOOLEAN, x4 : {FALSE}, count : {1, 2, 3, 5}, parts : {<<[count |-> n, bytes |-> b]>> : n \in {2, 3, 5}, b \in HuffBytes}]
  \cup [weights : {<<1, 1>>, <<2, 1, 1>>}, large : BOOLEAN, x4 : {TRUE}, count : {4, 6}, parts : [1 .. 4 -> [count : {1, 2}, bytes : {<<2>>, <<3>>, <<5>>}]]]
Grouped(types, v) == [s \in 1 .. 6 |-> LET of == SelectSeq(UpTo(Len(types)), LAMBDA n : StateAt(types, n) = s - 1) IN [i \in DOMAIN of |-> v[of[i]]]]
Totals(codes) == [s \in 1 .. 6 |-> Sum([i \in 1 .. s |-> Len(codes[i])])]
TypesOf(n) == {t \in [1 .. n -> 0 .. 3] : n = 3 => t[3] = 2}
SeqTypes == {<<0>>, <<2>>, <<3>>, <<0, 1>>, <<0, 2>>, <<1, 2>>, <<2, 2>>, <<3, 2>>, <<2, 1>>, <<0, 0>>, <<2, 2, 2>>, <<1, 2, 2>>, <<1, 1, 2>>, <<3, 2, 1>>}
SeqIn ==
  {[types |-> t, codes |-> g, totals |-> Totals(g), bytes |-> b] :
     t \in SeqTypes, g \in {Grouped(u, v) : u \in SeqTypes, v \in {<<0, 3, 0>>, <<4, 1, 4>>, <<2, 4, 0>>, <<5, 0, 4>>, <<6, 1, 1>>}},
     b \in {<<1>>, <<2>>, <<5>>, <<7, 2>>, <<0, 5>>, <<>>}}
  \cup [types : {<<>>, <<0>>}, codes : {Grouped(<<0, 1>>, <<1, 2>>)}, totals : {<<1, 2, 2, 2, 2, 2>>, <<1, 0, 0, 0, 0, 1>>}, bytes : {<<1>>}]
PackedBits(bits) ==
  [i \in 1 .. CeilDiv(Len(bits), ByteBits) |->
     Sum([k \in 1 .. ByteBits |->
       LET place == (i - 1) * ByteBits + k
       IN  IF place <= Len(bits) /\ bits[place] = 1 THEN 2 ^ (k - 1) ELSE 0])]
(* What the encoder makes of `values`, in blocks of `block`.                *)
Pivcoded(weights, values, block) ==
  [weights |-> weights, header |-> <<Len(values), block>>,
   bytes |-> PackedBits(EncodedBlocks(Tree(weights), [size |-> Len(values), block |-> block], values))]
PivcoIn ==
  [weights : {<<1, 1>>, <<2, 1, 1>>, <<0, 3>>, <<1, 1, 1, 1>>, <<1, 1, 1>>, <<1, 1, 2, 3>>, <<1, 2, 1, 3>>, <<2, 2, 2, 1, 1>>, <<>>},
   header : {<<0>>, <<2>>, <<3>>, <<4>>, <<4, 2>>, <<3, 1>>, <<5, 0>>, <<7>>, <<8>>},
   bytes : Upto(2, {0, 1, 3, 6, 9, 12, 15}) \cup [1 .. 3 -> {0, 1, 3, 6, 13}]]
  \cup {Pivcoded(<<2, 2, 2, 1, 1>>, v, 4) : v \in [1 .. 4 -> 0 .. 4]}
  \cup {Pivcoded(<<2, 1, 1>>, v, 3) : v \in [1 .. 5 -> 0 .. 2]}
  \cup {Pivcoded(<<1, 1, 2, 3>>, v, 7) : v \in [1 .. 5 -> {0, 2, 3}]}
Blk ==
  {[kind |-> "bits", count |-> n, bits |-> b, payload |-> p] : n \in {0, 3}, b \in {0, 3, 4}, p \in {<<9, 6, 15>>}}
  \cup {[kind |-> "constant", count |-> n, payload |-> p] : n \in {1, 20}, p \in {<<5, 6>>, <<7>>}}
  \cup {[kind |-> "raw", count |-> 1, payload |-> p] : p \in {<<>>, <<1>>, <<1, 2>>}}
  \cup {[kind |-> "multi", count |-> n] : n \in {0, 1, 2, 31}} \cup {[kind |-> "reserved"]}
  \cup {[kind |-> "fse", count |-> 2, table |-> t, payload |-> <<5>>] : t \in {<<>>, <<E1(0, 1, 0), E1(1, 1, 0)>>}}
Huff == {[kind |-> "huffman", count |-> n, avx2 |-> a, cut |-> c, size |-> s, payload |-> p, explicit |-> e, parts |-> q] :
    n \in {0, 4}, a \in BOOLEAN, c \in {FALSE}, s \in {1}, p \in {<<9>>}, e \in {<<>>}, q \in {<<>>}}
  \cup {[kind |-> "huffman", count |-> 4, avx2 |-> FALSE, cut |-> c, size |-> s, payload |-> <<1, 2, 3, 4>>, explicit |-> e, parts |-> [i \in 1 .. 4 |-> [bytes |-> b]]] :
         c \in BOOLEAN, s \in {3, 4}, e \in {<<>>, <<1>>, <<2, 1>>, <<1, 1>>, <<0, 2>>, <<0>>, <<5>>, <<4, 4>>, <<2, 1, 1>>, <<1, 1, 1, 1>>}, b \in {<<3>>, <<5>>}}
WideOf(p) == [kind |-> "huffman", count |-> 2, avx2 |-> FALSE, cut |-> FALSE, prefix |-> p.prefix, symbols |-> p.symbols, payload |-> p.payload, log |-> p.log,
   weights |-> p.weights, x4 |-> FALSE, parts |-> <<[count |-> 2, bytes |-> <<5>>]>>]
Wide == {WideOf(p) : p \in [prefix : {"literal", "constant", "bad", "huffman"}, symbols : {2}, payload : {<<1, 2>>, <<1, 2, 3, 4>>}, log : {0, 1, 2},
   weights : {<<[kind |-> "raw", count |-> 2, payload |-> <<1, 1>>]>>, <<>>}]}
  \cup {WideOf([prefix |-> "huffman", symbols |-> 3, payload |-> <<>>, log |-> 1, weights |-> <<[kind |-> "multi", count |-> 2], [kind |-> "raw", count |-> 1, payload |-> <<1>>], [kind |-> "constant", count |-> 1, payload |-> <<1>>]>>])}
  \cup {WideOf([prefix |-> "huffman", symbols |-> 2, payload |-> <<>>, log |-> 1, weights |-> <<[kind |-> "multi", count |-> 2], [kind |-> "raw", count |-> 1, payload |-> <<1>>], [kind |-> "constant", count |-> 1, payload |-> <<1>>]>>])}
Multi(n) == [kind |-> "multi", count |-> n]
Raw1 == [kind |-> "raw", count |-> 1, payload |-> <<1>>]
Zero == [kind |-> "constant", count |-> 0, payload |-> <<1>>]
Con(n) == [kind |-> "constant", count |-> n, payload |-> <<7>>]
Nested == {<<Multi(2), Raw1, Multi(2), Raw1, Con(3)>>, <<Multi(1), Multi(1), Multi(1), Raw1>>, <<Multi(1), Multi(1), Raw1>>, <<Multi(2), Con(20), Con(20)>>,
  <<Multi(2), Con(14), Con(14)>>, <<Multi(2), Con(15), Con(15)>>, <<Multi(2), Con(15), Con(16)>>, <<Con(30)>>, <<Multi(1), Zero>>, <<Multi(1)>>,
  <<Multi(2), Multi(0), Raw1>>}
Fitting(S, w) == {b \in S : b.kind \in {"constant", "raw"} => Len(b.payload) <= w * (IF b.kind = "raw" THEN b.count ELSE 1)}
LegacyIn == UNION {[blocks : Upto(2, Fitting(Blk, 1)) \cup {<<h>> : h \in Huff} \cup {<<Multi(2), Raw1, h>> : h \in Huff} \cup Nested, width : {1}, lanes : {2}, buffer : {b}, expected : IF b THEN {1, 4} ELSE {0}] : b \in BOOLEAN}
  \cup [blocks : {<<b>> : b \in Fitting(Blk, 2)} \cup {<<w>> : w \in Wide} \cup {<<Multi(1), w>> : w \in Wide} \cup {<<Multi(1), Multi(1), w>> : w \in Wide}, width : {2}, lanes : {2}, buffer : {FALSE}, expected : {0}]
  \cup [blocks : {<<b>> : b \in Blk}, width : {3, 4}, lanes : {2}, buffer : {FALSE}, expected : {0}]
FixedIn == [blocks : {<<Con(3)>>, <<Con(4)>>, <<[kind |-> "raw", count |-> 2, payload |-> <<1, 2, 3, 4>>]>>, <<>>}, width : 0 .. 4, lanes : {2}, buffer : {FALSE}, expected : {0}, transposed : BOOLEAN, version : {10, 11}]

MCInputs == [bitpack |-> BitpackIn,
  bitunpack |-> BitunpackIn,
  zigzag |-> ZigzagIn,
  delta |-> DeltaIn,
  divide_by |-> DivideByIn,
  range_pack |-> RangePackIn,
  big_endian |-> BigEndianIn,
  constant |-> ConstantIn,
  sparse_num |-> SparseIn,
  dedup_num |-> DedupIn,
  quantize |-> QuantizeIn,
  partition |-> PartitionIn,
  mux_lengths |-> MuxIn,
  bitsplit |-> BitsplitIn,
  merge_sorted |-> MergeIn,
  flatpack |-> FlatpackIn,
  transpose |-> TransposeIn,
  transpose_split |-> LanesIn,
  split_by_struct |-> StructIn,
  concat |-> ConcatIn,
  splitn |-> SplitnIn,
  sentinel |-> SentinelIn,
  tokenize |-> TokenizeIn,
  float_deconstruct |-> FloatIn,
  fse_ncount |-> NcountIn,
  fse_v2 |-> FseIn,
  huffman_v2 |-> HuffIn,
  seq_values |-> SeqIn,
  pivco_huffman |-> PivcoIn,
  legacy_entropy |-> LegacyIn,
  huffman_fixed |-> FixedIn]
=============================================================================
