------------------------------ MODULE TreeCodecs ------------------------------
(***************************************************************************)
(* pivco_huffman (entropy/pivco_huffman.rs): a Huffman tree decoded level  *)
(* by level, a bitmap at each node saying which values go right; and the   *)
(* legacy entropy container (entropy/legacy.rs, legacy_huffman.rs) with    *)
(* its nested blocks.                                                      *)
(***************************************************************************)
EXTENDS EntropyCodecs

CONSTANTS
  PivcoLog,       \* MAX_TABLE_LOG: 12
  CodeBits,       \* 16, the bits of a codeword
  MaxBlock,       \* MAX_BLOCK_SIZE
  MaxDepth        \* LEGACY_ENTROPY_MAX_DEPTH: 64
-----------------------------------------------------------------------------
(* weight_buckets and optimize_leaves: from the heaviest weight down, the  *)
(* last leaves of a bucket become one flat leaf of a heavier one, until    *)
(* two are left.                                                           *)
Bucketed(weights) ==
  [w \in 1 .. PivcoLog + 1 |->
     LET of == SelectSeq(UpTo(Len(weights)), LAMBDA s : weights[s] = w)
     IN  [i \in DOMAIN of |-> <<of[i] - 1>>]]

Peel(buckets, w) ==
  LET leaves == buckets[w]
      bits   == Log2(Len(leaves))
      keep   == Len(leaves) - 2 ^ bits
  IN  [buckets EXCEPT ![w] = SubSeq(@, 1, keep),
                      ![w + bits] = Append(@, FlattenSeq(SubSeq(leaves, keep + 1, Len(leaves))))]

Optimized(weights, log) ==
  FoldLeft(LAMBDA buckets, w :
             FoldLeft(LAMBDA b, i : IF Len(b[w]) > 2 THEN Peel(b, w) ELSE b,
                      buckets, UpTo(Len(buckets[w]))),
           Bucketed(weights), [i \in 1 .. log |-> log + 1 - i])

(* assign_ranks_and_codewords: leaves from the root down, codewords        *)
(* counting up; the symbols of a flat leaf share its codeword.  A codeword *)
(* is kept in the high bits.                                               *)
LeafRanks(leaf, level, codeword) ==
  LET depth == Log2(Len(leaf))
  IN  [i \in DOMAIN leaf |->
         [symbol |-> leaf[i], depth |-> depth,
          code |-> (codeword * 2 ^ depth + i - 1) * 2 ^ (CodeBits - level - depth)]]

LevelRanks(buckets, log, levels, a, level) ==
  LET leaves == buckets[log + 1 - level]
      next   == a.codeword + Len(leaves)
  IN  [codeword |-> IF level + 1 < levels THEN 2 * next ELSE next,
       ranks    |-> a.ranks \o FlattenSeq([i \in DOMAIN leaves |->
                      LeafRanks(leaves[i], level, a.codeword + i - 1)])]

(* Tree::from_weights.  "Redundant" is an error that cannot happen once    *)
(* the weights add up: a bucket beyond the heaviest, and an incomplete     *)
(* tree.                                                                   *)
NoTree(kind) == [error |-> kind, levels |-> 0, ranks |-> <<>>]

Ranked(buckets, log) ==
  LET levels == log + 2 - Min({w \in DOMAIN buckets : buckets[w] # <<>>})
      a      == FoldLeft(LAMBDA b, i : LevelRanks(buckets, log, levels, b, i - 1),
                         [codeword |-> 0, ranks |-> <<>>], UpTo(levels))
  IN  IF a.codeword # 2 ^ (levels - 1) THEN NoTree("Redundant")
      ELSE [error |-> "none", levels |-> levels, ranks |-> a.ranks]

TreeOfSize(weights, size) ==
  IF ~PowerOfTwo(size) \/ size > 2 ^ PivcoLog THEN NoTree("Malformed")
  ELSE Ranked(Optimized(weights, Log2(size)), Log2(size))

Tree(weights) ==
  IF Len(weights) > Base \/ \E s \in DOMAIN weights : weights[s] > PivcoLog THEN NoTree("Malformed")
  ELSE TreeOfSize(weights, TableSize(weights))

(* Ranks count from 0 to `end` - 1, as in the code.                        *)
IsLeaf(t, first, end) == 2 ^ t.ranks[first + 1].depth = end - first
IsConstant(t, first, end) == IsLeaf(t, first, end) /\ t.ranks[first + 1].depth = 0
RightOf(t, level, rank) == (t.ranks[rank + 1].code \div 2 ^ (CodeBits - 1 - level)) % 2 = 1
SplitRank(t, level, first, end) ==
  Min({end} \cup {r \in first + 1 .. end - 1 : RightOf(t, level, r)})

(* The bytes of `bits` bits from the next byte on, as in aligned_bitmap.   *)
Align(pos) == ByteBits * CeilDiv(pos, ByteBits)
Bitmap(bytes, pos, bits) == [k \in 1 .. bits |-> Bit(bytes, Align(pos) + k - 1)]
BitmapFits(bytes, pos, bits) == Align(pos) + ByteBits * CeilDiv(bits, ByteBits) <= BitLen(bytes)

Ones(bitmap) == Sum(bitmap)
BitsNeeded(max) == IF max <= 1 THEN 0 ELSE CHOOSE k \in 1 .. max : 2 ^ (k - 1) < max /\ max <= 2 ^ k

(* merge_results: a one takes the next value of the right child.           *)
MergeMutant(bitmap, left, right) ==
  [i \in DOMAIN bitmap |-> IF bitmap[i] = 1 THEN right[Ones(SubSeq(bitmap, 1, i))]
                           ELSE left[Min({i, Len(left)})]]
Merge(bitmap, left, right) ==
  [i \in DOMAIN bitmap |->
     LET ones == Ones(SubSeq(bitmap, 1, i))
     IN  IF bitmap[i] = 1 THEN right[ones] ELSE left[i - ones]]

Bad == [error |-> "Malformed", value |-> <<>>, pos |-> 0]
Done(value, pos) == [error |-> "none", value |-> value, pos |-> pos]

PivcoLeaf(t, bytes, pos, first, count) ==
  LET depth == t.ranks[first + 1].depth
      start == Align(pos)
  IN  IF depth = 0 THEN Done([i \in 1 .. count |-> t.ranks[first + 1].symbol], pos)
      ELSE IF ~BitmapFits(bytes, pos, count * depth) THEN Bad
      ELSE Done([i \in 1 .. count |->
                   t.ranks[first + 1 + BitsFrom(bytes, start + (i - 1) * depth, depth)].symbol],
                start + count * depth)

(* decode_tree_node.  The count of ones is stored too, unless both         *)
(* children are single symbols.                                            *)
RECURSIVE PivcoNode(_, _, _, _, _, _, _)
PivcoNode(t, bytes, level, first, end, count, pos) ==
  LET split  == SplitRank(t, level, first, end)
      bitmap == Bitmap(bytes, pos, count)
      after  == Align(pos) + count
      plain  == IsConstant(t, first, split) /\ IsConstant(t, split, end)
      width  == IF plain THEN 0 ELSE BitsNeeded(count + 1)
      ones   == Ones(bitmap)
      left   == PivcoNode(t, bytes, level + 1, first, split, count - ones, after + width)
      right  == PivcoNode(t, bytes, level + 1, split, end, ones, left.pos)
  IN  IF IsLeaf(t, first, end) THEN PivcoLeaf(t, bytes, pos, first, count)
      ELSE IF level >= t.levels \/ RightOf(t, level, first) \/ split = end
      THEN [Bad EXCEPT !.error = "Redundant"]
      ELSE IF ~BitmapFits(bytes, pos, count) \/ after + width > BitLen(bytes) THEN Bad
      ELSE IF ~plain /\ BitsFrom(bytes, after, width) # ones THEN Bad
      ELSE IF left.error # "none" THEN left
      ELSE IF right.error # "none" THEN right
      ELSE Done(Merge(bitmap, left.value, right.value), right.pos)

(* parse_header: what follows the second varint is not looked at.          *)
NoHeader(kind) == [error |-> kind, size |-> 0, block |-> 0]
Header(size, block) == [error |-> "none", size |-> size, block |-> block]

WithBlock(size, block) ==
  IF block.error # "none" THEN NoHeader(block.error)
  ELSE IF block.value \notin 1 .. MaxBlock THEN NoHeader("Malformed")
  ELSE Header(size, block.value)

WithSize(bytes, size) ==
  IF size.error # "none" THEN NoHeader(size.error)
  ELSE IF size.after < Len(bytes)
  THEN WithBlock(size.value, NodeVar(SubSeq(bytes, size.after + 1, Len(bytes))))
  ELSE IF size.value > MaxBlock THEN NoHeader("Malformed")
  ELSE Header(size.value, size.value)

PivcoHeader(bytes) == WithSize(bytes, NodeVar(bytes))

BlockSizes(h) ==
  [i \in 1 .. CeilDiv(h.size, h.block) |-> Min({h.block, h.size - (i - 1) * h.block})]

(* The blocks one after another, until one fails.                          *)
Joins(a, b) == IF b.error # "none" THEN b ELSE [b EXCEPT !.value = a.value \o @]
PivcoBlocks(in, h, t) ==
  FoldLeft(LAMBDA a, count :
             IF a.error # "none" THEN a
             ELSE Joins(a, PivcoNode(t, in.bytes, 0, 0, Len(t.ranks), count, a.pos)),
           Done(<<>>, 0), BlockSizes(h))

PivcoEnd(in, a) ==
  IF a.error # "none" THEN Refuse(a.error)
  ELSE IF CeilDiv(a.pos, ByteBits) # Len(in.bytes) THEN Refuse("Malformed")
  ELSE Gives(a.value)

PivcoWith(in, h, t) ==
  IF h.error # "none" THEN Refuse(h.error)
  ELSE IF TooLong(h.size) THEN Refuse("LimitExceeded")
  ELSE IF h.size = 0
  THEN IF in.weights # <<>> \/ in.bytes # <<>> THEN Refuse("Malformed") ELSE Gives(<<>>)
  ELSE IF in.weights = <<>> THEN Refuse("Malformed")
  ELSE IF t.error # "none" THEN Refuse(t.error)
  ELSE PivcoEnd(in, PivcoBlocks(in, h, t))

Pivco(in) == PivcoWith(in, PivcoHeader(in.header), Tree(in.weights))

(* Encoding: the bits from the root down, with 2 for a bit of padding.     *)
Padded(bits) == bits \o [i \in 1 .. Align(Len(bits)) - Len(bits) |-> 2]
LowFirst(n, width) == [k \in 1 .. width |-> (n \div 2 ^ (k - 1)) % 2]

RankOf(t, symbol) == CHOOSE r \in 0 .. Len(t.ranks) - 1 : t.ranks[r + 1].symbol = symbol

RECURSIVE EncodeNode(_, _, _, _, _, _)
EncodeNode(t, level, first, end, values, bits) ==
  LET goes(v) == IF RightOf(t, level, RankOf(t, v)) THEN 1 ELSE 0
      split   == SplitRank(t, level, first, end)
      lefts   == SelectSeq(values, LAMBDA v : goes(v) = 0)
      rights  == SelectSeq(values, LAMBDA v : goes(v) = 1)
      count   == IF IsConstant(t, first, split) /\ IsConstant(t, split, end) THEN <<>>
                 ELSE LowFirst(Len(rights), BitsNeeded(Len(values) + 1))
  IN  IF IsConstant(t, first, end) THEN bits
      ELSE IF IsLeaf(t, first, end)
      THEN Padded(bits) \o FlattenSeq([i \in DOMAIN values |->
             LowFirst(RankOf(t, values[i]) - first, t.ranks[first + 1].depth)])
      ELSE EncodeNode(t, level + 1, split, end, rights,
             EncodeNode(t, level + 1, first, split, lefts,
               Padded(bits) \o [i \in DOMAIN values |-> goes(values[i])] \o count))

EncodedBlocks(t, h, values) ==
  FoldLeft(LAMBDA bits, i :
             EncodeNode(t, 0, 0, Len(t.ranks),
                        SubSeq(values, (i - 1) * h.block + 1, Min({i * h.block, h.size})), bits),
           <<>>, UpTo(CeilDiv(h.size, h.block)))

(* A rank's codeword has the length its symbol's weight gives, and the     *)
(* codewords are consecutive and use every one there is.                   *)
TreeRight(weights, t) ==
  LET log == Log2(TableSize(weights))
      Span(r) == 2 ^ (CodeBits - (log + 1 - weights[t.ranks[r].symbol + 1]))
  IN  t.error = "none" =>
        /\ {t.ranks[r].symbol : r \in DOMAIN t.ranks} = {s - 1 : s \in {s \in DOMAIN weights : weights[s] > 0}}
        /\ t.ranks[1].code = 0
        /\ \A r \in DOMAIN t.ranks :
             t.ranks[r].code + Span(r) = IF r < Len(t.ranks) THEN t.ranks[r + 1].code ELSE 2 ^ CodeBits

Holds(bytes, bits) ==
  /\ CeilDiv(Len(bits), ByteBits) = Len(bytes)
  /\ \A k \in DOMAIN bits : bits[k] = 2 \/ bits[k] = Bit(bytes, k - 1)

PivcoAs(in, h, t, r) ==
  /\ TreeRight(in.weights, t)
  /\ r.error = "none" /\ h.size > 0 =>
       Len(r.value) = h.size /\ Holds(in.bytes, EncodedBlocks(t, h, r.value))

PivcoRight(in, r) ==
  r.error # "Redundant" /\ PivcoAs(in, PivcoHeader(in.header), Tree(in.weights), r)
-----------------------------------------------------------------------------
(* A legacy container is a list of blocks, a multi block before those it   *)
(* joins.  `payload` has at most the bytes the block takes, fewer if the   *)
(* source ends inside it.                                                  *)
LegacyLimit(in) == IF in.buffer THEN BufferMax ELSE CodecMax

Legacy(r, at) == [error |-> r.error, value |-> r.value, at |-> at]

(* unpack_legacy_bits: an element is taken from its bytes piece by piece.  *)
TakePiece(bytes, bits, a) ==
  LET shift == a.pos % ByteBits
      take  == Min({ByteBits - shift, bits - a.read})
      piece == (bytes[(a.pos \div ByteBits) + 1] \div 2 ^ shift) % 2 ^ take
  IN  IF a.read = bits THEN a
      ELSE [pos |-> a.pos + take, read |-> a.read + take, value |-> a.value | (piece * 2 ^ a.read)]
UnpackedBits(bytes, bits, i) ==
  FoldLeft(LAMBDA a, k : TakePiece(bytes, bits, a),
           [pos |-> (i - 1) * bits, read |-> 0, value |-> 0], UpTo(bits)).value

BitBlock(in, b) ==
  LET size == CeilDiv(b.count * b.bits, ByteBits)
  IN  IF in.width \notin Widths \/ b.bits >= ByteBits * in.width THEN Refuse("Malformed")
      ELSE IF b.count * in.width > LegacyLimit(in) THEN Refuse("LimitExceeded")
      ELSE IF Len(b.payload) < size THEN Refuse("Malformed")
      ELSE Gives(Stream([i \in 1 .. b.count |-> UnpackedBits(b.payload, b.bits, i)], in.width).bytes)

ConstantBlock(in, b) ==
  IF b.count * in.width > LegacyLimit(in) THEN Refuse("LimitExceeded")
  ELSE IF Len(b.payload) < in.width THEN Refuse("Malformed")
  ELSE Gives(FlattenSeq([i \in 1 .. b.count |-> b.payload]))

RawBlock(in, b) ==
  IF b.count * in.width > LegacyLimit(in) THEN Refuse("LimitExceeded")
  ELSE IF Len(b.payload) < b.count * in.width THEN Refuse("Malformed")
  ELSE Gives(b.payload)

FseBlock(in, b) ==
  IF in.width # 1 THEN Refuse("Unsupported")
  ELSE IF b.count > LegacyLimit(in) THEN Refuse("LimitExceeded")
  ELSE IF b.table = <<>> THEN Refuse("Malformed")
  ELSE FseSymbols(b.payload, b.count, in.lanes, b.table, Log2(Len(b.table)))

(* complete_huffman_weights: the weight of the last symbol is what is      *)
(* missing to the next power of two.                                       *)
CompletedMutant(explicit) ==
  LET log  == Log2(TableSize(explicit)) + 1
      rest == 2 ^ log - TableSize(explicit)
  IN  Append(explicit, Log2(rest))
Completed(explicit) ==
  LET log  == Log2(TableSize(explicit)) + 1
      rest == 2 ^ log - TableSize(explicit)
  IN  Append(explicit, Log2(rest) + 1)

CompletionOk(explicit) ==
  LET total == TableSize(explicit)
      ones  == Cardinality({s \in DOMAIN Completed(explicit) : Completed(explicit)[s] = 1})
  IN  /\ \A s \in DOMAIN explicit : explicit[s] <= ByteLog
      /\ total > 0 /\ Log2(total) + 1 <= ByteLog
      /\ PowerOfTwo(2 ^ (Log2(total) + 1) - total)
      /\ ones >= 2 /\ ones % 2 = 0

(* decode_legacy_huffman_bytes.  A tree has explicit weights and four      *)
(* streams; `size` is the encoded length.                                  *)
ByteSymbols(b, t) ==
  IF t.error = "Malformed" THEN Refuse("Redundant")
  ELSE IF t.error # "none" THEN Refuse(t.error)
  ELSE ZripStreams(t, b.parts, TRUE, b.count)

HuffmanBytes(b) ==
  IF b.count = 0 \/ b.size > b.count THEN Refuse("Malformed")
  ELSE IF b.size = b.count THEN Gives(b.payload)
  ELSE IF b.size = 1 THEN Gives([i \in 1 .. b.count |-> b.payload[1]])
  ELSE IF b.explicit = <<>> THEN Refuse("Malformed")
  ELSE IF ~CompletionOk(b.explicit) THEN Refuse("Malformed")
  ELSE ByteSymbols(b, ByteTable(Completed(b.explicit)))

(* parse_legacy_block; `depth` is what is left of the nesting allowed.     *)
RECURSIVE LegacyBlock(_, _, _), LegacyMulti(_, _, _, _, _)

(* decode_legacy_huffman_u16.  The weights of a coded block are a nested   *)
(* container of their own.                                                 *)
WideSymbols(s) == IF s.error # "none" THEN s ELSE Gives(Stream(s.value, 2).bytes)

WideCoded(b, nested, t) ==
  IF nested.error # "none" THEN Refuse(nested.error)
  ELSE IF Len(nested.value) # b.symbols THEN Refuse("Malformed")
  ELSE IF t.error # "none" THEN Refuse(t.error)
  ELSE IF t.log # b.log THEN Refuse("Malformed")
  ELSE WideSymbols(LargeStreams(t, b.parts, b.x4, b.count))

HuffmanWide(b, depth) ==
  LET nested == LegacyBlock([blocks |-> b.weights, width |-> 1, lanes |-> 2, buffer |-> FALSE], 1, depth - 1)
  IN  IF b.prefix \notin {"literal", "constant", "huffman"} THEN Refuse("Malformed")
      ELSE IF b.prefix = "literal"
      THEN IF b.symbols # b.count \/ Len(b.payload) # 2 * b.count THEN Refuse("Malformed")
           ELSE Gives(b.payload)
      ELSE IF b.prefix = "constant"
      THEN IF b.symbols # b.count \/ Len(b.payload) # 2 THEN Refuse("Malformed")
           ELSE Gives(FlattenSeq([i \in 1 .. b.count |-> b.payload]))
      ELSE IF b.log \notin 1 .. LargeLog THEN Refuse("Malformed")
      ELSE IF depth = 0 THEN Refuse("LimitExceeded")
      ELSE WideCoded(b, nested, LargeTable(nested.value))

(* A Huffman block has the limits of a node output in any container.       *)
HuffmanBlock(in, b, depth) ==
  IF b.avx2 THEN Refuse("Unsupported")
  ELSE IF TooLong(b.count * in.width) THEN Refuse("LimitExceeded")
  ELSE IF b.cut THEN Refuse("Malformed")
  ELSE IF in.width = 1 THEN HuffmanBytes(b)
  ELSE IF in.width = 2 THEN HuffmanWide(b, depth)
  ELSE Refuse("Malformed")

OneBlock(in, b, depth) ==
  IF b.kind = "bits" THEN BitBlock(in, b)
  ELSE IF b.kind = "fse" THEN FseBlock(in, b)
  ELSE IF b.kind = "huffman" THEN HuffmanBlock(in, b, depth)
  ELSE IF b.kind = "constant" THEN ConstantBlock(in, b)
  ELSE IF b.kind = "raw" THEN RawBlock(in, b)
  ELSE Refuse("Malformed")

LegacyBlock(in, at, depth) ==
  IF at > Len(in.blocks) THEN Legacy(Refuse("Malformed"), at)
  ELSE IF in.blocks[at].kind # "multi" THEN Legacy(OneBlock(in, in.blocks[at], depth), at + 1)
  ELSE IF depth = 0 \/ in.blocks[at].count > BufferMax THEN Legacy(Refuse("LimitExceeded"), at)
  ELSE LegacyMulti(in, at + 1, depth - 1, in.blocks[at].count, <<>>)

(* decode_legacy_multi: its blocks one after another, none of them empty.  *)
LegacyMulti(in, at, depth, left, out) ==
  LET b == LegacyBlock(in, at, depth)
  IN  IF left = 0 THEN Legacy(Gives(out), at)
      ELSE IF b.error # "none" THEN b
      ELSE IF b.value = <<>> THEN Legacy(Refuse("Malformed"), at)
      ELSE IF Len(out) + Len(b.value) > LegacyLimit(in) THEN Legacy(Refuse("LimitExceeded"), at)
      ELSE LegacyMulti(in, b.at, depth, left - 1, out \o b.value)

(* decode_legacy_entropy_payload takes the whole source; the LZ nodes read *)
(* one container of `expected` bytes and what follows it afterwards.       *)
LegacyEnd(in, b) ==
  IF b.error # "none" THEN Refuse(b.error)
  ELSE IF in.buffer /\ Len(b.value) # in.expected THEN Refuse("Malformed")
  ELSE IF in.buffer /\ in.expected > BufferMax THEN Refuse("Redundant")
  ELSE IF ~in.buffer /\ b.at # Len(in.blocks) + 1 THEN Refuse("Malformed")
  ELSE Gives(b.value)

LegacyEntropy(in) ==
  IF in.width \notin {1, 2, 4, 8} THEN Refuse("Unsupported")
  ELSE IF in.blocks = <<>> /\ ~in.buffer THEN Gives(<<>>)
  ELSE LegacyEnd(in, LegacyBlock(in, 1, MaxDepth))

(* huffman_fixed_deprecated: transposed elements are coded as bytes.       *)
AsBytes(in) == [in EXCEPT !.width = IF in.transposed THEN 1 ELSE @]

FixedElements(in, r) ==
  IF r.error = "none" /\ in.transposed /\ Len(r.value) % in.width # 0 THEN Refuse("Malformed")
  ELSE r

HuffmanFixed(in) ==
  IF in.width = 0 THEN Refuse("Malformed")
  ELSE IF in.version >= 11 /\ in.width > 2 THEN Refuse("Unsupported")
  ELSE FixedElements(in, LegacyEntropy(AsBytes(in)))

(* How deep block `i` is, if the blocks before it are whole: the multi     *)
(* blocks that still wait for one of theirs.                               *)
Waiting(blocks, i) ==
  FoldLeft(LAMBDA stack, b :
             LET open == IF stack = <<>> THEN <<>> ELSE Append(Front(stack), Last(stack) - 1)
                 all  == IF b.kind = "multi" THEN Append(open, b.count) ELSE open
                 full == {k \in DOMAIN all : all[k] > 0}
             IN  SubSeq(all, 1, IF full = {} THEN 0 ELSE Max(full)),
           <<1>>, SubSeq(blocks, 1, i))

(* What a container gives is the bytes of its blocks, joined in order      *)
(* however they are nested, within the limit and the depth: whole elements,*)
(* of the size that is expected.                                           *)
LegacyEntropyRight(in, r) ==
  LET own(b) == IF b.kind = "multi" THEN <<>> ELSE OneBlock(in, b, MaxDepth).value
      packed(b) == Stream([i \in 1 .. b.count |-> BitsFrom(b.payload, (i - 1) * b.bits, b.bits)],
                          in.width).bytes
      ends   == {i \in 0 .. Len(in.blocks) : Waiting(in.blocks, i) = <<>>}
      n      == Min(ends)
  IN  /\ r.error # "Redundant"
      /\ r.error = "none" /\ in.blocks # <<>> =>
           /\ ends # {} /\ ~in.buffer => n = Len(in.blocks)
           /\ r.value = FlattenSeq([i \in 1 .. n |->
                IF in.blocks[i].kind = "bits" THEN packed(in.blocks[i]) ELSE own(in.blocks[i])])
           /\ Len(r.value) <= LegacyLimit(in) /\ Len(r.value) % in.width = 0
           /\ in.buffer => Len(r.value) = in.expected
           /\ \A i \in 1 .. n : in.blocks[i].kind = "multi" =>
                                   Len(Waiting(in.blocks, i)) <= MaxDepth + 1

HuffmanFixedRight(in, r) ==
  /\ r.error # "Redundant"
  /\ r.error = "none" =>
       /\ Len(r.value) % in.width = 0
       /\ r = LegacyEntropy(AsBytes(in))
=============================================================================
