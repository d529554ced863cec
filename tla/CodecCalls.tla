------------------------------ MODULE CodecCalls ------------------------------
(***************************************************************************)
(* One call of a node that decodes its inputs in one go: which node, what  *)
(* it was given and what it answered.  An action per node                  *)
(* (execute_standard_node in execute/node.rs hands a node's streams and    *)
(* header to one of these functions).                                      *)
(***************************************************************************)
EXTENDS BucketCodecs, LayoutCodecs, TreeCodecs

CONSTANT Inputs \* Inputs[node]: what a node may be given

VARIABLE call

NoCall == [node |-> "none"]

CallInit == call = NoCall

Call(node, Decode(_)) ==
  /\ call = NoCall
  /\ \E in \in Inputs[node] : call' = [node |-> node, input |-> in, result |-> Decode(in)]

CallNumeric ==
  \/ Call("bitpack", Bitpack) \/ Call("bitunpack", Bitunpack)
  \/ Call("zigzag", Zigzag) \/ Call("delta", Delta)
  \/ Call("divide_by", DivideBy) \/ Call("range_pack", RangePack)
  \/ Call("big_endian", FromBigEndian) \/ Call("constant", Constant)
  \/ Call("sparse_num", SparseNum) \/ Call("dedup_num", DedupNum)
  \/ Call("quantize", Quantize) \/ Call("partition", Partition)

CallLayout ==
  \/ Call("mux_lengths", MuxLengths) \/ Call("bitsplit", Bitsplit)
  \/ Call("merge_sorted", MergeSorted) \/ Call("flatpack", Flatpack)
  \/ Call("transpose", Transpose) \/ Call("transpose_split", TransposeSplit)
  \/ Call("split_by_struct", SplitByStruct) \/ Call("concat", Concat)
  \/ Call("splitn", Splitn) \/ Call("sentinel", Sentinel)
  \/ Call("tokenize", TokenizeFixed) \/ Call("float_deconstruct", FloatDeconstruct)

CallEntropy ==
  \/ Call("fse_ncount", FseNcount) \/ Call("fse_v2", FseV2)
  \/ Call("huffman_v2", HuffmanV2) \/ Call("seq_values", SeqValues)
  \/ Call("pivco_huffman", Pivco) \/ Call("legacy_entropy", LegacyEntropy)
  \/ Call("huffman_fixed", HuffmanFixed)

CallNext == CallNumeric \/ CallLayout \/ CallEntropy
-----------------------------------------------------------------------------
Answer(node, Right(_, _)) == call.node = node => Right(call.input, call.result)

(* Numeric nodes give the numbers their streams encode, at every width and *)
(* near the end of every buffer: encoding the result gives the input again *)
(* wherever an encoder has no choice.                                      *)
NumericAsDefined ==
  /\ Answer("bitpack", BitpackRight) /\ Answer("bitunpack", BitunpackRight)
  /\ Answer("zigzag", ZigzagRight) /\ Answer("delta", DeltaRight)
  /\ Answer("divide_by", DivideByRight) /\ Answer("range_pack", RangePackRight)
  /\ Answer("big_endian", FromBigEndianRight) /\ Answer("constant", ConstantRight)
  /\ Answer("sparse_num", SparseNumRight) /\ Answer("dedup_num", DedupNumRight)
  /\ Answer("quantize", QuantizeRight) /\ Answer("partition", PartitionRight)

(* Layout nodes lose, repeat and misplace no element, bit or length.       *)
LayoutAsDefined ==
  /\ Answer("mux_lengths", MuxLengthsRight) /\ Answer("bitsplit", BitsplitRight)
  /\ Answer("merge_sorted", MergeSortedRight) /\ Answer("flatpack", FlatpackRight)
  /\ Answer("transpose", TransposeRight) /\ Answer("transpose_split", TransposeSplitRight)
  /\ Answer("split_by_struct", SplitByStructRight) /\ Answer("concat", ConcatRight)
  /\ Answer("sentinel", SentinelRight) /\ Answer("float_deconstruct", FloatDeconstructRight)

(* Entropy nodes give the symbols whose codes are the bits, however the    *)
(* bits are batched, split into streams, bitmaps or nested blocks.         *)
EntropyAsDefined ==
  /\ Answer("fse_ncount", FseNcountRight) /\ Answer("fse_v2", FseV2Right)
  /\ Answer("huffman_v2", HuffmanV2Right) /\ Answer("seq_values", SeqValuesRight)
  /\ Answer("pivco_huffman", PivcoRight) /\ Answer("legacy_entropy", LegacyEntropyRight)
  /\ Answer("huffman_fixed", HuffmanFixedRight)
=============================================================================
