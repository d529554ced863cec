---------------------------- MODULE NumericCodecs ----------------------------
(***************************************************************************)
(* The numeric nodes (execute/numeric): functions from streams and a node  *)
(* header to a stream or an error.  A header of flags is a record of its   *)
(* fields; one of varints or elements keeps its bytes.  Extra bits are     *)
(* read with the contract that BitStreams shows of the forward bit reader. *)
(***************************************************************************)
EXTENDS Elements

CONSTANTS
  BufferMax,  \* max_buffer_bytes
  CodecMax,   \* check_output_len: the smaller of it and max_decoded_bytes
  DirectLog   \* lengths below 2 ^ DirectLog have a code of their own: 4

ASSUME LimitsAssumption == CodecMax \in Nat /\ BufferMax \in Nat /\ CodecMax <= BufferMax

TooLong(n) == n > CodecMax
Numeric(stream) == stream.width \in Widths
-----------------------------------------------------------------------------
(* unpack_lsb_bits.  Elements of full width are copied.                    *)
Packed(word) == [index |-> 0, buffer |-> 0, available |-> 0, out |-> <<>>, ok |-> TRUE]

(* What a register of `word` bits keeps.  (The numbers of TLC have 32.)    *)
Kept(value, word) == IF value < 2 ^ (word - 2) THEN value ELSE value % 2 ^ word

LoadByte(stored, word, b) ==
  IF b.index = Len(stored) THEN [b EXCEPT !.ok = FALSE]
  ELSE [b EXCEPT !.index = @ + 1, !.available = @ + ByteBits,
                 !.buffer = @ | Kept(stored[b.index + 1] * 2 ^ b.available, word)]

(* unpack_lsb_bits_u64 and _u128, one element: a buffer of `word` bits.    *)
TakeBuffered(stored, bits, width, word, b) ==
  LET full == FoldLeft(LAMBDA a, i : IF a.ok /\ a.available < bits THEN LoadByte(stored, word, a) ELSE a,
                       b, UpTo(CeilDiv(bits, ByteBits)))
  IN  IF ~full.ok THEN full
      ELSE [full EXCEPT !.out = @ \o Le(full.buffer % 2 ^ bits, width),
                        !.buffer = @ \div 2 ^ bits, !.available = @ - bits]

Buffered(stored, bits, width, elements) ==
  LET word == IF bits <= ByteBits * (WordBytes - 1) THEN ByteBits * WordBytes
              ELSE 2 * ByteBits * WordBytes
      b == FoldLeft(LAMBDA a, i : TakeBuffered(stored, bits, width, word, a),
                    Packed(word), UpTo(elements))
  IN  IF b.ok THEN Gives(b.out) ELSE Refuse("Malformed")

(* unpack_lsb_bits_u16_window: four bytes from the one the element starts  *)
(* in, or the fewer that are left.                                         *)
WindowMutant(stored, index) ==
  IF index + 4 <= Len(stored) THEN Num(SubSeq(stored, index + 1, index + 4)) ELSE Num(SubSeq(stored, index + 1, Len(stored) - 1))
Window(stored, index) ==
  IF index + 4 <= Len(stored) THEN Num(SubSeq(stored, index + 1, index + 4))
  ELSE Num(SubSeq(stored, index + 1, Len(stored)))

Windowed(stored, bits, elements) ==
  IF Len(stored) < CeilDiv(elements * bits, ByteBits) THEN Refuse("Malformed")
  ELSE Gives(FlattenSeq([i \in 1 .. elements |->
         LET k == (i - 1) * bits
         IN  Le((Window(stored, k \div ByteBits) \div 2 ^ (k % ByteBits)) % 2 ^ bits, 2)]))

UnpackBits(stored, bits, width, elements) ==
  IF bits = ByteBits * width
  THEN IF Len(stored) < elements * width THEN Refuse("Malformed")
       ELSE Gives(SubSeq(stored, 1, elements * width))
  ELSE IF width = 2 THEN Windowed(stored, bits, elements)
  ELSE Buffered(stored, bits, width, elements)

(* bitpack: the header may say that the last elements are padding.  The    *)
(* serial node takes one-byte elements only.                               *)
Bitpack(in) ==
  LET h     == in.header
      limit == (ByteBits * Len(in.stored)) \div h.bits
      count == limit - h.extra
  IN  IF h.bits > ByteBits * h.width \/ h.extra > limit THEN Refuse("Malformed")
      ELSE IF in.serial /\ h.width # 1 THEN Refuse("Unsupported")
      ELSE IF TooLong(count * h.width) THEN Refuse("LimitExceeded")
      ELSE UnpackBits(in.stored, h.bits, h.width, count)

BitpackRight(in, r) ==
  LET h     == in.header
      limit == (ByteBits * Len(in.stored)) \div h.bits
  IN  IF r.error # "none"
      THEN \/ h.bits > ByteBits * h.width \/ h.extra > limit
           \/ in.serial /\ h.width # 1
           \/ (limit - h.extra) * h.width > CodecMax
      ELSE /\ Len(r.value) = (limit - h.extra) * h.width
           /\ \A i \in 1 .. limit - h.extra :
                Num(Chunk(r.value, i, h.width)) = BitsFrom(in.stored, (i - 1) * h.bits, h.bits)
-----------------------------------------------------------------------------
(* pack_byte_values and pack_wide_values.                                  *)
PackByte(out, value, bits, index) ==
  LET at    == (index * bits) \div ByteBits + 1
      shift == (index * bits) % ByteBits
      low   == [out EXCEPT ![at] = @ | ((value * 2 ^ shift) % Base)]
  IN  IF shift + bits > ByteBits
      THEN [low EXCEPT ![at + 1] = @ | (value \div 2 ^ (ByteBits - shift))] ELSE low

PackBytes(values, bits) ==
  FoldLeft(LAMBDA out, i : PackByte(out, values[i], bits, i - 1),
           [i \in 1 .. CeilDiv(Len(values) * bits, ByteBits) |-> 0], UpTo(Len(values)))

PackWide(values, bits) ==
  LET put(p, value) ==
        LET pending == p.pending | (value * 2 ^ p.count)
            full    == (p.count + bits) \div ByteBits
        IN  [out |-> p.out \o Le(pending, full), pending |-> pending \div Base ^ full,
             count |-> (p.count + bits) % ByteBits]
      p == FoldLeft(put, [out |-> <<>>, pending |-> 0, count |-> 0], values)
  IN  p.out \o (IF p.count > 0 THEN <<p.pending>> ELSE <<>>)

(* bitunpack restores packed bits from elements; what the encoder found in *)
(* the unused bits of the last byte is in the header.                      *)
TrailingAtMutant(bytes, rem, bits) == [bytes EXCEPT ![Len(bytes)] = @ | bits]
TrailingAt(bytes, rem, bits) == [bytes EXCEPT ![Len(bytes)] = @ | (bits * 2 ^ (ByteBits - rem))]

Bitunpack(in) ==
  LET s      == in.stream
      bits   == in.bits
      values == ElementsOf(s)
      count  == Len(values) * bits
      size   == CeilDiv(count, ByteBits)
      rem    == (ByteBits - (count % ByteBits)) % ByteBits
      packed == IF s.width = 1 THEN PackBytes(values, bits) ELSE PackWide(values, bits)
  IN  IF ~Numeric(s) THEN Refuse("InvalidType")
      ELSE IF ~Whole(s) \/ bits \notin 1 .. ByteBits * s.width THEN Refuse("Malformed")
      ELSE IF TooLong(size) THEN Refuse("LimitExceeded")
      ELSE IF \E i \in DOMAIN values : values[i] >= 2 ^ bits THEN Refuse("Malformed")
      ELSE IF in.trailing = <<>> THEN Gives(packed)
      ELSE IF rem = 0 \/ size = 0 \/ in.trailing[1] >= 2 ^ rem THEN Refuse("Malformed")
      ELSE Gives(TrailingAt(packed, rem, in.trailing[1]))

BitunpackRight(in, r) ==
  LET values == ElementsOf(in.stream)
      count  == Len(values) * in.bits
  IN  r.error = "none" =>
        /\ Len(r.value) = CeilDiv(count, ByteBits)
        /\ \A i \in DOMAIN values : BitsFrom(r.value, (i - 1) * in.bits, in.bits) = values[i]
        /\ BitsFrom(r.value, count, BitLen(r.value) - count)
             = IF in.trailing = <<>> THEN 0 ELSE in.trailing[1]
-----------------------------------------------------------------------------
(* zigzag: the low bit is the sign.                                        *)
Unzigzag(value, width) ==
  LET mask == IF value % 2 = 1 THEN MaxValue(width) ELSE 0 IN (value \div 2) ^^ mask

Zigzag(in) ==
  LET s == in.stream
  IN  IF ~Numeric(s) THEN Refuse("InvalidType") ELSE IF ~Whole(s) THEN Refuse("Malformed")
      ELSE IF TooLong(Len(s.bytes)) THEN Refuse("LimitExceeded")
      ELSE Gives(Stream([i \in DOMAIN ElementsOf(s) |-> Unzigzag(ElementsOf(s)[i], s.width)],
                        s.width).bytes)

(* delta: each element is the wrapping sum of those before it.  Up to      *)
(* format 12 the first is in the stream, later in the header.              *)
DeltaFirst(in) ==
  IF in.old THEN IF Len(in.stream.bytes) < in.stream.width THEN <<>>
                 ELSE SubSeq(in.stream.bytes, 1, in.stream.width)
  ELSE in.header
DeltaRest(in) ==
  IF in.old THEN SubSeq(in.stream.bytes, in.stream.width + 1, Len(in.stream.bytes))
  ELSE in.stream.bytes

Accumulate(first, deltas, width) ==
  FoldLeft(LAMBDA out, d : Append(out, (Last(out) + d) % Base ^ width), <<first>>, deltas)

Delta(in) ==
  LET s    == in.stream
      size == Len(DeltaFirst(in)) + Len(DeltaRest(in))
  IN  IF ~Numeric(s) THEN Refuse("InvalidType") ELSE IF ~Whole(s) THEN Refuse("Malformed")
      ELSE IF in.old /\ in.header # <<>> THEN Refuse("Unsupported")
      ELSE IF ~in.old /\ Len(in.header) # s.width /\ (in.header # <<>> \/ s.bytes # <<>>)
      THEN Refuse("Malformed")
      ELSE IF TooLong(size) THEN Refuse("LimitExceeded")
      ELSE IF DeltaFirst(in) = <<>> THEN Gives(<<>>)
      ELSE Gives(Stream(Accumulate(Num(DeltaFirst(in)),
                                   ElementsOf([s EXCEPT !.bytes = DeltaRest(in)]), s.width),
                        s.width).bytes)

(* Encoding what these decode gives the stream again.                      *)
ZigzagRight(in, r) ==
  LET w == in.stream.width
      Sign(v) == IF 2 * v >= Base ^ w THEN 2 * (Base ^ w - v) - 1 ELSE 2 * v
      out == ElementsOf([bytes |-> r.value, width |-> w])
  IN  r.error = "none" =>
        Stream([i \in DOMAIN out |-> Sign(out[i])], w).bytes = in.stream.bytes

DeltaRight(in, r) ==
  LET w    == in.stream.width
      out  == ElementsOf([bytes |-> r.value, width |-> w])
      diff == [i \in 1 .. Len(out) - 1 |-> (out[i + 1] - out[i]) % Base ^ w]
      code == Stream(diff, w).bytes
  IN  r.error = "none" =>
        IF out = <<>> THEN in.stream.bytes = <<>> /\ in.header = <<>>
        ELSE IF in.old THEN in.stream.bytes = Le(out[1], w) \o code
        ELSE in.header = Le(out[1], w) /\ in.stream.bytes = code
-----------------------------------------------------------------------------
(* divide_by: quotients times a divisor, a varint that is all of the       *)
(* header.  A node's varint that ends early is malformed, not truncated.   *)
NodeError(v) == IF v.error = "Truncated" THEN [v EXCEPT !.error = "Malformed"] ELSE v
NodeVar(bytes) == NodeError(ReadVar(bytes))

DivideBy(in) ==
  LET s        == in.stream
      divisor  == NodeVar(in.header)
      products == [i \in DOMAIN ElementsOf(s) |-> ElementsOf(s)[i] * divisor.value]
  IN  IF ~Numeric(s) THEN Refuse("InvalidType") ELSE IF ~Whole(s) THEN Refuse("Malformed")
      ELSE IF in.header = <<>> THEN Refuse("Malformed")
      ELSE IF divisor.error # "none" THEN Refuse(divisor.error)
      ELSE IF divisor.after # Len(in.header) \/ divisor.value \notin 1 .. MaxValue(s.width)
      THEN Refuse("Malformed")
      ELSE IF TooLong(Len(s.bytes)) THEN Refuse("LimitExceeded")
      ELSE IF \E i \in DOMAIN products : products[i] > MaxValue(s.width) THEN Refuse("Malformed")
      ELSE Gives(Stream(products, s.width).bytes)

DivideByRight(in, r) ==
  /\ in.header # <<>> => VarAsDefined(in.header, ReadVar(in.header))
  /\ r.error = "none" =>
       LET d   == VarValue(in.header)
           out == ElementsOf([bytes |-> r.value, width |-> in.stream.width])
       IN  /\ VarEnd(in.header) = Len(in.header) /\ Len(r.value) = Len(in.stream.bytes)
           /\ \A i \in DOMAIN out : out[i] % d = 0 /\ out[i] \div d = ElementsOf(in.stream)[i]

(* range_pack: a minimum is added, in elements at least as wide.           *)
RangePack(in) ==
  LET s    == in.stream
      to   == in.width
      sums == [i \in DOMAIN ElementsOf(s) |-> ElementsOf(s)[i] + Num(in.min)]
  IN  IF ~Numeric(s) THEN Refuse("InvalidType") ELSE IF ~Whole(s) THEN Refuse("Malformed")
      ELSE IF to \notin Widths \/ to < s.width \/ Len(in.min) \notin {0, to} THEN Refuse("Malformed")
      ELSE IF TooLong(Len(sums) * to) THEN Refuse("LimitExceeded")
      ELSE IF \E i \in DOMAIN sums : sums[i] > MaxValue(to) THEN Refuse("Malformed")
      ELSE Gives(Stream(sums, to).bytes)

RangePackRight(in, r) ==
  r.error = "none" =>
    LET out  == ElementsOf([bytes |-> r.value, width |-> in.width])
        back == [i \in DOMAIN out |-> out[i] - Num(in.min)]
    IN  back = ElementsOf(in.stream)

(* convert_struct_to_num_be and convert_serial_to_num_be.                  *)
FromBigEndian(in) ==
  LET s == in.stream
  IN  IF ~Numeric(s) THEN Refuse("InvalidType")
      ELSE IF TooLong(Len(s.bytes)) THEN Refuse("LimitExceeded")
      ELSE IF ~Whole(s) THEN Refuse("Malformed")
      ELSE Gives(FlattenSeq([i \in DOMAIN ElementsOf(s) |-> Reverse(Chunk(s.bytes, i, s.width))]))

FromBigEndianRight(in, r) ==
  LET w == in.stream.width
      Weight(b) == FoldLeft(LAMBDA n, byte : n * Base + byte, 0, b)
  IN  r.error = "none" =>
        \A i \in 1 .. Len(in.stream.bytes) \div w :
          Num(Chunk(r.value, i, w)) = Weight(Chunk(in.stream.bytes, i, w))
-----------------------------------------------------------------------------
(* constant: one element, repeated by doubling what is there.              *)
RepeatMutant(element, size) ==
  FoldLeft(LAMBDA out, i : IF Len(out) < size THEN out \o out ELSE out, element, UpTo(size))
Repeat(element, size) ==
  FoldLeft(LAMBDA out, i :
             IF Len(out) < size
             THEN out \o SubSeq(out, 1, Min({Len(out), size - Len(out)})) ELSE out,
           element, UpTo(size))

Constant(in) ==
  LET s     == in.stream
      count == NodeVar(in.header)
  IN  IF Len(s.bytes) # s.width THEN Refuse("Malformed")
      ELSE IF count.error # "none" THEN Refuse(count.error)
      ELSE IF count.after # Len(in.header) \/ count.value = 0 THEN Refuse("Malformed")
      ELSE IF TooLong(count.value * s.width) THEN Refuse("LimitExceeded")
      ELSE Gives(Repeat(s.bytes, count.value * s.width))

ConstantRight(in, r) ==
  r.error = "none" =>
    /\ Len(r.value) = VarValue(in.header) * in.stream.width
    /\ \A k \in DOMAIN r.value :
         r.value[k] = in.stream.bytes[((k - 1) % in.stream.width) + 1]

(* sparse_num: runs of a dominant value, one before each explicit value    *)
(* and perhaps one after the last.                                         *)
Run(dominant, distance) == [i \in 1 .. distance |-> dominant]

SparseNum(in) ==
  LET v         == in.values
      distances == ElementsOf(in.distances)
      values    == ElementsOf(v)
      dominant  == Num(in.header)
      pairs     == FlattenSeq([i \in DOMAIN values |-> Append(Run(dominant, distances[i]), values[i])])
      tail      == IF Len(distances) > Len(values) THEN Run(dominant, Last(distances)) ELSE <<>>
      count     == Len(values) + Sum(distances)
  IN  IF in.distances.width \notin Widths \ {WordBytes} \/ ~Numeric(v) THEN Refuse("InvalidType")
      ELSE IF Len(in.header) > v.width \/ ~Whole(in.distances) \/ ~Whole(v) THEN Refuse("Malformed")
      ELSE IF Len(distances) - Len(values) \notin {0, 1} THEN Refuse("Malformed")
      ELSE IF TooLong(count * v.width) THEN Refuse("LimitExceeded")
      ELSE Gives(Stream(pairs \o tail, v.width).bytes)

SparseNumRight(in, r) ==
  LET out       == ElementsOf([bytes |-> r.value, width |-> in.values.width])
      distances == ElementsOf(in.distances)
      values    == ElementsOf(in.values)
      Place(i)  == i + Sum(SubSeq(distances, 1, i))
  IN  r.error = "none" =>
        /\ Len(out) = Len(values) + Sum(distances)
        /\ \A i \in DOMAIN values : out[Place(i)] = values[i]
        /\ \A k \in DOMAIN out :
             (\A i \in DOMAIN values : Place(i) # k) => out[k] = Num(in.header)

(* dedup_num: the same stream for every successor.  One output has the     *)
(* limits of a node's output, all together those of a buffer.              *)
DedupNum(in) ==
  LET s == in.stream
  IN  IF in.outputs = 0 THEN Refuse("InvalidGraph") ELSE IF ~Numeric(s) THEN Refuse("InvalidType") ELSE IF ~Whole(s) THEN Refuse("Malformed")
      ELSE IF TooLong(Len(s.bytes)) \/ Len(s.bytes) * in.outputs > BufferMax THEN Refuse("LimitExceeded")
      ELSE Gives([i \in 1 .. in.outputs |-> s.bytes])

(* A copy each, refused only when one is too long or all are too many.     *)
DedupNumRight(in, r) ==
  LET long == Len(in.stream.bytes) > CodecMax
      all  == Sum([i \in 1 .. in.outputs |-> Len(in.stream.bytes)])
  IN  /\ r.error = "none" =>
           /\ Len(r.value) = in.outputs /\ ~long /\ all <= BufferMax
           /\ \A i \in 1 .. in.outputs : r.value[i] = in.stream.bytes
      /\ r.error = "LimitExceeded" => long \/ all > BufferMax
=============================================================================
