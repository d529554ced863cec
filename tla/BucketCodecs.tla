---------------------------- MODULE BucketCodecs ----------------------------
(***************************************************************************)
(* quantize and partition (numeric/partition.rs, fast_partition.rs): a     *)
(* number is the base of a bucket plus extra bits.  quantize has two fixed *)
(* tables; partition describes its buckets in the header, and two of its   *)
(* presets are the tables of quantize.                                     *)
(***************************************************************************)
EXTENDS NumericCodecs

CONSTANT MaxPartitions \* 256

WordBits == ByteBits * WordBytes
Half     == WordBytes \div 2  \* four bytes: what quantize decodes to

(* The tables of quantize: the bases double, and small lengths have a code *)
(* each.  Quantize values have half a word.                                *)
Offsets == [i \in 1 .. ByteBits * Half |-> [base |-> 2 ^ (i - 1), bits |-> i - 1]]
Lengths ==
  [i \in 1 .. 2 ^ DirectLog |-> [base |-> i - 1, bits |-> 0]]
    \o SubSeq(Offsets, DirectLog + 1, Len(Offsets))

(* The next numbers of `bits` extra bits at `pos`.                         *)
ExtraBits(bytes, pos, bits) == pos + bits <= BitLen(bytes)

(* One number of either node: a bucket, then its extra bits.               *)
TakeBucket(table, bytes, max, a, code) ==
  IF a.error # "none" THEN a
  ELSE IF code >= Len(table) THEN [a EXCEPT !.error = "Malformed"]
  ELSE LET t == table[code + 1]
           value == t.base + BitsFrom(bytes, a.pos, t.bits)
       IN  IF ~ExtraBits(bytes, a.pos, t.bits) THEN [a EXCEPT !.error = "Malformed"]
           ELSE IF value >= a.limit THEN [a EXCEPT !.error = "IntegerOverflow"]
           ELSE IF value > max THEN [a EXCEPT !.error = "Malformed"]
           ELSE [a EXCEPT !.pos = @ + t.bits, !.out = Append(@, value)]

TakeBuckets(table, bytes, max, limit, codes) ==
  FoldLeft(LAMBDA a, code : TakeBucket(table, bytes, max, a, code),
           [error |-> "none", pos |-> 0, out |-> <<>>, limit |-> limit], codes)

Padding(bytes, pos) == \A k \in pos .. BitLen(bytes) - 1 : Bit(bytes, k) = 0

QuantizeTable(which) == IF which = "offsets" THEN Offsets ELSE Lengths

Quantize(in) ==
  LET a == TakeBuckets(QuantizeTable(in.table), in.extra, MaxValue(Half), Base ^ Half, in.codes)
  IN  IF TooLong(Half * Len(in.codes)) THEN Refuse("LimitExceeded")
      ELSE IF a.error # "none" THEN Refuse(a.error)
      ELSE IF ~Padding(in.extra, a.pos) THEN Refuse("Malformed")
      ELSE Gives(Stream(a.out, Half).bytes)
-----------------------------------------------------------------------------
(* parse_partition_header.  Sizes that are powers of two are packed as     *)
(* logarithms, up to the highest bit that is set in the last byte.         *)
Refused(kind) == [error |-> kind, sizes |-> <<>>]
Sizes(sizes)  == [error |-> "none", sizes |-> sizes]

PowerSizes(bytes, bits) ==
  LET total == BitLen(bytes) - (ByteBits - HighBit(Last(bytes)))
      logs  == [i \in 1 .. total \div bits |-> BitsFrom(bytes, (i - 1) * bits, bits)]
  IN  IF bytes = <<>> THEN Refused("Malformed")
      ELSE IF Last(bytes) = 0 THEN Refused("Malformed")
      ELSE IF total % bits # 0 \/ total \div bits > MaxPartitions THEN Refused("Malformed")
      ELSE IF \E i \in DOMAIN logs : logs[i] >= WordBits THEN Refused("Malformed")
      ELSE Sizes([i \in DOMAIN logs |-> 2 ^ logs[i]])

VarSizes(bytes) ==
  LET step(a, i) ==
        IF a.error # "none" \/ a.rest = <<>> THEN a
        ELSE LET v == NodeVar(a.rest)
             IN  IF Len(a.sizes) = MaxPartitions THEN [a EXCEPT !.error = "Malformed"]
                 ELSE IF v.error # "none" THEN [a EXCEPT !.error = v.error]
                 ELSE [a EXCEPT !.sizes = Append(@, v.value),
                                !.rest = SubSeq(@, v.after + 1, Len(@))]
      a == FoldLeft(step, [error |-> "none", sizes |-> <<>>, rest |-> bytes], UpTo(Len(bytes)))
  IN  IF a.error # "none" THEN Refused(a.error) ELSE Sizes(a.sizes)

PresetSizes(preset) ==
  IF preset = 0 THEN [i \in DOMAIN Offsets |-> 2 ^ Offsets[i].bits]
  ELSE IF preset = 1 THEN [i \in DOMAIN Lengths |-> 2 ^ Lengths[i].bits]
  ELSE <<2>> \o [i \in 1 .. 2 * ByteBits - 1 |-> 2 ^ i]

(* validate_partition_params: only the end of the last bucket may be past  *)
(* the largest word.                                                       *)
UpToSize(sizes, start, n) == start + Sum(SubSeq(sizes, 1, n))

Valid(start, sizes) ==
  IF sizes = <<>> \/ Len(sizes) > MaxPartitions \/ (Len(sizes) = 1 /\ start = 0)
  THEN "Malformed"
  ELSE LET bad == {n \in DOMAIN sizes :
                     sizes[n] = 0 \/ (n < Len(sizes) /\ UpToSize(sizes, start, n) >= WordSize)}
       IN  IF bad = {} THEN "none"
           ELSE IF sizes[Min(bad)] = 0 THEN "Malformed" ELSE "IntegerOverflow"

(* partition_bits: the bits of the largest offset in a bucket.             *)
SizeBits(size) == IF size <= 1 THEN 0 ELSE CHOOSE k \in 1 .. WordBits : 2 ^ (k - 1) < size /\ size <= 2 ^ k

PartitionTable(start, sizes) ==
  [n \in DOMAIN sizes |-> [base |-> UpToSize(sizes, start, n - 1) % WordSize, bits |-> SizeBits(sizes[n])]]

(* A header of flags: a preset (five bits of them), or where the first     *)
(* bucket starts and how the sizes are written.                            *)
NoPreset == 2 ^ 5

PartitionStart(h) ==
  IF h.preset # NoPreset THEN [error |-> "none", value |-> IF h.preset = 0 THEN 1 ELSE 0, after |-> 0]
  ELSE IF h.zero THEN [error |-> "none", value |-> 0, after |-> 0]
  ELSE NodeVar(h.rest)

PartitionSizes(h) ==
  LET rest == SubSeq(h.rest, PartitionStart(h).after + 1, Len(h.rest))
  IN  IF h.preset # NoPreset
      THEN IF rest # <<>> \/ h.preset > 2 THEN Refused("Malformed") ELSE Sizes(PresetSizes(h.preset))
      ELSE IF h.power # 0 THEN PowerSizes(rest, h.power) ELSE VarSizes(rest)

PartitionWith(in, start, p) ==
  LET valid == Valid(start.value, p.sizes)
      a     == TakeBuckets(PartitionTable(start.value, p.sizes), in.extra,
                           MaxValue(in.header.width), WordSize, in.codes)
  IN  IF start.error # "none" THEN Refuse(start.error)
      ELSE IF p.error # "none" THEN Refuse(p.error)
      ELSE IF valid # "none" THEN Refuse(valid)
      ELSE IF TooLong(in.header.width * Len(in.codes)) THEN Refuse("LimitExceeded")
      ELSE IF a.error # "none" THEN Refuse(a.error)
      ELSE Gives(Stream(a.out, in.header.width).bytes)

Partition(in) == PartitionWith(in, PartitionStart(in.header), PartitionSizes(in.header))
-----------------------------------------------------------------------------
(* A number belongs to the bucket that starts at or before it and ends     *)
(* after it; its extra bits are its distance from the start.  Encoding     *)
(* what these nodes decode gives the codes and the bits again, whenever    *)
(* the extra bits are an offset inside their bucket.                       *)
Below(sizes, start, v) == {n \in DOMAIN sizes : UpToSize(sizes, start, n - 1) <= v}
Bucket(sizes, start, v) == Max(Below(sizes, start, v))

Encoded(sizes, start, values) ==
  FoldLeft(LAMBDA e, v :
             LET n == Bucket(sizes, start, v)
             IN  [codes |-> Append(e.codes, n - 1),
                  bits  |-> e.bits \o [k \in 1 .. SizeBits(sizes[n]) |->
                              ((v - UpToSize(sizes, start, n - 1)) \div 2 ^ (k - 1)) % 2]],
           [codes |-> <<>>, bits |-> <<>>], values)

Inverted(sizes, start, in, values) ==
  LET e == Encoded(sizes, start, values)
  IN  /\ e.codes = in.codes /\ Len(e.bits) <= BitLen(in.extra)
      /\ \A k \in DOMAIN e.bits : e.bits[k] = Bit(in.extra, k - 1)

QuantizeRight(in, r) ==
  LET preset == IF in.table = "offsets" THEN 0 ELSE 1
      sizes  == PresetSizes(preset)
      values == ElementsOf([bytes |-> r.value, width |-> Half])
  IN  r.error = "none" =>
        /\ Inverted(sizes, 1 - preset, in, values)
        /\ Padding(in.extra, Len(Encoded(sizes, 1 - preset, values).bits))

(* With sizes that are powers of two every number has one encoding.        *)
InBuckets(in, start, sizes, values) ==
  /\ Len(values) = Len(in.codes)
  /\ \A i \in DOMAIN values : values[i] >= UpToSize(sizes, start, in.codes[i])
  /\ (\A n \in DOMAIN sizes : sizes[n] = 2 ^ SizeBits(sizes[n]))
       => Inverted(sizes, start, in, values)

PartitionRight(in, r) ==
  r.error = "none" =>
    InBuckets(in, PartitionStart(in.header).value, PartitionSizes(in.header).sizes,
              ElementsOf([bytes |-> r.value, width |-> in.header.width]))
=============================================================================
