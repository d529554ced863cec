---------------------------- MODULE LayoutCodecs ----------------------------
(***************************************************************************)
(* The layout nodes (execute/layout): lanes, fields, runs and lookups that *)
(* move elements without changing them, and the length and bit streams     *)
(* that say where they go.  Inputs and results are as in NumericCodecs; a  *)
(* node with several outputs gives a sequence of byte strings.             *)
(***************************************************************************)
EXTENDS NumericCodecs, TLC

CONSTANT ExponentBits \* of a float16: 5

Elements(stream) == Len(stream.bytes) \div stream.width
BytesOf(elements, width) == Stream(elements, width).bytes
Element(stream, i) == Chunk(stream.bytes, i, stream.width)
-----------------------------------------------------------------------------
(* mux_lengths: a byte has a literal and a match length; the largest of    *)
(* either field says that the rest is the next long length.                *)
LiteralMask(h) == 2 ^ h.split - 1
MatchMax(h)    == h.bias + 2 ^ (ByteBits - h.split) - 1

TakeLong(a, field, longs, width) ==
  IF ~a.ok \/ a.next > Len(longs) THEN [a EXCEPT !.ok = FALSE]
  ELSE [a EXCEPT !.next = @ + 1, !.length = (field + longs[a.next]) % Base ^ width]

MuxStep(h, longs, width, a, mux) ==
  LET literal == mux % 2 ^ h.split
      matched == h.bias + mux \div 2 ^ h.split
      one == IF literal = LiteralMask(h) THEN TakeLong(a, literal, longs, width)
             ELSE [a EXCEPT !.length = literal % Base ^ width]
      two == IF matched = MatchMax(h) THEN TakeLong(one, matched, longs, width)
             ELSE [one EXCEPT !.length = matched % Base ^ width]
  IN  [two EXCEPT !.literals = Append(@, one.length), !.matches = Append(@, two.length)]

MuxLengths(in) ==
  LET w     == in.longs.width
      longs == ElementsOf(in.longs)
      a     == FoldLeft(LAMBDA b, mux : MuxStep(in.header, longs, w, b, mux),
                        [ok |-> TRUE, next |-> 1, length |-> 0, literals |-> <<>>, matches |-> <<>>],
                        in.muxed)
  IN  IF ~Numeric(in.longs) THEN Refuse("InvalidType")
      ELSE IF ~Whole(in.longs) \/ in.header.split > ByteBits THEN Refuse("Malformed")
      ELSE IF TooLong(w * Len(in.muxed)) THEN Refuse("LimitExceeded")
      ELSE IF ~a.ok \/ a.next <= Len(longs) THEN Refuse("Malformed")
      ELSE Gives(<<BytesOf(a.literals, w), BytesOf(a.matches, w)>>)

(* The n-th escape, in stream order with the literal of a byte before its  *)
(* match, belongs to the n-th long length.                                 *)
MuxLengthsRight(in, r) ==
  LET h     == in.header
      w     == in.longs.width
      longs == ElementsOf(in.longs)
      LitEsc(i) == in.muxed[i] % 2 ^ h.split = LiteralMask(h)
      MatEsc(i) == in.muxed[i] \div 2 ^ h.split = MatchMax(h) - h.bias
      Escapes(i) == Cardinality({k \in 1 .. i : LitEsc(k)}) + Cardinality({k \in 1 .. i : MatEsc(k)})
      Lit(i) == (in.muxed[i] % 2 ^ h.split) + (IF LitEsc(i) THEN longs[Escapes(i - 1) + 1] ELSE 0)
      Mat(i) == h.bias + in.muxed[i] \div 2 ^ h.split + (IF MatEsc(i) THEN longs[Escapes(i)] ELSE 0)
      all == Escapes(Len(in.muxed)) = Len(longs)
  IN  /\ r.error = "none" =>
           /\ all
           /\ \A i \in DOMAIN in.muxed :
                /\ Num(Chunk(r.value[1], i, w)) = Lit(i) % Base ^ w
                /\ Num(Chunk(r.value[2], i, w)) = Mat(i) % Base ^ w
      /\ r.error = "Malformed" => ~Whole(in.longs) \/ h.split > ByteBits \/ ~all
-----------------------------------------------------------------------------
(* bitsplit: an element is bit fields, one from each input.  The width of  *)
(* the last field may be left out of the header.                           *)
FieldWidths(in) ==
  LET rest == ByteBits * in.width - Sum(in.widths)
  IN  IF Len(in.parts) = Len(in.widths) + 1 THEN Append(in.widths, rest) ELSE in.widths

WidthClass(bits) == Min({w \in Widths : bits <= ByteBits * w})

PartError(s, bits, count) ==
  IF ~Numeric(s) THEN "InvalidType"
  ELSE IF ~Whole(s) \/ Elements(s) # count \/ bits > ByteBits * s.width THEN "Malformed"
  ELSE IF s.width # WidthClass(bits) THEN "InvalidType" ELSE "none"

BitPosition(widths, i) == Sum(SubSeq(widths, 1, i - 1))

Bitsplit(in) ==
  LET widths == FieldWidths(in)
      count  == Elements(in.parts[1])
      bad    == {i \in DOMAIN widths : PartError(in.parts[i], widths[i], count) # "none"}
      value(n) == FoldLeft(LAMBDA v, i :
                             v | ((ElementsOf(in.parts[i])[n] * 2 ^ BitPosition(widths, i)) % WordSize),
                           0, UpTo(Len(in.parts)))
  IN  IF in.width \notin Widths THEN Refuse("InvalidType")
      ELSE IF \E i \in DOMAIN in.widths : in.widths[i] = 0 THEN Refuse("Malformed")
      ELSE IF Sum(in.widths) > ByteBits * in.width THEN Refuse("Malformed")
      ELSE IF Len(widths) # Len(in.parts) THEN Refuse("InvalidGraph")
      ELSE IF widths = <<>> \/ Last(widths) = 0 THEN Refuse("Malformed")
      ELSE IF ~Whole(in.parts[1]) THEN Refuse("Malformed")
      ELSE IF bad # {} THEN Refuse(PartError(in.parts[Min(bad)], widths[Min(bad)], count))
      ELSE IF TooLong(count * in.width) THEN Refuse("LimitExceeded")
      ELSE Gives(BytesOf([n \in 1 .. count |-> value(n) % Base ^ in.width], in.width))

(* Parts that fit their fields are found in them again, and no field       *)
(* starts past the element.                                                *)
BitsplitRight(in, r) ==
  LET widths == FieldWidths(in)
  IN  r.error = "none" =>
        /\ \A i \in DOMAIN widths : BitPosition(widths, i) + widths[i] <= ByteBits * in.width
        /\ \A n \in 1 .. Elements(in.parts[1]) :
             (\A i \in DOMAIN widths : ElementsOf(in.parts[i])[n] < 2 ^ widths[i])
               => \A i \in DOMAIN widths :
                    BitsFrom(Chunk(r.value, n, in.width), BitPosition(widths, i), widths[i])
                      = ElementsOf(in.parts[i])[n]
-----------------------------------------------------------------------------
(* merge_sorted: each merged value goes to the runs its bitset names, as   *)
(* long as they have room.                                                 *)
MergeStep(sizes, set, value, runs) ==
  [i \in DOMAIN sizes |->
     IF Len(runs[i]) < sizes[i] /\ (set \div 2 ^ (i - 1)) % 2 = 1 THEN Append(runs[i], value)
     ELSE runs[i]]

MergeSorted(in) ==
  LET sets  == ElementsOf(in.bitset)
      runs  == FoldLeft(LAMBDA a, n : MergeStep(in.sizes, sets[n], in.merged[n], a),
                        [i \in DOMAIN in.sizes |-> <<>>], UpTo(Len(sets)))
      width == 4
  IN  IF ~Numeric(in.bitset) THEN Refuse("InvalidType")
      ELSE IF ~Whole(in.bitset) \/ Len(sets) # Len(in.merged) THEN Refuse("Malformed")
      ELSE IF Len(in.sizes) > ByteBits * in.bitset.width THEN Refuse("Malformed")
      ELSE IF Sum(in.sizes) > ByteBits * in.bitset.width * Len(in.merged) THEN Refuse("Malformed")
      ELSE IF TooLong(width * Sum(in.sizes)) THEN Refuse("LimitExceeded")
      ELSE IF \E i \in DOMAIN runs : Len(runs[i]) # in.sizes[i] THEN Refuse("Malformed")
      ELSE Gives(FlattenSeq(runs))

(* A run is the first values whose bitset names it, in the order merged.   *)
MergeSortedRight(in, r) ==
  LET sets == ElementsOf(in.bitset)
      Named(i) == SelectSeq(UpTo(Len(in.merged)), LAMBDA n : (sets[n] \div 2 ^ (i - 1)) % 2 = 1)
      Start(i) == Sum(SubSeq(in.sizes, 1, i - 1))
  IN  r.error = "none" =>
        /\ Len(r.value) = Sum(in.sizes)
        /\ \A i \in DOMAIN in.sizes : \A k \in 1 .. in.sizes[i] :
             k <= Len(Named(i)) /\ r.value[Start(i) + k] = in.merged[Named(i)[k]]
-----------------------------------------------------------------------------
(* flatpack: symbol indices of as few bits as the alphabet needs; the      *)
(* highest one of the last byte ends them.                                 *)
FlatBits(size) == IF size <= 1 THEN size ELSE CHOOSE k \in 1 .. ByteBits : 2 ^ (k - 1) < size /\ size <= 2 ^ k

FlatCount(packed, bits) ==
  LET last == IF Last(packed) % 2 = 0 THEN Last(packed) + 1 ELSE Last(packed)
  IN  (BitLen(packed) - (ByteBits - HighBit(last))) \div bits

FlatStep(alphabet, packed, bits, a) ==
  LET full == IF a.available >= bits THEN a
              ELSE [a EXCEPT !.index = @ + 1, !.available = @ + ByteBits,
                             !.state = @ | (packed[a.index + 1] * 2 ^ a.available)]
      symbol == full.state % 2 ^ bits
  IN  IF ~a.ok \/ (a.available < bits /\ a.index = Len(packed)) THEN [a EXCEPT !.ok = FALSE]
      ELSE IF symbol >= Len(alphabet) THEN [a EXCEPT !.ok = FALSE]
      ELSE [full EXCEPT !.out = Append(@, alphabet[symbol + 1]),
                        !.state = @ \div 2 ^ bits, !.available = @ - bits]

SentinelOkMutant(packed, a) == a.index = Len(packed) /\ a.state = 1
SentinelOk(packed, a) == a.index = Len(packed) /\ a.state = 1 /\ a.available <= ByteBits

Flatpack(in) ==
  LET bits  == FlatBits(Len(in.alphabet))
      count == FlatCount(in.packed, bits)
      a     == FoldLeft(LAMBDA b, i : FlatStep(in.alphabet, in.packed, bits, b),
                        [ok |-> TRUE, index |-> 0, available |-> 0, state |-> 0, out |-> <<>>],
                        UpTo(count))
      end   == IF a.index = Len(in.packed) THEN a
               ELSE [a EXCEPT !.index = @ + 1, !.available = @ + ByteBits,
                              !.state = @ | (in.packed[a.index + 1] * 2 ^ a.available)]
  IN  IF Len(in.alphabet) > Base THEN Refuse("Malformed")
      ELSE IF in.alphabet = <<>> \/ in.packed = <<>> THEN Gives(<<>>)
      ELSE IF TooLong(count) THEN Refuse("LimitExceeded")
      ELSE IF ~a.ok \/ ~SentinelOk(in.packed, end) THEN Refuse("Malformed")
      ELSE Gives(a.out)

(* What is accepted is the indices of the result, a one and at most a byte *)
(* less one bit of zeros; the alphabet may name a symbol twice.            *)
FlatpackRight(in, r) ==
  LET bits == FlatBits(Len(in.alphabet))
      end  == bits * Len(r.value)
  IN  r.error = "none" /\ in.alphabet # <<>> /\ in.packed # <<>> =>
        /\ end < BitLen(in.packed) /\ BitLen(in.packed) <= end + ByteBits
        /\ Bit(in.packed, end) = 1 /\ \A k \in end + 1 .. BitLen(in.packed) - 1 : Bit(in.packed, k) = 0
        /\ \A i \in DOMAIN r.value :
             r.value[i] = in.alphabet[BitsFrom(in.packed, (i - 1) * bits, bits) + 1]
-----------------------------------------------------------------------------
(* transpose: byte j of element i becomes byte i of element j.             *)
Transpose(in) ==
  LET s    == in.stream
      rows == Elements(s)
  IN  IF s.width = 0 \/ ~Whole(s) THEN Refuse("Malformed")
      ELSE IF TooLong(Len(s.bytes)) THEN Refuse("LimitExceeded")
      ELSE Gives([k \in 1 .. Len(s.bytes) |->
                    s.bytes[((k - 1) % rows) * s.width + ((k - 1) \div rows) + 1]])

(* transpose_split: one lane for each byte of the elements.                *)
TransposeSplit(in) ==
  LET width == Len(in.lanes)
      size  == Len(in.lanes[1])
  IN  IF in.lanes = <<>> THEN Refuse("InvalidGraph")
      ELSE IF TooLong(size * width) THEN Refuse("LimitExceeded")
      ELSE IF \E i \in DOMAIN in.lanes : Len(in.lanes[i]) # size THEN Refuse("Malformed")
      ELSE Gives([k \in 1 .. size * width |->
                    in.lanes[((k - 1) % width) + 1][((k - 1) \div width) + 1]])

(* Transposing the result, taken as elements of the other size, gives the  *)
(* input; the lanes are the bytes at each place of the elements.           *)
TransposeRight(in, r) ==
  r.error = "none" =>
    /\ Len(r.value) = Len(in.stream.bytes)
    /\ in.stream.bytes # <<>> =>
         Transpose([stream |-> [bytes |-> r.value, width |-> Elements(in.stream)]]).value
           = in.stream.bytes

TransposeSplitRight(in, r) ==
  r.error = "none" =>
    /\ Len(r.value) = Len(in.lanes) * Len(in.lanes[1])
    /\ \A i \in DOMAIN in.lanes : \A n \in DOMAIN in.lanes[i] :
         Chunk(r.value, n, Len(in.lanes))[i] = in.lanes[i][n]
-----------------------------------------------------------------------------
(* split_by_struct: fields interleaved into rows.  Two layouts of six      *)
(* fields have rows written out, with a place for each field.              *)
FastRows ==
  (<<8, 8, 2, 2, 4, 4>> :> <<0, 8, 16, 18, 20, 24>>) @@ (<<4, 4, 2, 2, 8, 8>> :> <<0, 4, 8, 10, 12, 20>>)

FieldPlaces(widths) == [i \in DOMAIN widths |-> Sum(SubSeq(widths, 1, i - 1))]

PlacesMutant(widths) ==
  IF widths \in DOMAIN FastRows THEN FastRows[<<8, 8, 2, 2, 4, 4>>] ELSE FieldPlaces(widths)
Places(widths) == IF widths \in DOMAIN FastRows THEN FastRows[widths] ELSE FieldPlaces(widths)

(* A row of zeros with each field copied to its place.                     *)
Row(fields, widths, n) ==
  FoldLeft(LAMBDA row, i :
             [k \in DOMAIN row |->
                IF k - Places(widths)[i] \in 1 .. widths[i] THEN Element(fields[i], n)[k - Places(widths)[i]]
                ELSE row[k]],
           [k \in 1 .. Sum(widths) |-> 0], UpTo(Len(fields)))

FieldError(s, count) ==
  IF s.width = 0 THEN "InvalidType"
  ELSE IF ~Whole(s) \/ Elements(s) # count THEN "Malformed" ELSE "none"

SplitByStruct(in) ==
  LET widths == [i \in DOMAIN in.fields |-> in.fields[i].width]
      count  == IF widths[1] = 0 THEN 0 ELSE Elements(in.fields[1])
      bad    == {i \in DOMAIN widths : FieldError(in.fields[i], count) # "none"}
  IN  IF in.fields = <<>> THEN Refuse("Malformed")
      ELSE IF bad # {} THEN Refuse(FieldError(in.fields[Min(bad)], count))
      ELSE IF TooLong(count * Sum(widths)) THEN Refuse("LimitExceeded")
      ELSE Gives(FlattenSeq([n \in 1 .. count |-> Row(in.fields, widths, n)]))

SplitByStructRight(in, r) ==
  r.error = "none" =>
    r.value = FlattenSeq([n \in 1 .. Elements(in.fields[1]) |->
                FlattenSeq([i \in DOMAIN in.fields |-> Element(in.fields[i], n)])])
-----------------------------------------------------------------------------
(* concat restores the streams that were joined, from a table of their     *)
(* sizes; splitn joins the streams that were split.                        *)
Concat(in) ==
  LET s      == in.stream
      starts == [i \in DOMAIN in.sizes |-> Sum(SubSeq(in.sizes, 1, i - 1))]
      over   == {i \in DOMAIN in.sizes : starts[i] + in.sizes[i] > Elements(s)}
      long   == {i \in DOMAIN in.sizes : TooLong(in.sizes[i] * s.width)}
  IN  IF in.sizes = <<>> THEN Refuse("Malformed")
      ELSE IF Len(in.sizes) # in.outputs THEN Refuse("InvalidGraph")
      ELSE IF s.width = 0 THEN Refuse("InvalidType") ELSE IF ~Whole(s) THEN Refuse("Malformed")
      ELSE IF over \cup long # {}
      THEN Refuse(IF Min(over \cup long) \in long THEN "LimitExceeded" ELSE "Malformed")
      ELSE IF Sum(in.sizes) # Elements(s) THEN Refuse("Malformed")
      ELSE Gives([i \in DOMAIN in.sizes |->
                    SubSeq(s.bytes, starts[i] * s.width + 1, (starts[i] + in.sizes[i]) * s.width)])

Splitn(in) ==
  LET width == in.parts[1].width
      bad   == {i \in DOMAIN in.parts : in.parts[i].width # width \/ Len(in.parts[i].bytes) % width # 0}
      all   == FlattenSeq([i \in DOMAIN in.parts |-> in.parts[i].bytes])
  IN  IF in.parts = <<>> THEN Gives(<<>>)
      ELSE IF width = 0 THEN Refuse("InvalidType")
      ELSE IF bad # {}
      THEN Refuse(IF in.parts[Min(bad)].width # width THEN "InvalidType" ELSE "Malformed")
      ELSE IF TooLong(Len(all)) THEN Refuse("LimitExceeded")
      ELSE Gives(all)

(* Joining what concat gives is the input again.                           *)
ConcatRight(in, r) ==
  r.error = "none" =>
    /\ FlattenSeq(r.value) = in.stream.bytes
    /\ \A i \in DOMAIN in.sizes : Len(r.value[i]) = in.sizes[i] * in.stream.width
    /\ Splitn([parts |-> [i \in DOMAIN r.value |-> [bytes |-> r.value[i], width |-> in.stream.width]]])
         = Gives(in.stream.bytes)
-----------------------------------------------------------------------------
(* sentinel: values equal to it are replaced by the exceptions, in order.  *)
SentinelStep(sentinel, exceptions, a, value) ==
  IF value # sentinel THEN [a EXCEPT !.out = Append(@, value)]
  ELSE IF a.next > Len(exceptions) THEN [a EXCEPT !.ok = FALSE]
  ELSE [a EXCEPT !.out = Append(@, exceptions[a.next]), !.next = @ + 1]

Sentinel(in) ==
  LET v          == in.values
      sentinel   == IF in.header = <<>>
                    THEN [error |-> "none", value |-> MaxValue(v.width), after |-> 0]
                    ELSE NodeVar(in.header)
      exceptions == ElementsOf(in.exceptions)
      to         == in.exceptions.width
      a == FoldLeft(LAMBDA b, value : SentinelStep(sentinel.value, exceptions, b, value),
                    [ok |-> TRUE, next |-> 1, out |-> <<>>], ElementsOf(v))
  IN  IF ~Numeric(v) \/ ~Numeric(in.exceptions) THEN Refuse("InvalidType")
      ELSE IF v.width > to THEN Refuse("Malformed")
      ELSE IF sentinel.error # "none" THEN Refuse(sentinel.error)
      ELSE IF sentinel.after # Len(in.header) \/ sentinel.value > MaxValue(v.width)
              \/ ~Whole(v) \/ ~Whole(in.exceptions) THEN Refuse("Malformed")
      ELSE IF TooLong(to * Elements(v)) THEN Refuse("LimitExceeded")
      ELSE IF ~a.ok \/ a.next <= Len(exceptions) THEN Refuse("Malformed")
      ELSE Gives(BytesOf(a.out, to))

SentinelRight(in, r) ==
  LET values     == ElementsOf(in.values)
      exceptions == ElementsOf(in.exceptions)
      out        == ElementsOf([bytes |-> r.value, width |-> in.exceptions.width])
      sentinel   == IF in.header = <<>> THEN MaxValue(in.values.width) ELSE VarValue(in.header)
      Before(i)  == Cardinality({k \in 1 .. i : values[k] = sentinel})
  IN  r.error = "none" =>
        /\ Len(out) = Len(values) /\ Before(Len(values)) = Len(exceptions)
        /\ \A i \in DOMAIN values :
             out[i] = IF values[i] = sentinel THEN exceptions[Before(i)] ELSE values[i]

(* tokenize_fixed: indices into an alphabet of elements.                   *)
TokenizeFixed(in) ==
  LET alphabet == in.alphabet
      indices  == ElementsOf(in.indices)
  IN  IF alphabet.width = 0 \/ ~Whole(alphabet) THEN Refuse("Malformed")
      ELSE IF ~Numeric(in.indices) THEN Refuse("InvalidType")
      ELSE IF ~Whole(in.indices) THEN Refuse("Malformed")
      ELSE IF TooLong(Len(indices) * alphabet.width) THEN Refuse("LimitExceeded")
      ELSE IF \E i \in DOMAIN indices : indices[i] >= Elements(alphabet) THEN Refuse("Malformed")
      ELSE Gives(FlattenSeq([i \in DOMAIN indices |-> Element(alphabet, indices[i] + 1)]))
-----------------------------------------------------------------------------
(* float_deconstruct: sign and fraction in one number, the sign lowest,    *)
(* and the exponent apart.  A float has the sign highest.                  *)
FloatShapes ==
  [float32  |-> [parts |-> 3, width |-> 4, exponent |-> ByteBits],
   bfloat16 |-> [parts |-> 1, width |-> 2, exponent |-> ByteBits],
   float16  |-> [parts |-> 2, width |-> 2, exponent |-> ExponentBits]]

FractionBits(shape) == ByteBits * shape.width - shape.exponent - 1

Float(shape, signFrac, exponent) ==
  (signFrac % 2) * 2 ^ (ByteBits * shape.width - 1)
    + exponent * 2 ^ FractionBits(shape) + signFrac \div 2

FloatDeconstruct(in) ==
  LET shape == FloatShapes[in.type]
      parts == ElementsOf(in.signFracs)
      unused(i) == parts[i] >= 2 ^ (FractionBits(shape) + 1) \/ in.exponents[i] >= 2 ^ shape.exponent
  IN  IF in.signFracs.width # shape.parts THEN Refuse("InvalidType")
      ELSE IF ~Whole(in.signFracs) \/ Len(parts) # Len(in.exponents) THEN Refuse("Malformed")
      ELSE IF TooLong(Len(parts) * shape.width) THEN Refuse("LimitExceeded")
      ELSE IF in.type = "float16" /\ \E i \in DOMAIN parts : unused(i) THEN Refuse("Malformed")
      ELSE Gives(BytesOf([i \in DOMAIN parts |-> Float(shape, parts[i], in.exponents[i])], shape.width))

(* The fields of the floats are the parts, in every type.                  *)
FloatDeconstructRight(in, r) ==
  LET shape == FloatShapes[in.type]
      parts == ElementsOf(in.signFracs)
      f     == FractionBits(shape)
  IN  r.error = "none" =>
        \A i \in DOMAIN parts :
          LET bytes == Chunk(r.value, i, shape.width)
          IN  /\ BitsFrom(bytes, 0, f) * 2 + Bit(bytes, ByteBits * shape.width - 1) = parts[i]
              /\ BitsFrom(bytes, f, shape.exponent) = in.exponents[i]
=============================================================================
