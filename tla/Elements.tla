------------------------------ MODULE Elements ------------------------------
(***************************************************************************)
(* Bytes, bits and numbers as the nodes read them: little-endian elements  *)
(* of a fixed width (elements.rs), varints (varint.rs) and packed bits.    *)
(* Bytes have ByteBits bits and a varint at most VarBytes bytes, so that   *)
(* small instances reach every boundary.                                   *)
(***************************************************************************)
EXTENDS Integers, Sequences, SequencesExt, FiniteSetsExt, Bitwise

CONSTANTS
  ByteBits,   \* 8
  WordBytes,  \* bytes of the widest element: 8
  VarBytes,   \* the longest varint: 10
  VarLast     \* the largest payload of its last byte: 1

Base == 2 ^ ByteBits
Widths == {w \in {1, 2, 4, 8} : w <= WordBytes}
WordSize == Base ^ WordBytes

(* A node returns a stream or an error.                                    *)
Gives(value) == [error |-> "none", value |-> value]
Refuse(kind) == [error |-> kind, value |-> <<>>]

CeilDiv(a, b) == (a + b - 1) \div b

(* read_element, push_numeric_element and back: bytes in order of weight.  *)
Num(bytes) == FoldRight(LAMBDA b, n : b + Base * n, bytes, 0)
Le(value, width) == [i \in 1 .. width |-> (value \div Base ^ (i - 1)) % Base]

MaxValue(width) == Base ^ width - 1

Whole(stream) == Len(stream.bytes) % stream.width = 0
Chunk(s, i, n) == SubSeq(s, (i - 1) * n + 1, i * n)
ElementsOf(stream) ==
  [i \in 1 .. Len(stream.bytes) \div stream.width |-> Num(Chunk(stream.bytes, i, stream.width))]
Stream(elements, width) ==
  [bytes |-> FlattenSeq([i \in DOMAIN elements |-> Le(elements[i], width)]), width |-> width]

Sum(s) == FoldLeft(+, 0, s)

(* The place of the highest bit that is set.                               *)
HighBit(byte) == CHOOSE k \in 0 .. ByteBits - 1 : 2 ^ k <= byte /\ byte < 2 ^ (k + 1)

UpTo(n) == [i \in 1 .. n |-> i]

(* Bit k of a string of bytes, and the number in `n` bits from there.      *)
Bit(bytes, k) == (bytes[(k \div ByteBits) + 1] \div 2 ^ (k % ByteBits)) % 2
BitsFrom(bytes, k, n) == FoldRight(LAMBDA i, v : Bit(bytes, k + i) + 2 * v, [i \in 1 .. n |-> i - 1], 0)
BitLen(bytes) == ByteBits * Len(bytes)
-----------------------------------------------------------------------------
(* read_var_u64: payloads of ByteBits - 1 bits, the top bit says that more *)
(* follow.                                                                 *)
Payload(byte) == byte % 2 ^ (ByteBits - 1)
Follows(byte) == byte >= 2 ^ (ByteBits - 1)

VarStepMutant(bytes, r, index) ==
  IF index >= Len(bytes) THEN [r EXCEPT !.error = "Truncated"]
  ELSE LET byte == bytes[index + 1]
       IN  [error |-> IF Follows(byte) THEN "more" ELSE "none",
            value |-> r.value + Payload(byte) * 2 ^ ((ByteBits - 1) * index),
            after |-> IF Follows(byte) THEN 0 ELSE index + 1]
VarStep(bytes, r, index) ==
  IF index >= Len(bytes) THEN [r EXCEPT !.error = "Truncated"]
  ELSE LET byte == bytes[index + 1]
       IN  IF index = VarBytes - 1 /\ Payload(byte) > VarLast
           THEN [r EXCEPT !.error = "IntegerOverflow"]
           ELSE [error |-> IF Follows(byte) THEN "more" ELSE "none",
                 value |-> r.value | (Payload(byte) * 2 ^ ((ByteBits - 1) * index)),
                 after |-> IF Follows(byte) THEN 0 ELSE index + 1]

NoVar(kind) == [error |-> kind, value |-> 0, after |-> 0]
VarResult(r) ==
  IF r.error = "more" THEN NoVar("Malformed")
  ELSE IF r.error # "none" THEN NoVar(r.error)
  ELSE r

ReadVar(bytes) ==
  VarResult(FoldLeft(LAMBDA a, index : IF a.error = "more" THEN VarStep(bytes, a, index) ELSE a,
                     NoVar("more"), [i \in 1 .. VarBytes |-> i - 1]))

(* A varint is the payloads up to the first byte that says it is the last, *)
(* in order of weight.                                                     *)
VarEnd(bytes) ==
  LET ends == {i \in DOMAIN bytes : ~Follows(bytes[i])} IN IF ends = {} THEN 0 ELSE Min(ends)
VarValue(bytes) ==
  LET n == VarEnd(bytes)
  IN  FoldRight(LAMBDA b, v : Payload(b) + 2 ^ (ByteBits - 1) * v, SubSeq(bytes, 1, n), 0)
VarLimit == (VarLast + 1) * 2 ^ ((ByteBits - 1) * (VarBytes - 1))

VarAsDefined(bytes, r) ==
  LET n == VarEnd(bytes)
  IN  IF n \in 1 .. VarBytes /\ VarValue(bytes) < VarLimit
      THEN r.error = "none" /\ r.value = VarValue(bytes) /\ r.after = n
      ELSE /\ r.error # "none" /\ r.after = 0
           /\ r.error = "Truncated" <=> n = 0 /\ Len(bytes) < VarBytes
=============================================================================
