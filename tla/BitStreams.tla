----------------------------- MODULE BitStreams -----------------------------
(***************************************************************************)
(* The forward bit reader of the numeric nodes (numeric/bit_reader.rs).    *)
(* Pending bits sit in a register; a refill ORs a whole word into it while *)
(* a word remains in the input, and single bytes at its end.  The word     *)
(* also fills the register above the bits it accounts for, and those       *)
(* copies stay there: a later refill ORs the same bits over them.          *)
(*                                                                         *)
(* A string of bits is the set of the places of its ones, so that OR is    *)
(* union and a shift moves the places.                                     *)
(***************************************************************************)
EXTENDS Integers

CONSTANTS
  BitsPerByte,
  RegisterBytes, \* 8
  FirstTake,     \* a read of more than 56 bits takes 32 bits first
  Sources,       \* what a node has to read, see Source
  Reads          \* the widths nodes ask for

RegisterBits == BitsPerByte * RegisterBytes
LargestTake  == RegisterBits - BitsPerByte

Source == {s \in [size : Nat, ones : SUBSET Nat] :
             \A k \in s.ones : k < BitsPerByte * s.size}

ASSUME BitAssumption ==
  /\ BitsPerByte \in Nat \ {0} /\ RegisterBytes \in Nat \ {0, 1}
  /\ FirstTake \in Nat /\ FirstTake <= LargestTake
  /\ RegisterBits - FirstTake <= LargestTake
  /\ Sources \subseteq Source /\ Reads \subseteq Nat

VARIABLES
  source,
  nextByte,
  container, \* places of the ones in the register
  available, \* pending bits
  step,      \* idle, take, bytes, give or end
  from,      \* where the read began
  want,      \* bits of the take under way
  later,     \* bits to be taken after it
  value, got, \* ones and length of what the read has so far
  answer

bitVars == <<source, nextByte, container, available, step, from, want, later, value, got, answer>>

Size == BitsPerByte * source.size
(* The first bit that is not consumed.                                     *)
Consumed == BitsPerByte * nextByte - available

BitInit ==
  /\ source \in Sources
  /\ nextByte = 0 /\ container = {} /\ available = 0 /\ step = "idle"
  /\ from = 0 /\ want = 0 /\ later = 0 /\ value = {} /\ got = 0 /\ answer = "none"
-----------------------------------------------------------------------------
Reading == UNCHANGED <<source, from, later>>

(* read_u32 and read_u64.                                                  *)
Ask(bits) ==
  /\ step = "idle" /\ bits <= RegisterBits
  /\ step' = "take" /\ from' = Consumed /\ value' = {} /\ got' = 0
  /\ IF bits <= LargestTake THEN want' = bits /\ later' = 0
     ELSE want' = FirstTake /\ later' = bits - FirstTake
  /\ UNCHANGED <<source, nextByte, container, available, answer>>

AskTooMuch(bits) ==
  /\ step = "idle" /\ bits > RegisterBits
  /\ step' = "end" /\ answer' = "Unsupported"
  /\ UNCHANGED <<source, nextByte, container, available, from, want, later, value, got>>

(* `length` bits of the source from byte `index`, OR'd in above what is    *)
(* pending; what does not fit in the register is lost.                     *)
MergedMutant(index, length) ==
  {k \in 0 .. RegisterBits - 1 :
     (k \in container) # (/\ available <= k /\ k < available + length
                          /\ BitsPerByte * index + (k - available) \in source.ones)}
Merged(index, length) ==
  {k \in 0 .. RegisterBits - 1 :
     \/ k \in container
     \/ /\ available <= k /\ k < available + length
        /\ BitsPerByte * index + (k - available) \in source.ones}

Fits == nextByte + RegisterBytes <= source.size
Loaded == (RegisterBits - 1 - available) \div BitsPerByte

LoadWord ==
  /\ step = "take" /\ available < want /\ Fits
  /\ container' = Merged(nextByte, RegisterBits)
  /\ nextByte' = nextByte + Loaded
  /\ available' = available + BitsPerByte * Loaded
  /\ step' = "give" /\ UNCHANGED <<want, value, got, answer>> /\ Reading

EnterBytes ==
  /\ step = "take" /\ available < want /\ ~Fits
  /\ step' = "bytes"
  /\ UNCHANGED <<nextByte, container, available, want, value, got, answer>> /\ Reading

LoadByteMore == available <= LargestTake /\ nextByte < source.size

LoadOne ==
  /\ step = "bytes" /\ LoadByteMore
  /\ container' = Merged(nextByte, BitsPerByte)
  /\ nextByte' = nextByte + 1 /\ available' = available + BitsPerByte
  /\ UNCHANGED <<step, want, value, got, answer>> /\ Reading

EndBytes ==
  /\ step = "bytes" /\ ~LoadByteMore
  /\ step' = "give"
  /\ UNCHANGED <<nextByte, container, available, want, value, got, answer>> /\ Reading

Enough ==
  /\ step = "take" /\ available >= want
  /\ step' = "give"
  /\ UNCHANGED <<nextByte, container, available, want, value, got, answer>> /\ Reading

(* Mask and shift, or the stream ends inside the read.                     *)
MaskMutant == container
Mask == {k \in container : k < want}

Give ==
  /\ step = "give" /\ available >= want
  /\ value' = value \cup {got + k : k \in Mask} /\ got' = got + want
  /\ container' = {k \in 0 .. RegisterBits - 1 : k + want \in container}
  /\ available' = available - want
  /\ want' = later /\ later' = 0
  /\ step' = IF later = 0 THEN "idle" ELSE "take"
  /\ UNCHANGED <<source, nextByte, from, answer>>

Truncated ==
  /\ step = "give" /\ available < want
  /\ step' = "end" /\ answer' = "Truncated"
  /\ UNCHANGED <<nextByte, container, available, want, value, got>> /\ Reading

(* finish_zero_padding: the pending bits and the bytes never loaded.       *)
Clean ==
  /\ \A k \in container : k >= available
  /\ \A k \in source.ones : k < BitsPerByte * nextByte

FinishZeroPadding ==
  /\ step = "idle"
  /\ step' = "end" /\ answer' = IF Clean THEN "Zero" ELSE "Padding"
  /\ UNCHANGED <<nextByte, container, available, want, value, got>> /\ Reading

BitNext ==
  \/ \E bits \in Reads : Ask(bits) \/ AskTooMuch(bits)
  \/ LoadWord \/ EnterBytes \/ LoadOne \/ EndBytes \/ Enough
  \/ Give \/ Truncated \/ FinishZeroPadding

BitSpec == BitInit /\ [][BitNext]_bitVars
-----------------------------------------------------------------------------
BitTypes ==
  /\ source \in Sources /\ nextByte \in Nat /\ nextByte <= source.size
  /\ container \in SUBSET (0 .. RegisterBits - 1) /\ available \in 0 .. RegisterBits
  /\ step \in {"idle", "take", "bytes", "give", "end"}
  /\ {from, later, got} \subseteq Nat /\ want \in 0 .. LargestTake
  /\ later <= LargestTake /\ value \in SUBSET Nat
  /\ answer \in {"none", "Unsupported", "Truncated", "Zero", "Padding"}

(* The pending bits are the next bits of the source, and every one above   *)
(* them is a copy of a bit not loaded yet.                                 *)
Mirrors ==
  /\ Consumed >= 0
  /\ \A k \in container : Consumed + k \in source.ones
  /\ \A k \in 0 .. RegisterBits - 1 :
       k < available /\ Consumed + k \in source.ones => k \in container

(* A read gives the bits of the source that follow those read before, in   *)
(* order, however it was loaded; it is refused only if there are not as    *)
(* many, and padding only if a one is left.                                *)
ReadsBits ==
  /\ step \in {"take", "bytes", "give", "idle"} => from + got = Consumed
  /\ value = {k \in 0 .. got - 1 : from + k \in source.ones}
  /\ answer = "Truncated" => from + got + want > Size
  /\ answer = "Zero" => \A k \in source.ones : k < Consumed
  /\ answer = "Padding" => \E k \in source.ones : k >= Consumed

BitsAsRead == BitTypes /\ Mirrors /\ ReadsBits
=============================================================================
