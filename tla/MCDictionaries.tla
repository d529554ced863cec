--------------------------- MODULE MCDictionaries ---------------------------
(***************************************************************************)
(* A small instance of Dictionaries for TLC: two IDs, bundles that fit,    *)
(* that only fit when they replace another or are alone, and every way a   *)
(* bundle can be refused.                                                  *)
(***************************************************************************)
EXTENDS Dictionaries

CONSTANTS a, b, short, x, y

Sound(d) == [verdict |-> "Ok", dict |-> d]

Fat(id, bytes, dicts) ==
  [header |-> "Ok", id |-> id, bytes |-> bytes, dicts |-> dicts, trailing |-> FALSE]

SomeBundles ==
  {Fat(a, 2, <<Sound(x)>>), Fat(a, 3, <<Sound(y), Sound(x)>>), Fat(a, 1, <<>>),
   Fat(b, 2, <<Sound(y)>>), Fat(b, 3, <<Sound(x), Sound(y)>>),
   Fat(b, 1, <<Sound(x), Sound(x), Sound(x)>>), Fat(b, 5, <<Sound(x)>>)}
  \cup {[Fat(a, 1, <<Sound(x)>>) EXCEPT !.header = h] :
          h \in {"Truncated", "Unsupported"}}
  \cup {[Fat(a, 1, <<Sound(y)>>) EXCEPT !.trailing = TRUE],
        Fat(b, 1, <<Sound(x), [verdict |-> "Truncated", dict |-> y]>>)}

SomeFrames ==
  {[names |-> n, nodes |-> s] :
     n \in {a, b, None},
     s \in {<<0>>, <<0, 0>>, <<1, 0>>, <<None, 1>>}}
  \cup {[names |-> short, nodes |-> <<0>>]}
=============================================================================
