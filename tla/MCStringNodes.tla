--------------------------- MODULE MCStringNodes ---------------------------
(***************************************************************************)
(* Small instances of StringNodes for TLC.  A stream's lengths and content *)
(* are chosen apart, so that they often do not fit; a CSV has three        *)
(* sources and rows of four strings.                                       *)
(***************************************************************************)
EXTENDS StringNodes

S(s, lens, n) == [lens |-> lens, bytes |-> [k \in 1 .. n |-> 10 * s + k]]
J(kind, src, idx, sizes, count, wide, base) ==
  [kind |-> kind, src |-> src, idx |-> idx, sizes |-> sizes, count |-> count,
   wide |-> wide, base |-> base]

UpTo(n, values) == UNION {[1 .. k -> values] : k \in 0 .. n}
Row == <<1, 3, 2, 3>>

(* Streams whose lengths fit their content, or ask for a byte more or less.*)
Fitting(s, lens) == {S(s, l, SumFunction(l)) : l \in lens}
Near(s, lens) ==
  Fitting(s, lens) \cup {S(s, l, SumFunction(l) + 1) : l \in lens}
  \cup {S(s, l, SumFunction(l) - 1) : l \in {m \in lens : SumFunction(m) > 0}}

DispatchJobs ==
  {J(k, src, idx, <<>>, 0, FALSE, IF k = "serial" THEN 1 ELSE 0) :
     k \in {"strings", "serial"},
     src \in {<<>>, <<S(1, <<>>, 0)>>}
            \cup {<<a, b>> : a \in Fitting(1, {<<>>, <<2>>}) \cup {S(1, <<1>>, 3)},
                            b \in Near(2, UpTo(2, {0, 1, 3}))},
     idx \in UpTo(2, 1 .. 3) \cup {<<1, 2, 2>>, <<2, 1, 2>>, <<2, 2, 1>>}}

(* Strings of a CSV: as many as the indices select, or one too few.        *)
CsvJobs ==
  {J("serial", <<S(1, <<2, 1>>, 3), b, c>>, idx, <<>>, 0, wide, 0) :
     wide \in BOOLEAN,
     idx \in {Row, Row \o <<3, 1>>, <<1>> \o Row, Row \o <<1, 3, 2>>},
     b \in Fitting(2, {<<1>>, <<3>>, <<0, 2>>}),
     c \in Near(3, [1 .. 2 -> {1, 2}] \cup [1 .. 3 -> {0, 1}])}
  \cup {J("serial", <<S(1, l, SumFunction(l)), b, c>>, idx, <<>>, 0, TRUE, 1) :
          l \in {<<0>>, <<1, 0>>}, b \in Fitting(2, {<<1>>}),
          idx \in {Row, Row \o <<1>>, <<1>> \o Row},
          c \in Near(3, [1 .. 2 -> {1, 2}])}
  \cup {J("serial", <<S(1, <<2, 1>>, 3), S(2, <<0, 1>>, 1), c>>, Row \o Row, <<>>, 0, wide, 0) :
          wide \in BOOLEAN, c \in Fitting(3, [1 .. 4 -> 0 .. 2])}

TagJobs ==
  {J("tags", <<S(1, <<>>, m), S(2, <<>>, n)>>, idx, sizes, 0, FALSE, 0) :
     m \in 0 .. 2, n \in 0 .. 3, idx \in UpTo(2, 1 .. 3), sizes \in UpTo(2, 0 .. 2)}
  \cup {J("tags", <<S(1, <<>>, 2), S(2, <<>>, n)>>, idx, sizes, 0, FALSE, 0) :
          n \in 1 .. 2, idx \in [1 .. 3 -> 1 .. 2], sizes \in [1 .. 3 -> 0 .. 2]}

OneSource(kind, sources, idxs, counts) ==
  {J(kind, <<s>>, idx, <<>>, c, FALSE, 0) : s \in sources, idx \in idxs, c \in counts}

SomeJobs ==
  DispatchJobs \cup CsvJobs \cup TagJobs
  \cup OneSource("prefix", Near(1, UpTo(2, 0 .. 2)), UpTo(2, {0, 1, 3}), {0})
  \cup OneSource("prefix", Fitting(1, [1 .. 3 -> {0, 1}]), [1 .. 3 -> 0 .. 2], {0})
  \cup OneSource("tokenize", Near(1, UpTo(2, 0 .. 2)), UpTo(3, 1 .. 3), {0})
  \cup OneSource("interleave", Near(1, UpTo(4, {0, 1})) \cup Fitting(1, UpTo(3, {0, 3})),
                 {<<>>}, 0 .. 4)
  \cup OneSource("concat", Near(1, UpTo(3, {0, 2})), UpTo(2, 0 .. 3), {0, 1, 2})
  \cup {J("components", <<S(1, <<>>, n)>>, <<>>, sizes, 0, FALSE, 0) :
           n \in 0 .. 3, sizes \in UpTo(3, 0 .. 2)}
=============================================================================
