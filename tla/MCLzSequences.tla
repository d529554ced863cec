--------------------------- MODULE MCLzSequences ---------------------------
(***************************************************************************)
(* Small instances of LzSequences for TLC: every token of lz over small    *)
(* lengths and offsets; of field_lz and fastlz every code, with the values *)
(* it takes from the other streams and 0 for those it does not take.       *)
(***************************************************************************)
EXTENDS LzSequences

T(code, lit, mat, raw, xlit, xmat) ==
  [code |-> code, lit |-> lit, mat |-> mat, raw |-> raw, xlit |-> xlit, xmat |-> xmat]

If(taken, values) == IF taken THEN values ELSE {0}

SomeTokens ==
  [k \in Kinds |->
     CASE k = "lz" -> {T(0, l, m, r, 0, 0) : l \in 0 .. 2, m \in 0 .. 5, r \in 0 .. 3}
       [] k = "field" ->
            UNION {{T(c, l, m, r, xl, xm) :
                      r \in If(c = 3, {0, 1, 3}), xl \in If(l = Escape, {0, 1}),
                      xm \in If(m = Escape, {0, 1})} :
                   c \in 0 .. 3, l \in 0 .. 2, m \in 0 .. 2}
       [] k = "fast" ->
            UNION {{T(c, l, m, r, xl, xm) :
                      r \in If(c # 0, 1 .. 3), xl \in If(l = 0 /\ m = 0, {0, 2}),
                      xm \in If(l = 0 /\ m = 0, {0, 4})} :
                   c \in 0 .. 3, l \in 0 .. 2, m \in {0, 1, 3}}]

SomeJobs ==
  UNION {{[kind |-> k, base |-> b, cap |-> c, size |-> s, lits |-> l, unit |-> u] :
            b \in IF k = "fast" THEN {0} ELSE 0 .. 1, c \in IF k = "lz" THEN {1, 9} ELSE {1},
            u \in IF k = "field" THEN {2, 4} ELSE {1}} :
         k \in {"lz", "field"}, s \in {0, 5, 7, 9}, l \in 1 .. 3}
  \cup {[kind |-> "fast", base |-> 0, cap |-> 0, size |-> s, lits |-> l, unit |-> 1] :
          s \in {5, 7}, l \in 1 .. 4}
=============================================================================
