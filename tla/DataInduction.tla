--------------------------- MODULE DataInduction ----------------------------
(***************************************************************************)
(* Induction over numbers in a form without operator parameters, and what  *)
(* follows from it about the operators the components are built from:      *)
(* FlattenSeq, the sum that FoldLeft makes of a sequence, and a fold by a  *)
(* function, which can be reasoned about without operator parameters too.  *)
(* Also facts about sequences, remainders and sums over sets of places.    *)
(***************************************************************************)
EXTENDS Integers, SequencesExt, FiniteSetTheorems, WellFoundedInduction, SequenceTheorems,
        TLAPS

-----------------------------------------------------------------------------
(* Induction.                                                              *)
LessThan == {p \in Nat \X Nat : p[1] < p[2]}

(* The library fact on numbers, with the relation as a set.                *)
LEMMA LessThanIsWellFounded == IsWellFoundedOn(LessThan, Nat)
<1>1. OpToRel(<, Nat) = LessThan
  BY DEF OpToRel, LessThan
<1> QED
  BY <1>1, NatLessThanWellFounded

(* A set of numbers has a least one.                                       *)
LEMMA LeastElement ==
  ASSUME NEW S, S \subseteq Nat, S # {}
  PROVE  \E m \in S : \A x \in S : m <= x
<1>1. PICK m \in S : \A x \in S : ~ (<<x, m>> \in LessThan)
  BY LessThanIsWellFounded, WFMin
<1>2. ASSUME NEW x \in S PROVE m <= x
  <2>1. x \in Nat /\ m \in Nat
    OBVIOUS
  <2>2. ~ (x < m)
    <3> SUFFICES ASSUME x < m PROVE FALSE
      OBVIOUS
    <3>1. <<x, m>> \in LessThan
      BY <2>1 DEF LessThan
    <3> QED
      BY <1>1, <3>1
  <2> QED
    BY <2>1, <2>2
<1> QED
  BY <1>2

(* A set with 0 and with every successor of its numbers has all of them:   *)
(* the least number it misses would have a predecessor it does not miss.   *)
LEMMA SetInduction ==
  ASSUME NEW S, 0 \in S, \A n \in Nat : n \in S => n + 1 \in S
  PROVE  Nat \subseteq S
<1> SUFFICES ASSUME Nat \ S # {} PROVE FALSE
  OBVIOUS
<1> DEFINE T == Nat \ S
<1>1. PICK x \in T : \A y \in T : ~ (<<y, x>> \in LessThan)
  <2>1. T \subseteq Nat /\ T # {}
    OBVIOUS
  <2> QED
    BY <2>1, LessThanIsWellFounded, WFMin
<1>2. x \in Nat /\ x # 0
  BY <1>1
<1>3. PICK y \in Nat : y + 1 = x /\ y < x
  <2>1. (x - 1) \in Nat /\ (x - 1) + 1 = x /\ x - 1 < x
    BY <1>2
  <2> QED
    BY <2>1
<1>4. <<y, x>> \in LessThan
  BY <1>2, <1>3 DEF LessThan
<1>5. y \in S
  BY <1>1, <1>3, <1>4
<1> QED
  BY <1>1, <1>3, <1>5

(* The same up to a bound.                                                 *)
LEMMA BoundedInduction ==
  ASSUME NEW n \in Nat, NEW S, 0 \in S,
         \A k \in Nat : k < n /\ k \in S => k + 1 \in S
  PROVE  \A k \in Nat : k <= n => k \in S
<1> DEFINE T == {k \in Nat : k <= n => k \in S}
<1>1. 0 \in T
  OBVIOUS
<1>2. \A k \in Nat : k \in T => k + 1 \in T
  OBVIOUS
<1> HIDE DEF T
<1>3. Nat \subseteq T
  BY <1>1, <1>2, SetInduction
<1> QED
  BY <1>3 DEF T
-----------------------------------------------------------------------------
(* FlattenSeq.                                                             *)

(* The recursive function in it.                                           *)
Flattens(g, s, n) == g = [i \in 1 .. n |-> IF i = 1 THEN s[i] ELSE g[i - 1] \o s[i]]

(* There is a function that FlattenSeq chooses.                            *)
LEMMA FlattensExists == ASSUME NEW s, NEW n \in Nat PROVE \E g : Flattens(g, s, n)
<1> DEFINE T == {k \in Nat : \E g : Flattens(g, s, k)}
<1>1. 0 \in T
  <2> DEFINE g == [i \in 1 .. 0 |-> s[i]]
  <2>1. Flattens(g, s, 0)
    BY DEF Flattens
  <2> QED
    BY <2>1
<1>2. ASSUME NEW k \in Nat, k \in T PROVE k + 1 \in T
  <2>1. PICK g : Flattens(g, s, k)
    BY <1>2
  <2> DEFINE x == IF k + 1 = 1 THEN s[k + 1] ELSE g[k] \o s[k + 1]
             h == [i \in 1 .. (k + 1) |-> IF i = k + 1 THEN x ELSE g[i]]
  <2>2. \A i \in 1 .. k : g[i] = IF i = 1 THEN s[i] ELSE g[i - 1] \o s[i]
    BY <2>1 DEF Flattens
  <2>3. \A i \in 1 .. k : h[i] = g[i]
    OBVIOUS
  <2>4. h[k + 1] = x
    OBVIOUS
  <2> HIDE DEF h
  <2>5. ASSUME NEW i \in 1 .. (k + 1)
        PROVE  h[i] = IF i = 1 THEN s[i] ELSE h[i - 1] \o s[i]
    <3>1. CASE i = k + 1 /\ i # 1
      <4>1. k \in 1 .. k /\ i - 1 = k
        BY <3>1
      <4> QED
        BY <2>3, <2>4, <3>1, <4>1
    <3>2. CASE i = k + 1 /\ i = 1
      BY <2>4, <3>2
    <3>3. CASE i # k + 1 /\ i # 1
      <4>1. i \in 1 .. k /\ i - 1 \in 1 .. k
        BY <3>3
      <4> QED
        BY <2>2, <2>3, <3>3, <4>1
    <3>4. CASE i # k + 1 /\ i = 1
      <4>1. i \in 1 .. k
        BY <3>4
      <4> QED
        BY <2>2, <2>3, <3>4, <4>1
    <3> QED
      BY <3>1, <3>2, <3>3, <3>4
  <2>6. h = [i \in 1 .. (k + 1) |-> h[i]]
    BY DEF h
  <2>7. Flattens(h, s, k + 1)
    BY <2>5, <2>6 DEF Flattens
  <2> QED
    BY <2>7
<1> HIDE DEF T
<1>3. Nat \subseteq T
  BY <1>1, <1>2, SetInduction
<1> QED
  BY <1>3 DEF T

(* FlattenSeq is the last value of the function it chooses.                *)
LEMMA FlattenUnfolds ==
  ASSUME NEW s, Len(s) \in Nat, Len(s) # 0
  PROVE  \E g : Flattens(g, s, Len(s)) /\ FlattenSeq(s) = g[Len(s)]
<1> DEFINE g == CHOOSE f : Flattens(f, s, Len(s))
<1>1. Flattens(g, s, Len(s))
  BY FlattensExists
<1>2. FlattenSeq(s) = g[Len(s)]
  BY DEF FlattenSeq, Flattens
<1> QED
  BY <1>1, <1>2

(* Sequences that begin alike flatten alike so far.                        *)
LEMMA FlattensAlike ==
  ASSUME NEW s, NEW t, NEW g, NEW h, NEW m \in Nat, NEW n \in Nat,
         Flattens(g, s, m), Flattens(h, t, n), m <= n, \A i \in 1 .. m : s[i] = t[i]
  PROVE  \A i \in 1 .. m : g[i] = h[i]
<1> DEFINE T == {k \in Nat : k \in 1 .. m => g[k] = h[k]}
<1>1. /\ \A i \in 1 .. m : g[i] = IF i = 1 THEN s[i] ELSE g[i - 1] \o s[i]
      /\ \A i \in 1 .. n : h[i] = IF i = 1 THEN t[i] ELSE h[i - 1] \o t[i]
  BY DEF Flattens
<1>2. 0 \in T
  OBVIOUS
<1>3. ASSUME NEW k \in Nat, k \in T PROVE k + 1 \in T
  <2> SUFFICES ASSUME k + 1 \in 1 .. m PROVE g[k + 1] = h[k + 1]
    OBVIOUS
  <2>1. k + 1 \in 1 .. n /\ s[k + 1] = t[k + 1] /\ (k + 1) - 1 = k
    OBVIOUS
  <2>2. CASE k = 0
    BY <1>1, <2>1, <2>2
  <2>3. CASE k # 0
    <3>1. g[k] = h[k]
      BY <1>3, <2>3
    <3>2. k + 1 # 1 /\ k + 1 \in 1 .. m
      BY <2>3
    <3>3. g[k + 1] = g[(k + 1) - 1] \o s[k + 1]
      BY <1>1, <3>2
    <3>4. h[k + 1] = h[(k + 1) - 1] \o t[k + 1]
      BY <1>1, <2>1, <3>2
    <3> QED
      BY <2>1, <3>1, <3>3, <3>4
  <2> QED
    BY <2>2, <2>3
<1> HIDE DEF T
<1>4. Nat \subseteq T
  BY <1>2, <1>3, SetInduction
<1>5. \A k \in 1 .. m : k \in Nat
  OBVIOUS
<1> QED
  BY <1>4, <1>5 DEF T

(* Nothing flattens to nothing.                                            *)
LEMMA FlattenEmpty == ASSUME NEW s, Len(s) = 0 PROVE FlattenSeq(s) = s
BY DEF FlattenSeq

(* One more sequence goes behind what the ones before it flatten to.       *)
LEMMA FlattenLast ==
  ASSUME NEW U, NEW s \in Seq(Seq(U)), NEW t \in Seq(Seq(U)), Len(t) = Len(s) + 1,
         \A i \in 1 .. Len(s) : t[i] = s[i]
  PROVE  FlattenSeq(t) = FlattenSeq(s) \o t[Len(t)]
<1> DEFINE n == Len(s)
<1>1. n \in Nat /\ n + 1 \in Nat /\ Len(t) = n + 1 /\ n + 1 # 0 /\ t[n + 1] \in Seq(U)
  OBVIOUS
<1> HIDE DEF n
<1>2. PICK h : Flattens(h, t, n + 1) /\ FlattenSeq(t) = h[n + 1]
  BY <1>1, FlattenUnfolds
<1>3. h[n + 1] = IF n + 1 = 1 THEN t[n + 1] ELSE h[(n + 1) - 1] \o t[n + 1]
  <2>1. \A i \in 1 .. (n + 1) : h[i] = IF i = 1 THEN t[i] ELSE h[i - 1] \o t[i]
    BY <1>2 DEF Flattens
  <2>2. n + 1 \in 1 .. (n + 1)
    BY <1>1
  <2> QED
    BY <2>1, <2>2
<1>4. CASE n = 0
  <2>1. FlattenSeq(s) = <<>>
    BY <1>4, FlattenEmpty, EmptySeq DEF n
  <2>2. FlattenSeq(t) = t[n + 1]
    BY <1>2, <1>3, <1>4
  <2> QED
    BY <1>1, <2>1, <2>2, ConcatEmptySeq
<1>5. CASE n # 0
  <2>1. PICK g : Flattens(g, s, n) /\ FlattenSeq(s) = g[n]
    BY <1>1, <1>5, FlattenUnfolds DEF n
  <2>2. \A i \in 1 .. n : g[i] = h[i]
    <3>1. \A i \in 1 .. n : s[i] = t[i]
      BY DEF n
    <3> DEFINE m == n + 1
    <3>2. m \in Nat /\ n \in Nat /\ n <= m /\ Flattens(h, t, m) /\ Flattens(g, s, n)
      BY <1>1, <1>2, <2>1
    <3> HIDE DEF m
    <3> QED
      BY SMTT(30), <3>1, <3>2, FlattensAlike
  <2>3. n \in 1 .. n /\ (n + 1) - 1 = n /\ n + 1 # 1
    BY <1>1, <1>5
  <2> QED
    BY <1>1, <1>2, <1>3, <2>1, <2>2, <2>3
<1> QED
  BY <1>4, <1>5

(* The first elements of a sequence.                                       *)
Firsts(s, n) == [i \in 1 .. n |-> s[i]]

(* The first n of a sequence are n of its elements.                        *)
LEMMA FirstsFacts ==
  ASSUME NEW U, NEW s \in Seq(U), NEW n \in Nat, n <= Len(s)
  PROVE  Firsts(s, n) \in Seq(U) /\ Len(Firsts(s, n)) = n /\ Firsts(s, Len(s)) = s
BY DEF Firsts

(* FlattenSeq of the first n + 1 is that of the first n and one more.      *)
LEMMA FlattenFirsts ==
  ASSUME NEW U, NEW s \in Seq(Seq(U)), NEW n \in Nat, n < Len(s)
  PROVE  FlattenSeq(Firsts(s, n + 1)) = FlattenSeq(Firsts(s, n)) \o s[n + 1]
<1>1. n + 1 \in Nat /\ n <= Len(s) /\ n + 1 <= Len(s)
  OBVIOUS
<1> DEFINE t == Firsts(s, n + 1)
           u == Firsts(s, n)
<1>2. /\ t \in Seq(Seq(U)) /\ u \in Seq(Seq(U)) /\ Len(t) = n + 1 /\ Len(u) = n
  BY <1>1, FirstsFacts
<1>3. t[n + 1] = s[n + 1] /\ \A i \in 1 .. n : t[i] = u[i]
  BY <1>1 DEF Firsts
<1> HIDE DEF t, u
<1>4. FlattenSeq(t) = FlattenSeq(u) \o t[Len(t)]
  BY <1>2, <1>3, FlattenLast
<1> QED
  BY <1>2, <1>3, <1>4 DEF t, u

(* Flattening sequences over S gives a sequence over S.                    *)
LEMMA FlattenType ==
  ASSUME NEW U, NEW s \in Seq(Seq(U))
  PROVE  FlattenSeq(s) \in Seq(U)
<1> DEFINE T == {k \in Nat : FlattenSeq(Firsts(s, k)) \in Seq(U)}
<1>1. 0 \in T
  <2>1. Firsts(s, 0) = <<>> /\ Len(Firsts(s, 0)) = 0
    BY DEF Firsts
  <2>2. FlattenSeq(Firsts(s, 0)) = <<>>
    BY <2>1, FlattenEmpty
  <2>3. <<>> \in Seq(U)
    BY EmptySeq
  <2> QED
    BY <2>2, <2>3
<1>2. ASSUME NEW k \in Nat, k < Len(s), k \in T PROVE k + 1 \in T
  <2>1. s[k + 1] \in Seq(U)
    BY <1>2
  <2>2. FlattenSeq(Firsts(s, k + 1)) = FlattenSeq(Firsts(s, k)) \o s[k + 1]
    BY <1>2, FlattenFirsts
  <2>3. FlattenSeq(Firsts(s, k)) \in Seq(U)
    BY <1>2
  <2>4. FlattenSeq(Firsts(s, k + 1)) \in Seq(U)
    BY <2>1, <2>2, <2>3, ConcatProperties
  <2> QED
    BY <2>4
<1>3. Len(s) \in Nat /\ Len(s) <= Len(s)
  OBVIOUS
<1> HIDE DEF T
<1>4. Len(s) \in T
  <2> DEFINE n == Len(s)
  <2>1. n \in Nat /\ n <= n /\ \A k \in Nat : k < n /\ k \in T => k + 1 \in T
    BY <1>2, <1>3
  <2> HIDE DEF n
  <2>2. \A k \in Nat : k <= n => k \in T
    BY <1>1, <2>1, BoundedInduction
  <2> QED
    BY <2>1, <2>2 DEF n
<1> QED
  BY <1>3, <1>4, FirstsFacts DEF T

(* More sequences flatten to no less.                                      *)
LEMMA FlattenGrows ==
  ASSUME NEW U, NEW s \in Seq(Seq(U)), NEW m \in Nat, NEW n \in Nat, m <= n, n <= Len(s)
  PROVE  Len(FlattenSeq(Firsts(s, m))) <= Len(FlattenSeq(Firsts(s, n)))
<1> DEFINE size(k) == Len(FlattenSeq(Firsts(s, k)))
           T == {k \in Nat : m <= k => size(m) <= size(k)}
<1>1. ASSUME NEW k \in Nat, k <= Len(s)
      PROVE  FlattenSeq(Firsts(s, k)) \in Seq(U) /\ size(k) \in Nat
  BY <1>1, FirstsFacts, FlattenType
<1>2. 0 \in T
  <2>1. size(m) \in Nat
    BY <1>1
  <2> QED
    BY <2>1
<1>3. ASSUME NEW k \in Nat, k < n, k \in T PROVE k + 1 \in T
  <2>1. FlattenSeq(Firsts(s, k + 1)) = FlattenSeq(Firsts(s, k)) \o s[k + 1]
    BY <1>3, FlattenFirsts
  <2>2. s[k + 1] \in Seq(U) /\ FlattenSeq(Firsts(s, k)) \in Seq(U)
    BY <1>1, <1>3
  <2>3. size(k + 1) = size(k) + Len(s[k + 1]) /\ Len(s[k + 1]) \in Nat /\ size(k) \in Nat
    BY <2>1, <2>2
  <2>4. size(m) \in Nat
    BY <1>1
  <2> HIDE DEF size
  <2>5. CASE m <= k
    BY <1>3, <2>3, <2>4, <2>5
  <2>6. CASE m = k + 1
    BY <2>3, <2>4, <2>6
  <2> QED
    BY <2>5, <2>6
<1> HIDE DEF T
<1>4. n \in T
  <2>1. n <= n /\ \A k \in Nat : k < n /\ k \in T => k + 1 \in T
    BY <1>3
  <2>2. \A k \in Nat : k <= n => k \in T
    BY <1>2, <2>1, BoundedInduction
  <2> QED
    BY <2>1, <2>2
<1> QED
  BY <1>4 DEF T
-----------------------------------------------------------------------------
(* The sum of a sequence, as FoldLeft makes it.                            *)
Sum(s) == FoldLeft(+, 0, s)

(* A set of numbers with a bound has a greatest one.                       *)
LEMMA MaxFacts ==
  ASSUME NEW n \in Nat, NEW S \in SUBSET (0 .. n), S # {}
  PROVE  Max(S) \in S /\ \A x \in S : x <= Max(S)
<1> DEFINE T == {k \in Nat : \E x \in S : x + k = n}
<1>1. T \subseteq Nat /\ T # {}
  <2>1. PICK x \in S : TRUE
    OBVIOUS
  <2>2. n - x \in Nat /\ x + (n - x) = n
    BY <2>1
  <2> QED
    BY <2>1, <2>2
<1>2. PICK k \in T : \A j \in T : ~ (<<j, k>> \in LessThan)
  <2> HIDE DEF T
  <2> QED
    BY <1>1, LessThanIsWellFounded, WFMin
<1>3. PICK x \in S : x + k = n
  BY <1>2
<1>4. \A y \in S : x >= y
  <2> SUFFICES ASSUME NEW y \in S, y > x PROVE FALSE
    OBVIOUS
  <2>1. PICK j \in Nat : y + j = n
    <3>1. n - y \in Nat /\ y + (n - y) = n
      OBVIOUS
    <3> QED
      BY <3>1
  <2>2. j \in T /\ j < k
    BY <1>2, <1>3, <2>1
  <2>3. <<j, k>> \in LessThan
    BY <1>2, <2>2 DEF LessThan
  <2> QED
    BY <1>2, <2>2, <2>3
<1>5. Max(S) \in S /\ \A y \in S : Max(S) >= y
  BY <1>3, <1>4 DEF Max
<1> QED
  BY <1>5

(* The recursive function in it, over the sets of places.                  *)
Sums(g, s, n) ==
  g = [S \in SUBSET (1 .. n) |-> IF S = {} THEN 0 ELSE g[S \ {Max(S)}] + s[Max(S)]]

(* There is a function that FoldLeft chooses for a sum.                    *)
LEMMA SumsExists == ASSUME NEW s, NEW n \in Nat PROVE \E g : Sums(g, s, n)
<1> DEFINE T == {k \in Nat : \E g : Sums(g, s, k)}
<1>1. 0 \in T
  <2> DEFINE g == [S \in SUBSET (1 .. 0) |-> 0]
  <2>1. \A S \in SUBSET (1 .. 0) : S = {}
    OBVIOUS
  <2>2. g = [S \in SUBSET (1 .. 0) |-> IF S = {} THEN 0 ELSE g[S \ {Max(S)}] + s[Max(S)]]
    BY <2>1
  <2>3. Sums(g, s, 0)
    BY <2>2 DEF Sums
  <2> QED
    BY <2>3
<1>2. ASSUME NEW k \in Nat, k \in T PROVE k + 1 \in T
  <2>1. PICK g : Sums(g, s, k)
    BY <1>2
  <2> DEFINE m == k + 1
             h == [S \in SUBSET (1 .. m) |->
                    IF m \in S THEN g[S \ {m}] + s[m] ELSE g[S]]
  <2>2. \A S \in SUBSET (1 .. k) :
          g[S] = IF S = {} THEN 0 ELSE g[S \ {Max(S)}] + s[Max(S)]
    BY <2>1 DEF Sums
  <2>3. m \in Nat /\ 1 .. k \subseteq 1 .. m /\ m \notin 1 .. k /\ 1 .. m = 1 .. k \cup {m}
    OBVIOUS
  <2>4. ASSUME NEW S \in SUBSET (1 .. m)
        PROVE  h[S] = IF S = {} THEN 0 ELSE h[S \ {Max(S)}] + s[Max(S)]
    <3>1. CASE m \in S
      <4>1. Max(S) = m
        <5>1. Max(S) \in S /\ \A x \in S : x <= Max(S)
          BY SMTT(30), <2>3, <3>1, MaxFacts
        <5>2. m \in Nat /\ m \in S /\ S \subseteq 1 .. m
          BY <2>3, <3>1
        <5> HIDE DEF m
        <5>3. m <= Max(S) /\ Max(S) \in 1 .. m
          <6> DEFINE x == Max(S)
          <6>1. x \in S /\ \A y \in S : y <= x
            BY <5>1
          <6> HIDE DEF x
          <6>2. m <= x /\ x \in 1 .. m
            BY <5>2, <6>1
          <6> QED
            BY <6>2 DEF x
        <5> QED
          BY <5>2, <5>3
      <4>2. S \ {m} \in SUBSET (1 .. m) /\ m \notin S \ {m} /\ S # {}
        BY <3>1
      <4>3. h[S \ {m}] = g[S \ {m}]
        BY <4>2
      <4>4. h[S] = g[S \ {m}] + s[m]
        BY <3>1
      <4> QED
        BY <4>1, <4>2, <4>3, <4>4
    <3>2. CASE m \notin S
      <4>1. S \in SUBSET (1 .. k)
        BY <2>3, <3>2
      <4>2. h[S] = g[S]
        BY <3>2
      <4>3. S # {} => S \ {Max(S)} \in SUBSET (1 .. m) /\ m \notin S \ {Max(S)}
        BY <3>2
      <4>4. S # {} => h[S \ {Max(S)}] = g[S \ {Max(S)}]
        BY <4>3
      <4> QED
        BY <2>2, <4>1, <4>2, <4>4
    <3> QED
      BY <3>1, <3>2
  <2>5. h = [S \in SUBSET (1 .. m) |-> h[S]]
    OBVIOUS
  <2> HIDE DEF h
  <2>6. Sums(h, s, m)
    BY <2>4, <2>5 DEF Sums
  <2> QED
    BY <2>6
<1> HIDE DEF T
<1>3. Nat \subseteq T
  BY <1>1, <1>2, SetInduction
<1> QED
  BY <1>3 DEF T

(* A sum is the last value of the function it chooses.                     *)
LEMMA SumUnfolds ==
  ASSUME NEW s, NEW n \in Nat, DOMAIN s = 1 .. n
  PROVE  \E g : Sums(g, s, n) /\ Sum(s) = g[1 .. n]
<1> DEFINE g == CHOOSE f : Sums(f, s, n)
<1>1. Sums(g, s, n)
  BY SumsExists
<1>2. Sum(s) = (CHOOSE f : f = [S \in SUBSET DOMAIN s |->
                   IF S = {} THEN 0 ELSE f[S \ {Max(S)}] + s[Max(S)]])[DOMAIN s]
  BY DEF Sum, FoldLeft, MapThenFoldSet
<1>3. Sum(s) = g[1 .. n]
  BY <1>2 DEF Sums
<1> QED
  BY <1>1, <1>3

(* The sum of the first k places.                                          *)
LEMMA SumsStep ==
  ASSUME NEW s, NEW g, NEW n \in Nat, Sums(g, s, n), NEW k \in Nat, k < n
  PROVE  g[1 .. 0] = 0 /\ g[1 .. (k + 1)] = g[1 .. k] + s[k + 1]
<1>1. \A S \in SUBSET (1 .. n) :
        g[S] = IF S = {} THEN 0 ELSE g[S \ {Max(S)}] + s[Max(S)]
  BY DEF Sums
<1>2. 1 .. 0 = {} /\ {} \in SUBSET (1 .. n)
  OBVIOUS
<1> DEFINE S == 1 .. (k + 1)
<1>3. S \in SUBSET (1 .. n) /\ S # {} /\ k + 1 \in S /\ S \ {k + 1} = 1 .. k
  OBVIOUS
<1>4. Max(S) = k + 1
  <2>1. Max(S) \in S /\ \A x \in S : x <= Max(S)
    <3>1. n \in Nat /\ S \in SUBSET (0 .. n) /\ S # {}
      BY <1>3
    <3> HIDE DEF S
    <3> QED
      BY <3>1, MaxFacts
  <2>2. k + 1 <= Max(S) /\ Max(S) <= k + 1 /\ Max(S) \in Int
    BY <1>3, <2>1
  <2> QED
    BY <2>2
<1> HIDE DEF S
<1>5. g[S] = g[1 .. k] + s[k + 1]
  BY <1>1, <1>3, <1>4
<1> QED
  BY <1>1, <1>2, <1>5 DEF S

(* Nothing adds up to zero.                                                *)
LEMMA SumEmpty == ASSUME NEW s, DOMAIN s = {} PROVE Sum(s) = 0
<1>1. DOMAIN s = 1 .. 0
  OBVIOUS
<1>2. PICK g : Sums(g, s, 0) /\ Sum(s) = g[1 .. 0]
  BY <1>1, SumUnfolds
<1>3. 1 .. 0 = {} /\ {} \in SUBSET (1 .. 0)
  OBVIOUS
<1>4. g[{}] = 0
  BY <1>2, <1>3 DEF Sums
<1> QED
  BY <1>2, <1>3, <1>4

(* Solutions for sequences that begin alike agree so far.                  *)
LEMMA SumsAlike ==
  ASSUME NEW s, NEW t, NEW g, NEW h, NEW m \in Nat, NEW n \in Nat, m <= n,
         Sums(g, s, m), Sums(h, t, n), \A i \in 1 .. m : s[i] = t[i]
  PROVE  g[1 .. m] = h[1 .. m]
<1> DEFINE T == {k \in Nat : g[1 .. k] = h[1 .. k]}
<1>1. 0 \in T
  <2>1. 1 .. 0 = {} /\ {} \in SUBSET (1 .. m) /\ {} \in SUBSET (1 .. n)
    OBVIOUS
  <2>2. g[{}] = 0 /\ h[{}] = 0
    BY <2>1 DEF Sums
  <2> QED
    BY <2>1, <2>2
<1>2. ASSUME NEW k \in Nat, k < m, k \in T PROVE k + 1 \in T
  <2>1. k < n /\ s[k + 1] = t[k + 1]
    BY <1>2
  <2>2. g[1 .. (k + 1)] = g[1 .. k] + s[k + 1]
    BY <1>2, SumsStep
  <2>3. h[1 .. (k + 1)] = h[1 .. k] + t[k + 1]
    BY <1>2, <2>1, SumsStep
  <2> QED
    BY <1>2, <2>1, <2>2, <2>3
<1> HIDE DEF T
<1>3. m <= m /\ \A k \in Nat : k < m /\ k \in T => k + 1 \in T
  BY <1>2
<1>4. \A k \in Nat : k <= m => k \in T
  BY <1>1, <1>3, BoundedInduction
<1> QED
  BY <1>3, <1>4 DEF T

(* One more number adds itself.                                            *)
LEMMA SumLast ==
  ASSUME NEW s, NEW t, NEW n \in Nat, DOMAIN s = 1 .. n, DOMAIN t = 1 .. (n + 1),
         \A i \in 1 .. n : t[i] = s[i]
  PROVE  Sum(t) = Sum(s) + t[n + 1]
<1> DEFINE m == n + 1
<1>1. m \in Nat /\ n <= m /\ n < m /\ \A i \in 1 .. n : s[i] = t[i]
  OBVIOUS
<1>2. PICK g : Sums(g, s, n) /\ Sum(s) = g[1 .. n]
  BY SumUnfolds
<1>3. DOMAIN t = 1 .. m
  OBVIOUS
<1> HIDE DEF m
<1>4. PICK h : Sums(h, t, m) /\ Sum(t) = h[1 .. m]
  BY <1>1, <1>3, SumUnfolds
<1>5. g[1 .. n] = h[1 .. n]
  BY <1>1, <1>2, <1>4, SumsAlike
<1>6. h[1 .. (n + 1)] = h[1 .. n] + t[n + 1]
  BY <1>1, <1>4, SumsStep
<1> QED
  BY <1>2, <1>4, <1>5, <1>6 DEF m

(* The sum of the first n + 1 is that of the first n and one more.         *)
LEMMA SumFirsts ==
  ASSUME NEW s, NEW n \in Nat
  PROVE  /\ Sum(Firsts(s, 0)) = 0
         /\ Sum(Firsts(s, n + 1)) = Sum(Firsts(s, n)) + s[n + 1]
<1> DEFINE t == Firsts(s, n + 1)
           u == Firsts(s, n)
<1>1. /\ DOMAIN t = 1 .. (n + 1) /\ DOMAIN u = 1 .. n /\ t[n + 1] = s[n + 1]
      /\ \A i \in 1 .. n : t[i] = u[i]
  BY DEF Firsts
<1> HIDE DEF t, u
<1>2. Sum(t) = Sum(u) + t[n + 1]
  BY <1>1, SumLast
<1>3. DOMAIN Firsts(s, 0) = {}
  BY DEF Firsts
<1> QED
  BY <1>1, <1>2, <1>3, SumEmpty DEF t, u

(* The sum of whole or natural numbers is one.                             *)
LEMMA SumInt ==
  ASSUME NEW s \in Seq(Int), NEW n \in Nat, n <= Len(s)
  PROVE  Sum(Firsts(s, n)) \in Int
<1> DEFINE T == {k \in Nat : Sum(Firsts(s, k)) \in Int}
<1>1. 0 \in T
  BY SumFirsts
<1>2. ASSUME NEW k \in Nat, k < n, k \in T PROVE k + 1 \in T
  <2>1. s[k + 1] \in Int
    BY <1>2
  <2> QED
    BY SMTT(30), <1>2, <2>1, SumFirsts
<1> HIDE DEF T
<1>3. n <= n /\ \A k \in Nat : k < n /\ k \in T => k + 1 \in T
  BY <1>2
<1>4. \A k \in Nat : k <= n => k \in T
  BY <1>1, <1>3, BoundedInduction
<1> QED
  BY <1>3, <1>4 DEF T

(* Natural numbers add up to one.                                          *)
LEMMA SumNat ==
  ASSUME NEW s \in Seq(Nat), NEW n \in Nat, n <= Len(s)
  PROVE  Sum(Firsts(s, n)) \in Nat
<1> DEFINE T == {k \in Nat : Sum(Firsts(s, k)) \in Nat}
<1>1. 0 \in T
  BY SumFirsts
<1>2. ASSUME NEW k \in Nat, k < n, k \in T PROVE k + 1 \in T
  <2>1. s[k + 1] \in Nat /\ Sum(Firsts(s, k)) \in Nat
    BY <1>2
  <2>2. Sum(Firsts(s, k + 1)) = Sum(Firsts(s, k)) + s[k + 1]
    BY SumFirsts
  <2>3. Sum(Firsts(s, k + 1)) \in Nat
    BY <2>1, <2>2
  <2> QED
    BY <2>3
<1> HIDE DEF T
<1>3. n <= n /\ \A k \in Nat : k < n /\ k \in T => k + 1 \in T
  BY <1>2
<1>4. \A k \in Nat : k <= n => k \in T
  BY <1>1, <1>3, BoundedInduction
<1> QED
  BY <1>3, <1>4 DEF T

(* More natural numbers sum to no less.                                    *)
LEMMA SumGrows ==
  ASSUME NEW s \in Seq(Nat), NEW m \in Nat, NEW n \in Nat, m <= n, n <= Len(s)
  PROVE  Sum(Firsts(s, m)) <= Sum(Firsts(s, n))
<1> DEFINE T == {k \in Nat : m <= k => Sum(Firsts(s, m)) <= Sum(Firsts(s, k))}
<1>1. Sum(Firsts(s, m)) \in Nat
  BY SumNat
<1>2. 0 \in T
  BY <1>1
<1>3. ASSUME NEW k \in Nat, k < n, k \in T PROVE k + 1 \in T
  <2>1. s[k + 1] \in Nat /\ Sum(Firsts(s, k)) \in Nat
    BY <1>3, SumNat
  <2>2. Sum(Firsts(s, k + 1)) = Sum(Firsts(s, k)) + s[k + 1]
    BY SumFirsts
  <2>3. CASE m <= k
    BY <1>1, <1>3, <2>1, <2>2, <2>3
  <2>4. CASE m = k + 1
    BY <1>1, <2>4
  <2> QED
    BY <2>3, <2>4
<1> HIDE DEF T
<1>4. n <= n /\ \A k \in Nat : k < n /\ k \in T => k + 1 \in T
  BY <1>3
<1>5. \A k \in Nat : k <= n => k \in T
  BY <1>2, <1>4, BoundedInduction
<1> QED
  BY <1>4, <1>5 DEF T

(* Replacing a number changes the sum by the difference.                   *)
LEMMA SumReplaced ==
  ASSUME NEW s \in Seq(Int), NEW i \in DOMAIN s, NEW x \in Int
  PROVE  Sum([s EXCEPT ![i] = x]) = (Sum(s) - s[i]) + x
<1> DEFINE t == [s EXCEPT ![i] = x]
           n == Len(s)
           T == {k \in Nat : Sum(Firsts(t, k)) =
                               IF i <= k THEN (Sum(Firsts(s, k)) - s[i]) + x
                               ELSE Sum(Firsts(s, k))}
<1>1. t \in Seq(Int) /\ Len(t) = n /\ n \in Nat /\ i \in 1 .. n /\ s[i] \in Int
  OBVIOUS
<1>2. t[i] = x /\ \A j \in 1 .. n : j # i => t[j] = s[j]
  OBVIOUS
<1> HIDE DEF t
<1>3. 0 \in T
  BY <1>1, SumFirsts
<1>4. ASSUME NEW k \in Nat, k < n, k \in T PROVE k + 1 \in T
  <2>1. /\ Sum(Firsts(s, k)) \in Int /\ Sum(Firsts(t, k)) \in Int
        /\ s[k + 1] \in Int /\ t[k + 1] \in Int
    BY SMTT(30), <1>1, <1>4, SumInt
  <2>2. /\ Sum(Firsts(s, k + 1)) = Sum(Firsts(s, k)) + s[k + 1]
        /\ Sum(Firsts(t, k + 1)) = Sum(Firsts(t, k)) + t[k + 1]
    BY SumFirsts
  <2>3. Sum(Firsts(t, k)) = IF i <= k THEN (Sum(Firsts(s, k)) - s[i]) + x
                            ELSE Sum(Firsts(s, k))
    BY <1>4
  <2>4. CASE i = k + 1
    BY <1>1, <1>2, <2>1, <2>2, <2>3, <2>4
  <2>5. CASE i # k + 1
    <3>1. t[k + 1] = s[k + 1] /\ (i <= k + 1 <=> i <= k)
      BY <1>1, <1>2, <1>4, <2>5
    <3> QED
      BY SMTT(30), <1>1, <2>1, <2>2, <2>3, <3>1
  <2> QED
    BY <2>4, <2>5
<1> HIDE DEF T, n
<1>5. n <= n /\ \A k \in Nat : k < n /\ k \in T => k + 1 \in T
  BY <1>1, <1>4
<1>6. n \in T
  BY <1>1, <1>3, <1>5, BoundedInduction
<1>7. Firsts(s, n) = s /\ Firsts(t, n) = t
  BY <1>1, FirstsFacts DEF n
<1>8. Sum(t) = IF i <= n THEN (Sum(s) - s[i]) + x ELSE Sum(s)
  BY <1>6, <1>7 DEF T
<1> QED
  BY <1>1, <1>8 DEF t

(* A function of the first numbers is a sequence.                          *)
LEMMA FunctionIsSeq ==
  ASSUME NEW n \in Nat, NEW U, NEW f, f = [i \in 1 .. n |-> f[i]],
         \A i \in 1 .. n : f[i] \in U
  PROVE  f \in Seq(U) /\ Len(f) = n
<1>1. f \in [1 .. n -> U] /\ DOMAIN f = 1 .. n
  OBVIOUS
<1>2. f \in Seq(U)
  BY <1>1, SeqDef
<1> QED
  BY <1>1, <1>2

(* Nothings sum to nothing.                                                *)
LEMMA SumZero ==
  ASSUME NEW n \in Nat, NEW s, s = [k \in 1 .. n |-> 0]
  PROVE  Sum(s) = 0
<1> DEFINE T == {k \in Nat : Sum(Firsts(s, k)) = 0}
<1>1. 0 \in T
  BY SumFirsts
<1>2. ASSUME NEW k \in Nat, k < n, k \in T PROVE k + 1 \in T
  <2>1. s[k + 1] = 0
    BY <1>2
  <2>2. Sum(Firsts(s, k + 1)) = Sum(Firsts(s, k)) + s[k + 1]
    BY SumFirsts
  <2> QED
    BY <1>2, <2>1, <2>2
<1> HIDE DEF T
<1>3. n \in T
  <2>1. n <= n /\ \A k \in Nat : k < n /\ k \in T => k + 1 \in T
    BY <1>2
  <2> QED
    BY <1>1, <2>1, BoundedInduction
<1>4. Firsts(s, n) = s
  BY DEF Firsts
<1> QED
  BY <1>3, <1>4 DEF T

(* Integers add up to one.                                                 *)
LEMMA SumTyped == ASSUME NEW s \in Seq(Int) PROVE Sum(s) \in Int
<1>1. Len(s) \in Nat /\ Len(s) <= Len(s) /\ Firsts(s, Len(s)) = s
  BY FirstsFacts
<1>2. Sum(Firsts(s, Len(s))) \in Int
  BY <1>1, SumInt
<1> QED
  BY <1>1, <1>2

(* Replacing the numbers at distinct places changes the sum by the         *)
(* difference: t is s but for the places p, where s holds a and t holds b. *)
Spread(s, t, p, a, b) ==
  /\ s \in Seq(Int) /\ t \in Seq(Int) /\ Len(t) = Len(s)
  /\ p \in Seq(1 .. Len(s)) /\ IsInjective(p)
  /\ \A i \in 1 .. Len(s) : (\A k \in DOMAIN p : p[k] # i) => t[i] = s[i]
  /\ a = [k \in DOMAIN p |-> s[p[k]]]
  /\ b = [k \in DOMAIN p |-> t[p[k]]]

(* The sum of t, from those of s, a and b.                                 *)
LEMMA SumSpread ==
  ASSUME NEW s, NEW t, NEW p, NEW a, NEW b, Spread(s, t, p, a, b)
  PROVE  Sum(t) = (Sum(s) - Sum(a)) + Sum(b)
<1>0. /\ s \in Seq(Int) /\ t \in Seq(Int) /\ Len(t) = Len(s)
      /\ p \in Seq(1 .. Len(s)) /\ IsInjective(p)
      /\ \A i \in 1 .. Len(s) : (\A k \in DOMAIN p : p[k] # i) => t[i] = s[i]
      /\ a = [k \in DOMAIN p |-> s[p[k]]]
      /\ b = [k \in DOMAIN p |-> t[p[k]]]
  BY DEF Spread
<1> DEFINE n == Len(s)
           m == Len(p)
           Mix(k) == [i \in 1 .. n |-> IF \E j \in 1 .. k : p[j] = i THEN t[i] ELSE s[i]]
           T == {k \in Nat : Sum(Mix(k)) = (Sum(s) - Sum(Firsts(a, k))) + Sum(Firsts(b, k))}
<1>1. /\ n \in Nat /\ m \in Nat /\ DOMAIN p = 1 .. m /\ DOMAIN s = 1 .. n /\ DOMAIN t = 1 .. n
      /\ \A k \in 1 .. m : p[k] \in 1 .. n
      /\ \A i \in 1 .. n : s[i] \in Int /\ t[i] \in Int
      /\ s = [i \in 1 .. n |-> s[i]] /\ t = [i \in 1 .. n |-> t[i]]
  BY <1>0
<1>2. a \in Seq(Int) /\ b \in Seq(Int) /\ Len(a) = m /\ Len(b) = m
  BY <1>0, <1>1
<1>3. Sum(s) \in Int
  BY <1>0, SumTyped
<1> HIDE DEF n, m
<1>4. 0 \in T
  <2>1. \A i \in 1 .. n : Mix(0)[i] = s[i]
    OBVIOUS
  <2>2. Mix(0) = s
    BY <1>1, <2>1
  <2>3. Sum(Firsts(a, 0)) = 0 /\ Sum(Firsts(b, 0)) = 0
    BY SumFirsts
  <2> HIDE DEF Mix
  <2>4. Sum(Mix(0)) = (Sum(s) - Sum(Firsts(a, 0))) + Sum(Firsts(b, 0))
    <3>1. (Sum(s) - 0) + 0 = Sum(s)
      BY <1>3
    <3> QED
      BY <2>2, <2>3, <3>1
  <2> QED
    BY <2>4
<1>5. ASSUME NEW k \in Nat, k < m, k \in T PROVE k + 1 \in T
  <2> DEFINE i == p[k + 1]
             u == Mix(k)
             v == Mix(k + 1)
  <2>1. k + 1 \in 1 .. m /\ i \in 1 .. n /\ \A j \in 1 .. k : j \in 1 .. m /\ p[j] # i
    <3>1. k + 1 \in 1 .. m /\ \A j \in 1 .. k : j \in 1 .. m /\ j # k + 1
      BY <1>1, <1>5
    <3>2. \A x, y \in 1 .. m : p[x] = p[y] => x = y
      BY <1>0, <1>1 DEF IsInjective
    <3> QED
      BY <1>1, <3>1, <3>2
  <2>2. u[i] = s[i] /\ v[i] = t[i]
    BY <1>1, <2>1
  <2>3. ASSUME NEW j \in 1 .. n, j # i PROVE v[j] = u[j]
    <3>1. (\E x \in 1 .. (k + 1) : p[x] = j) <=> (\E x \in 1 .. k : p[x] = j)
      BY <1>5, <2>3
    <3> QED
      BY <3>1
  <2>4. u \in Seq(Int) /\ DOMAIN u = 1 .. n
    <3>1. \A j \in 1 .. n : u[j] \in Int
      BY <1>1
    <3>2. u = [j \in 1 .. n |-> u[j]] /\ DOMAIN u = 1 .. n
      OBVIOUS
    <3> HIDE DEF u
    <3> QED
      BY <1>1, <3>1, <3>2, FunctionIsSeq
  <2>5. v = [u EXCEPT ![i] = t[i]]
    <3>1. DOMAIN v = 1 .. n /\ v = [j \in 1 .. n |-> v[j]]
      OBVIOUS
    <3> HIDE DEF u, v, i
    <3> QED
      BY <2>1, <2>2, <2>3, <2>4, <3>1
  <2>6. a[k + 1] = s[i] /\ b[k + 1] = t[i] /\ s[i] \in Int /\ t[i] \in Int
    BY <1>0, <1>1, <2>1
  <2>7. /\ Sum(Firsts(a, k + 1)) = Sum(Firsts(a, k)) + s[i]
        /\ Sum(Firsts(b, k + 1)) = Sum(Firsts(b, k)) + t[i]
    BY <2>6, SumFirsts
  <2>8. Sum(Firsts(a, k)) \in Int /\ Sum(Firsts(b, k)) \in Int
    BY <1>2, <1>5, SumInt
  <2>9. Sum(u) = (Sum(s) - Sum(Firsts(a, k))) + Sum(Firsts(b, k))
    BY <1>5
  <2> HIDE DEF u, v, i
  <2>10. Sum(v) = (Sum(u) - s[i]) + t[i]
    BY <2>1, <2>2, <2>4, <2>5, <2>6, SumReplaced
  <2>11. Sum(v) = (Sum(s) - Sum(Firsts(a, k + 1))) + Sum(Firsts(b, k + 1))
    <3>1. PICK x, y, z, w, q : /\ x = Sum(s) /\ y = Sum(Firsts(a, k))
                               /\ z = Sum(Firsts(b, k)) /\ w = s[i] /\ q = t[i]
      OBVIOUS
    <3>2. x \in Int /\ y \in Int /\ z \in Int /\ w \in Int /\ q \in Int
      BY <1>3, <2>6, <2>8, <3>1
    <3>3. (((x - y) + z) - w) + q = (x - (y + w)) + (z + q)
      BY <3>2
    <3> QED
      BY <2>7, <2>9, <2>10, <3>1, <3>3, Zenon
  <2> QED
    BY <2>11 DEF v
<1>6. Mix(m) = t
  <2>1. ASSUME NEW i \in 1 .. n PROVE Mix(m)[i] = t[i]
    BY <1>0, <1>1 DEF n
  <2> QED
    BY <1>1, <2>1
<1> HIDE DEF T
<1>7. m \in T
  <2>1. m <= m /\ \A k \in Nat : k < m /\ k \in T => k + 1 \in T
    BY <1>1, <1>5
  <2> QED
    BY <1>1, <1>4, <2>1, BoundedInduction
<1>8. Firsts(a, m) = a /\ Firsts(b, m) = b
  BY <1>2, FirstsFacts
<1>9. Sum(Mix(m)) = (Sum(s) - Sum(Firsts(a, m))) + Sum(Firsts(b, m))
  BY <1>7 DEF T
<1> HIDE DEF Mix
<1> QED
  BY <1>6, <1>8, <1>9

(* What sequences flatten to is as long as they are together.              *)
Lengths(s) == [i \in 1 .. Len(s) |-> Len(s[i])]

(* The length of what is flattened is the sum of the lengths.              *)
LEMMA FlattenLength ==
  ASSUME NEW U, NEW s \in Seq(Seq(U))
  PROVE  Len(FlattenSeq(s)) = Sum(Lengths(s))
<1> DEFINE n == Len(s)
           T == {k \in Nat : Len(FlattenSeq(Firsts(s, k))) = Sum(Firsts(Lengths(s), k))}
<1>1. n \in Nat /\ n <= n
  OBVIOUS
<1>2. 0 \in T
  <2>1. Firsts(s, 0) = <<>> /\ Len(Firsts(s, 0)) = 0
    BY DEF Firsts
  <2>2. FlattenSeq(Firsts(s, 0)) = Firsts(s, 0)
    BY <2>1, FlattenEmpty
  <2> QED
    BY <2>1, <2>2, SumFirsts
<1>3. ASSUME NEW k \in Nat, k < n, k \in T PROVE k + 1 \in T
  <2>1. FlattenSeq(Firsts(s, k + 1)) = FlattenSeq(Firsts(s, k)) \o s[k + 1]
    BY <1>3, FlattenFirsts
  <2>2. Firsts(s, k) \in Seq(Seq(U)) /\ s[k + 1] \in Seq(U)
    BY <1>3, FirstsFacts
  <2>3. FlattenSeq(Firsts(s, k)) \in Seq(U)
    BY <2>2, FlattenType
  <2>4. Len(FlattenSeq(Firsts(s, k + 1))) = Len(FlattenSeq(Firsts(s, k))) + Len(s[k + 1])
    BY <2>1, <2>2, <2>3, ConcatProperties
  <2>5. Lengths(s)[k + 1] = Len(s[k + 1])
    BY <1>1, <1>3 DEF Lengths
  <2>6. Sum(Firsts(Lengths(s), k + 1)) = Sum(Firsts(Lengths(s), k)) + Len(s[k + 1])
    BY <2>5, SumFirsts
  <2>7. Len(FlattenSeq(Firsts(s, k))) = Sum(Firsts(Lengths(s), k))
    BY <1>3
  <2> QED
    BY <2>4, <2>6, <2>7
<1>4. Firsts(s, n) = s /\ Firsts(Lengths(s), n) = Lengths(s)
  BY <1>1, FirstsFacts DEF Lengths, Firsts
<1> HIDE DEF T, n
<1>5. \A k \in Nat : k < n /\ k \in T => k + 1 \in T
  BY <1>3
<1>6. n \in T
  BY <1>1, <1>2, <1>5, BoundedInduction
<1> QED
  BY <1>4, <1>6 DEF T

-----------------------------------------------------------------------------
(* Folding a sequence by a function of what there is so far and the next   *)
(* element.  FoldLeft takes an operator; where the operator is a function  *)
(* on the values that occur, FoldSolves shows that both folds are the same.*)
FoldsBy(g, F, base, s, n) ==
  g = [S \in SUBSET (1 .. n) |->
         IF S = {} THEN base ELSE F[<<g[S \ {Max(S)}], s[Max(S)]>>]]

FoldBy(F, base, s) == (CHOOSE g : FoldsBy(g, F, base, s, Len(s)))[1 .. Len(s)]

(* The greatest of some numbers, and the others.                           *)
LEMMA MaxOfSome ==
  ASSUME NEW n \in Nat, NEW S \in SUBSET (1 .. n), S # {}
  PROVE  /\ Max(S) \in S /\ \A x \in S : x <= Max(S)
         /\ n \in S => Max(S) = n
<1>1. S \in SUBSET (0 .. n)
  OBVIOUS
<1>2. Max(S) \in S /\ \A x \in S : x <= Max(S)
  BY <1>1, MaxFacts
<1>3. PICK m : m = Max(S)
  OBVIOUS
<1>4. m \in 1 .. n /\ (n \in S => n <= m)
  BY <1>2, <1>3
<1>5. n \in S => m = n
  BY <1>4
<1> QED
  BY <1>2, <1>3, <1>5

(* There is a function that FoldBy chooses.                                *)
LEMMA FoldExists ==
  ASSUME NEW F, NEW base, NEW s, NEW n \in Nat
  PROVE  \E g : FoldsBy(g, F, base, s, n)
<1> DEFINE T == {k \in Nat : \E g : FoldsBy(g, F, base, s, k)}
<1>1. 0 \in T
  <2> DEFINE g == [S \in SUBSET (1 .. 0) |-> base]
  <2>1. \A S \in SUBSET (1 .. 0) : S = {}
    OBVIOUS
  <2>2. g = [S \in SUBSET (1 .. 0) |->
               IF S = {} THEN base ELSE F[<<g[S \ {Max(S)}], s[Max(S)]>>]]
    BY <2>1
  <2>3. FoldsBy(g, F, base, s, 0)
    BY <2>2 DEF FoldsBy
  <2> QED
    BY <2>3
<1>2. ASSUME NEW k \in Nat, k \in T PROVE k + 1 \in T
  <2>1. PICK g : FoldsBy(g, F, base, s, k)
    BY <1>2
  <2> DEFINE m == k + 1
             h == [S \in SUBSET (1 .. m) |->
                    IF m \in S THEN F[<<g[S \ {m}], s[m]>>] ELSE g[S]]
  <2>2. \A S \in SUBSET (1 .. k) :
          g[S] = IF S = {} THEN base ELSE F[<<g[S \ {Max(S)}], s[Max(S)]>>]
    BY <2>1 DEF FoldsBy
  <2>3. m \in Nat /\ 1 .. k \subseteq 1 .. m /\ m \notin 1 .. k /\ 1 .. m = 1 .. k \cup {m}
    OBVIOUS
  <2>4. ASSUME NEW S \in SUBSET (1 .. m)
        PROVE  h[S] = IF S = {} THEN base ELSE F[<<h[S \ {Max(S)}], s[Max(S)]>>]
    <3>1. CASE m \in S
      <4>1. Max(S) = m
        <5> HIDE DEF m
        <5> QED
          BY <2>3, <3>1, MaxOfSome
      <4>2. S \ {m} \in SUBSET (1 .. m) /\ m \notin S \ {m} /\ S # {}
        BY <3>1
      <4>3. h[S \ {m}] = g[S \ {m}]
        BY <4>2
      <4>4. h[S] = F[<<g[S \ {m}], s[m]>>]
        BY <3>1
      <4> QED
        BY <4>1, <4>2, <4>3, <4>4
    <3>2. CASE m \notin S
      <4>1. S \in SUBSET (1 .. k)
        BY <2>3, <3>2
      <4>2. h[S] = g[S]
        BY <3>2
      <4>3. S # {} => S \ {Max(S)} \in SUBSET (1 .. m) /\ m \notin S \ {Max(S)}
        BY <3>2
      <4>4. S # {} => h[S \ {Max(S)}] = g[S \ {Max(S)}]
        BY <4>3
      <4> QED
        BY <2>2, <4>1, <4>2, <4>4
    <3> QED
      BY <3>1, <3>2
  <2>5. h = [S \in SUBSET (1 .. m) |-> h[S]]
    OBVIOUS
  <2> HIDE DEF h
  <2>6. FoldsBy(h, F, base, s, m)
    BY <2>4, <2>5 DEF FoldsBy
  <2> QED
    BY <2>6
<1> HIDE DEF T
<1>3. Nat \subseteq T
  BY <1>1, <1>2, SetInduction
<1> QED
  BY <1>3 DEF T

(* What solves the equation wherever its values are of the type, solves it *)
(* everywhere: they are.                                                   *)
Solves(g, F, base, s, n, A) ==
  /\ g = [S \in SUBSET (1 .. n) |-> g[S]] /\ g[{}] = base
  /\ \A S \in SUBSET (1 .. n) :
       S # {} /\ g[S \ {Max(S)}] \in A => g[S] = F[<<g[S \ {Max(S)}], s[Max(S)]>>]

(* Whoever folds by F where F is defined folds by F, within the type.      *)
LEMMA FoldSolves ==
  ASSUME NEW A, NEW E, NEW F \in [A \X E -> A], NEW base \in A, NEW n \in Nat, NEW s,
         \A i \in 1 .. n : s[i] \in E, NEW g, Solves(g, F, base, s, n, A)
  PROVE  FoldsBy(g, F, base, s, n) /\ \A S \in SUBSET (1 .. n) : g[S] \in A
<1> USE DEF Solves
<1> DEFINE T == {k \in Nat : \A S \in SUBSET (1 .. k) : g[S] \in A}
<1>1. 0 \in T
  <2>1. \A S \in SUBSET (1 .. 0) : S = {}
    OBVIOUS
  <2> QED
    BY <2>1
<1>2. ASSUME NEW k \in Nat, k < n, k \in T PROVE k + 1 \in T
  <2> SUFFICES ASSUME NEW S \in SUBSET (1 .. (k + 1)) PROVE g[S] \in A
    <3>1. k + 1 \in Nat
      OBVIOUS
    <3> QED
      BY <3>1, Zenon
  <2>0. CASE S = {}
    BY <2>0
  <2>1. CASE S # {}
    <3>1. S \in SUBSET (1 .. n)
      BY <1>2
    <3>2. Max(S) \in S /\ \A x \in S : x <= Max(S)
      BY <2>1, <3>1, MaxOfSome
    <3>3. S \ {Max(S)} \in SUBSET (1 .. k)
      <4>1. PICK m : m = Max(S)
        OBVIOUS
      <4>2. m \in 1 .. (k + 1) /\ \A x \in S : x \in 1 .. (k + 1) /\ x <= m
        BY <3>2, <4>1
      <4>3. \A x \in S : x # m => x \in 1 .. k
        BY <4>2
      <4> QED
        BY <4>1, <4>3
    <3>4. g[S \ {Max(S)}] \in A
      BY <1>2, <3>3
    <3>5. g[S] = F[<<g[S \ {Max(S)}], s[Max(S)]>>] /\ s[Max(S)] \in E
      BY <2>1, <3>1, <3>2, <3>4
    <3> QED
      BY <3>4, <3>5
  <2> QED
    BY <2>0, <2>1
<1>3. \A k \in Nat : k < n /\ k \in T => k + 1 \in T
  BY <1>2
<1>4. n \in T
  <2> HIDE DEF T
  <2>1. n <= n
    OBVIOUS
  <2> QED
    BY <1>1, <1>3, <2>1, BoundedInduction
<1>5. \A S \in SUBSET (1 .. n) : g[S] \in A
  BY <1>4
<1>6. \A S \in SUBSET (1 .. n) :
        /\ g[S] = IF S = {} THEN base ELSE F[<<g[S \ {Max(S)}], s[Max(S)]>>]
        /\ S \ {Max(S)} \in SUBSET (1 .. n)
  BY <1>5
<1>7. FoldsBy(g, F, base, s, n)
  BY <1>6 DEF FoldsBy
<1> QED
  BY <1>5, <1>7

(* Folds of sequences that begin alike agree so far.                       *)
Advances(g, F, s, k) == g[1 .. (k + 1)] = F[<<g[1 .. k], s[k + 1]>>]

(* A fold starts at its base and takes one element after another.          *)
LEMMA FoldsStep ==
  ASSUME NEW F, NEW base, NEW s, NEW n \in Nat, NEW g, FoldsBy(g, F, base, s, n)
  PROVE  /\ g[1 .. 0] = base
         /\ \A k \in Nat : k < n => Advances(g, F, s, k)
<1>1. \A S \in SUBSET (1 .. n) :
        g[S] = IF S = {} THEN base ELSE F[<<g[S \ {Max(S)}], s[Max(S)]>>]
  BY DEF FoldsBy
<1>2. g[1 .. 0] = base
  <2>1. 1 .. 0 = {} /\ {} \in SUBSET (1 .. n)
    OBVIOUS
  <2> QED
    BY <1>1, <2>1
<1>3. ASSUME NEW k \in Nat, k < n
      PROVE  Advances(g, F, s, k)
  <2> DEFINE S == 1 .. (k + 1)
  <2>1. /\ S \in SUBSET (1 .. n) /\ S \in SUBSET (1 .. (k + 1)) /\ S # {}
        /\ k + 1 \in Nat /\ k + 1 \in S /\ S \ {k + 1} = 1 .. k
    BY <1>3
  <2> HIDE DEF S
  <2>2. Max(S) = k + 1
    BY <2>1, MaxOfSome
  <2>3. g[S] = F[<<g[1 .. k], s[k + 1]>>]
    BY <1>1, <2>1, <2>2
  <2> QED
    BY <2>3 DEF S, Advances
<1> QED
  BY <1>2, <1>3

(* Sequences that agree on the first n places fold alike over them.        *)
LEMMA FoldsAlike ==
  ASSUME NEW F, NEW base, NEW m \in Nat, NEW n \in Nat, m <= n,
         NEW s, NEW g, FoldsBy(g, F, base, s, m), NEW t, NEW h, FoldsBy(h, F, base, t, n),
         \A i \in 1 .. m : s[i] = t[i]
  PROVE  g[1 .. m] = h[1 .. m]
<1>1. g[1 .. 0] = h[1 .. 0]
  BY FoldsStep
<1>2. \A k \in Nat : k < m => Advances(g, F, s, k)
  BY FoldsStep
<1>3. \A k \in Nat : k < n => Advances(h, F, t, k)
  BY FoldsStep
<1>4. ASSUME NEW k \in Nat, k < m, g[1 .. k] = h[1 .. k]
      PROVE  g[1 .. (k + 1)] = h[1 .. (k + 1)]
  <2>1. k < n /\ s[k + 1] = t[k + 1]
    BY <1>4
  <2> QED
    BY <1>2, <1>3, <1>4, <2>1 DEF Advances
<1> DEFINE T == {k \in Nat : g[1 .. k] = h[1 .. k]}
<1>5. 0 \in T /\ \A k \in Nat : k < m /\ k \in T => k + 1 \in T
  BY <1>1, <1>4
<1> HIDE DEF T
<1>6. m <= m
  OBVIOUS
<1>7. m \in T
  BY <1>5, <1>6, BoundedInduction
<1> QED
  BY <1>7 DEF T

(* Every solution gives the fold.                                          *)
LEMMA FoldIsSolved ==
  ASSUME NEW F, NEW base, NEW s, NEW n \in Nat, Len(s) = n,
         NEW g, FoldsBy(g, F, base, s, n)
  PROVE  FoldBy(F, base, s) = g[1 .. n]
<1> DEFINE h == CHOOSE f : FoldsBy(f, F, base, s, n)
<1>1. FoldsBy(h, F, base, s, n)
  OBVIOUS
<1>2. FoldBy(F, base, s) = h[1 .. n]
  BY DEF FoldBy
<1> HIDE DEF h
<1>3. g[1 .. n] = h[1 .. n]
  <2>1. n <= n /\ \A i \in 1 .. n : s[i] = s[i]
    OBVIOUS
  <2> QED
    BY <1>1, <2>1, FoldsAlike
<1> QED
  BY <1>2, <1>3

(* What a fold makes of no element and of one more.                        *)
LEMMA FoldEmpty ==
  ASSUME NEW F, NEW base, NEW s, Len(s) = 0
  PROVE  FoldBy(F, base, s) = base
<1>1. PICK g : FoldsBy(g, F, base, s, 0)
  BY FoldExists
<1>2. FoldBy(F, base, s) = g[1 .. 0]
  BY <1>1, FoldIsSolved
<1>3. 1 .. 0 = {} /\ {} \in SUBSET (1 .. 0)
  OBVIOUS
<1>4. g[{}] = base
  BY <1>1, <1>3 DEF FoldsBy
<1> QED
  BY <1>2, <1>3, <1>4

ExtendedBy(s, t, n, x) ==
  /\ n \in Nat /\ Len(s) = n /\ Len(t) = n + 1
  /\ \A i \in 1 .. n : t[i] = s[i]
  /\ t[n + 1] = x

(* The last element is folded in last.                                     *)
LEMMA FoldLast ==
  ASSUME NEW F, NEW base, NEW s, NEW t, NEW n, NEW x, ExtendedBy(s, t, n, x)
  PROVE  FoldBy(F, base, t) = F[<<FoldBy(F, base, s), x>>]
<1> USE DEF ExtendedBy
<1>1. PICK m \in Nat : m = n + 1 /\ n < m /\ n <= m
  OBVIOUS
<1>2. PICK g : FoldsBy(g, F, base, s, n)
  BY FoldExists
<1>3. PICK h : FoldsBy(h, F, base, t, m)
  BY FoldExists
<1>4. g[1 .. n] = h[1 .. n]
  <2>1. \A i \in 1 .. n : s[i] = t[i]
    OBVIOUS
  <2> QED
    BY <1>1, <1>2, <1>3, <2>1, FoldsAlike
<1>5. h[1 .. (n + 1)] = F[<<h[1 .. n], t[n + 1]>>]
  <2>1. \A k \in Nat : k < m => Advances(h, F, t, k)
    BY <1>3, FoldsStep
  <2> QED
    BY <1>1, <2>1 DEF Advances
<1>6. FoldBy(F, base, s) = g[1 .. n]
  BY <1>2, FoldIsSolved
<1>7. FoldBy(F, base, t) = h[1 .. m]
  BY <1>1, <1>3, FoldIsSolved
<1> QED
  BY <1>1, <1>4, <1>5, <1>6, <1>7

(* A fold by a function of its type has that type.                         *)
LEMMA FoldTyped ==
  ASSUME NEW A, NEW E, NEW F \in [A \X E -> A], NEW base \in A, NEW s \in Seq(E)
  PROVE  FoldBy(F, base, s) \in A
<1>1. PICK n \in Nat : n = Len(s)
  OBVIOUS
<1>2. \A i \in 1 .. n : s[i] \in E
  BY <1>1
<1>3. PICK g : FoldsBy(g, F, base, s, n)
  BY FoldExists
<1>4. g = [S \in SUBSET (1 .. n) |->
            IF S = {} THEN base ELSE F[<<g[S \ {Max(S)}], s[Max(S)]>>]]
  BY <1>3 DEF FoldsBy
<1>5. Solves(g, F, base, s, n, A)
  BY <1>4 DEF Solves
<1>6. \A S \in SUBSET (1 .. n) : g[S] \in A
  BY <1>2, <1>5, FoldSolves
<1>7. FoldBy(F, base, s) = g[1 .. n]
  BY <1>1, <1>3, FoldIsSolved
<1> QED
  BY <1>6, <1>7

-----------------------------------------------------------------------------
(* Sequences cut, joined and taken apart.                                  *)

(* A sequence with something appended has its own elements first.          *)
LEMMA Extended ==
  ASSUME NEW S, NEW s \in Seq(S), NEW t \in Seq(S)
  PROVE  /\ s \o t \in Seq(S) /\ Len(s \o t) = Len(s) + Len(t)
         /\ \A i \in 1 .. Len(s) : (s \o t)[i] = s[i]
BY ConcatProperties, LenProperties

(* A stream without what is taken from it.                                 *)
LEMMA RestOfStream ==
  ASSUME NEW S, NEW s \in Seq(S), NEW n \in Nat, n <= Len(s)
  PROVE  /\ SubSeq(s, n + 1, Len(s)) \in Seq(S)
         /\ Len(SubSeq(s, n + 1, Len(s))) = Len(s) - n
         /\ n = Len(s) <=> SubSeq(s, n + 1, Len(s)) = <<>>
         /\ n # Len(s) => /\ Head(SubSeq(s, n + 1, Len(s))) = s[n + 1]
                          /\ Tail(SubSeq(s, n + 1, Len(s))) = SubSeq(s, (n + 1) + 1, Len(s))
         /\ SubSeq(s, 1, Len(s)) = s
<1> DEFINE m == Len(s)
           t == SubSeq(s, n + 1, m)
<1>1. m \in Nat /\ n <= m
  BY LenProperties
<1>2. \A i \in n + 1 .. m : s[i] \in S
  <2> TAKE i \in n + 1 .. m
  <2>1. i \in 1 .. m
    BY <1>1
  <2> QED
    BY <2>1, ElementOfSeq
<1>3. t \in Seq(S) /\ Len(t) = m - n /\ \A i \in 1 .. m - n : t[i] = s[n + i]
  <2> HIDE DEF m
  <2>1. t = [i \in 1 .. m - n |-> s[n + i]]
    BY <1>1 DEF t
  <2>2. \A i \in 1 .. m - n : n + i \in n + 1 .. m
    BY <1>1
  <2> HIDE DEF t
  <2>3. t \in [1 .. m - n -> S]
    BY <1>2, <2>1, <2>2
  <2>4. m - n \in Nat
    BY <1>1
  <2> QED
    BY <2>1, <2>3, <2>4, FunctionIsSeq
<1> HIDE DEF t
<1>4. n = m <=> t = <<>>
  <2>1. m - n \in Nat /\ (n = m <=> m - n = 0)
    BY <1>1
  <2>2. Len(t) = 0 <=> t = <<>>
    BY <1>3, EmptySeq
  <2> QED
    BY <1>3, <2>1, <2>2
<1>5. ASSUME n # m
      PROVE  Head(t) = s[n + 1] /\ Tail(t) = SubSeq(s, (n + 1) + 1, m)
  <2>1. m - n \in Nat /\ m - n # 0 /\ 1 \in 1 .. m - n
    BY <1>1, <1>5
  <2>4. t # <<>>
    BY <1>4, <1>5
  <2>2. Head(t) = t[1]
    BY <1>3, <2>4, HeadTailProperties
  <2>3. Head(t) = s[n + 1]
    BY <1>3, <2>1, <2>2
  <2>5. /\ Tail(t) \in Seq(S) /\ Len(Tail(t)) = (m - n) - 1
        /\ \A i \in 1 .. Len(Tail(t)) : Tail(t)[i] = t[i + 1]
    BY <1>3, <2>4, HeadTailProperties
  <2> DEFINE u == SubSeq(s, (n + 1) + 1, m)
             d == (m - n) - 1
  <2>6. u \in Seq(S) /\ Len(u) = d /\ \A i \in 1 .. d : u[i] = s[(n + 1) + i]
    <3> HIDE DEF m
    <3>1. u = [i \in 1 .. m - (n + 1) |-> s[(n + 1) + i]]
      BY <1>1 DEF u
    <3>2. m - (n + 1) = d /\ d \in Nat
      BY <1>1, <2>1
    <3>3. \A i \in 1 .. d : (n + 1) + i \in n + 1 .. m
      BY <1>1, <2>1
    <3> HIDE DEF u, d
    <3>4. u \in [1 .. d -> S]
      BY <1>2, <3>1, <3>2, <3>3
    <3> QED
      BY <3>1, <3>2, <3>4, FunctionIsSeq
  <2>7. \A i \in 1 .. d : Tail(t)[i] = u[i]
    <3> TAKE i \in 1 .. d
    <3>1. d \in Nat /\ i \in Nat /\ i + 1 \in 1 .. m - n /\ n + (i + 1) = (n + 1) + i
      BY <1>1, <2>1
    <3>2. Tail(t)[i] = t[i + 1] /\ t[i + 1] = s[n + (i + 1)]
      BY <1>3, <2>5, <3>1
    <3> QED
      BY <2>6, <3>1, <3>2
  <2> HIDE DEF u, d
  <2>8. Tail(t) = u
    BY <2>5, <2>6, <2>7, SeqEqual DEF d
  <2> QED
    BY <2>3, <2>8 DEF u
<1>6. SubSeq(s, 1, m) = s
  BY SubSeqFull
<1> HIDE DEF m
<1> QED
  BY <1>1, <1>3, <1>4, <1>5, <1>6 DEF t, m

(* Two ways to write a sequence with an element at its end.                *)
LEMMA LongerByOne ==
  ASSUME NEW S, NEW s \in Seq(S), NEW t \in Seq(S), NEW e \in S, NEW d \in S
  PROVE  /\ s \o Append(t, e) = Append(s \o t, e) /\ s \o <<e>> = Append(s, e)
         /\ s \o <<e, d>> = Append(Append(s, e), d) /\ s \o <<>> = s
<1>1. Append(t, e) \in Seq(S) /\ s \o t \in Seq(S) /\ <<e>> \in Seq(S) /\ <<e, d>> \in Seq(S)
  BY AppendProperties, ConcatProperties
<1>2. /\ Len(s) \in Nat /\ Len(t) \in Nat /\ Len(Append(t, e)) = Len(t) + 1
      /\ Len(s \o t) = Len(s) + Len(t)
  BY AppendProperties, ConcatProperties, LenProperties
<1>3. s \o Append(t, e) = Append(s \o t, e)
  OBVIOUS
<1>4. s \o <<e>> = Append(s, e)
  OBVIOUS
<1>5. s \o <<e, d>> = Append(Append(s, e), d)
  OBVIOUS
<1>6. s \o <<>> = s
  BY ConcatEmptySeq
<1> QED
  BY <1>3, <1>4, <1>5, <1>6

(* What is read, without the sequence under way.                           *)
LEMMA FrontIs ==
  ASSUME NEW S, NEW s \in Seq(S), NEW e \in S
  PROVE  /\ Front(Append(s, e)) = s /\ Last(Append(s, e)) = e
         /\ Len(s) # 0 => /\ Front(s) \in Seq(S) /\ Len(Front(s)) + 1 = Len(s)
                          /\ Last(s) \in S /\ s = Append(Front(s), Last(s))
<1> DEFINE n == Len(s)
           t == Append(s, e)
<1>1. /\ n \in Nat /\ s = [i \in 1 .. n |-> s[i]] /\ \A i \in 1 .. n : s[i] \in S
  BY LenProperties
<1>2. Len(t) = n + 1 /\ t[n + 1] = e /\ \A i \in 1 .. n : t[i] = s[i]
  BY AppendProperties, LenProperties
<1>3. Last(t) = e
  BY <1>2 DEF Last
<1>4. Front(t) = s
  <2> HIDE DEF t, n
  <2>1. Len(t) - 1 = n
    BY <1>1, <1>2
  <2>2. SubSeq(t, 1, n) = [i \in 1 .. n |-> t[i]]
    BY <1>1
  <2>3. [i \in 1 .. n |-> t[i]] = [i \in 1 .. n |-> s[i]]
    BY <1>2
  <2> QED
    BY <1>1, <2>1, <2>2, <2>3 DEF Front
<1>5. ASSUME n # 0
      PROVE  /\ Front(s) \in Seq(S) /\ Len(Front(s)) + 1 = n
             /\ Last(s) \in S /\ s = Append(Front(s), Last(s))
  <2> DEFINE f == Front(s)
             l == Last(s)
             m == n - 1
  <2>1. m \in Nat /\ n = m + 1 /\ n \in 1 .. n
    BY <1>1, <1>5
  <2>2. f = [i \in 1 .. m |-> s[i]]
    <3>1. SubSeq(s, 1, m) = [i \in 1 .. m |-> s[i]]
      BY <2>1
    <3> QED
      BY <3>1 DEF Front
  <2>3. l = s[n] /\ l \in S
    BY <1>1, <2>1 DEF Last
  <2> HIDE DEF f, l, n
  <2>4. f \in [1 .. m -> S]
    BY <1>1, <2>1, <2>2
  <2> HIDE DEF m
  <2>5. f \in Seq(S) /\ Len(f) = m
    BY <2>1, <2>2, <2>4
  <2>6. /\ Append(f, l) \in Seq(S) /\ Len(Append(f, l)) = m + 1 /\ Append(f, l)[m + 1] = l
        /\ \A i \in 1 .. m : Append(f, l)[i] = s[i]
    <3>1. /\ Append(f, l) \in Seq(S) /\ Len(Append(f, l)) = Len(f) + 1
          /\ Append(f, l)[Len(f) + 1] = l /\ \A i \in 1 .. Len(f) : Append(f, l)[i] = f[i]
      BY <2>3, <2>5, AppendProperties
    <3>2. \A i \in 1 .. m : f[i] = s[i]
      BY <2>2
    <3> QED
      BY <2>5, <3>1, <3>2
  <2>7. ASSUME NEW i \in 1 .. n PROVE s[i] = Append(f, l)[i]
    <3>1. i = m + 1 \/ i \in 1 .. m
      BY <2>1
    <3> QED
      BY <2>1, <2>3, <2>6, <3>1
  <2>8. s = Append(f, l)
    BY <2>1, <2>6, <2>7, SeqEqual DEF n
  <2> QED
    BY <2>1, <2>3, <2>5, <2>8 DEF f, l
<1> HIDE DEF t
<1> QED
  BY <1>3, <1>4, <1>5 DEF n, t

-----------------------------------------------------------------------------
(* Arithmetic.                                                             *)

(* A remainder is smaller than the divisor.                                *)
LEMMA ModRange ==
  ASSUME NEW a \in Nat, NEW d \in Nat \ {0}
  PROVE  a % d \in 0 .. d - 1
OBVIOUS

(* Products distribute over sums.                                          *)
LEMMA Products ==
  ASSUME NEW a \in Nat, NEW n \in Nat, NEW m \in Nat
  PROVE  a * n \in Nat /\ a * (n + m) = a * n + a * m /\ a * (n + 1) = a * n + a
OBVIOUS

(* A larger factor gives no smaller product.                               *)
LEMMA ProductsOrdered ==
  ASSUME NEW a \in Nat, NEW n \in Nat, NEW m \in Nat, n <= m
  PROVE  a * n <= a * m
OBVIOUS

(* What a quotient is.                                                     *)
LEMMA Quotient ==
  ASSUME NEW a \in Nat, NEW b \in Nat \ {0}
  PROVE  a \div b \in Nat /\ b * (a \div b) <= a /\ a < b * (a \div b) + b
OBVIOUS

(* A remainder is what a quotient leaves.                                  *)
LEMMA Remainder ==
  ASSUME NEW a \in Nat, NEW d \in Nat \ {0}
  PROVE  a % d = a - d * (a \div d)
OBVIOUS

(* A quotient is the only number that leaves less than the divisor.        *)
LEMMA QuotientIs ==
  ASSUME NEW a \in Nat, NEW d \in Nat \ {0}, NEW q \in Nat, NEW r \in 0 .. d - 1, a = d * q + r
  PROVE  a \div d = q /\ a % d = r
<1> DEFINE p == a \div d
<1>1. /\ p \in Nat /\ d * p <= a /\ a < d * p + d
      /\ a % d = a - d * p
  BY Quotient, Remainder
<1> HIDE DEF p
<1>2. d * p \in Nat /\ d * q \in Nat /\ d * (p + 1) = d * p + d /\ d * (q + 1) = d * q + d
  BY <1>1, Products
<1>3. ~ (p < q)
  <2>1. ASSUME p < q PROVE FALSE
    <3>1. p + 1 <= q /\ p + 1 \in Nat
      BY <1>1, <2>1
    <3>2. d * (p + 1) <= d * q
      BY <3>1, ProductsOrdered
    <3> QED
      BY <1>1, <1>2, <3>2
  <2> QED
    BY <2>1
<1>4. ~ (q < p)
  <2>1. ASSUME q < p PROVE FALSE
    <3>1. q + 1 <= p /\ q + 1 \in Nat
      BY <1>1, <2>1
    <3>2. d * (q + 1) <= d * p
      BY <1>1, <3>1, ProductsOrdered
    <3> QED
      BY <1>1, <1>2, <3>2
  <2> QED
    BY <2>1
<1>5. p = q
  BY <1>1, <1>3, <1>4
<1>6. a % d = r
  BY <1>1, <1>2, <1>5
<1> QED
  BY <1>5, <1>6 DEF p

(* A remainder repeats after the divisor.                                  *)
LEMMA RemainderRepeats ==
  ASSUME NEW a \in Nat, NEW d \in Nat \ {0}
  PROVE  (a + d) % d = a % d /\ (a < d => a % d = a)
<1> DEFINE q == a \div d
           x == a % d
<1>1. q \in Nat /\ d * q \in Nat /\ d * q <= a /\ a < d * q + d /\ x = a - d * q
  BY Quotient, Remainder, Products
<1> HIDE DEF q, x
<1>2. x \in 0 .. d - 1 /\ d * (q + 1) = d * q + d /\ q + 1 \in Nat
  BY <1>1, Products
<1>3. a + d = d * (q + 1) + x
  BY <1>1, <1>2
<1>4. (a + d) % d = x
  <2>1. a + d \in Nat
    OBVIOUS
  <2> QED
    BY <1>2, <1>3, <2>1, QuotientIs
<1>5. ASSUME a < d PROVE a % d = a
  <2>1. d * 0 = 0 /\ a \in 0 .. d - 1
    BY <1>5
  <2>2. a = d * 0 + a
    BY <2>1
  <2> QED
    BY <2>1, <2>2, QuotientIs
<1> QED
  BY <1>4, <1>5 DEF x

(* How many of the first n strings output o of c gets.                     *)
Share(c, o, n) == (n + c - o) \div c

(* Dealing one more string gives one more to the output whose turn it is,  *)
(* and to no other; c rounds give every output as many.                    *)
LEMMA Shares ==
  ASSUME NEW c \in Nat \ {0}, NEW o \in 1 .. c
  PROVE  /\ Share(c, o, 0) = 0
         /\ \A n \in Nat :
              /\ Share(c, o, n) \in Nat
              /\ n % c = o - 1 => /\ Share(c, o, n + 1) = Share(c, o, n) + 1
                                  /\ Share(c, o, n) * c + o = n + 1
              /\ n % c # o - 1 => Share(c, o, n + 1) = Share(c, o, n)
         /\ \A k \in Nat : Share(c, o, c * k) = k
<1>1. Share(c, o, 0) = 0
  <2> DEFINE a == 0 + c - o
  <2>1. a \in Nat /\ a \in 0 .. c - 1 /\ c * 0 = 0 /\ a = 0 + a
    OBVIOUS
  <2> HIDE DEF a
  <2>2. a = c * 0 + a
    BY <2>1
  <2>3. a \div c = 0
    BY <2>1, <2>2, QuotientIs
  <2> QED
    BY <2>3 DEF Share, a
<1>2. ASSUME NEW n \in Nat
      PROVE  /\ Share(c, o, n) \in Nat
             /\ n % c = o - 1 => /\ Share(c, o, n + 1) = Share(c, o, n) + 1
                                 /\ Share(c, o, n) * c + o = n + 1
             /\ n % c # o - 1 => Share(c, o, n + 1) = Share(c, o, n)
  <2> DEFINE q == n \div c
             r == n % c
  <2>1. q \in Nat /\ r \in 0 .. c - 1 /\ r = n - c * q
    BY Quotient, ModRange, Remainder
  <2> HIDE DEF q, r
  <2>2. /\ c * q \in Nat /\ c * (q + 1) = c * q + c /\ q * c = c * q /\ n = c * q + r
        /\ (q + 1) * c = c * q + c
    <3>1. c * q \in Nat /\ c * (q + 1) = c * q + c
      BY <2>1, Products
    <3>2. q * c = c * q /\ (q + 1) * c = c * (q + 1)
      BY <2>1
    <3> QED
      BY <2>1, <3>1, <3>2
  <2> DEFINE a == n + c - o
             b == (n + 1) + c - o
  <2>3. a \in Nat /\ b \in Nat
    OBVIOUS
  <2>4. CASE r < o - 1
    <3>1. a = c * q + ((r + c) - o) /\ (r + c) - o \in 0 .. c - 1
      BY <2>1, <2>2, <2>4
    <3>2. b = c * q + ((r + 1 + c) - o) /\ (r + 1 + c) - o \in 0 .. c - 1
      BY <2>1, <2>2, <2>4
    <3> HIDE DEF a, b
    <3>3. a \div c = q /\ b \div c = q
      BY <2>1, <2>3, <3>1, <3>2, QuotientIs
    <3> QED
      BY <2>1, <2>4, <3>3 DEF Share, a, b, r
  <2>5. CASE r = o - 1
    <3>1. a = c * q + (c - 1) /\ c - 1 \in 0 .. c - 1
      BY <2>1, <2>2, <2>5
    <3>2. b = c * (q + 1) + 0 /\ 0 \in 0 .. c - 1 /\ q + 1 \in Nat
      BY <2>1, <2>2, <2>5
    <3> HIDE DEF a, b
    <3>3. a \div c = q /\ b \div c = q + 1
      BY <2>1, <2>3, <3>1, <3>2, QuotientIs
    <3>4. Share(c, o, n) = q /\ Share(c, o, n + 1) = q + 1
      BY <3>3 DEF Share, a, b
    <3>5. q * c + o = n + 1
      BY <2>1, <2>2, <2>5
    <3> QED
      BY <2>1, <2>5, <3>4, <3>5 DEF r
  <2>6. CASE r > o - 1
    <3>1. a = c * (q + 1) + (r - o) /\ r - o \in 0 .. c - 1 /\ q + 1 \in Nat
      BY <2>1, <2>2, <2>6
    <3>2. b = c * (q + 1) + ((r + 1) - o) /\ (r + 1) - o \in 0 .. c - 1
      BY <2>1, <2>2, <2>6
    <3> HIDE DEF a, b
    <3>3. a \div c = q + 1 /\ b \div c = q + 1
      BY <2>1, <2>3, <3>1, <3>2, QuotientIs
    <3> QED
      BY <2>1, <2>6, <3>1, <3>3 DEF Share, a, b, r
  <2>7. r < o - 1 \/ r = o - 1 \/ r > o - 1
    BY <2>1
  <2> QED
    BY <2>4, <2>5, <2>6, <2>7
<1>3. ASSUME NEW k \in Nat PROVE Share(c, o, c * k) = k
  <2> DEFINE a == c * k + c - o
  <2>1. c * k \in Nat
    BY Products
  <2>2. a \in Nat /\ a = c * k + (c - o) /\ c - o \in 0 .. c - 1
    BY <2>1
  <2> HIDE DEF a
  <2>3. a \div c = k
    BY <2>2, QuotientIs
  <2> QED
    BY <2>3 DEF Share, a
<1> QED
  BY <1>1, <1>2, <1>3

-----------------------------------------------------------------------------
(* Sums over sets of places.                                               *)

(* Induction over the subsets of a finite set, one element at a time.      *)
LEMMA SubsetInduction ==
  ASSUME NEW S, IsFiniteSet(S), NEW P, {} \in P,
         \A T \in SUBSET S : \A x \in S \ T : T \in P => T \cup {x} \in P
  PROVE  \A T \in SUBSET S : T \in P
<1> DEFINE Q == {k \in Nat : \A T \in SUBSET S : Cardinality(T) = k => T \in P}
<1>1. ASSUME NEW T \in SUBSET S PROVE IsFiniteSet(T) /\ Cardinality(T) \in Nat
  BY FS_Subset, FS_CardinalityType
<1>2. 0 \in Q
  <2>1. ASSUME NEW T \in SUBSET S, Cardinality(T) = 0 PROVE T \in P
    BY <1>1, <2>1, FS_EmptySet
  <2> QED
    BY <2>1
<1>3. ASSUME NEW k \in Nat, k \in Q PROVE k + 1 \in Q
  <2>1. ASSUME NEW T \in SUBSET S, Cardinality(T) = k + 1 PROVE T \in P
    <3>1. T # {}
      BY <1>1, <2>1, FS_EmptySet
    <3>2. PICK x \in T : TRUE
      BY <3>1
    <3> DEFINE U == T \ {x}
    <3>3. U \in SUBSET S /\ x \in S \ U /\ U \cup {x} = T
      BY <3>2
    <3>4. Cardinality(U) = Cardinality(T) - 1
      BY <1>1, <3>2, FS_RemoveElement
    <3>5. Cardinality(U) = k
      BY <2>1, <3>4
    <3>6. U \in P
      BY <1>3, <3>3, <3>5
    <3> HIDE DEF U
    <3> QED
      BY <3>3, <3>6
  <2> QED
    BY <2>1
<1> HIDE DEF Q
<1>4. Nat \subseteq Q
  BY <1>2, <1>3, SetInduction
<1> QED
  BY <1>1, <1>4 DEF Q

(* The recursive function in a sum over a set.                             *)
Pick(T) == CHOOSE x \in T : TRUE
SolvesSum(g, f, S) ==
  g = [T \in SUBSET S |-> IF T = {} THEN 0 ELSE f[Pick(T)] + g[T \ {Pick(T)}]]

(* There is one.                                                           *)
LEMMA SolutionExists ==
  ASSUME NEW f, NEW S, IsFiniteSet(S)
  PROVE  \E g : SolvesSum(g, f, S)
<1> DEFINE StepOf(g, T) == IF T = {} THEN 0 ELSE f[Pick(T)] + g[T \ {Pick(T)}]
           Q == {k \in Nat : \E g : \A T \in SUBSET S :
                   Cardinality(T) <= k => g[T] = StepOf(g, T)}
<1>1. ASSUME NEW T \in SUBSET S
      PROVE  IsFiniteSet(T) /\ Cardinality(T) \in Nat /\ (Cardinality(T) = 0 <=> T = {})
  BY FS_Subset, FS_CardinalityType, FS_EmptySet
<1>2. ASSUME NEW T \in SUBSET S, T # {}
      PROVE  /\ Pick(T) \in T /\ T \ {Pick(T)} \in SUBSET S
             /\ Cardinality(T \ {Pick(T)}) = Cardinality(T) - 1
  <2>1. Pick(T) \in T
    BY <1>2 DEF Pick
  <2> QED
    BY <1>1, <2>1, FS_RemoveElement
<1>3. 0 \in Q
  <2> DEFINE g == [T \in SUBSET S |-> 0]
  <2>1. ASSUME NEW T \in SUBSET S, Cardinality(T) <= 0 PROVE g[T] = StepOf(g, T)
    <3>1. T = {}
      BY <1>1, <2>1
    <3> QED
      BY <3>1
  <2> HIDE DEF g, StepOf
  <2> QED
    BY <2>1
<1>4. ASSUME NEW k \in Nat, k \in Q PROVE k + 1 \in Q
  <2>1. PICK g : \A T \in SUBSET S : Cardinality(T) <= k => g[T] = StepOf(g, T)
    BY <1>4
  <2> DEFINE h == [T \in SUBSET S |-> StepOf(g, T)]
  <2>2. ASSUME NEW T \in SUBSET S, Cardinality(T) <= k + 1 PROVE h[T] = StepOf(h, T)
    <3>1. CASE T = {}
      BY <3>1
    <3>2. CASE T # {}
      <4> DEFINE U == T \ {Pick(T)}
      <4>1. U \in SUBSET S /\ Cardinality(U) = Cardinality(T) - 1
        BY <1>2, <3>2
      <4>2. Cardinality(U) <= k
        BY <1>1, <2>2, <4>1
      <4>3. g[U] = StepOf(g, U)
        <5> HIDE DEF U, StepOf
        <5> QED
          BY <2>1, <4>1, <4>2
      <4>4. h[U] = StepOf(g, U)
        <5> HIDE DEF U, StepOf
        <5> QED
          BY <4>1
      <4>5. g[U] = h[U]
        BY <4>3, <4>4
      <4>6. h[T] = f[Pick(T)] + g[U]
        BY <3>2
      <4>7. StepOf(h, T) = f[Pick(T)] + h[U]
        BY <3>2
      <4> HIDE DEF U, StepOf, h
      <4> QED
        BY <4>5, <4>6, <4>7
    <3> QED
      BY <3>1, <3>2
  <2> HIDE DEF h, StepOf
  <2>3. \E u : \A T \in SUBSET S : Cardinality(T) <= k + 1 => u[T] = StepOf(u, T)
    BY <2>2
  <2> QED
    BY <2>3
<1>5. PICK g : \A T \in SUBSET S : Cardinality(T) <= Cardinality(S) => g[T] = StepOf(g, T)
  <2> HIDE DEF Q
  <2>1. Nat \subseteq Q
    BY <1>3, <1>4, SetInduction
  <2>2. Cardinality(S) \in Q
    BY <2>1, FS_CardinalityType
  <2> USE DEF Q
  <2> HIDE DEF StepOf
  <2> QED
    BY <2>2
<1> DEFINE h == [T \in SUBSET S |-> g[T]]
<1>6. ASSUME NEW T \in SUBSET S PROVE h[T] = StepOf(h, T)
  <2>1. Cardinality(T) <= Cardinality(S)
    BY FS_Subset
  <2>2. h[T] = StepOf(g, T)
    <3> HIDE DEF StepOf
    <3> QED
      BY <1>5, <2>1
  <2>3. T # {} => T \ {Pick(T)} \in SUBSET S
    BY <1>2
  <2> QED
    BY <2>2, <2>3
<1>7. h = [T \in SUBSET S |-> h[T]]
  OBVIOUS
<1> HIDE DEF h
<1>8. h = [T \in SUBSET S |-> StepOf(h, T)]
  <2> HIDE DEF StepOf
  <2> QED
    BY <1>6, <1>7
<1>9. SolvesSum(h, f, S)
  BY <1>8 DEF SolvesSum
<1> QED
  BY <1>9

(* A sum is the last value of one.                                         *)
LEMMA SumIsSolved ==
  ASSUME NEW f, NEW S, IsFiniteSet(S)
  PROVE  \E g : SolvesSum(g, f, S) /\ SumFunctionOnSet(f, S) = g[S]
<1> DEFINE g == CHOOSE h : SolvesSum(h, f, S)
<1>1. SolvesSum(g, f, S)
  BY SolutionExists
<1>2. SumFunctionOnSet(f, S) =
        (CHOOSE h : h = [T \in SUBSET S |->
           IF T = {} THEN 0 ELSE f[Pick(T)] + h[T \ {Pick(T)}]])[S]
  BY DEF SumFunctionOnSet, FoldFunctionOnSet, MapThenFoldSet, Pick
<1>3. SumFunctionOnSet(f, S) = g[S]
  BY <1>2 DEF SolvesSum
<1> QED
  BY <1>1, <1>3

(* It gives the sums over all the subsets.                                 *)
LEMMA SolutionGivesSums ==
  ASSUME NEW f, NEW S, IsFiniteSet(S), NEW g, SolvesSum(g, f, S), NEW T \in SUBSET S
  PROVE  SumFunctionOnSet(f, T) = g[T]
<1>1. IsFiniteSet(T)
  BY FS_Subset
<1>2. PICK h : SolvesSum(h, f, T) /\ SumFunctionOnSet(f, T) = h[T]
  BY <1>1, SumIsSolved
<1> DEFINE Q == {k \in Nat : \A U \in SUBSET T : Cardinality(U) = k => g[U] = h[U]}
<1>3. ASSUME NEW U \in SUBSET T PROVE IsFiniteSet(U) /\ Cardinality(U) \in Nat
  BY <1>1, FS_Subset, FS_CardinalityType
<1>4. ASSUME NEW U \in SUBSET T
      PROVE  /\ g[U] = IF U = {} THEN 0 ELSE f[Pick(U)] + g[U \ {Pick(U)}]
             /\ h[U] = IF U = {} THEN 0 ELSE f[Pick(U)] + h[U \ {Pick(U)}]
  <2>1. U \in SUBSET S
    OBVIOUS
  <2> QED
    BY <1>2, <2>1 DEF SolvesSum
<1>5. 0 \in Q
  <2>1. ASSUME NEW U \in SUBSET T, Cardinality(U) = 0 PROVE g[U] = h[U]
    <3>1. U = {}
      BY <1>3, <2>1, FS_EmptySet
    <3> QED
      BY <1>4, <3>1
  <2> QED
    BY <2>1
<1>6. ASSUME NEW k \in Nat, k \in Q PROVE k + 1 \in Q
  <2>1. ASSUME NEW U \in SUBSET T, Cardinality(U) = k + 1 PROVE g[U] = h[U]
    <3>1. U # {}
      BY <2>1, FS_EmptySet
    <3>2. Pick(U) \in U
      BY <3>1 DEF Pick
    <3>3. U \ {Pick(U)} \in SUBSET T /\ Cardinality(U \ {Pick(U)}) = k
      BY <1>3, <2>1, <3>2, FS_RemoveElement
    <3>4. g[U \ {Pick(U)}] = h[U \ {Pick(U)}]
      BY <1>6, <3>3
    <3> QED
      BY <1>4, <3>1, <3>4
  <2> QED
    BY <2>1
<1> HIDE DEF Q
<1>7. Nat \subseteq Q
  BY <1>5, <1>6, SetInduction
<1>8. Cardinality(T) \in Q
  BY <1>3, <1>7
<1> QED
  BY <1>2, <1>8 DEF Q

(* Natural numbers add up to one, whatever is left out.                    *)
LEMMA SolutionNat ==
  ASSUME NEW f, NEW S, IsFiniteSet(S), NEW g, SolvesSum(g, f, S), \A y \in S : f[y] \in Nat
  PROVE  \A T \in SUBSET S : g[T] \in Nat
<1> DEFINE Q == {k \in Nat : \A T \in SUBSET S : Cardinality(T) = k => g[T] \in Nat}
<1>1. ASSUME NEW T \in SUBSET S PROVE IsFiniteSet(T) /\ Cardinality(T) \in Nat
  BY FS_Subset, FS_CardinalityType
<1>2. ASSUME NEW T \in SUBSET S
      PROVE  g[T] = IF T = {} THEN 0 ELSE f[Pick(T)] + g[T \ {Pick(T)}]
  BY DEF SolvesSum
<1>3. 0 \in Q
  <2>1. ASSUME NEW T \in SUBSET S, Cardinality(T) = 0 PROVE g[T] \in Nat
    <3>1. T = {}
      BY <1>1, <2>1, FS_EmptySet
    <3> QED
      <4>1. g[{}] = 0
        BY <1>2
      <4> QED
        BY <3>1, <4>1
  <2> QED
    BY <2>1
<1>4. ASSUME NEW k \in Nat, k \in Q PROVE k + 1 \in Q
  <2>1. ASSUME NEW T \in SUBSET S, Cardinality(T) = k + 1 PROVE g[T] \in Nat
    <3>1. T # {}
      BY <1>1, <2>1, FS_EmptySet
    <3>2. Pick(T) \in T
      BY <3>1 DEF Pick
    <3>3. T \ {Pick(T)} \in SUBSET S /\ Cardinality(T \ {Pick(T)}) = k
      <4>1. Cardinality(T \ {Pick(T)}) = Cardinality(T) - 1
        BY <1>1, <3>2, FS_RemoveElement
      <4> QED
        BY <2>1, <4>1
    <3>4. g[T \ {Pick(T)}] \in Nat /\ f[Pick(T)] \in Nat
      BY <1>4, <3>2, <3>3
    <3> QED
      <4>1. g[T] = f[Pick(T)] + g[T \ {Pick(T)}]
        BY <1>2, <3>1
      <4> QED
        BY <3>4, <4>1
  <2> QED
    BY <2>1
<1> HIDE DEF Q
<1>5. Nat \subseteq Q
  BY <1>3, <1>4, SetInduction
<1>6. ASSUME NEW T \in SUBSET S PROVE g[T] \in Nat
  <2>1. Cardinality(T) \in Q
    BY <1>1, <1>5
  <2> QED
    BY <2>1 DEF Q
<1> QED
  BY <1>6

(* Whichever element a set is without, its sum is without that one.        *)
LEMMA SolutionAdds ==
  ASSUME NEW f, NEW S, IsFiniteSet(S), NEW g, SolvesSum(g, f, S), \A y \in S : f[y] \in Nat
  PROVE  \A T \in SUBSET S : \A x \in T : g[T] = g[T \ {x}] + f[x]
<1> DEFINE Adds(T) == \A x \in T : g[T] = g[T \ {x}] + f[x]
           Q == {k \in Nat : \A T \in SUBSET S : Cardinality(T) = k => Adds(T)}
<1>1. ASSUME NEW T \in SUBSET S PROVE IsFiniteSet(T) /\ Cardinality(T) \in Nat /\ g[T] \in Nat
  BY FS_Subset, FS_CardinalityType, SolutionNat
<1>2. ASSUME NEW T \in SUBSET S
      PROVE  g[T] = IF T = {} THEN 0 ELSE f[Pick(T)] + g[T \ {Pick(T)}]
  BY DEF SolvesSum
<1>3. 0 \in Q
  <2>1. ASSUME NEW T \in SUBSET S, Cardinality(T) = 0 PROVE Adds(T)
    <3>1. T = {}
      BY <1>1, <2>1, FS_EmptySet
    <3> QED
      BY <3>1
  <2> HIDE DEF Adds
  <2> QED
    BY <2>1
<1>4. ASSUME NEW k \in Nat, k \in Q PROVE k + 1 \in Q
  <2>1. \A T \in SUBSET S : Cardinality(T) = k => Adds(T)
    <3> HIDE DEF Adds
    <3> QED
      BY <1>4
  <2>2. ASSUME NEW T \in SUBSET S, Cardinality(T) = k + 1, NEW x \in T
        PROVE  g[T] = g[T \ {x}] + f[x]
    <3> DEFINE p == Pick(T)
               u == g[(T \ {p}) \ {x}]
    <3>1. p \in T
      BY DEF Pick
    <3>2. g[T] = f[p] + g[T \ {p}]
      BY <1>2
    <3> HIDE DEF p
    <3>3. ASSUME NEW y \in T PROVE T \ {y} \in SUBSET S /\ Cardinality(T \ {y}) = k
      <4>1. Cardinality(T \ {y}) = Cardinality(T) - 1
        BY <1>1, FS_RemoveElement
      <4> QED
        BY <2>2, <4>1
    <3>4. ASSUME NEW y \in T PROVE Adds(T \ {y})
      <4> HIDE DEF Adds
      <4> QED
        BY <2>1, <3>3
    <3>5. f[x] \in Nat /\ f[p] \in Nat /\ g[T \ {p}] \in Nat
      BY <1>1, <3>1
    <3>6. CASE x = p
      BY <3>2, <3>5, <3>6
    <3>7. CASE x # p
      <4>1. g[T \ {p}] = u + f[x]
        <5>1. x \in T \ {p}
          BY <3>7
        <5> QED
          BY <3>1, <3>4, <5>1
      <4>2. g[T \ {x}] = u + f[p]
        <5>1. p \in T \ {x} /\ (T \ {x}) \ {p} = (T \ {p}) \ {x}
          BY <3>1, <3>7
        <5>2. g[T \ {x}] = g[(T \ {x}) \ {p}] + f[p]
          BY <3>4, <5>1
        <5> QED
          BY <5>1, <5>2
      <4>3. u \in Nat
        <5>1. (T \ {p}) \ {x} \in SUBSET S
          OBVIOUS
        <5> QED
          BY <1>1, <5>1
      <4> HIDE DEF u
      <4> QED
        BY <3>2, <3>5, <4>1, <4>2, <4>3
    <3> QED
      BY <3>6, <3>7
  <2>3. ASSUME NEW T \in SUBSET S, Cardinality(T) = k + 1 PROVE Adds(T)
    BY <2>2, <2>3
  <2> HIDE DEF Adds
  <2> QED
    BY <2>3
<1> HIDE DEF Q
<1>5. Nat \subseteq Q
  BY <1>3, <1>4, SetInduction
<1>6. ASSUME NEW T \in SUBSET S PROVE Adds(T)
  <2>1. Cardinality(T) \in Q
    BY <1>1, <1>5
  <2> HIDE DEF Adds
  <2> QED
    BY <2>1 DEF Q
<1> QED
  BY <1>6

-----------------------------------------------------------------------------
(* What follows about sums of natural numbers.                             *)
SumOn(f, S) == SumFunctionOnSet(f, S)

(* An empty sum.                                                           *)
LEMMA SumOfNone == ASSUME NEW f PROVE SumOn(f, {}) = 0
<1>1. PICK g : SolvesSum(g, f, {}) /\ SumOn(f, {}) = g[{}]
  BY FS_EmptySet, SumIsSolved DEF SumOn
<1> QED
  BY <1>1 DEF SolvesSum

(* A sum is a number, and an element more than without it.                 *)
LEMMA SumOfMore ==
  ASSUME NEW f, NEW S, IsFiniteSet(S), \A y \in S : f[y] \in Nat
  PROVE  /\ SumOn(f, S) \in Nat
         /\ \A x \in S : SumOn(f, S) = SumOn(f, S \ {x}) + f[x]
<1>1. PICK g : SolvesSum(g, f, S) /\ SumOn(f, S) = g[S]
  BY SumIsSolved DEF SumOn
<1>2. \A T \in SUBSET S : SumOn(f, T) = g[T]
  BY <1>1, SolutionGivesSums DEF SumOn
<1>3. g[S] \in Nat
  BY <1>1, SolutionNat
<1>4. \A x \in S : g[S] = g[S \ {x}] + f[x]
  BY <1>1, SolutionAdds
<1> QED
  BY <1>1, <1>2, <1>3, <1>4

(* One element more.                                                       *)
LEMMA SumOfOneMore ==
  ASSUME NEW f, NEW S, IsFiniteSet(S), NEW x, x \notin S, \A y \in S \cup {x} : f[y] \in Nat
  PROVE  SumOn(f, S \cup {x}) = SumOn(f, S) + f[x]
<1>1. IsFiniteSet(S \cup {x})
  BY FS_AddElement
<1>2. (S \cup {x}) \ {x} = S /\ x \in S \cup {x}
  OBVIOUS
<1>3. SumOn(f, S \cup {x}) = SumOn(f, (S \cup {x}) \ {x}) + f[x]
  BY <1>1, <1>2, SumOfMore
<1> QED
  BY <1>2, <1>3

(* A part of a set adds up to no more.                                     *)
LEMMA SumOfPart ==
  ASSUME NEW f, NEW S, IsFiniteSet(S), \A y \in S : f[y] \in Nat, NEW T \in SUBSET S
  PROVE  SumOn(f, T) <= SumOn(f, S)
<1> DEFINE P == {U \in SUBSET (S \ T) : SumOn(f, T) <= SumOn(f, T \cup U)}
<1>1. ASSUME NEW U \in SUBSET S PROVE IsFiniteSet(U) /\ SumOn(f, U) \in Nat
  BY FS_Subset, SumOfMore
<1>2. {} \in P
  <2>1. T \cup {} = T
    OBVIOUS
  <2> QED
    BY <1>1, <2>1
<1>3. ASSUME NEW U \in SUBSET (S \ T), NEW x \in (S \ T) \ U, U \in P PROVE U \cup {x} \in P
  <2>1. T \cup (U \cup {x}) = (T \cup U) \cup {x} /\ T \cup U \in SUBSET S /\ x \notin T \cup U
    OBVIOUS
  <2>2. SumOn(f, (T \cup U) \cup {x}) = SumOn(f, T \cup U) + f[x]
    <3>1. \A y \in (T \cup U) \cup {x} : f[y] \in Nat
      BY <2>1
    <3> QED
      BY <1>1, <2>1, <3>1, SumOfOneMore
  <2>3. f[x] \in Nat /\ SumOn(f, T \cup U) \in Nat /\ SumOn(f, T) \in Nat
    BY <1>1, <2>1
  <2>4. SumOn(f, T) <= SumOn(f, T \cup U)
    BY <1>3
  <2> QED
    <3>1. U \cup {x} \in SUBSET (S \ T)
      OBVIOUS
    <3>2. SumOn(f, T \cup (U \cup {x})) = SumOn(f, T \cup U) + f[x]
      BY <2>1, <2>2
    <3>3. SumOn(f, T) <= SumOn(f, T \cup (U \cup {x}))
      BY <2>3, <2>4, <3>2
    <3> QED
      BY <3>1, <3>3
<1> HIDE DEF P
<1>4. IsFiniteSet(S \ T)
  BY <1>1
<1>5. \A U \in SUBSET (S \ T) : U \in P
  BY <1>2, <1>3, <1>4, SubsetInduction
<1>6. S \ T \in P /\ T \cup (S \ T) = S
  BY <1>5
<1> QED
  BY <1>6 DEF P

(* Larger numbers add up to no less, and equal ones to the same.           *)
LEMMA SumsOrdered ==
  ASSUME NEW f, NEW h, NEW S, IsFiniteSet(S), \A y \in S : f[y] \in Nat /\ h[y] \in Nat,
         \A y \in S : f[y] <= h[y]
  PROVE  SumOn(f, S) <= SumOn(h, S)
<1> DEFINE P == {U \in SUBSET S : SumOn(f, U) <= SumOn(h, U)}
<1>1. ASSUME NEW U \in SUBSET S
      PROVE  IsFiniteSet(U) /\ SumOn(f, U) \in Nat /\ SumOn(h, U) \in Nat
  BY FS_Subset, SumOfMore
<1>2. {} \in P
  BY SumOfNone
<1>3. ASSUME NEW U \in SUBSET S, NEW x \in S \ U, U \in P PROVE U \cup {x} \in P
  <2>1. SumOn(f, U \cup {x}) = SumOn(f, U) + f[x] /\ SumOn(h, U \cup {x}) = SumOn(h, U) + h[x]
    <3>1. \A y \in U \cup {x} : f[y] \in Nat /\ h[y] \in Nat
      OBVIOUS
    <3> QED
      BY <1>1, <3>1, SumOfOneMore
  <2>2. f[x] \in Nat /\ h[x] \in Nat /\ f[x] <= h[x] /\ SumOn(f, U) <= SumOn(h, U)
    BY <1>3
  <2> QED
    BY <1>1, <2>1, <2>2
<1> HIDE DEF P
<1>4. S \in P
  BY <1>2, <1>3, SubsetInduction
<1> QED
  BY <1>4 DEF P

(* Equal numbers add up to the same.                                       *)
LEMMA SumsEqual ==
  ASSUME NEW f, NEW h, NEW S, IsFiniteSet(S), \A y \in S : f[y] \in Nat /\ h[y] = f[y]
  PROVE  SumOn(f, S) = SumOn(h, S)
<1>1. \A y \in S : h[y] \in Nat /\ f[y] <= h[y] /\ h[y] <= f[y]
  OBVIOUS
<1>2. SumOn(f, S) <= SumOn(h, S) /\ SumOn(h, S) <= SumOn(f, S)
  BY <1>1, SumsOrdered
<1>3. SumOn(f, S) \in Nat /\ SumOn(h, S) \in Nat
  BY <1>1, SumOfMore
<1> QED
  BY <1>2, <1>3

(* Zeros add up to zero.                                                   *)
LEMMA SumOfZeros ==
  ASSUME NEW f, NEW S, IsFiniteSet(S), \A y \in S : f[y] = 0
  PROVE  SumOn(f, S) = 0
<1> DEFINE P == {U \in SUBSET S : SumOn(f, U) = 0}
<1>1. {} \in P
  BY SumOfNone
<1>2. ASSUME NEW U \in SUBSET S, NEW x \in S \ U, U \in P PROVE U \cup {x} \in P
  <2>1. IsFiniteSet(U) /\ \A y \in U \cup {x} : f[y] \in Nat
    BY FS_Subset
  <2>2. SumOn(f, U \cup {x}) = SumOn(f, U) + f[x]
    BY <2>1, SumOfOneMore
  <2>3. SumOn(f, U) = 0 /\ f[x] = 0
    BY <1>2
  <2> QED
    BY <2>2, <2>3
<1> HIDE DEF P
<1>3. S \in P
  BY <1>1, <1>2, SubsetInduction
<1> QED
  BY <1>3 DEF P

(* One number replaced.                                                    *)
LEMMA SumChanged ==
  ASSUME NEW f, NEW h, NEW S, IsFiniteSet(S), NEW x \in S,
         \A y \in S : f[y] \in Nat /\ h[y] \in Nat, \A y \in S \ {x} : h[y] = f[y]
  PROVE  SumOn(h, S) + f[x] = SumOn(f, S) + h[x]
<1>1. SumOn(h, S) = SumOn(h, S \ {x}) + h[x] /\ SumOn(f, S) = SumOn(f, S \ {x}) + f[x]
  BY SumOfMore
<1>2. IsFiniteSet(S \ {x})
  BY FS_RemoveElement
<1>3. SumOn(f, S \ {x}) = SumOn(h, S \ {x})
  BY <1>2, SumsEqual
<1>4. SumOn(f, S \ {x}) \in Nat
  BY <1>2, SumOfMore
<1> QED
  BY <1>1, <1>3, <1>4

-----------------------------------------------------------------------------
(* Sums over the first places of a sequence.                               *)
LEMMA FirstSums ==
  ASSUME NEW s, \A i \in DOMAIN s : s[i] \in Nat, NEW m \in Nat, DOMAIN s = 1 .. m
  PROVE  /\ SumOn(s, 1 .. 0) = 0 /\ SumFunction(s) = SumOn(s, 1 .. m)
         /\ \A n \in 0 .. m : SumOn(s, 1 .. n) \in Nat /\ SumOn(s, 1 .. n) <= SumFunction(s)
         /\ \A n \in 0 .. m - 1 : SumOn(s, 1 .. (n + 1)) = SumOn(s, 1 .. n) + s[n + 1]
<1>1. SumOn(s, 1 .. 0) = 0
  <2>1. 1 .. 0 = {}
    OBVIOUS
  <2> QED
    BY <2>1, SumOfNone
<1>2. SumFunction(s) = SumOn(s, 1 .. m)
  BY DEF SumFunction, SumOn
<1>3. ASSUME NEW n \in 0 .. m
      PROVE  1 .. n \in SUBSET (1 .. m) /\ IsFiniteSet(1 .. n) /\ \A i \in 1 .. n : s[i] \in Nat
  <2>1. n \in Int /\ 1 \in Int
    OBVIOUS
  <2>2. IsFiniteSet(1 .. n)
    BY <2>1, FS_Interval
  <2>3. 1 .. n \in SUBSET (1 .. m)
    OBVIOUS
  <2> QED
    BY <2>2, <2>3
<1>4. ASSUME NEW n \in 0 .. m
      PROVE  SumOn(s, 1 .. n) \in Nat /\ SumOn(s, 1 .. n) <= SumFunction(s)
  <2>1. SumOn(s, 1 .. n) \in Nat
    BY <1>3, SumOfMore
  <2>2. IsFiniteSet(1 .. m) /\ \A i \in 1 .. m : s[i] \in Nat
    <3>1. m \in 0 .. m
      OBVIOUS
    <3> QED
      BY <1>3, <3>1
  <2>3. SumOn(s, 1 .. n) <= SumOn(s, 1 .. m)
    BY <1>3, <2>2, SumOfPart
  <2> QED
    BY <1>2, <2>1, <2>3
<1>5. ASSUME NEW n \in 0 .. m - 1
      PROVE  SumOn(s, 1 .. (n + 1)) = SumOn(s, 1 .. n) + s[n + 1]
  <2>1. n \in 0 .. m /\ n + 1 \in 0 .. m
    OBVIOUS
  <2> DEFINE S == 1 .. n
             x == n + 1
  <2>2. x \notin S /\ 1 .. (n + 1) = S \cup {x}
    OBVIOUS
  <2>3. IsFiniteSet(S) /\ \A i \in S \cup {x} : s[i] \in Nat
    BY <1>3, <2>1, <2>2
  <2> HIDE DEF S, x
  <2>4. SumOn(s, S \cup {x}) = SumOn(s, S) + s[x]
    BY <2>2, <2>3, SumOfOneMore
  <2> QED
    BY <2>2, <2>4 DEF S, x
<1> QED
  BY <1>1, <1>2, <1>4, <1>5
=============================================================================
