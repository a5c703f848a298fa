--------------------------- MODULE NaturalLemmas ---------------------------
(***************************************************************************)
(* What Min and Max of FiniteSetsExt return on sets of naturals.  Both     *)
(* choose, so that they return an element takes an argument: that the      *)
(* order of the naturals is well-founded.  And, from the least             *)
(* counterexample, induction over the positions of a sequence, and that a  *)
(* definition by recursion over the naturals defines a function.           *)
(***************************************************************************)
EXTENDS Integers, FiniteSetsExt, WellFoundedInduction, TLAPS

\* The order of the naturals is well-founded.
LEMMA LessIsWellFounded ==
  \E R : IsWellFoundedOn(R, Nat) /\ \A x, y \in Nat : (<<x, y>> \in R) <=> x < y
<1>1. \A x, y \in Nat : (<<x, y>> \in OpToRel(<, Nat)) <=> x < y
  BY DEF OpToRel
<1> QED BY <1>1, NatLessThanWellFounded

\* The library's theorem, in a form the backends instantiate.
LEMMA MinimalElement ==
  \A R, N : IsWellFoundedOn(R, N) =>
    \A S \in SUBSET N : S # {} => \E x \in S : \A y \in S : <<y, x>> \notin R
BY WFMin

\* Min returns the least element of a set of naturals.
LEMMA MinOf ==
  ASSUME NEW S \in SUBSET Nat, S # {}
  PROVE  Min(S) \in S /\ \A k \in S : Min(S) <= k
<1>1. PICK R : IsWellFoundedOn(R, Nat) /\ \A x, y \in Nat : (<<x, y>> \in R) <=> x < y
  BY LessIsWellFounded
<1>2. PICK x \in S : \A y \in S : <<y, x>> \notin R
  BY <1>1, MinimalElement, ZenonT(30)
<1>3. \A y \in S : x <= y
  <2>1. TAKE y \in S
  <2>2. x \in Nat /\ y \in Nat OBVIOUS
  <2>3. ~ (y < x) BY <1>1, <1>2, <2>2
  <2> QED BY <2>2, <2>3
<1> QED BY <1>3 DEF Min

\* Max returns the greatest element of a bounded set of naturals.
LEMMA MaxOf ==
  ASSUME NEW b \in Nat, NEW S \in SUBSET (0 .. b), S # {}
  PROVE  Max(S) \in S /\ \A k \in S : k <= Max(S)
<1> DEFINE T == {b - x : x \in S}
<1>0. \A x \in S : x \in Nat /\ b - x \in Nat OBVIOUS
<1>1. T \in SUBSET Nat /\ T # {} BY <1>0
<1>2. Min(T) \in T /\ \A k \in T : Min(T) <= k
  <2> HIDE DEF T
  <2> QED BY <1>1, MinOf
<1>3. PICK x \in S : Min(T) = b - x BY <1>2
<1>4. \A y \in S : y <= x
  <2>1. TAKE y \in S
  <2>2. b - x <= b - y BY <1>2, <1>3
  <2>3. x \in Nat /\ y \in Nat BY <1>0
  <2> QED BY <2>2, <2>3
<1>5. \A y \in S : x >= y BY <1>4
<1> QED BY <1>4, <1>5 DEF Max

\* What holds of 1 and is handed on holds up to n.
LEMMA HandedOn ==
    ASSUME NEW n \in Nat, NEW J,
           n >= 1 => 1 \in J,
           \A i \in 1..n : i < n /\ i \in J => i + 1 \in J
    PROVE  \A i \in 1..n : i \in J
<1> DEFINE Bad == { i \in 1..n : i \notin J }
<1>1. SUFFICES ASSUME Bad # {}
               PROVE  FALSE
  OBVIOUS
<1>2. Bad \in SUBSET Nat
  OBVIOUS
<1>3. PICK m \in Bad : \A k \in Bad : m <= k
  <2> HIDE DEF Bad
  <2>1. QED
    BY <1>1, <1>2, MinOf
<1>4. m \in 1..n /\ m \notin J
  OBVIOUS
<1>5. m # 1
  BY <1>4
<1>6. m - 1 \in 1..n /\ m - 1 \in J
  BY <1>3, <1>4, <1>5
<1>7. QED
  BY <1>4, <1>6

\* The same from any number to another.
LEMMA HandedFrom ==
    ASSUME NEW a \in Nat, NEW b \in Nat, NEW J,
           a \in J, \A i \in a..b : i < b /\ i \in J => i + 1 \in J
    PROVE  \A i \in a..b : i \in J
<1> DEFINE Bad == { i \in a..b : i \notin J }
<1>1. SUFFICES ASSUME Bad # {}
               PROVE  FALSE
  OBVIOUS
<1>2. Bad \in SUBSET Nat
  OBVIOUS
<1>3. PICK m \in Bad : \A k \in Bad : m <= k
  <2> HIDE DEF Bad
  <2>1. QED
    BY <1>1, <1>2, MinOf
<1>4. m \in a..b /\ m \notin J
  OBVIOUS
<1>5. m # a
  BY <1>4
<1>6. m - 1 \in a..b /\ m - 1 < b
  BY <1>4, <1>5
<1>7. m - 1 \in J
  BY <1>3, <1>4, <1>6
<1>8. (m - 1) + 1 \in J
  BY <1>6, <1>7
<1>9. QED
  BY <1>4, <1>8

\* What comes of n steps from a start.
Courses(S, s, next, n) ==
    { g \in [0..n -> S] : g[0] = s /\ \A i \in 0..n : i < n => g[i + 1] = next[g[i]] }

\* A function that is defined by recursion over the naturals is one.
LEMMA Iterates ==
    ASSUME NEW S, NEW s \in S, NEW next \in [S -> S]
    PROVE  \E f \in [Nat -> S] : f[0] = s /\ \A n \in Nat : f[n + 1] = next[f[n]]
<1> DEFINE R(n) == Courses(S, s, next, n)
           J == { n \in Nat : R(n) # {} }
<1>1. ASSUME NEW m \in Nat
      PROVE  R(m) # {}
  <2>1. 0 \in J
    <3> DEFINE g == [i \in 0..0 |-> s]
    <3>1. g \in R(0)
      BY DEF Courses
    <3> QED BY <3>1
  <2>2. ASSUME NEW n \in 0..m, n < m, n \in J
        PROVE  n + 1 \in J
    <3>1. PICK g \in R(n) : TRUE
      BY <2>2
    <3> DEFINE h == [i \in 0..(n + 1) |-> IF i <= n THEN g[i] ELSE next[g[n]]]
    <3>2. g \in [0..n -> S] /\ g[0] = s /\ \A i \in 0..n : i < n => g[i + 1] = next[g[i]]
      BY <3>1 DEF Courses
    <3>3. h \in [0..(n + 1) -> S] /\ h[0] = s
      BY <3>2
    <3>4. ASSUME NEW i \in 0..(n + 1), i < n + 1
          PROVE  h[i + 1] = next[h[i]]
      <4>1. CASE i = n
        BY <3>2, <4>1
      <4>2. CASE i < n
        <5>1. i \in 0..n /\ i + 1 \in 0..n
          BY <4>2
        <5> QED BY <3>2, <4>2, <5>1
      <4> QED BY <3>4, <4>1, <4>2
    <3> HIDE DEF h
    <3>5. h \in R(n + 1)
      BY <3>3, <3>4 DEF Courses
    <3> QED BY <3>5
  <2> HIDE DEF J
  <2>3. \A n \in 0..m : n \in J
    BY <2>1, <2>2, HandedFrom
  <2> QED BY <2>3 DEF J
<1>2. ASSUME NEW n \in Nat, NEW m \in Nat, n <= m, NEW g \in R(n), NEW h \in R(m)
      PROVE  \A i \in 0..n : g[i] = h[i]
  <2> DEFINE E == { i \in 0..n : g[i] = h[i] }
  <2>1. /\ g[0] = s /\ h[0] = s
        /\ \A i \in 0..n : i < n => g[i + 1] = next[g[i]]
        /\ \A i \in 0..m : i < m => h[i + 1] = next[h[i]]
    BY DEF Courses
  <2>2. 0 \in E
    BY <2>1
  <2>3. ASSUME NEW i \in 0..n, i < n, i \in E
        PROVE  i + 1 \in E
    BY <1>2, <2>1, <2>3
  <2> HIDE DEF E
  <2>4. \A i \in 0..n : i \in E
    BY <2>2, <2>3, HandedFrom
  <2> QED BY <2>4 DEF E
<1> DEFINE r(n) == CHOOSE g \in R(n) : TRUE
           f == [n \in Nat |-> r(n)[n]]
<1>3. ASSUME NEW n \in Nat
      PROVE  r(n) \in R(n)
  BY <1>1
<1>4. ASSUME NEW n \in Nat
      PROVE  f[n] = r(n)[n]
  OBVIOUS
<1> HIDE DEF r, f
<1>5. ASSUME NEW n \in Nat
      PROVE  /\ r(n)[n] \in S /\ r(0)[0] = s
             /\ n # 0 => r(n)[n] = next[r(n - 1)[n - 1]]
  <2>1. r(n) \in R(n) /\ r(0) \in R(0)
    BY <1>3
  <2>2. r(n)[n] \in S /\ r(0)[0] = s
    BY <2>1 DEF Courses
  <2>3. ASSUME n # 0
        PROVE  r(n)[n] = next[r(n - 1)[n - 1]]
    <3> DEFINE m == n - 1
    <3>1. m \in Nat /\ m <= n /\ m + 1 = n /\ m \in 0..n /\ m \in 0..m /\ m < n
      BY <2>3
    <3> HIDE DEF m
    <3>2. r(m) \in R(m)
      BY <1>3, <3>1
    <3>3. r(m)[m] = r(n)[m]
      BY <1>2, <2>1, <3>1, <3>2
    <3>4. r(n)[m + 1] = next[r(n)[m]]
      BY <2>1, <3>1 DEF Courses
    <3>5. r(n)[n] = next[r(m)[m]]
      BY <3>1, <3>3, <3>4
    <3> QED BY <3>5 DEF m
  <2> QED BY <2>2, <2>3
<1>6. f \in [Nat -> S]
  <2>1. f = [n \in Nat |-> r(n)[n]]
    BY DEF f
  <2> QED BY <1>5, <2>1
<1>7. f[0] = s /\ \A n \in Nat : f[n + 1] = next[f[n]]
  <2>1. f[0] = s
    BY <1>4, <1>5
  <2>2. ASSUME NEW n \in Nat
        PROVE  f[n + 1] = next[f[n]]
    <3>1. n + 1 \in Nat /\ n + 1 # 0 /\ (n + 1) - 1 = n
      OBVIOUS
    <3> QED BY <1>4, <1>5, <3>1
  <2> QED BY <2>1, <2>2
<1> QED BY <1>6, <1>7
=============================================================================
