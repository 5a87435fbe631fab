--------------------------- MODULE NumberLemmas -----------------------------
(* What the proofs of several components need of natural numbers: induction, *)
(* first elements, sums.                                                     *)
EXTENDS Integers, FiniteSetsExt, FiniteSetTheorems, TLAPS

(* Induction over the naturals, for a property that is given as a set: if m  *)
(* were left out, the successor would map the numbers below it that are in   *)
(* the set to themselves without 0, which are fewer.                         *)
LEMMA Induction ==
  ASSUME NEW S, 0 \in S, \A n \in Nat : n \in S => n + 1 \in S
  PROVE  Nat \subseteq S
  <1> SUFFICES ASSUME NEW m \in Nat, m \notin S PROVE FALSE
    OBVIOUS
  <1> DEFINE A == {n \in 0..m : n \in S}
             f == [n \in A |-> n + 1]
  <1>1. IsFiniteSet(A) /\ 0 \in A
    <2>1. IsFiniteSet(0..m)
      BY FS_Interval
    <2> QED
      BY <2>1, FS_Subset
  <1>2. IsFiniteSet(A \ {0}) /\ Cardinality(A \ {0}) = Cardinality(A) - 1
    BY <1>1, FS_RemoveElement
  <1>3. f \in [A -> A \ {0}]
    <2> SUFFICES ASSUME NEW n \in A PROVE n + 1 \in A \ {0}
      OBVIOUS
    <2>1. n \in Nat /\ n # m /\ n <= m
      OBVIOUS
    <2> QED
      BY <2>1
  <1>4. Cardinality(A \ {0}) < Cardinality(A)
    <2>1. Cardinality(A) \in Nat
      BY <1>1, FS_CardinalityType
    <2> QED
      BY <1>2, <2>1
  <1>5. PICK x \in A, y \in A : x # y /\ f[x] = f[y]
    <2> HIDE DEF f
    <2> QED
      BY <1>1, <1>2, <1>3, <1>4, FS_PigeonHole
  <1> QED
    BY <1>5

LEMMA MinIsFirst ==
  ASSUME NEW S \in SUBSET Nat, S # {}
  PROVE  Min(S) \in S /\ \A n \in S : Min(S) <= n
  <1>1. \E m \in S : \A n \in S : m <= n
    <2> SUFFICES ASSUME \A m \in S : \E n \in S : n < m PROVE FALSE
      OBVIOUS
    <2> DEFINE I == {k \in Nat : \A n \in S : k <= n}
    <2>1. 0 \in I /\ \A k \in Nat : k \in I => k + 1 \in I
      OBVIOUS
    <2>2. Nat \subseteq I
      <3> HIDE DEF I
      <3> QED
        BY <2>1, Induction
    <2>3. PICK s \in S : s \in Nat
      OBVIOUS
    <2> QED
      BY <2>2, <2>3
  <1> QED
    BY <1>1 DEF Min

(* f holds the sums of the first entries of x, for up to m of them.          *)
Adds(f, x, m) == f[0] = 0 /\ \A n \in 1..m : f[n] = f[n - 1] + x[n]
Sums(x, m) == {f \in [0..m -> Nat] : Adds(f, x, m)}

(* A recursive sum over the entries of x is defined.                         *)
LEMMA SumsExist ==
  ASSUME NEW N \in Nat, NEW x \in [1..N -> Nat]
  PROVE  \E f \in [0..N -> Nat] : f = [n \in 0..N |-> IF n = 0 THEN 0 ELSE f[n - 1] + x[n]]
  <1> DEFINE I == {m \in Nat : m <= N => Sums(x, m) # {}}
  <1>1. Sums(x, 0) # {}
    <2> DEFINE f == [n \in 0..0 |-> 0]
    <2>1. f \in [0..0 -> Nat] /\ f[0] = 0 /\ \A n \in 1..0 : f[n] = f[n - 1] + x[n]
      OBVIOUS
    <2> HIDE DEF f
    <2> QED
      BY <2>1 DEF Sums, Adds
  <1>2. ASSUME NEW m \in Nat, m + 1 <= N, Sums(x, m) # {} PROVE Sums(x, m + 1) # {}
    <2>1. PICK f \in [0..m -> Nat] : f[0] = 0 /\ \A n \in 1..m : f[n] = f[n - 1] + x[n]
      BY <1>2 DEF Sums, Adds
    <2> DEFINE g == [n \in 0..(m + 1) |-> IF n = m + 1 THEN f[m] + x[m + 1] ELSE f[n]]
    <2>2. g \in [0..(m + 1) -> Nat]
      <3>1. f[m] + x[m + 1] \in Nat
        BY <1>2
      <3> QED
        BY <3>1
    <2>3. g[0] = 0
      BY <2>1
    <2>4. ASSUME NEW n \in 1..(m + 1) PROVE g[n] = g[n - 1] + x[n]
      <3>1. CASE n = m + 1
        <4>1. g[m + 1] = f[m] + x[m + 1] /\ g[m] = f[m]
          OBVIOUS
        <4>2. n - 1 = m
          BY <3>1
        <4> HIDE DEF g
        <4> QED
          BY <3>1, <4>1, <4>2
      <3>2. CASE n # m + 1
        <4>1. n \in 1..m /\ n - 1 \in 0..m
          BY <3>2
        <4>2. g[n] = f[n] /\ g[n - 1] = f[n - 1]
          BY <4>1
        <4> HIDE DEF g
        <4> QED
          BY <2>1, <4>1, <4>2
      <3> QED
        BY <3>1, <3>2
    <2> HIDE DEF g
    <2> QED
      BY <2>2, <2>3, <2>4 DEF Sums, Adds
  <1>3. 0 \in I /\ \A m \in Nat : m \in I => m + 1 \in I
    <2>1. ASSUME NEW m \in Nat, m \in I, m + 1 <= N PROVE Sums(x, m + 1) # {}
      <3>1. Sums(x, m) # {}
        BY <2>1
      <3> QED
        BY <1>2, <2>1, <3>1
    <2> QED
      BY <1>1, <2>1
  <1>4. Nat \subseteq I
    <2> HIDE DEF I
    <2> QED
      BY <1>3, Induction
  <1>5. Sums(x, N) # {}
    BY <1>4
  <1>6. PICK f \in [0..N -> Nat] : f[0] = 0 /\ \A n \in 1..N : f[n] = f[n - 1] + x[n]
    BY <1>5 DEF Sums, Adds
  <1>7. f = [n \in 0..N |-> IF n = 0 THEN 0 ELSE f[n - 1] + x[n]]
    BY <1>6
  <1> QED
    BY <1>7

(* Two sums over the same entries are the same.                              *)
LEMMA SumsAgree ==
  ASSUME NEW N \in Nat, NEW x, NEW f, NEW g, Adds(f, x, N), Adds(g, x, N)
  PROVE  \A n \in 0..N : f[n] = g[n]
  <1> DEFINE I == {m \in Nat : m <= N => f[m] = g[m]}
  <1>1. ASSUME NEW m \in Nat, m + 1 <= N, f[m] = g[m] PROVE f[m + 1] = g[m + 1]
    <2>1. m + 1 \in 1..N /\ (m + 1) - 1 = m
      BY <1>1
    <2> QED
      BY <1>1, <2>1 DEF Adds
  <1>2. 0 \in I /\ \A m \in Nat : m \in I => m + 1 \in I
    BY <1>1 DEF Adds
  <1>3. Nat \subseteq I
    <2> HIDE DEF I
    <2> QED
      BY <1>2, Induction
  <1> QED
    BY <1>3

=============================================================================
