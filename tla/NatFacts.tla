------------------------------ MODULE NatFacts ------------------------------
(***************************************************************************)
(* Induction over the natural numbers for sets instead of predicates, and  *)
(* what follows from it: least elements, and functions that are defined by *)
(* going on from one number to the next.                                   *)
(***************************************************************************)
EXTENDS Integers, TLAPS, WellFoundedInduction

Less == {p \in Nat \X Nat : p[1] < p[2]}

LEMMA LessIsWellFounded == IsWellFoundedOn(Less, Nat)
<1>1. Less = OpToRel(<, Nat)
  BY DEF Less, OpToRel
<1> QED
  BY <1>1, NatLessThanWellFounded

\* Every set of numbers that is not empty has a least element.
LEMMA LeastNumber ==
  ASSUME NEW S \in SUBSET Nat, S # {}
  PROVE  \E x \in S : \A y \in S : x <= y
<1>1. PICK x \in S : \A y \in S : ~(<<y, x>> \in Less)
  BY LessIsWellFounded, WFMin
<1>2. ASSUME NEW y \in S, y < x PROVE FALSE
  <2>1. <<y, x>> \in Nat \X Nat /\ <<y, x>>[1] < <<y, x>>[2]
    BY <1>2
  <2> QED
    BY <1>1, <2>1 DEF Less
<1> QED
  BY <1>2

\* A set that holds 0 and with every number the next holds every number.
LEMMA SetInduction ==
  ASSUME NEW S, 0 \in S, \A n \in Nat : n \in S => n + 1 \in S
  PROVE  Nat \subseteq S
<1>1. SUFFICES ASSUME Nat \ S # {} PROVE FALSE
  OBVIOUS
<1>2. PICK x \in Nat \ S : \A y \in Nat \ S : x <= y
  <2>1. Nat \ S \in SUBSET Nat
    OBVIOUS
  <2> QED
    BY <1>1, <2>1, LeastNumber
<1>3. x # 0 /\ x - 1 \in Nat
  OBVIOUS
<1>4. x - 1 \in S
  BY <1>2, <1>3
<1> QED
  BY <1>3, <1>4

\* A function whose first value is in V, and whose next value is in V if the
\* last one is, has all its values in V.
LEMMA ValuesStay ==
  ASSUME NEW n \in Nat, NEW V, NEW f,
         f[0] \in V, \A i \in 1..n : f[i - 1] \in V => f[i] \in V
  PROVE  \A i \in 0..n : f[i] \in V
<1> DEFINE S == {i \in Nat : i <= n => f[i] \in V}
<1>1. 0 \in S
  OBVIOUS
<1>2. ASSUME NEW i \in Nat, i \in S PROVE i + 1 \in S
  <2>1. CASE i + 1 <= n
    <3>1. i + 1 \in 1..n /\ (i + 1) - 1 = i
      BY <2>1
    <3>2. f[i] \in V
      BY <1>2, <2>1
    <3>3. f[i + 1] \in V
      BY <3>1, <3>2
    <3> QED
      BY <3>3
  <2>2. CASE ~(i + 1 <= n)
    BY <2>2
  <2> QED
    BY <2>1, <2>2
<1>3. Nat \subseteq S
  <2> HIDE DEF S
  <2> QED
    BY <1>1, <1>2, SetInduction
<1> QED
  BY <1>3

\* The functions that start with b and go on with F, which is given the last value
\* and the number of the next.
Iterations(n, V, b, F) ==
  {g \in [0..n -> V] : g[0] = b /\ \A i \in 1..n : g[i] = F[<<g[i - 1], i>>]}

\* There is one.
LEMMA IterationExists ==
  ASSUME NEW n \in Nat, NEW V, NEW b \in V, NEW F \in [V \X (1..n) -> V]
  PROVE  Iterations(n, V, b, F) # {}
<1> DEFINE Goes(g, m) == /\ g \in [0..m -> V] /\ g[0] = b
                         /\ \A i \in 1..m : g[i] = F[<<g[i - 1], i>>]
           S == {m \in Nat : m <= n => \E g : Goes(g, m)}
<1>1. 0 \in S
  <2>1. Goes([i \in 0..0 |-> b], 0)
    OBVIOUS
  <2> QED
    BY <2>1
<1>2. ASSUME NEW m \in Nat, m \in S PROVE m + 1 \in S
  <2>1. SUFFICES ASSUME m + 1 <= n PROVE \E g : Goes(g, m + 1)
    OBVIOUS
  <2>2. PICK g : Goes(g, m)
    BY <1>2, <2>1
  <2> DEFINE h == [i \in 0..(m + 1) |-> IF i <= m THEN g[i] ELSE F[<<g[m], m + 1>>]]
  <2>3. F[<<g[m], m + 1>>] \in V
    BY <2>1, <2>2
  <2>4. h \in [0..(m + 1) -> V] /\ h[0] = b
    BY <2>2, <2>3
  <2>5. ASSUME NEW i \in 1..(m + 1) PROVE h[i] = F[<<h[i - 1], i>>]
    <3>1. i - 1 \in 0..m /\ h[i - 1] = g[i - 1]
      OBVIOUS
    <3>2. CASE i <= m
      <4>1. h[i] = g[i] /\ i \in 1..m
        BY <3>2
      <4> QED
        BY <2>2, <3>1, <4>1
    <3>3. CASE i = m + 1
      <4>1. h[i] = F[<<g[m], m + 1>>]
        BY <3>3
      <4>2. h[i - 1] = g[m]
        BY <3>1, <3>3
      <4> HIDE DEF h
      <4> QED
        BY <3>3, <4>1, <4>2
    <3> QED
      BY <3>2, <3>3
  <2> QED
    BY <2>4, <2>5
<1>3. n \in S
  <2> HIDE DEF S
  <2> QED
    BY <1>1, <1>2, SetInduction
<1> QED
  BY <1>3 DEF Iterations
=============================================================================
