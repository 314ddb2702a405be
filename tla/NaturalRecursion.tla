------------------------- MODULE NaturalRecursion -------------------------
(***************************************************************************)
(* Induction and recursion over the naturals, stated of sets and functions *)
(* rather than of operators, for the proofs about what the recursive       *)
(* functions of the models compute.                                        *)
(***************************************************************************)
EXTENDS Integers, WellFoundedInduction, TLAPS

Below == {p \in Nat \X Nat : p[1] < p[2]}

\* A set that has 0 and the successor of what it has holds every natural.
LEMMA Induction ==
  ASSUME NEW S, 0 \in S, \A n \in Nat : n \in S => n + 1 \in S
  PROVE  Nat \subseteq S
<1>1. IsWellFoundedOn(Below, Nat)
  BY NatLessThanWellFounded DEF OpToRel, Below
<1>2. SUFFICES ASSUME Nat \ S # {}
               PROVE  FALSE
  OBVIOUS
<1>3. PICK x \in Nat \ S : \A y \in Nat \ S : <<y, x>> \notin Below
  BY <1>1, <1>2, WFMin
<1>4. x - 1 \in Nat /\ x - 1 < x /\ (x - 1) + 1 = x
  BY <1>3
<1>5. x - 1 \in S
  BY <1>3, <1>4 DEF Below
<1>6. QED
  BY <1>3, <1>4, <1>5

\* The sequence g of values goes on from its first by the step function f.
Unfolds(g, V, first, f) ==
  g \in [Nat -> V] /\ g[0] = first /\ \A n \in Nat : g[n + 1] = f[<<n, g[n]>>]

\* Every step function defines a sequence of values.
LEMMA Recursion ==
  ASSUME NEW V, NEW first \in V, NEW f \in [Nat \X V -> V]
  PROVE  \E g : Unfolds(g, V, first, f)
<1> DEFINE Start(n) == {h \in [0..n -> V] : /\ h[0] = first
                                          /\ \A i \in 0..(n - 1) : h[i + 1] = f[<<i, h[i]>>]}
<1>1. ASSUME NEW m \in Nat, NEW n \in Nat, NEW h \in Start(m), NEW k \in Start(n),
             NEW i \in Nat, i <= m, i <= n
      PROVE  h[i] = k[i]
  <2> DEFINE S == {j \in Nat : j <= m /\ j <= n => h[j] = k[j]}
  <2>1. 0 \in S
    OBVIOUS
  <2>2. ASSUME NEW j \in Nat, j \in S
        PROVE  j + 1 \in S
    <3>1. CASE j + 1 <= m /\ j + 1 <= n
      <4>1. j \in 0..(m - 1) /\ j \in 0..(n - 1) /\ h[j] = k[j]
        BY <2>2, <3>1
      <4>2. h[j + 1] = f[<<j, h[j]>>] /\ k[j + 1] = f[<<j, k[j]>>]
        BY <4>1
      <4>3. QED
        BY <4>1, <4>2
    <3>2. CASE ~(j + 1 <= m /\ j + 1 <= n)
      BY <3>2
    <3>3. QED
      BY <3>1, <3>2
  <2>3. Nat \subseteq S
    <3> HIDE DEF S
    <3>1. QED
      BY <2>1, <2>2, Induction
  <2>4. QED
    BY <1>1, <2>3
<1>2. \A n \in Nat : Start(n) # {}
  <2> DEFINE S == {n \in Nat : Start(n) # {}}
  <2>1. 0 \in S
    <3>1. [i \in 0..0 |-> first] \in Start(0)
      OBVIOUS
    <3>2. QED
      BY <3>1
  <2>2. ASSUME NEW n \in Nat, n \in S
        PROVE  n + 1 \in S
    <3>1. PICK h : h \in Start(n)
      BY <2>2
    <3> DEFINE k == [i \in 0..(n + 1) |-> IF i <= n THEN h[i] ELSE f[<<n, h[n]>>]]
    <3>2. k \in Start(n + 1)
      <4>1. k \in [0..(n + 1) -> V]
        BY <3>1
      <4>2. k[0] = first
        BY <3>1
      <4>3. \A i \in 0..n : k[i + 1] = f[<<i, k[i]>>]
        BY <3>1
      <4> HIDE DEF k
      <4>4. QED
        BY <4>1, <4>2, <4>3
    <3>3. QED
      BY <3>2
  <2> HIDE DEF S
  <2>3. Nat \subseteq S
    BY <2>1, <2>2, Induction
  <2>4. QED
    BY <2>3 DEF S
<1> DEFINE c == [n \in Nat |-> CHOOSE h \in Start(n) : TRUE]
           g == [n \in Nat |-> c[n][n]]
<1>3. \A n \in Nat : c[n] \in Start(n)
  BY <1>2
<1> HIDE DEF c
<1>4. g \in [Nat -> V]
  BY <1>3
<1>5. g[0] = first
  BY <1>3
<1>6. ASSUME NEW n \in Nat
      PROVE  g[n + 1] = f[<<n, g[n]>>]
  <2>1. c[n + 1][n + 1] = f[<<n, c[n + 1][n]>>]
    BY <1>3
  <2>2. c[n + 1][n] = c[n][n]
    <3>1. c[n + 1] \in Start(n + 1) /\ c[n] \in Start(n) /\ n + 1 \in Nat
      BY <1>3
    <3> HIDE DEF Start
    <3>2. QED
      BY <1>1, <3>1
  <2>3. QED
    BY <2>1, <2>2
<1> HIDE DEF g
<1>7. QED
  BY <1>4, <1>5, <1>6 DEF Unfolds
=============================================================================
