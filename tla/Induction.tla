----------------------------- MODULE Induction -----------------------------
(***************************************************************************)
(* Induction over numbers, for the proofs about chains: said of sets, and  *)
(* of functions, instead of predicates.                                    *)
(***************************************************************************)
EXTENDS Integers, WellFoundedInduction, TLAPS

\* A set of numbers has a least one.
LEMMA LeastExists ==
  ASSUME NEW S, S \subseteq Nat, S # {}
  PROVE  \E n \in S : \A m \in S : n <= m
<1> DEFINE R == OpToRel(<, Nat)
<1>1. IsWellFoundedOn(R, Nat)
  BY NatLessThanWellFounded DEF OpToRel
<1>2. PICK n \in S : \A m \in S : ~ (<<m, n>> \in R)
  <2> HIDE DEF R
  <2> QED BY <1>1, WFMin
<1>3. ASSUME NEW m \in S PROVE n <= m
  <2>1. m \in Nat /\ n \in Nat /\ ~ (<<m, n>> \in R)
    BY <1>2
  <2> QED BY <2>1 DEF OpToRel
<1> QED BY <1>3

\* One that has 0, and with n also n + 1, has them all.
LEMMA SetInduction ==
  ASSUME NEW S, 0 \in S, \A n \in Nat : n \in S => n + 1 \in S
  PROVE  Nat \subseteq S
<1> DEFINE T == Nat \ S
<1>1. CASE T # {}
  <2>1. PICK n \in T : \A m \in T : n <= m
    <3>1. T \subseteq Nat
      OBVIOUS
    <3> HIDE DEF T
    <3> QED BY <1>1, <3>1, LeastExists
  <2>2. n \in Nat /\ n \notin S
    OBVIOUS
  <2>3. n # 0
    BY <2>2
  <2>4. n - 1 \in Nat /\ ~ (n <= n - 1)
    BY <2>2, <2>3
  <2>5. n - 1 \in S
    BY <2>1, <2>4
  <2>6. (n - 1) + 1 \in S
    BY <2>4, <2>5
  <2>7. (n - 1) + 1 = n
    BY <2>2
  <2> QED BY <2>2, <2>6, <2>7
<1> QED BY <1>1

\* The same up to a bound.
LEMMA BoundedInduction ==
  ASSUME NEW N \in Nat, NEW S, 0 \in S, \A n \in 1 .. N : n - 1 \in S => n \in S
  PROVE  0 .. N \subseteq S
<1> DEFINE T == {n \in Nat : n <= N => n \in S}
<1>1. 0 \in T
  OBVIOUS
<1>2. ASSUME NEW n \in Nat, n \in T PROVE n + 1 \in T
  <2>1. CASE n + 1 <= N
    <3>1. n \in S /\ n + 1 \in 1 .. N /\ (n + 1) - 1 = n
      BY <1>2, <2>1
    <3> QED BY <3>1
  <2> QED BY <2>1
<1> HIDE DEF T
<1>3. Nat \subseteq T
  BY <1>1, <1>2, SetInduction
<1> QED BY <1>3 DEF T

\* A function can be applied again and again: what that gives, step by step.
Iterates(g, N, start, step) == g[0] = start /\ \A i \in 1 .. N : g[i] = step[g[i - 1]]

LEMMA IteratesExist ==
  ASSUME NEW V, NEW start \in V, NEW step \in [V -> V], NEW N \in Nat
  PROVE  \E g \in [0 .. N -> V] : Iterates(g, N, start, step)
<1> DEFINE S == {n \in Nat : \E g \in [0 .. n -> V] : Iterates(g, n, start, step)}
<1>1. 0 \in S
  <2> DEFINE g == [i \in 0 .. 0 |-> start]
  <2>1. g \in [0 .. 0 -> V] /\ Iterates(g, 0, start, step)
    BY DEF Iterates
  <2> QED BY <2>1
<1>2. ASSUME NEW n \in Nat, n \in S PROVE n + 1 \in S
  <2>1. PICK g \in [0 .. n -> V] : Iterates(g, n, start, step)
    BY <1>2
  <2> DEFINE h == [i \in 0 .. n + 1 |-> IF i = n + 1 THEN step[g[n]] ELSE g[i]]
  <2>2. h \in [0 .. n + 1 -> V]
    OBVIOUS
  <2>3. h[0] = start
    BY <2>1 DEF Iterates
  <2>4. ASSUME NEW i \in 1 .. n + 1 PROVE h[i] = step[h[i - 1]]
    <3>1. CASE i = n + 1
      BY <3>1
    <3>2. CASE i # n + 1
      <4>1. i \in 1 .. n /\ i \in 0 .. n /\ i - 1 \in 0 .. n /\ i - 1 # n + 1
        BY <3>2
      <4>2. g[i] = step[g[i - 1]]
        BY <2>1, <4>1 DEF Iterates
      <4>3. h[i] = g[i] /\ h[i - 1] = g[i - 1]
        BY <4>1
      <4> QED BY <4>2, <4>3
    <3> QED BY <3>1, <3>2
  <2> HIDE DEF h
  <2>5. Iterates(h, n + 1, start, step)
    BY <2>3, <2>4 DEF Iterates
  <2> QED BY <2>2, <2>5
<1> HIDE DEF S
<1>3. Nat \subseteq S
  BY <1>1, <1>2, SetInduction
<1> QED BY <1>3 DEF S

\* A function of its own for each step.
StepsFrom(g, N, start, step) == g[0] = start /\ \A i \in 1 .. N : g[i] = step[i][g[i - 1]]

LEMMA StepsExist ==
  ASSUME NEW V, NEW start \in V, NEW N \in Nat, NEW step \in [1 .. N -> [V -> V]]
  PROVE  \E g \in [0 .. N -> V] : StepsFrom(g, N, start, step)
<1> DEFINE S == {n \in 0 .. N : \E g \in [0 .. n -> V] : StepsFrom(g, n, start, step)}
<1>1. 0 \in S
  <2> DEFINE g == [i \in 0 .. 0 |-> start]
  <2>1. g \in [0 .. 0 -> V] /\ StepsFrom(g, 0, start, step)
    BY DEF StepsFrom
  <2> QED BY <2>1
<1>2. ASSUME NEW n \in 1 .. N, n - 1 \in S PROVE n \in S
  <2>1. PICK g \in [0 .. n - 1 -> V] : StepsFrom(g, n - 1, start, step)
    BY <1>2
  <2> DEFINE h == [i \in 0 .. n |-> IF i = n THEN step[n][g[n - 1]] ELSE g[i]]
  <2>2. h \in [0 .. n -> V]
    <3>1. g[n - 1] \in V
      OBVIOUS
    <3>2. step[n] \in [V -> V]
      OBVIOUS
    <3>3. step[n][g[n - 1]] \in V
      BY <3>1, <3>2
    <3>4. \A i \in 0 .. n : i # n => g[i] \in V
      OBVIOUS
    <3> QED BY <3>3, <3>4
  <2>3. h[0] = start
    BY <2>1 DEF StepsFrom
  <2>4. ASSUME NEW i \in 1 .. n PROVE h[i] = step[i][h[i - 1]]
    <3>1. CASE i = n
      BY <3>1
    <3>2. CASE i # n
      <4>1. i \in 1 .. n - 1 /\ i \in 0 .. n /\ i - 1 \in 0 .. n /\ i - 1 # n
        BY <3>2
      <4>2. g[i] = step[i][g[i - 1]]
        BY <2>1, <4>1 DEF StepsFrom
      <4>3. h[i] = g[i] /\ h[i - 1] = g[i - 1]
        BY <4>1
      <4> QED BY <4>2, <4>3
    <3> QED BY <3>1, <3>2
  <2> HIDE DEF h
  <2>5. StepsFrom(h, n, start, step)
    BY <2>3, <2>4 DEF StepsFrom
  <2> QED BY <2>2, <2>5
<1> HIDE DEF S
<1>3. 0 .. N \subseteq S
  BY <1>1, <1>2, BoundedInduction
<1>4. N \in S
  BY <1>3
<1> QED BY <1>4 DEF S
=============================================================================
