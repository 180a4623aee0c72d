------------------------------- MODULE Induction -------------------------------
(***************************************************************************)
(* Induction over the numbers, for the proofs about functions that are     *)
(* defined by recursion.  The library's theorem takes a predicate; here    *)
(* the predicate is the set of the numbers that satisfy it.                *)
(***************************************************************************)
EXTENDS Integers, WellFoundedInduction, TLAPS

Less == {p \in Nat \X Nat : p[1] < p[2]}

LEMMA LessWF == IsWellFoundedOn(Less, Nat)
  <1>1. OpToRel(<, Nat) = Less
    BY DEF OpToRel, Less
  <1> QED
    BY <1>1, NatLessThanWellFounded

\* Of the numbers not in the set there is no least one.
LEMMA SetInduction ==
    ASSUME NEW S, 0 \in S, \A n \in Nat : n \in S => n + 1 \in S
    PROVE  Nat \subseteq S
  <1> DEFINE T == Nat \ S
  <1> SUFFICES ASSUME T # {} PROVE FALSE
    OBVIOUS
  <1>1. PICK x \in T : \A y \in T : ~ (<<y, x>> \in Less)
    <2> T \subseteq Nat
      OBVIOUS
    <2> HIDE DEF T
    <2> QED
      BY LessWF, WFMin
  <1>2. x # 0 /\ x \in Nat /\ x \notin S
    BY <1>1
  <1>3. x - 1 \in Nat /\ x - 1 < x
    BY <1>2
  <1>4. x - 1 \notin T
    BY <1>1, <1>2, <1>3 DEF Less
  <1>5. x - 1 \in S
    BY <1>3, <1>4
  <1>6. (x - 1) + 1 = x
    BY <1>2
  <1> QED
    BY <1>2, <1>3, <1>5, <1>6

\* What is defined by recursion up to a number exists.
Recurs(f, V, z, n, next) ==
    /\ f = [i \in 0 .. n |-> f[i]] /\ f[0] = z
    /\ \A i \in 0 .. n : f[i] \in V
    /\ \A i \in 1 .. n : f[i] = next[i][f[i - 1]]

LEMMA Recursion ==
    ASSUME NEW V, NEW z \in V, NEW N \in Nat, NEW next,
           \A n \in 1 .. N, v \in V : next[n][v] \in V
    PROVE  \E f : Recurs(f, V, z, N, next)
  <1> DEFINE S == {n \in Nat : n <= N => \E f : Recurs(f, V, z, n, next)}
  <1>1. 0 \in S
    <2>1. Recurs([i \in 0 .. 0 |-> z], V, z, 0, next)
      BY DEF Recurs
    <2> QED
      BY <2>1
  <1>2. ASSUME NEW n \in Nat, n \in S, n + 1 <= N PROVE \E f : Recurs(f, V, z, n + 1, next)
    <2>1. PICK f : Recurs(f, V, z, n, next)
      BY <1>2
    <2> DEFINE v == next[n + 1][f[n]]
               g == [i \in 0 .. n + 1 |-> IF i = n + 1 THEN v ELSE f[i]]
    <2>2. v \in V
      <3>1. n \in 0 .. n /\ n + 1 \in 1 .. N
        BY <1>2
      <3>2. f[n] \in V
        BY <2>1, <3>1 DEF Recurs
      <3> QED
        BY <3>1, <3>2
    <2> HIDE DEF v
    <2>3. g = [i \in 0 .. n + 1 |-> g[i]] /\ g[0] = z
      BY <2>1 DEF Recurs
    <2>4. \A i \in 0 .. n : g[i] = f[i]
      OBVIOUS
    <2>5. g[n + 1] = v /\ (n + 1) - 1 = n /\ g[n] = f[n]
      OBVIOUS
    <2> HIDE DEF g
    <2>6. ASSUME NEW i \in 1 .. n + 1 PROVE g[i] = next[i][g[i - 1]]
      <3>1. CASE i = n + 1
        BY <2>5, <3>1 DEF v
      <3>2. CASE i # n + 1
        <4>1. i \in 1 .. n /\ i \in 0 .. n /\ i - 1 \in 0 .. n
          BY <3>2
        <4>2. f[i] = next[i][f[i - 1]]
          BY <2>1, <4>1 DEF Recurs
        <4> QED
          BY <2>4, <4>1, <4>2
      <3> QED
        BY <3>1, <3>2
    <2>7. ASSUME NEW i \in 0 .. n + 1 PROVE g[i] \in V
      <3>1. i = n + 1 \/ i \in 0 .. n
        OBVIOUS
      <3> QED
        BY <2>1, <2>2, <2>4, <2>5, <3>1 DEF Recurs
    <2>8. Recurs(g, V, z, n + 1, next)
      BY <2>3, <2>6, <2>7 DEF Recurs
    <2> QED
      BY <2>8
  <1>3. ASSUME NEW n \in Nat, n \in S PROVE n + 1 \in S
    BY <1>2, <1>3
  <1> HIDE DEF S
  <1>4. N \in S
    BY <1>1, <1>3, SetInduction
  <1> QED
    BY <1>4 DEF S

\* A set of numbers has a least one.
LEMMA LeastOfMany ==
    ASSUME NEW T, T \subseteq Nat, T # {}
    PROVE  \E x \in T : \A y \in T : x <= y
  <1>1. PICK x \in T : \A y \in T : ~ (<<y, x>> \in Less)
    BY LessWF, WFMin
  <1>2. ASSUME NEW y \in T PROVE x <= y
    <2>1. x \in Nat /\ y \in Nat /\ ~ (<<y, x>> \in Less)
      BY <1>1
    <2> QED
      BY <2>1 DEF Less
  <1> QED
    BY <1>2
=============================================================================
