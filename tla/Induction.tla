----------------------------- MODULE Induction -----------------------------
(***************************************************************************)
(* Induction over the natural numbers, with the predicate given as a set,  *)
(* and the recursion that this code performs: a walk from a number to      *)
(* smaller ones, as from a turn to its parent.                             *)
(***************************************************************************)
EXTENDS Integers, WellFoundedInduction, TLAPS

\* Every nonempty set of natural numbers has a least element.
LEMMA LeastNumber ==
    ASSUME NEW T \in SUBSET Nat, T # {}
    PROVE  \E n \in T : \A m \in T : n <= m
<1>1. PICK R : R = OpToRel(<, Nat)
  OBVIOUS
<1>2. IsWellFoundedOn(R, Nat)
  BY <1>1, NatLessThanWellFounded, Zenon
<1>3. \A x, y \in Nat : y < x => <<y, x>> \in R
  BY <1>1 DEF OpToRel
<1>4. PICK x \in T : \A y \in T : ~ (<<y, x>> \in R)
  BY <1>2, WFMin, T \subseteq Nat
<1>5. x \in Nat /\ \A y \in T : y \in Nat
  OBVIOUS
<1>6. \A y \in T : ~ (y < x)
  BY <1>3, <1>4, <1>5
<1> QED
  BY <1>5, <1>6

\* Every bounded one has a greatest.
LEMMA GreatestNumber ==
    ASSUME NEW N \in Nat, NEW T \in SUBSET (0 .. N), T # {}
    PROVE  \E n \in T : \A m \in T : m <= n
<1> DEFINE D == {N - m : m \in T}
<1>1. \A m \in T : m \in 0 .. N /\ N - m \in Nat
  OBVIOUS
<1>2. D \in SUBSET Nat /\ D # {}
  BY <1>1, Zenon
<1>3. PICK d \in D : \A e \in D : d <= e
  <2> HIDE DEF D
  <2> QED
    BY <1>2, LeastNumber
<1>4. PICK n \in T : d = N - n
  OBVIOUS
<1>5. \A m \in T : N - n <= N - m
  BY <1>3, <1>4
<1> QED
  BY <1>1, <1>5

\* A set that has a number whenever it has all smaller ones has them all.
LEMMA SetInduction ==
    ASSUME NEW N \in Nat, NEW S,
           \A n \in 0 .. N : (\A m \in 0 .. n - 1 : m \in S) => n \in S
    PROVE  \A n \in 0 .. N : n \in S
<1> SUFFICES ASSUME NEW k \in 0 .. N, k \notin S
             PROVE  FALSE
  OBVIOUS
<1> DEFINE T == {n \in 0 .. N : n \notin S}
<1>1. T \in SUBSET Nat /\ T # {}
  OBVIOUS
<1>2. PICK n \in T : \A m \in T : n <= m
  BY <1>1, LeastNumber
<1>3. \A m \in 0 .. n - 1 : m \in 0 .. N /\ ~ (n <= m)
  BY <1>2
<1>4. \A m \in 0 .. n - 1 : m \in S
  BY <1>2, <1>3
<1> QED
  BY <1>2, <1>4

-----------------------------------------------------------------------------
(* Recursion along links that go down.                                     *)

Descends(link, N) == \A t \in 1 .. N : link[t] \in 0 .. t - 1
StepsIn(step, N, S) == \A t \in 1 .. N : \A v \in S : step[t][v] \in S

\* The value at 0 is c, that at t what step makes of the one its link leads to.
IsWalk(f, N, S, c, link, step) ==
    /\ f \in [0 .. N -> S] /\ f[0] = c
    /\ \A t \in 1 .. N : f[t] = step[t][f[link[t]]]

\* Such a function exists.
LEMMA WalkExists ==
    ASSUME NEW N \in Nat, NEW link, Descends(link, N),
           NEW S, NEW c \in S, NEW step, StepsIn(step, N, S)
    PROVE  \E f : IsWalk(f, N, S, c, link, step)
<1> USE DEF Descends, StepsIn, IsWalk
<1> DEFINE Walks(f, n) == IsWalk(f, n, S, c, link, step)
           Good == {n \in 0 .. N : \E f : Walks(f, n)}
<1>1. ASSUME NEW n \in 0 .. N, \A m \in 0 .. n - 1 : m \in Good
      PROVE  n \in Good
  <2>1. CASE n = 0
    <3>1. Walks([i \in 0 .. 0 |-> c], 0)
      OBVIOUS
    <3> QED
      BY <2>1, <3>1
  <2>2. CASE n # 0
    <3>1. n - 1 \in 0 .. n - 1 /\ n \in 1 .. N
      BY <2>2
    <3>2. n - 1 \in Good
      BY <1>1, <3>1
    <3>3. PICK f : Walks(f, n - 1)
      BY <3>2
    <3>4. link[n] \in 0 .. n - 1
      BY <3>1
    <3>5. f[link[n]] \in S
      BY <3>3, <3>4
    <3>6. PICK v \in S : v = step[n][f[link[n]]]
      BY <3>1, <3>5
    <3>7. PICK g : g = [i \in 0 .. n |-> IF i = n THEN v ELSE f[i]]
      OBVIOUS
    <3>8. \A i \in 0 .. n - 1 : i \in 0 .. n /\ i # n
      OBVIOUS
    <3>9. \A i \in 0 .. n - 1 : g[i] = f[i]
      BY <3>7, <3>8
    <3>10. g \in [0 .. n -> S]
      BY <3>3, <3>7
    <3>11. g[0] = c
      BY <3>1, <3>3, <3>9
    <3>12. ASSUME NEW t \in 1 .. n
           PROVE  g[t] = step[t][g[link[t]]]
      <4>1. t \in 1 .. N /\ link[t] \in 0 .. t - 1
        BY <3>1
      <4>2. link[t] \in 0 .. n - 1
        BY <4>1
      <4>3. g[link[t]] = f[link[t]]
        BY <3>9, <4>2
      <4>4. CASE t = n
        BY <3>6, <3>7, <4>3, <4>4
      <4>5. CASE t # n
        <5>1. t \in 1 .. n - 1
          BY <4>5
        <5>2. g[t] = f[t] /\ f[t] = step[t][f[link[t]]]
          BY <3>3, <3>9, <5>1
        <5> QED
          BY <4>3, <5>2
      <4> QED
        BY <4>4, <4>5
    <3>13. Walks(g, n)
      BY <3>10, <3>11, <3>12
    <3> QED
      BY <3>13
  <2> QED
    BY <2>1, <2>2
<1>2. \A n \in 0 .. N : n \in Good
  <2> HIDE DEF Good
  <2> QED
    BY <1>1, SetInduction
<1>3. N \in Good
  BY <1>2
<1> QED
  BY <1>3
=============================================================================
