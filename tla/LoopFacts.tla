----------------------------- MODULE LoopFacts -----------------------------
(***************************************************************************)
(* Loops over a sequence, as the theorems need them.  A loop is written as  *)
(* a recursive function upto of the number of items that were read:         *)
(*   upto[n \in 0..N] == IF n = 0 THEN base ELSE Step(upto[n - 1], n)       *)
(* What it computes is shown here without a theorem that takes an operator:  *)
(* induction goes by a set, a step by a function.                            *)
(***************************************************************************)
EXTENDS Integers, Sequences, FiniteSetTheorems, WellFoundedInduction, TLAPS

\* A set of naturals has a least element.
LEMMA LeastElement ==
  ASSUME NEW S, S \subseteq Nat, S # {}
  PROVE  \E m \in S : \A k \in S : m <= k
<1>1. IsWellFoundedOn({p \in Nat \X Nat : p[1] < p[2]}, Nat)
  BY NatLessThanWellFounded DEF OpToRel
<1> DEFINE Less == {p \in Nat \X Nat : p[1] < p[2]}
<1>2. \E m \in S : \A k \in S : ~(<<k, m>> \in Less)
  <2> HIDE DEF Less
  <2> QED
    BY <1>1, WFMin DEF Less
<1>3. PICK m \in S : \A k \in S : ~(<<k, m>> \in Less)
  BY <1>2
<1>4. ASSUME NEW k \in S PROVE m <= k
  <2>1. k \in Nat /\ m \in Nat /\ <<k, m>> \in Nat \X Nat
    OBVIOUS
  <2>2. ~(<<k, m>>[1] < <<k, m>>[2])
    BY <1>3, <2>1
  <2> QED
    BY <2>1, <2>2
<1> QED
  BY <1>4

\* Induction, by the set of what it is shown for.
LEMMA NatSetInduction ==
  ASSUME NEW S, 0 \in S, \A n \in Nat : n \in S => n + 1 \in S
  PROVE  \A n \in Nat : n \in S
<1> DEFINE C == {n \in Nat : n \notin S}
<1> SUFFICES ASSUME C # {} PROVE FALSE
  OBVIOUS
<1>1. PICK m \in C : \A k \in C : m <= k
  <2>1. C \subseteq Nat
    OBVIOUS
  <2> HIDE DEF C
  <2> QED
    BY <2>1, LeastElement
<1>2. m - 1 \in Nat /\ m - 1 \notin C
  BY <1>1
<1>3. m - 1 + 1 = m
  BY <1>1
<1> QED
  BY <1>1, <1>2, <1>3

\* The same up to a bound.
LEMMA UpToInduction ==
  ASSUME NEW N \in Nat, NEW S, 0 \in S, \A n \in 1..N : n - 1 \in S => n \in S
  PROVE  \A n \in 0..N : n \in S
<1> DEFINE T == {n \in Nat : n <= N => n \in S}
<1>1. 0 \in T
  OBVIOUS
<1>2. ASSUME NEW n \in Nat, n \in T PROVE n + 1 \in T
  <2>1. CASE n + 1 <= N
    <3>1. n \in S /\ n + 1 \in 1..N /\ (n + 1) - 1 = n
      BY <1>2, <2>1
    <3> QED
      BY <3>1
  <2>2. CASE ~(n + 1 <= N)
    BY <2>2
  <2> QED
    BY <2>1, <2>2
<1>3. \A n \in Nat : n \in T
  <2> HIDE DEF T
  <2> QED
    BY <1>1, <1>2, NatSetInduction
<1> QED
  BY <1>3

-----------------------------------------------------------------------------
\* What satisfies the equation of a loop.
IsLoop(u, N, base, step) ==
  u = [n \in 0..N |-> IF n = 0 THEN base ELSE step[<<u[n - 1], n>>]]

\* A loop whose step stays in a set runs to its end, and stays there.
LEMMA LoopRuns ==
  ASSUME NEW A, NEW base \in A, NEW N \in Nat, NEW step, \A a \in A, n \in 1..N : step[<<a, n>>] \in A
  PROVE  \E u \in [0..N -> A] : IsLoop(u, N, base, step)
<1> DEFINE Runs(n) == \E u \in [0..n -> A] : IsLoop(u, n, base, step)
           S == {n \in 0..N : Runs(n)}
<1>1. 0 \in S
  <2>1. IsLoop([n \in 0..0 |-> base], 0, base, step)
    BY DEF IsLoop
  <2>2. [n \in 0..0 |-> base] \in [0..0 -> A]
    OBVIOUS
  <2> QED
    BY <2>1, <2>2
<1>2. ASSUME NEW n \in 1..N, n - 1 \in S PROVE n \in S
  <2>1. PICK u \in [0..n-1 -> A] : IsLoop(u, n - 1, base, step)
    BY <1>2
  <2> DEFINE v == [i \in 0..n |-> IF i = n THEN step[<<u[n - 1], n>>] ELSE u[i]]
  <2>2. u[n - 1] \in A
    OBVIOUS
  <2>3. v \in [0..n -> A]
    BY <2>2
  <2>4. ASSUME NEW i \in 0..n PROVE v[i] = IF i = 0 THEN base ELSE step[<<v[i - 1], i>>]
    <3>1. CASE i = n
      <4>1. v[i - 1] = u[n - 1] /\ v[i] = step[<<u[n - 1], n>>] /\ n # 0
        BY <3>1
      <4> QED
        BY <3>1, <4>1
    <3>2. CASE i # n
      <4>1. v[i] = u[i]
        BY <3>2
      <4>2. u[i] = IF i = 0 THEN base ELSE step[<<u[i - 1], i>>]
        BY <2>1, <3>2 DEF IsLoop
      <4>3. i # 0 => v[i - 1] = u[i - 1]
        BY <3>2
      <4> QED
        BY <4>1, <4>2, <4>3
    <3> QED
      BY <3>1, <3>2
  <2>5. v = [i \in 0..n |-> v[i]]
    OBVIOUS
  <2>6. IsLoop(v, n, base, step)
    <3> HIDE DEF v
    <3> QED
      BY <2>4, <2>5 DEF IsLoop
  <2> QED
    BY <2>3, <2>6
<1>3. \A n \in 0..N : n \in S
  <2> HIDE DEF S
  <2> QED
    BY <1>1, <1>2, UpToInduction
<1> QED
  BY <1>3
=============================================================================
