------------------------------ MODULE Induction ------------------------------
(***************************************************************************)
(* Induction and recursion over the natural numbers, for sets in place of  *)
(* predicates: that what holds for n is a set of numbers.  What the other  *)
(* proofs need to know of a recursive function over 0..n: that there is    *)
(* one, and what its values are.                                           *)
(***************************************************************************)
EXTENDS Integers, FiniteSetTheorems, WellFoundedInduction, TLAPS

\* Of the intervals 1..n whose n is missing from T, none is the smallest.
LEMMA LeastMissing ==
  ASSUME NEW T, \A n \in Nat : (\A m \in Nat : m < n => m \in T) => n \in T
  PROVE  Nat \subseteq T
<1> SUFFICES ASSUME NEW k \in Nat, k \notin T PROVE FALSE
  OBVIOUS
<1> DEFINE U == {1..n : n \in Nat \ T}
           R == StrictSubsetOrdering(Nat)
<1>1. ASSUME NEW n \in Nat PROVE 1..n \in SUBSET Nat /\ IsFiniteSet(1..n)
  <2>1. 1..n \in SUBSET Nat
    OBVIOUS
  <2>2. 1 \in Int /\ n \in Int
    OBVIOUS
  <2>3. IsFiniteSet(1..n)
    BY <2>2, FS_Interval
  <2> QED BY <2>1, <2>3
<1>2. U \subseteq FiniteSubsetsOf(Nat)
  <2>1. ASSUME NEW n \in Nat PROVE 1..n \in FiniteSubsetsOf(Nat)
    BY <1>1 DEF FiniteSubsetsOf
  <2> QED BY <2>1
<1>3. U # {}
  OBVIOUS
<1>4. PICK x \in U : \A y \in U : <<y, x>> \notin R
  <2> HIDE DEF U, R
  <2>1. IsWellFoundedOn(R, FiniteSubsetsOf(Nat))
    BY FS_StrictSubsetOrderingWellFounded DEF R
  <2> QED BY <1>2, <1>3, <2>1, WFMin
<1>5. PICK n \in Nat \ T : x = 1..n
  OBVIOUS
<1>6. ASSUME NEW m \in Nat, m < n PROVE m \in T
  <2> SUFFICES ASSUME m \notin T PROVE FALSE
    OBVIOUS
  <2>1. 1..m \in U
    OBVIOUS
  <2>2. 1..m \subseteq 1..n /\ n \in 1..n /\ n \notin 1..m
    BY <1>6
  <2>3. <<1..m, 1..n>> \in R
    BY <1>1, <2>2 DEF StrictSubsetOrdering
  <2> HIDE DEF U, R
  <2> QED BY <1>4, <1>5, <2>1, <2>3
<1> QED BY <1>5, <1>6

LEMMA SetInduction ==
  ASSUME NEW T, 0 \in T, \A n \in Nat : n \in T => n + 1 \in T
  PROVE  Nat \subseteq T
<1>1. ASSUME NEW n \in Nat, \A m \in Nat : m < n => m \in T PROVE n \in T
  <2>1. CASE n = 0
    BY <2>1
  <2>2. CASE n # 0
    <3>1. n - 1 \in Nat /\ n - 1 < n /\ n = (n - 1) + 1
      BY <2>2
    <3> QED BY <3>1, <1>1
  <2> QED BY <2>1, <2>2
<1> QED BY <1>1, LeastMissing

\* Up to a bound.
LEMMA BoundedInduction ==
  ASSUME NEW N \in Nat, NEW T, 0 \in T, \A n \in 1..N : n - 1 \in T => n \in T
  PROVE  0..N \subseteq T
<1> DEFINE U == {n \in Nat : n > N \/ n \in T}
<1>1. 0 \in U
  OBVIOUS
<1>2. ASSUME NEW n \in Nat, n \in U PROVE n + 1 \in U
  <2>1. CASE n + 1 > N
    BY <2>1
  <2>2. CASE n + 1 <= N
    <3>1. n + 1 \in 1..N /\ (n + 1) - 1 = n /\ n \in T
      BY <1>2, <2>2
    <3>2. n + 1 \in T
      BY <3>1
    <3> QED BY <3>2
  <2> QED BY <2>1, <2>2
<1> HIDE DEF U
<1>3. Nat \subseteq U
  BY <1>1, <1>2, SetInduction
<1> QED BY <1>3 DEF U

\* The functions with values in V that begin with base and go on by the steps.
Recursions(V, N, base, step) ==
  {f \in [0..N -> V] : f[0] = base /\ \A n \in 1..N : f[n] = step[n][f[n - 1]]}

\* There is one, when the steps stay in V.
LEMMA RecursionExists ==
  ASSUME NEW V, NEW N \in Nat, NEW base \in V, NEW step \in [1..N -> [V -> V]]
  PROVE  Recursions(V, N, base, step) # {}
<1> DEFINE Upto(n) == {f \in [0..n -> V] : f[0] = base /\ \A i \in 1..n : f[i] = step[i][f[i - 1]]}
           T == {n \in 0..N : Upto(n) # {}}
<1>1. 0 \in T
  <2>1. [i \in 0..0 |-> base] \in Upto(0)
    OBVIOUS
  <2> QED BY <2>1
<1>2. ASSUME NEW n \in 1..N, n - 1 \in T PROVE n \in T
  <2>1. PICK f \in [0..(n - 1) -> V] : f[0] = base /\ \A i \in 1..(n - 1) : f[i] = step[i][f[i - 1]]
    BY <1>2
  <2> DEFINE v == step[n][f[n - 1]]
             g == [i \in 0..n |-> IF i = n THEN v ELSE f[i]]
  <2>2. v \in V
    <3>1. f[n - 1] \in V
      BY <2>1
    <3>2. step[n] \in [V -> V]
      OBVIOUS
    <3> QED BY <3>1, <3>2
  <2> HIDE DEF v
  <2>3. g \in [0..n -> V]
    BY <2>1, <2>2
  <2>4. g[0] = base
    BY <2>1
  <2>5. ASSUME NEW i \in 1..n PROVE g[i] = step[i][g[i - 1]]
    <3>1. g[i - 1] = f[i - 1] /\ i \in 0..n
      OBVIOUS
    <3>2. CASE i = n
      BY <3>1, <3>2 DEF v
    <3>3. CASE i # n
      <4>1. i \in 1..(n - 1) /\ g[i] = f[i]
        BY <3>3
      <4> QED BY <3>1, <4>1, <2>1
    <3> QED BY <3>2, <3>3
  <2> HIDE DEF g
  <2>6. g \in Upto(n)
    BY <2>3, <2>4, <2>5
  <2> QED BY <2>6
<1> HIDE DEF T
<1>3. 0..N \subseteq T
  BY <1>1, <1>2, BoundedInduction
<1>4. N \in T
  BY <1>3
<1> QED BY <1>4 DEF T, Recursions
=============================================================================
