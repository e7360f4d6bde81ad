--------------------------- MODULE FiniteSetFacts ---------------------------
(***************************************************************************)
(* What Max and Min of the community modules return, for the proofs that   *)
(* take them of steps of a checkpoint and places in a declaration; how to  *)
(* go up from 0 through a recursive function; and how to count what a list *)
(* holds.                                                                  *)
(***************************************************************************)
EXTENDS Integers, FiniteSets, FiniteSetsExt, FiniteSetTheorems, TLAPS

(* A finite set of integers has a greatest and a least element: of the     *)
(* sets of what is beyond an element, one is minimal.                      *)
LEMMA Extremes ==
  ASSUME NEW S, S \subseteq Int, IsFiniteSet(S), S # {}
  PROVE  /\ \E x \in S : \A y \in S : x >= y
         /\ \E x \in S : \A y \in S : x =< y
<1>1. /\ FiniteSubsetsOf(S) = SUBSET S
      /\ IsWellFoundedOn(StrictSubsetOrdering(S), SUBSET S)
  BY FS_FiniteSubsetsOfFinite, FS_StrictSubsetOrderingWellFounded
<1>2. \E x \in S : \A y \in S : x >= y
  <2> DEFINE Beyond(x) == {m \in S : m > x}
             T == {Beyond(x) : x \in S}
  <2>1. T \subseteq SUBSET S /\ T # {}
    OBVIOUS
  <2>2. \E U \in T : \A W \in T : ~ (<<W, U>> \in StrictSubsetOrdering(S))
    <3> DEFINE R == StrictSubsetOrdering(S)
               D == SUBSET S
    <3>1. IsWellFoundedOn(R, D) /\ T \subseteq D /\ T # {}
      BY <1>1, <2>1
    <3> HIDE DEF T, R, D
    <3>2. \E U \in T : \A W \in T : ~ (<<W, U>> \in R)
      BY <3>1, WFMin
    <3> QED BY <3>2 DEF R
  <2>3. PICK x \in S : \A W \in T : ~ (<<W, Beyond(x)>> \in StrictSubsetOrdering(S))
    BY <2>2
  <2>4. ASSUME NEW y \in S, ~(x >= y) PROVE FALSE
    <3>1. y > x /\ x \in Int /\ y \in Int
      BY <2>4
    <3>2. Beyond(y) \subseteq Beyond(x) /\ y \in Beyond(x) /\ y \notin Beyond(y)
      <4>1. \A m \in S : m \in Int
        OBVIOUS
      <4>2. y \in Beyond(x) /\ y \notin Beyond(y)
        BY <3>1, <2>4
      <4>3. ASSUME NEW m \in Beyond(y) PROVE m \in Beyond(x)
        <5>1. m \in S /\ m \in Int
          BY <4>1
        <5> QED BY <5>1, <3>1
      <4> QED BY <4>2, <4>3
    <3>3. Beyond(y) \in T /\ Beyond(x) \in SUBSET S /\ Beyond(y) \in SUBSET S
      OBVIOUS
    <3> HIDE DEF Beyond
    <3> QED BY <2>3, <3>2, <3>3 DEF StrictSubsetOrdering
  <2> QED BY <2>4
<1>3. \E x \in S : \A y \in S : x =< y
  <2> DEFINE Beyond(x) == {m \in S : m < x}
             T == {Beyond(x) : x \in S}
  <2>1. T \subseteq SUBSET S /\ T # {}
    OBVIOUS
  <2>2. \E U \in T : \A W \in T : ~ (<<W, U>> \in StrictSubsetOrdering(S))
    <3> DEFINE R == StrictSubsetOrdering(S)
               D == SUBSET S
    <3>1. IsWellFoundedOn(R, D) /\ T \subseteq D /\ T # {}
      BY <1>1, <2>1
    <3> HIDE DEF T, R, D
    <3>2. \E U \in T : \A W \in T : ~ (<<W, U>> \in R)
      BY <3>1, WFMin
    <3> QED BY <3>2 DEF R
  <2>3. PICK x \in S : \A W \in T : ~ (<<W, Beyond(x)>> \in StrictSubsetOrdering(S))
    BY <2>2
  <2>4. ASSUME NEW y \in S, ~(x =< y) PROVE FALSE
    <3>1. y < x /\ x \in Int /\ y \in Int
      BY <2>4
    <3>2. Beyond(y) \subseteq Beyond(x) /\ y \in Beyond(x) /\ y \notin Beyond(y)
      <4>1. \A m \in S : m \in Int
        OBVIOUS
      <4>2. y \in Beyond(x) /\ y \notin Beyond(y)
        BY <3>1, <2>4
      <4>3. ASSUME NEW m \in Beyond(y) PROVE m \in Beyond(x)
        <5>1. m \in S /\ m \in Int
          BY <4>1
        <5> QED BY <5>1, <3>1
      <4> QED BY <4>2, <4>3
    <3>3. Beyond(y) \in T /\ Beyond(x) \in SUBSET S /\ Beyond(y) \in SUBSET S
      OBVIOUS
    <3> HIDE DEF Beyond
    <3> QED BY <2>3, <3>2, <3>3 DEF StrictSubsetOrdering
  <2> QED BY <2>4
<1> QED BY <1>2, <1>3

LEMMA MaxMin ==
  ASSUME NEW S, S \subseteq Int, IsFiniteSet(S), S # {}
  PROVE  /\ Max(S) \in S /\ \A y \in S : Max(S) >= y
         /\ Min(S) \in S /\ \A y \in S : Min(S) =< y
BY Extremes DEF Max, Min

(* Induction over 0..N on a set of numbers: the least number outside it    *)
(* would have a predecessor in it.                                         *)
LEMMA Upwards ==
  ASSUME NEW N \in Nat, NEW S, 0 \in S, \A k \in 1..N : k - 1 \in S => k \in S
  PROVE  \A k \in 0..N : k \in S
<1> DEFINE Out == {k \in 0..N : k \notin S}
<1>1. CASE Out # {}
  <2>1. Out \subseteq Int /\ IsFiniteSet(Out)
    <3>1. Out \subseteq 0..N /\ IsFiniteSet(0..N)
      BY FS_Interval
    <3> QED BY <3>1, FS_Subset
  <2>2. PICK m \in Out : \A k \in Out : m =< k
    BY <1>1, <2>1, Extremes
  <2>3. m \in 1..N /\ m \notin S /\ m - 1 \in 0..N
    BY <2>2
  <2>4. m - 1 \in S
    BY <2>2, <2>3
  <2> QED BY <2>3, <2>4
<1>2. CASE Out = {}
  BY <1>2
<1> QED BY <1>1, <1>2

(* f starts with b and goes on by F, whose steps stay in V; there is such  *)
(* an f.                                                                   *)
StepsIn(F, V, N) == \A x \in V, k \in 1..N : F[<<x, k>>] \in V
Recursion(f, b, F, N) == f[0] = b /\ \A k \in 1..N : f[k] = F[<<f[k - 1], k>>]

LEMMA RecursionExists ==
  ASSUME NEW V, NEW b \in V, NEW N \in Nat, NEW F,
         StepsIn(F, V, N)
  PROVE  \E f \in [0..N -> V] : Recursion(f, b, F, N)
<1> DEFINE Solves(f, n) == Recursion(f, b, F, n)
           S == {n \in 0..N : \E f \in [0..n -> V] : Solves(f, n)}
<1>1. 0 \in S
  <2> DEFINE f == [k \in 0..0 |-> b]
  <2>1. f \in [0..0 -> V] /\ Solves(f, 0) /\ 0 \in 0..N
    BY DEF Recursion
  <2> HIDE DEF f, Solves
  <2> QED BY <2>1
<1>2. ASSUME NEW n \in 1..N, n - 1 \in S PROVE n \in S
  <2>1. PICK f \in [0..(n - 1) -> V] : Solves(f, n - 1)
    BY <1>2
  <2> DEFINE g == [k \in 0..n |-> IF k = n THEN F[<<f[n - 1], n>>] ELSE f[k]]
  <2>2. g \in [0..n -> V]
    <3>1. f[n - 1] \in V
      BY <2>1
    <3>2. F[<<f[n - 1], n>>] \in V
      BY <3>1 DEF StepsIn
    <3> QED BY <3>2, <2>1
  <2>3. Solves(g, n)
    <3>1. g[0] = b
      BY <2>1 DEF Recursion
    <3>2. ASSUME NEW k \in 1..n PROVE g[k] = F[<<g[k - 1], k>>]
      <4>1. CASE k = n
        <5>1. n - 1 \in 0..n /\ n - 1 # n /\ n \in 0..n
          OBVIOUS
        <5>2. g[n - 1] = f[n - 1] /\ g[n] = F[<<f[n - 1], n>>]
          BY <5>1
        <5> HIDE DEF g
        <5> QED BY <5>2, <4>1
      <4>2. CASE k # n
        <5>1. k \in 1..(n - 1) /\ k \in 0..n /\ k - 1 \in 0..n /\ k - 1 # n
          BY <4>2
        <5> QED BY <5>1, <4>2, <2>1 DEF Recursion
      <4> QED BY <4>1, <4>2
    <3> QED BY <3>1, <3>2 DEF Recursion
  <2> HIDE DEF g, Solves
  <2> QED BY <2>2, <2>3
<1>3. N \in S
  <2> HIDE DEF S
  <2> QED BY <1>1, <1>2, Upwards
<1> QED BY <1>3

(* As many different elements as a set has are all of it.                  *)
LEMMA CountsAll ==
  ASSUME NEW n \in Nat, NEW T, IsFiniteSet(T), Cardinality(T) = n,
         NEW f \in [1..n -> T], \A j, k \in 1..n : f[j] = f[k] => j = k
  PROVE  \A t \in T : \E k \in 1..n : f[k] = t
<1>1. f \in Injection(1..n, T)
  BY DEF Injection, IsInjective
<1>2. Cardinality(1..n) = n
  BY FS_Interval
<1>3. f \in Surjection(1..n, T)
  BY <1>1, <1>2, FS_Injection
<1> QED BY <1>3 DEF Surjection

(* What is listed without repetition is as many as its list is long.       *)
LEMMA CountOfList ==
  ASSUME NEW n \in Nat, NEW f, DOMAIN f = 1..n,
         \A j, k \in 1..n : f[j] = f[k] => j = k
  PROVE  /\ IsFiniteSet({f[k] : k \in 1..n})
         /\ Cardinality({f[k] : k \in 1..n}) = n
<1> DEFINE T == {f[k] : k \in 1..n}
           g == [k \in 1..n |-> f[k]]
<1>1. g \in Bijection(1..n, T)
  BY DEF Bijection, Injection, Surjection, IsInjective
<1>2. ExistsBijection(1..n, T)
  BY <1>1 DEF ExistsBijection
<1>3. IsFiniteSet(1..n) /\ Cardinality(1..n) = n
  BY FS_Interval
<1> QED BY <1>2, <1>3, FS_Bijection

(* A list without repetition from a finite set is no longer than the set.  *)
LEMMA ListFits ==
  ASSUME NEW n \in Nat, NEW T, IsFiniteSet(T),
         NEW f \in [1..n -> T], \A j, k \in 1..n : f[j] = f[k] => j = k
  PROVE  n <= Cardinality(T)
<1>1. f \in Injection(1..n, T)
  BY DEF Injection, IsInjective
<1>2. Cardinality(1..n) = n
  BY FS_Interval
<1> QED BY <1>1, <1>2, FS_Injection
=============================================================================
