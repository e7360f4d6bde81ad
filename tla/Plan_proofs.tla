----------------------------- MODULE Plan_proofs -----------------------------
(***************************************************************************)
(* Proofs about the pure functions of a step, for every batch and every    *)
(* configuration: what a plan does with the rows of a batch (BatchPlan),   *)
(* and what the closed form of returns and advantages adds up (Credit).    *)
(* All are recursions; the lemmas about them go up from 0 (Upwards).       *)
(***************************************************************************)
EXTENDS BatchPlan, Credit, FiniteSetFacts, SequenceTheorems

-----------------------------------------------------------------------------
(* Sums and powers.                                                        *)

LEMMA ListIs ==
  ASSUME NEW n \in Nat, NEW S, NEW s \in [1..n -> S]
  PROVE  s \in Seq(S) /\ Len(s) = n /\ DOMAIN s = 1..n
OBVIOUS

LEMMA LenOf ==
  ASSUME NEW n \in Nat, NEW s, DOMAIN s = 1..n, s = [k \in 1..n |-> s[k]]
  PROVE  Len(s) = n
<1>1. s \in [1..n -> {s[k] : k \in 1..n}]
  OBVIOUS
<1> QED BY <1>1, ListIs

(* The sums of the beginnings of a sequence.                               *)
Partial(s) ==
  CHOOSE sum : sum = [k \in 0..Len(s) |-> IF k = 0 THEN 0 ELSE sum[k - 1] + s[k]]

LEMMA TotalIsPartial ==
  ASSUME NEW s
  PROVE  Total(s) = Partial(s)[Len(s)]
BY DEF Total, Partial

LEMMA PartialIs ==
  ASSUME NEW n \in Nat, NEW s \in [1..n -> Int]
  PROVE  /\ Partial(s) \in [0..n -> Int]
         /\ Partial(s)[0] = 0
         /\ \A k \in 1..n : Partial(s)[k] = Partial(s)[k - 1] + s[k]
<1>1. Len(s) = n
  BY ListIs
<1> DEFINE F == [e \in Int \X (1..n) |-> e[1] + s[e[2]]]
<1>2. \A x \in Int, k \in 1..n : F[<<x, k>>] = x + s[k] /\ F[<<x, k>>] \in Int
  OBVIOUS
<1>3. PICK f \in [0..n -> Int] : Recursion(f, 0, F, n)
  <2>1. 0 \in Int /\ StepsIn(F, Int, n)
    BY <1>2 DEF StepsIn
  <2> HIDE DEF F
  <2> QED BY <2>1, RecursionExists
<1>4. f = [k \in 0..n |-> IF k = 0 THEN 0 ELSE f[k - 1] + s[k]]
  <2>1. ASSUME NEW k \in 1..n PROVE f[k] = f[k - 1] + s[k]
    <3>1. f[k - 1] \in Int
      OBVIOUS
    <3> HIDE DEF F
    <3> QED BY <3>1, <1>2, <1>3 DEF Recursion
  <2> QED BY <2>1, <1>3 DEF Recursion
<1> DEFINE p == Partial(s)
<1>5. p = [k \in 0..n |-> IF k = 0 THEN 0 ELSE p[k - 1] + s[k]]
  BY <1>1, <1>4 DEF Partial
<1> HIDE DEF p
<1>6. DOMAIN p = 0..n /\ p[0] = 0 /\ \A k \in 1..n : p[k] = p[k - 1] + s[k]
  BY <1>5
<1> DEFINE S == {j \in 0..n : p[j] \in Int}
<1>7. \A k \in 0..n : k \in S
  <2>1. 0 \in S
    BY <1>6
  <2>2. ASSUME NEW k \in 1..n, k - 1 \in S PROVE k \in S
    <3>1. p[k - 1] \in Int /\ s[k] \in Int /\ k \in 0..n
      BY <2>2
    <3> QED BY <3>1, <1>6
  <2> HIDE DEF S
  <2> QED BY <2>1, <2>2, Upwards
<1>8. p = [k \in 0..n |-> p[k]]
  BY <1>5
<1>9. p \in [0..n -> Int]
  BY <1>7, <1>8
<1> QED BY <1>6, <1>9 DEF p

(* The sum of the first n values of f.                                     *)
First(f, n) == [i \in 1..n |-> f[i]]

LEMMA TotalNone ==
  ASSUME NEW s, DOMAIN s = 1..0
  PROVE  Total([i \in 1..0 |-> s[i]]) = 0 /\ Total(<< >>) = 0
<1>1. <<>> \in [1..0 -> Int] /\ [i \in 1..0 |-> s[i]] \in [1..0 -> Int]
  OBVIOUS
<1>2. \A t \in [1..0 -> Int] : Total(t) = 0
  BY PartialIs, ListIs, TotalIsPartial
<1> QED BY <1>1, <1>2

LEMMA TotalFirst ==
  ASSUME NEW N \in Nat, NEW f \in [1..N -> Int]
  PROVE  /\ \A n \in 0..N : Total(First(f, n)) = Partial(f)[n]
         /\ \A n \in 0..N : Total(First(f, n)) \in Int
         /\ Total(First(f, 0)) = 0
         /\ \A n \in 1..N : Total(First(f, n)) = Total(First(f, n - 1)) + f[n]
<1>1. ASSUME NEW n \in 0..N PROVE Total(First(f, n)) = Partial(f)[n]
  <2> DEFINE g == First(f, n)
             S == {k \in 0..n : Partial(g)[k] = Partial(f)[k]}
  <2>1. n \in Nat /\ g \in [1..n -> Int] /\ \A k \in 1..n : g[k] = f[k]
    BY DEF First
  <2>2. Len(g) = n
    BY <2>1, ListIs
  <2> HIDE DEF g
  <2>3. /\ Partial(g)[0] = 0
        /\ \A k \in 1..n : Partial(g)[k] = Partial(g)[k - 1] + g[k]
        /\ Partial(f)[0] = 0
        /\ \A k \in 1..N : Partial(f)[k] = Partial(f)[k - 1] + f[k]
    BY <2>1, PartialIs
  <2>4. 0 \in S
    BY <2>3
  <2>5. ASSUME NEW k \in 1..n, k - 1 \in S PROVE k \in S
    <3>1. Partial(g)[k - 1] = Partial(f)[k - 1] /\ k \in 1..N /\ k \in 0..n
      BY <2>5
    <3> QED BY <3>1, <2>3, <2>1
  <2>6. \A k \in 0..n : k \in S
    <3> HIDE DEF S
    <3> QED BY <2>1, <2>4, <2>5, Upwards
  <2>7. n \in S
    BY <2>1, <2>6
  <2> QED BY <2>2, <2>7, TotalIsPartial DEF g
<1>2. /\ Partial(f) \in [0..N -> Int]
      /\ Partial(f)[0] = 0
      /\ \A k \in 1..N : Partial(f)[k] = Partial(f)[k - 1] + f[k]
  BY PartialIs
<1>3. ASSUME NEW n \in 1..N PROVE Total(First(f, n)) = Total(First(f, n - 1)) + f[n]
  <2>1. n \in 0..N /\ n - 1 \in 0..N
    OBVIOUS
  <2> QED BY <2>1, <1>1, <1>2
<1>4. 0 \in 0..N /\ \A n \in 0..N : Partial(f)[n] \in Int
  BY <1>2
<1> QED BY <1>1, <1>2, <1>3, <1>4

LEMMA TotalIsFirst ==
  ASSUME NEW N \in Nat, NEW f \in [1..N -> Int]
  PROVE  Total(f) = Total(First(f, N)) /\ Total(f) \in Int
<1>1. First(f, N) = f
  BY DEF First
<1>2. N \in 0..N
  OBVIOUS
<1> QED BY <1>1, <1>2, TotalFirst

-----------------------------------------------------------------------------
(* The order in which rows are dealt and packed.                           *)

LEMMA AppendIs ==
  ASSUME NEW n \in Nat, NEW S, NEW s \in [1..n -> S], NEW e \in S
  PROVE  /\ Append(s, e) \in [1..(n + 1) -> S]
         /\ \A k \in 1..n : Append(s, e)[k] = s[k]
         /\ Append(s, e)[n + 1] = e
<1>1. s \in Seq(S) /\ Len(s) = n
  BY ListIs
<1>2. Append(s, e) \in Seq(S) /\ Len(Append(s, e)) = n + 1
  BY <1>1
<1>3. Append(s, e) \in [1..(n + 1) -> S]
  BY <1>2, LenProperties
<1> QED BY <1>1, <1>3

LEMMA ImageFinite ==
  ASSUME NEW S, IsFiniteSet(S), NEW f, S \subseteq DOMAIN f
  PROVE  IsFiniteSet({f[x] : x \in S})
<1> DEFINE g == [x \in S |-> f[x]]
           T == {f[x] : x \in S}
<1>1. g \in Surjection(S, T)
  BY DEF Surjection
<1> HIDE DEF g, T
<1>2. IsFiniteSet(T)
  BY <1>1, FS_Surjection
<1> QED BY <1>2 DEF T

Sizes(items, len) == items \subseteq DOMAIN len /\ \A p \in items : len[p] \in Int

LEMMA LongestIs ==
  ASSUME NEW items, IsFiniteSet(items), items \subseteq Int, items # {},
         NEW len, Sizes(items, len)
  PROVE  /\ Longest(items, len) \in items
         /\ \A q \in items : len[q] <= len[Longest(items, len)]
<1> DEFINE L == {len[p] : p \in items}
           M == {p \in items : \A q \in items : len[q] <= len[p]}
<1>1. IsFiniteSet(L)
  BY ImageFinite DEF Sizes
<1>2. L \subseteq Int /\ L # {}
  BY DEF Sizes
<1>3. PICK x \in L : \A y \in L : x >= y
  <2> HIDE DEF L
  <2> QED BY <1>1, <1>2, Extremes
<1>4. M # {}
  <2>1. PICK p \in items : x = len[p]
    BY <1>3
  <2>2. \A q \in items : len[q] <= len[p]
    BY <1>2, <1>3, <2>1
  <2> QED BY <2>2
<1>5. IsFiniteSet(M) /\ M \subseteq Int
  <2>1. M \in SUBSET items
    OBVIOUS
  <2> HIDE DEF M
  <2> QED BY <2>1, FS_Subset
<1>6. Min(M) \in M
  <2> HIDE DEF M
  <2> QED BY <1>4, <1>5, MaxMin
<1> QED BY <1>6 DEF Longest

(* s lists n different items, longest first, and none that is left is      *)
(* longer than one of them.                                                *)
Lists(s, n, items) ==
  /\ s \in [1..n -> items]
  /\ \A j, k \in 1..n : s[j] = s[k] => j = k
Falls(s, n, len) == \A j, k \in 1..n : j <= k => len[s[k]] <= len[s[j]]
Above(s, n, items, len) ==
  \A j \in 1..n : \A q \in items \ Range(s) : len[q] <= len[s[j]]

LEMMA ListRange ==
  ASSUME NEW n \in Nat, NEW items, NEW s, Lists(s, n, items)
  PROVE  /\ Range(s) = {s[k] : k \in 1..n} /\ Range(s) \subseteq items
         /\ IsFiniteSet(Range(s)) /\ Cardinality(Range(s)) = n
         /\ s \in Seq(items) /\ Len(s) = n
<1>1. s \in [1..n -> items] /\ DOMAIN s = 1..n
  BY DEF Lists
<1>2. Range(s) = {s[k] : k \in 1..n} /\ Range(s) \subseteq items
  BY <1>1 DEF Range
<1>3. IsFiniteSet({s[k] : k \in 1..n}) /\ Cardinality({s[k] : k \in 1..n}) = n
  BY <1>1, CountOfList DEF Lists
<1>4. s \in Seq(items) /\ Len(s) = n
  BY <1>1, ListIs
<1> QED BY <1>2, <1>3, <1>4

LEMMA ListsMore ==
  ASSUME NEW n \in Nat, NEW items, IsFiniteSet(items), items \subseteq Int,
         n < Cardinality(items), NEW len, Sizes(items, len),
         NEW s, Lists(s, n, items), Falls(s, n, len), Above(s, n, items, len),
         NEW t, t = Append(s, Longest(items \ Range(s), len))
  PROVE  Lists(t, n + 1, items) /\ Falls(t, n + 1, len) /\ Above(t, n + 1, items, len)
<1> DEFINE rest == items \ Range(s)
           top == Longest(rest, len)
<1>1. /\ Range(s) = {s[k] : k \in 1..n} /\ Range(s) \subseteq items
      /\ IsFiniteSet(Range(s)) /\ Cardinality(Range(s)) = n
      /\ s \in Seq(items) /\ Len(s) = n
  BY ListRange
<1>2. IsFiniteSet(rest) /\ rest \subseteq items /\ rest \subseteq Int /\ rest # {}
  <2>1. IsFiniteSet(rest)
    BY FS_Difference
  <2>2. rest # {}
    <3>1. Cardinality(items) # n
      <4>1. Cardinality(items) \in Nat
        BY FS_CardinalityType
      <4> QED BY <4>1
    <3>2. items # Range(s)
      BY <1>1, <3>1
    <3> QED BY <1>1, <3>2
  <2> QED BY <2>1, <2>2
<1>3. top \in rest /\ \A q \in rest : len[q] <= len[top]
  <2>1. Sizes(rest, len)
    BY <1>2 DEF Sizes
  <2> HIDE DEF rest
  <2> QED BY <1>2, <2>1, LongestIs
<1> HIDE DEF top
<1>4. top \in items /\ top \notin Range(s) /\ t = Append(s, top)
  BY <1>3 DEF top
<1>5. /\ t \in [1..(n + 1) -> items]
      /\ \A k \in 1..n : t[k] = s[k]
      /\ t[n + 1] = top
  BY <1>4, AppendIs DEF Lists
<1>6. \A k \in 1..(n + 1) : k = n + 1 \/ k \in 1..n
  OBVIOUS
<1>7. Lists(t, n + 1, items)
  <2>1. \A j \in 1..n : s[j] # top
    BY <1>1, <1>4
  <2>2. ASSUME NEW j \in 1..(n + 1), NEW k \in 1..(n + 1), t[j] = t[k] PROVE j = k
    BY <2>1, <2>2, <1>5, <1>6 DEF Lists
  <2> QED BY <1>5, <2>2 DEF Lists
<1>8. Falls(t, n + 1, len)
  <2>1. ASSUME NEW j \in 1..(n + 1), NEW k \in 1..(n + 1), j <= k
        PROVE  len[t[k]] <= len[t[j]]
    <3>1. CASE k \in 1..n
      <4>1. j \in 1..n
        BY <3>1, <2>1
      <4> QED BY <3>1, <4>1, <2>1, <1>5 DEF Falls
    <3>2. CASE k = n + 1 /\ j \in 1..n
      <4>1. len[top] <= len[s[j]]
        BY <3>2, <1>4 DEF Above
      <4>2. t[k] = top /\ t[j] = s[j]
        BY <3>2, <1>5
      <4> QED BY <4>1, <4>2
    <3>3. CASE k = n + 1 /\ j = n + 1
      <4>1. len[top] \in Int
        BY <1>4 DEF Sizes
      <4>2. t[k] = top /\ t[j] = top
        BY <3>3, <1>5
      <4>3. len[top] <= len[top]
        BY <4>1
      <4> QED BY <4>2, <4>3, Zenon
    <3> QED BY <3>1, <3>2, <3>3, <1>6
  <2> QED BY <2>1 DEF Falls
<1>9. Above(t, n + 1, items, len)
  <2>1. Range(t) = Range(s) \cup {top}
    <3>1. DOMAIN t = 1..(n + 1)
      BY <1>5
    <3>2. Range(t) = {t[k] : k \in 1..(n + 1)}
      BY <3>1 DEF Range
    <3>3. n + 1 \in 1..(n + 1) /\ \A k \in 1..n : k \in 1..(n + 1)
      OBVIOUS
    <3> QED BY <3>2, <3>3, <1>1, <1>5, <1>6
  <2>2. ASSUME NEW j \in 1..(n + 1), NEW q \in items \ Range(t)
        PROVE  len[q] <= len[t[j]]
    <3>1. q \in rest
      BY <2>1
    <3>2. CASE j \in 1..n
      BY <3>1, <3>2, <1>5 DEF Above
    <3>3. CASE j = n + 1
      BY <3>1, <3>3, <1>3, <1>5
    <3> QED BY <3>2, <3>3, <1>6
  <2> QED BY <2>2 DEF Above
<1> QED BY <1>7, <1>8, <1>9

Ordered(items, len) ==
  CHOOSE order : order = [n \in 0..Cardinality(items) |->
    IF n = 0 THEN << >>
    ELSE LET sofar == order[n - 1]
         IN  Append(sofar, Longest(items \ Range(sofar), len))]

LEMMA DescendingIsOrdered ==
  ASSUME NEW items, NEW len
  PROVE  Descending(items, len) = Ordered(items, len)[Cardinality(items)]
BY DEF Descending, Ordered

OrdersItems(f, items, len) ==
  f = [n \in 0..Cardinality(items) |->
         IF n = 0 THEN << >>
         ELSE Append(f[n - 1], Longest(items \ Range(f[n - 1]), len))]

LEMMA OrderedSolves ==
  ASSUME NEW items, NEW len, NEW f, OrdersItems(f, items, len)
  PROVE  OrdersItems(Ordered(items, len), items, len)
BY Zenon DEF Ordered, OrdersItems

LEMMA OrderedIs ==
  ASSUME NEW items, NEW len, NEW N \in Nat, N = Cardinality(items)
  PROVE  /\ Ordered(items, len)[0] = << >>
         /\ \A k \in 1..N :
              Ordered(items, len)[k] =
                Append(Ordered(items, len)[k - 1],
                       Longest(items \ Range(Ordered(items, len)[k - 1]), len))
<1> DEFINE W == items \cup {Longest(items \ X, len) : X \in SUBSET items}
           V == Seq(W)
           F == [e \in V \X (1..N) |->
                   Append(e[1], Longest(items \ Range(e[1]), len))]
<1>1. ASSUME NEW x \in V, NEW k \in 1..N
      PROVE  /\ F[<<x, k>>] = Append(x, Longest(items \ Range(x), len))
             /\ F[<<x, k>>] \in V
  <2>1. Longest(items \ Range(x), len) \in W
    <3>1. items \ Range(x) = items \ (Range(x) \cap items)
      OBVIOUS
    <3>2. Range(x) \cap items \in SUBSET items
      OBVIOUS
    <3> QED BY <3>1, <3>2
  <2>2. F[<<x, k>>] = Append(x, Longest(items \ Range(x), len))
    OBVIOUS
  <2>3. Append(x, Longest(items \ Range(x), len)) \in V
    <3> HIDE DEF W
    <3> QED BY <2>1
  <2> QED BY <2>2, <2>3
<1>2. PICK f \in [0..N -> V] : Recursion(f, << >>, F, N)
  <2>1. << >> \in V
    OBVIOUS
  <2> HIDE DEF F, V
  <2>2. StepsIn(F, V, N)
    <3>1. ASSUME NEW x \in V, NEW k \in 1..N PROVE F[<<x, k>>] \in V
      BY <1>1
    <3> QED BY <3>1 DEF StepsIn
  <2> QED BY <2>1, <2>2, RecursionExists
<1> DEFINE G(f1, n) == IF n = 0 THEN << >>
                       ELSE Append(f1[n - 1], Longest(items \ Range(f1[n - 1]), len))
<1> HIDE DEF F, V
<1>3. f = [n \in 0..N |-> G(f, n)]
  <2>1. ASSUME NEW n \in 1..N PROVE f[n] = G(f, n)
    <3>1. f[n - 1] \in V /\ n # 0
      BY <1>2
    <3>2. f[n] = F[<<f[n - 1], n>>]
      BY <1>2 DEF Recursion
    <3> QED BY <3>1, <3>2, <1>1
  <2>2. f[0] = << >>
    BY <1>2 DEF Recursion
  <2>3. \A n \in 0..N : f[n] = G(f, n)
    <3>1. \A n \in 0..N : n = 0 \/ n \in 1..N
      OBVIOUS
    <3>2. G(f, 0) = << >>
      OBVIOUS
    <3> HIDE DEF G
    <3> QED BY <2>1, <2>2, <3>1, <3>2
  <2>4. f = [n \in 0..N |-> f[n]]
    OBVIOUS
  <2> HIDE DEF G
  <2> QED BY <2>3, <2>4
<1> DEFINE o == Ordered(items, len)
<1> HIDE DEF o
<1>4. o = [n \in 0..N |-> G(o, n)]
  <2>1. f = [n \in 0..Cardinality(items) |-> G(f, n)]
    BY <1>3
  <2>2. OrdersItems(f, items, len)
    BY <2>1 DEF OrdersItems
  <2>3. OrdersItems(o, items, len)
    BY <2>2, OrderedSolves DEF o
  <2> QED BY <2>3 DEF OrdersItems
<1>5. o[0] = << >>
  BY <1>4
<1>6. ASSUME NEW k \in 1..N
      PROVE  o[k] = Append(o[k - 1], Longest(items \ Range(o[k - 1]), len))
  <2>1. o[k] = G(o, k) /\ k # 0
    <3> HIDE DEF G
    <3>1. k \in 0..N /\ k # 0
      OBVIOUS
    <3> QED BY <1>4, <3>1
  <2> QED BY <2>1
<1> QED BY <1>5, <1>6 DEF o

(* The order is a list of all the items, longest first.                    *)
LEMMA DescendingIs ==
  ASSUME NEW items, IsFiniteSet(items), items \subseteq Int,
         NEW len, Sizes(items, len),
         NEW N \in Nat, N = Cardinality(items)
  PROVE  /\ Lists(Descending(items, len), N, items)
         /\ Falls(Descending(items, len), N, len)
         /\ Range(Descending(items, len)) = items
<1> DEFINE o == Ordered(items, len)
           Good(k) == Lists(o[k], k, items) /\ Falls(o[k], k, len) /\ Above(o[k], k, items, len)
           S == {k \in 0..N : Good(k)}
<1>1. 0 \in S
  <2>1. o[0] = << >>
    BY OrderedIs
  <2>2. << >> \in [1..0 -> items]
    OBVIOUS
  <2>3. Lists(<< >>, 0, items) /\ Falls(<< >>, 0, len) /\ Above(<< >>, 0, items, len)
    BY <2>2 DEF Lists, Falls, Above
  <2>4. 0 \in 0..N
    OBVIOUS
  <2> HIDE DEF o
  <2> QED BY <2>1, <2>3, <2>4
<1>2. ASSUME NEW k \in 1..N, k - 1 \in S PROVE k \in S
  <2>1. Good(k - 1) /\ k - 1 \in Nat /\ k - 1 < Cardinality(items) /\ (k - 1) + 1 = k /\ k \in 0..N
    BY <1>2
  <2>2. o[k] = Append(o[k - 1], Longest(items \ Range(o[k - 1]), len))
    BY OrderedIs
  <2> HIDE DEF o
  <2>3. Good((k - 1) + 1)
    BY <2>1, <2>2, ListsMore
  <2> QED BY <2>1, <2>3
<1>3. N \in S
  <2>1. \A k \in 0..N : k \in S
    <3> HIDE DEF S
    <3> QED BY <1>1, <1>2, Upwards
  <2> QED BY <2>1
<1>4. Descending(items, len) = o[N]
  BY DescendingIsOrdered
<1>5. Good(N)
  BY <1>3
<1>6. Range(o[N]) = items
  <2> HIDE DEF o
  <2>1. Range(o[N]) \in SUBSET items /\ Cardinality(Range(o[N])) = N
    BY <1>5, ListRange
  <2> QED BY <2>1, FS_Subset
<1> HIDE DEF o
<1> QED BY <1>4, <1>5, <1>6

-----------------------------------------------------------------------------
(* Dealing: every bin gets items of its own, and all are dealt.            *)

LEMMA Times ==
  ASSUME NEW a \in Nat, NEW b \in Nat, NEW c \in Nat, a <= b
  PROVE  a * c \in Nat /\ b * c \in Nat /\ a * c <= b * c
OBVIOUS

LEMMA DealtIs ==
  ASSUME NEW bins \in Nat \ {0}, NEW r \in Nat \ {0}, NEW b \in 1..bins
  PROVE  /\ Dealt(r, b, bins) \in Nat
         /\ (r - 1) * bins < Dealt(r, b, bins) /\ Dealt(r, b, bins) <= r * bins
         /\ (r - 1) * bins \in Nat /\ r * bins \in Nat
<1> DEFINE x == (r - 1) * bins
<1>1. x \in Nat /\ r * bins = x + bins
  BY Times
<1>2. \/ Dealt(r, b, bins) = x + b
      \/ Dealt(r, b, bins) = x + (bins + 1 - b)
  BY DEF Dealt
<1> HIDE DEF x
<1>3. Dealt(r, b, bins) \in Nat /\ x < Dealt(r, b, bins) /\ Dealt(r, b, bins) <= x + bins
  BY <1>1, <1>2
<1> QED BY <1>1, <1>3 DEF x

LEMMA DealtOnce ==
  ASSUME NEW bins \in Nat \ {0}, NEW r \in Nat \ {0}, NEW q \in Nat \ {0},
         NEW b \in 1..bins, NEW c \in 1..bins, Dealt(r, b, bins) = Dealt(q, c, bins)
  PROVE  r = q /\ b = c
<1>1. ASSUME NEW v \in Nat \ {0}, NEW w \in Nat \ {0}, NEW d \in 1..bins, NEW e \in 1..bins,
             v < w
      PROVE  Dealt(v, d, bins) < Dealt(w, e, bins)
  <2>1. v * bins <= (w - 1) * bins
    <3>1. v <= w - 1 /\ w - 1 \in Nat
      BY <1>1
    <3> QED BY <3>1, Times
  <2> DEFINE X == v * bins
             Y == (w - 1) * bins
  <2>2. X \in Nat /\ Y \in Nat /\ Dealt(v, d, bins) \in Nat /\ Dealt(w, e, bins) \in Nat
    BY DealtIs
  <2>3. Dealt(v, d, bins) <= X /\ Y < Dealt(w, e, bins)
    BY DealtIs
  <2> HIDE DEF X, Y
  <2>4. X <= Y
    BY <2>1 DEF X, Y
  <2> QED BY <2>2, <2>3, <2>4
<1>2. Dealt(r, b, bins) \in Nat /\ Dealt(q, c, bins) \in Nat
  BY DealtIs
<1>3. r = q
  <2>1. ~(r < q)
    <3>1. r < q => Dealt(r, b, bins) < Dealt(q, c, bins)
      BY <1>1
    <3> QED BY <3>1, <1>2
  <2>2. ~(q < r)
    <3>1. q < r => Dealt(q, c, bins) < Dealt(r, b, bins)
      BY <1>1
    <3> QED BY <3>1, <1>2
  <2> QED BY <2>1, <2>2
<1> DEFINE x == (r - 1) * bins
<1>4. x \in Nat
  BY DealtIs
<1>5. /\ Dealt(r, b, bins) = x + IF r % 2 = 1 THEN b ELSE bins + 1 - b
      /\ Dealt(r, c, bins) = x + IF r % 2 = 1 THEN c ELSE bins + 1 - c
  BY DEF Dealt
<1> HIDE DEF x
<1>6. b = c
  <2>1. CASE r % 2 = 1
    <3>1. x + b = x + c
      BY <1>3, <1>5, <2>1
    <3> QED BY <3>1, <1>4
  <2>2. CASE r % 2 # 1
    <3>1. x + (bins + 1 - b) = x + (bins + 1 - c)
      BY <1>3, <1>5, <2>2
    <3> QED BY <3>1, <1>4
  <2> QED BY <2>1, <2>2
<1> QED BY <1>3, <1>6

LEMMA DealtAll ==
  ASSUME NEW bins \in Nat \ {0}, NEW j \in Nat \ {0}
  PROVE  \E r \in 1..j, b \in 1..bins : Dealt(r, b, bins) = j
<1> DEFINE q == (j - 1) \div bins
           m == (j - 1) % bins
<1>1. q \in Nat /\ m \in 0..(bins - 1) /\ j - 1 = bins * q + m
  <2>1. j - 1 \in Nat /\ bins > 0 /\ bins \in Nat
    OBVIOUS
  <2>2. \A u \in Nat, v \in Nat : v > 0 =>
          u \div v \in Nat /\ u % v \in 0..(v - 1) /\ u = v * (u \div v) + (u % v)
    OBVIOUS
  <2> QED BY <2>1, <2>2
<1> HIDE DEF q, m
<1>2. q + 1 \in 1..j
  <2>1. 1 * q <= bins * q
    <3>1. 1 <= bins /\ bins \in Nat
      OBVIOUS
    <3> QED BY <3>1, <1>1, Times
  <2> DEFINE X == bins * q
  <2>2. X \in Nat /\ q <= X
    BY <2>1, <1>1, Times
  <2>3. j - 1 = X + m
    BY <1>1
  <2> HIDE DEF X
  <2> QED BY <2>2, <2>3, <1>1
<1> DEFINE r == q + 1
           b == IF r % 2 = 1 THEN m + 1 ELSE bins - m
<1>3. b \in 1..bins
  BY <1>1
<1>4. Dealt(r, b, bins) = j
  <2> DEFINE X == bins * q
  <2>1. X \in Int /\ (r - 1) * bins = X
    <3>1. r - 1 = q
      BY <1>1
    <3>2. q * bins = bins * q /\ bins * q \in Int
      BY <1>1
    <3> QED BY <3>1, <3>2
  <2>2. j = X + m + 1
    BY <1>1
  <2>3. Dealt(r, b, bins) = X + IF r % 2 = 1 THEN b ELSE bins + 1 - b
    BY <2>1 DEF Dealt
  <2>4. (IF r % 2 = 1 THEN b ELSE bins + 1 - b) = m + 1
    BY <1>1
  <2> HIDE DEF X, r, b
  <2> QED BY <2>1, <2>2, <2>3, <2>4, <1>1
<1> HIDE DEF b
<1> QED BY <1>2, <1>3, <1>4

(* What goes down to 1 without a gap is an interval.                       *)
LEMMA NoGap ==
  ASSUME NEW n \in Nat, NEW S \in SUBSET (1..n), \A r \in S : r > 1 => r - 1 \in S
  PROVE  S = 1..Cardinality(S) /\ Cardinality(S) \in 0..n
<1>1. IsFiniteSet(S) /\ S \subseteq Int
  <2>1. IsFiniteSet(1..n)
    BY FS_Interval
  <2>2. S \subseteq Int
    OBVIOUS
  <2> QED BY <2>1, <2>2, FS_Subset
<1>2. CASE S = {}
  BY <1>2, FS_EmptySet
<1>3. CASE S # {}
  <2>1. PICK m \in S : \A y \in S : m >= y
    BY <1>1, <1>3, Extremes
  <2> DEFINE D == {j \in 0..(m - 1) : m - j \in S}
  <2>2. m - 1 \in Nat /\ 0 \in D
    <3>1. m \in 1..n
      OBVIOUS
    <3>2. m - 0 = m /\ m - 1 \in Nat /\ 0 \in 0..(m - 1)
      BY <3>1
    <3> QED BY <3>2
  <2>3. ASSUME NEW k \in 1..(m - 1), k - 1 \in D PROVE k \in D
    <3>1. m - (k - 1) \in S /\ m - (k - 1) > 1 /\ k \in 0..(m - 1)
      BY <2>3
    <3>2. (m - (k - 1)) - 1 \in S
      BY <3>1
    <3>3. (m - (k - 1)) - 1 = m - k
      OBVIOUS
    <3> QED BY <3>1, <3>2, <3>3
  <2>4. \A k \in 0..(m - 1) : k \in D
    <3> HIDE DEF D
    <3> QED BY <2>2, <2>3, Upwards
  <2>5. S = 1..m
    <3>1. ASSUME NEW i \in 1..m PROVE i \in S
      <4>1. m - i \in 0..(m - 1) /\ m - (m - i) = i
        OBVIOUS
      <4>2. m - i \in D
        BY <4>1, <2>4
      <4> QED BY <4>1, <4>2
    <3>2. ASSUME NEW i \in S PROVE i \in 1..m
      <4>1. i \in 1..n /\ m >= i
        BY <2>1
      <4> QED BY <4>1
    <3> QED BY <3>1, <3>2
  <2>6. Cardinality(S) = m
    <3>1. 1 \in Int /\ m \in Int /\ 1 <= m
      OBVIOUS
    <3>2. Cardinality(1..m) = m
      BY <3>1, FS_Interval
    <3> QED BY <2>5, <3>2
  <2> QED BY <2>5, <2>6
<1> QED BY <1>2, <1>3

(* The rounds in which bin b is served.                                    *)
Rounds(n, b, bins) == {r \in 1..n : Dealt(r, b, bins) <= n}

LEMMA RoundsAre ==
  ASSUME NEW n \in Nat, NEW bins \in Nat \ {0}, NEW b \in 1..bins
  PROVE  /\ Rounds(n, b, bins) = 1..Cardinality(Rounds(n, b, bins))
         /\ Cardinality(Rounds(n, b, bins)) \in 0..n
         /\ bins <= n => Cardinality(Rounds(n, b, bins)) >= 1
         /\ \A m \in Nat : n = m * bins => Cardinality(Rounds(n, b, bins)) = m
<1> DEFINE S == Rounds(n, b, bins)
<1>1. ASSUME NEW r \in S, r > 1 PROVE r - 1 \in S
  <2>1. r \in 1..n /\ Dealt(r, b, bins) <= n /\ r - 1 \in 1..n
    BY <1>1 DEF Rounds
  <2>2. r \in Nat \ {0} /\ r - 1 \in Nat \ {0}
    BY <2>1
  <2> DEFINE X == (r - 1) * bins
  <2>3. X < Dealt(r, b, bins) /\ Dealt(r, b, bins) \in Nat /\ X \in Nat
    BY <2>2, DealtIs
  <2>4. Dealt(r - 1, b, bins) <= X /\ Dealt(r - 1, b, bins) \in Nat
    BY <2>2, DealtIs
  <2> HIDE DEF X
  <2>5. Dealt(r - 1, b, bins) <= n
    BY <2>1, <2>3, <2>4
  <2> QED BY <2>1, <2>5 DEF Rounds
<1>2. S = 1..Cardinality(S) /\ Cardinality(S) \in 0..n
  <2>1. S \in SUBSET (1..n)
    BY DEF Rounds
  <2> HIDE DEF S
  <2> QED BY <2>1, <1>1, NoGap
<1>3. ASSUME bins <= n PROVE Cardinality(S) >= 1
  <2>1. Dealt(1, b, bins) = b
    <3>1. 1 % 2 = 1 /\ (1 - 1) * bins = 0
      OBVIOUS
    <3> QED BY <3>1 DEF Dealt
  <2>2. 1 \in 1..n /\ b <= n
    BY <1>3
  <2>3. 1 \in S
    BY <2>1, <2>2 DEF Rounds
  <2> HIDE DEF S
  <2> QED BY <2>3, <1>2
<1>4. ASSUME NEW m \in Nat, n = m * bins PROVE Cardinality(S) = m
  <2>1. m <= n
    <3>1. 1 * m <= bins * m
      BY Times
    <3>2. bins * m = m * bins /\ 1 * m = m
      OBVIOUS
    <3> QED BY <3>1, <3>2, <1>4
  <2>2. ASSUME NEW r \in 1..m PROVE r \in S
    <3>1. r * bins <= m * bins
      BY Times
    <3>2. r \in Nat \ {0}
      OBVIOUS
    <3> DEFINE X == r * bins
    <3>3. Dealt(r, b, bins) <= X /\ Dealt(r, b, bins) \in Nat /\ X \in Nat
      BY <3>2, DealtIs
    <3>4. X <= n
      BY <3>1, <1>4
    <3> HIDE DEF X
    <3>5. Dealt(r, b, bins) <= n
      BY <3>3, <3>4
    <3>6. r \in 1..n
      BY <2>1
    <3> QED BY <3>5, <3>6 DEF Rounds
  <2>3. ASSUME NEW r \in S PROVE r \in 1..m
    <3>1. r \in 1..n /\ Dealt(r, b, bins) <= n
      BY DEF Rounds
    <3>2. r \in Nat \ {0}
      BY <3>1
    <3>3. CASE r > m
      <4>1. m <= r - 1 /\ r - 1 \in Nat
        BY <3>2, <3>3
      <4>2. m * bins <= (r - 1) * bins
        BY <4>1, Times
      <4> DEFINE X == (r - 1) * bins
      <4>3. X < Dealt(r, b, bins) /\ Dealt(r, b, bins) \in Nat /\ X \in Nat
        BY <3>2, DealtIs
      <4>4. n <= X
        BY <4>2, <1>4
      <4> HIDE DEF X
      <4> QED BY <3>1, <4>3, <4>4
    <3> QED BY <3>1, <3>3
  <2>4. S = 1..m
    BY <2>2, <2>3
  <2> HIDE DEF S
  <2>5. Cardinality(S) \in Nat /\ 1..Cardinality(S) = 1..m
    BY <2>4, <1>2
  <2> DEFINE k == Cardinality(S)
  <2> HIDE DEF k
  <2>6. k \in Nat /\ 1..k = 1..m
    BY <2>5 DEF k
  <2>7. k = m
    <3>1. k \in 1..k \/ k = 0
      BY <2>6
    <3>2. m \in 1..m \/ m = 0
      OBVIOUS
    <3>3. k = 0 \/ k <= m
      BY <3>1, <2>6
    <3>4. m = 0 \/ m <= k
      BY <3>2, <2>6
    <3>5. k # 0 => m # 0
      BY <3>3, <2>6
    <3>6. m # 0 => k # 0
      BY <3>4, <2>6
    <3> QED BY <3>3, <3>4, <3>5, <3>6, <2>6
  <2> QED BY <2>7 DEF k
<1> QED BY <1>2, <1>3, <1>4

(* s spreads the items over its bins: each has a list of some of its own,  *)
(* and every item is in one.                                               *)
Spreads(s, bins, items) ==
  /\ DOMAIN s = 1..bins
  /\ \A b \in 1..bins : Len(s[b]) \in Nat /\ Lists(s[b], Len(s[b]), items)
  /\ \A b, c \in 1..bins : \A r \in 1..Len(s[b]), q \in 1..Len(s[c]) :
       s[b][r] = s[c][q] => b = c /\ r = q
  /\ \A i \in items : \E b \in 1..bins : \E r \in 1..Len(s[b]) : s[b][r] = i

LEMMA SnakeSpreads ==
  ASSUME NEW n \in Nat, NEW items, NEW order, Lists(order, n, items), Range(order) = items,
         NEW bins \in Nat \ {0}
  PROVE  /\ Spreads(Snake(order, bins), bins, items)
         /\ bins <= n => \A b \in 1..bins : Len(Snake(order, bins)[b]) >= 1
         /\ \A m \in Nat : n = m * bins =>
              \A b \in 1..bins : Len(Snake(order, bins)[b]) = m
<1> DEFINE s == Snake(order, bins)
           R(b) == Cardinality(Rounds(n, b, bins))
<1>1. order \in [1..n -> items] /\ Len(order) = n /\ DOMAIN order = 1..n
  BY ListIs DEF Lists
<1>2. DOMAIN s = 1..bins
  BY DEF Snake
<1>3. ASSUME NEW b \in 1..bins
      PROVE  s[b] = [r \in 1..R(b) |-> order[Dealt(r, b, bins)]]
  BY <1>1 DEF Snake, Rounds
<1>4. ASSUME NEW b \in 1..bins
      PROVE  /\ R(b) \in Nat
             /\ \A r \in 1..R(b) : r \in Nat \ {0} /\ Dealt(r, b, bins) \in 1..n
             /\ \A r \in Nat \ {0} : Dealt(r, b, bins) \in 1..n => r \in 1..R(b)
  <2>1. Rounds(n, b, bins) = 1..R(b) /\ R(b) \in 0..n
    BY RoundsAre
  <2>2. R(b) \in Nat
    BY <2>1
  <2>3. ASSUME NEW r \in 1..R(b) PROVE r \in Nat \ {0} /\ Dealt(r, b, bins) \in 1..n
    <3>1. r \in 1..n /\ Dealt(r, b, bins) <= n
      BY <2>1 DEF Rounds
    <3>2. r \in Nat \ {0}
      BY <3>1
    <3> DEFINE X == (r - 1) * bins
    <3>3. X \in Nat /\ X < Dealt(r, b, bins) /\ Dealt(r, b, bins) \in Nat
      BY <3>2, DealtIs
    <3> HIDE DEF X
    <3>4. Dealt(r, b, bins) \in 1..n
      BY <3>1, <3>3
    <3> QED BY <3>2, <3>4
  <2>4. ASSUME NEW r \in Nat \ {0}, Dealt(r, b, bins) \in 1..n PROVE r \in 1..R(b)
    <3>1. r <= n
      <4> DEFINE X == (r - 1) * bins
      <4>1. X \in Nat /\ X < Dealt(r, b, bins) /\ Dealt(r, b, bins) \in Nat
        BY DealtIs
      <4>2. r - 1 <= X
        <5>1. 1 * (r - 1) <= bins * (r - 1)
          <6>1. r - 1 \in Nat /\ 1 <= bins
            OBVIOUS
          <6> QED BY <6>1, Times
        <5>2. 1 * (r - 1) = r - 1 /\ bins * (r - 1) = (r - 1) * bins
          OBVIOUS
        <5> QED BY <5>1, <5>2
      <4> HIDE DEF X
      <4> QED BY <4>1, <4>2, <2>4
    <3>2. r \in Rounds(n, b, bins)
      BY <3>1, <2>4 DEF Rounds
    <3> QED BY <3>2, <2>1
  <2> QED BY <2>2, <2>3, <2>4
<1> HIDE DEF R
<1>5. ASSUME NEW b \in 1..bins
      PROVE  s[b] \in [1..R(b) -> items] /\ Len(s[b]) = R(b)
  <2>1. \A r \in 1..R(b) : order[Dealt(r, b, bins)] \in items
    BY <1>1, <1>4
  <2>2. s[b] \in [1..R(b) -> items]
    <3> HIDE DEF s
    <3> QED BY <2>1, <1>3
  <2>3. R(b) \in Nat
    BY <1>4
  <2> HIDE DEF s
  <2> QED BY <2>2, <2>3, ListIs
<1>6. ASSUME NEW b \in 1..bins, NEW c \in 1..bins,
             NEW r \in 1..R(b), NEW q \in 1..R(c), s[b][r] = s[c][q]
      PROVE  b = c /\ r = q
  <2>1. order[Dealt(r, b, bins)] = order[Dealt(q, c, bins)]
    <3> HIDE DEF s
    <3> QED BY <1>3, <1>6
  <2>2. Dealt(r, b, bins) = Dealt(q, c, bins)
    BY <2>1, <1>4 DEF Lists
  <2>3. r \in Nat \ {0} /\ q \in Nat \ {0}
    BY <1>4
  <2> QED BY <2>2, <2>3, DealtOnce
<1>7. ASSUME NEW i \in items
      PROVE  \E b \in 1..bins : \E r \in 1..R(b) : s[b][r] = i
  <2>1. PICK j \in 1..n : order[j] = i
    BY <1>1 DEF Range
  <2>2. j \in Nat \ {0}
    OBVIOUS
  <2>3. PICK r \in 1..j, b \in 1..bins : Dealt(r, b, bins) = j
    BY <2>2, DealtAll
  <2>4. r \in Nat \ {0}
    OBVIOUS
  <2>5. r \in 1..R(b)
    BY <2>3, <2>4, <1>4
  <2>6. s[b][r] = i
    <3> HIDE DEF s
    <3> QED BY <2>1, <2>3, <2>5, <1>3
  <2> QED BY <2>5, <2>6
<1>8. Spreads(s, bins, items)
  <2> HIDE DEF s
  <2>1. \A b \in 1..bins : Len(s[b]) \in Nat /\ Lists(s[b], Len(s[b]), items)
    <3> SUFFICES ASSUME NEW b \in 1..bins
                 PROVE  Len(s[b]) \in Nat /\ Lists(s[b], Len(s[b]), items)
      OBVIOUS
    <3>1. s[b] \in [1..R(b) -> items] /\ Len(s[b]) = R(b) /\ R(b) \in Nat
      BY <1>4, <1>5
    <3>2. \A j, k \in 1..R(b) : s[b][j] = s[b][k] => j = k
      BY <1>6
    <3> QED BY <3>1, <3>2 DEF Lists
  <2>2. \A b, c \in 1..bins : \A r \in 1..Len(s[b]), q \in 1..Len(s[c]) :
          s[b][r] = s[c][q] => b = c /\ r = q
    BY <1>5, <1>6
  <2>3. \A i \in items : \E b \in 1..bins : \E r \in 1..Len(s[b]) : s[b][r] = i
    BY <1>5, <1>7
  <2> QED BY <1>2, <2>1, <2>2, <2>3 DEF Spreads
<1>9. bins <= n => \A b \in 1..bins : Len(s[b]) >= 1
  BY <1>5, RoundsAre DEF R
<1>10. \A m \in Nat : n = m * bins => \A b \in 1..bins : Len(s[b]) = m
  BY <1>5, RoundsAre DEF R
<1> QED BY <1>8, <1>9, <1>10

-----------------------------------------------------------------------------
(* Packing: micro-batches spread the rows that were placed.                *)

LEMMA RoundUpIs ==
  ASSUME NEW x \in Nat, NEW align \in Nat \ {0}
  PROVE  RoundUp(x, align) \in Nat /\ x <= RoundUp(x, align) /\ RoundUp(x, align) % align = 0
<1> DEFINE y == x + align - 1
           q == y \div align
           X == q * align
<1>1. \A u \in Nat, v \in Nat : v > 0 =>
        u \div v \in Nat /\ u % v \in 0..(v - 1) /\ u = (u \div v) * v + (u % v)
  OBVIOUS
<1>2. y \in Nat /\ align \in Nat /\ align > 0
  OBVIOUS
<1>3. q \in Nat /\ y % align \in 0..(align - 1) /\ y = X + (y % align)
  BY <1>1, <1>2
<1>4. X \in Nat
  <2> HIDE DEF q
  <2> QED BY <1>2, <1>3, Times
<1>5. X % align = 0
  <2> HIDE DEF q
  <2>1. \A u \in Nat, v \in Nat : v > 0 => (u * v) % v = 0
    OBVIOUS
  <2> QED BY <2>1, <1>2, <1>3
<1>6. RoundUp(x, align) = X
  BY DEF RoundUp
<1>7. x <= X
  <2>1. \A u \in Int, v \in Int, w \in Int :
          w \in 0..(v - 1) /\ x + v - 1 = u + w => x <= u
    OBVIOUS
  <2> HIDE DEF X
  <2>2. x + align - 1 = X + (y % align)
    BY <1>3
  <2> HIDE DEF y
  <2> QED BY <2>1, <2>2, <1>2, <1>3, <1>4
<1> QED BY <1>4, <1>5, <1>6, <1>7

(* A new bin for a new item, and a new item at the end of a bin.           *)
LEMMA SpreadsNew ==
  ASSUME NEW B \in Nat, NEW X, NEW s, Spreads(s, B, X), NEW p, p \notin X,
         NEW t, DOMAIN t = 1..(B + 1), \A b \in 1..B : t[b] = s[b], t[B + 1] = <<p>>
  PROVE  Spreads(t, B + 1, X \cup {p})
<1> DEFINE Y == X \cup {p}
<1>1. \A b \in 1..(B + 1) : b = B + 1 \/ b \in 1..B
  OBVIOUS
<1>2. Len(t[B + 1]) = 1 /\ t[B + 1] \in [1..1 -> Y] /\ t[B + 1][1] = p
  OBVIOUS
<1>3. \A b \in 1..B : Len(t[b]) \in Nat /\ t[b] \in [1..Len(t[b]) -> X]
  BY DEF Spreads, Lists
<1>4. \A b \in 1..B : t[b] \in [1..Len(t[b]) -> Y]
  BY <1>3
<1>5. \A b, c \in 1..B : \A r \in 1..Len(t[b]), q \in 1..Len(t[c]) :
        t[b][r] = t[c][q] => b = c /\ r = q
  BY DEF Spreads
<1>6. \A b \in 1..B : \A r \in 1..Len(t[b]) : t[b][r] # p
  BY <1>3
<1>7. \A r \in 1..1 : r = 1
  OBVIOUS
<1>8. ASSUME NEW b \in 1..(B + 1), NEW c \in 1..(B + 1),
             NEW r \in 1..Len(t[b]), NEW q \in 1..Len(t[c]), t[b][r] = t[c][q]
      PROVE  b = c /\ r = q
  <2>1. CASE b \in 1..B /\ c \in 1..B
    BY <2>1, <1>5, <1>8
  <2>2. CASE b = B + 1 /\ c = B + 1
    BY <2>2, <1>2, <1>7
  <2>3. CASE b \in 1..B /\ c = B + 1
    BY <2>3, <1>2, <1>6, <1>7, <1>8
  <2>4. CASE b = B + 1 /\ c \in 1..B
    BY <2>4, <1>2, <1>6, <1>7, <1>8
  <2> QED BY <2>1, <2>2, <2>3, <2>4, <1>1
<1>9. ASSUME NEW i \in Y
      PROVE  \E b \in 1..(B + 1) : \E r \in 1..Len(t[b]) : t[b][r] = i
  <2>1. CASE i = p
    <3>1. B + 1 \in 1..(B + 1) /\ 1 \in 1..Len(t[B + 1])
      BY <1>2
    <3> QED BY <3>1, <2>1, <1>2
  <2>2. CASE i \in X
    <3>1. PICK b \in 1..B : \E r \in 1..Len(s[b]) : s[b][r] = i
      BY <2>2 DEF Spreads
    <3>3. PICK r \in 1..Len(s[b]) : s[b][r] = i
      BY <3>1
    <3>2. b \in 1..(B + 1) /\ r \in 1..Len(t[b]) /\ t[b][r] = i
      BY <3>3
    <3> QED BY <3>2
  <2> QED BY <2>1, <2>2
<1>10. \A b \in 1..(B + 1) : Len(t[b]) \in Nat /\ Lists(t[b], Len(t[b]), Y)
  <2> SUFFICES ASSUME NEW b \in 1..(B + 1)
               PROVE  Len(t[b]) \in Nat /\ Lists(t[b], Len(t[b]), Y)
    OBVIOUS
  <2>1. Len(t[b]) \in Nat /\ t[b] \in [1..Len(t[b]) -> Y]
    <3>1. CASE b \in 1..B
      BY <3>1, <1>3, <1>4
    <3>2. CASE b = B + 1
      <4>1. 1 \in Nat
        OBVIOUS
      <4> HIDE DEF Y
      <4> QED BY <4>1, <3>2, <1>2
    <3> QED BY <3>1, <3>2, <1>1
  <2>2. \A j, k \in 1..Len(t[b]) : t[b][j] = t[b][k] => j = k
    BY <1>8
  <2> QED BY <2>1, <2>2 DEF Lists
<1> QED BY <1>8, <1>9, <1>10 DEF Spreads

LEMMA SpreadsGrown ==
  ASSUME NEW B \in Nat, NEW X, NEW s, Spreads(s, B, X), NEW p, p \notin X,
         NEW i \in 1..B, NEW t, DOMAIN t = 1..B,
         \A b \in 1..B : b # i => t[b] = s[b], t[i] = Append(s[i], p)
  PROVE  /\ Spreads(t, B, X \cup {p})
         /\ Len(t[i]) = Len(s[i]) + 1
         /\ \A k \in 1..Len(s[i]) : t[i][k] = s[i][k]
         /\ t[i][Len(t[i])] = p
<1> DEFINE Y == X \cup {p}
           m == Len(s[i])
<1>1. m \in Nat /\ s[i] \in [1..m -> Y]
  BY DEF Spreads, Lists
<1>2. t[i] \in [1..(m + 1) -> Y] /\ (\A k \in 1..m : t[i][k] = s[i][k]) /\ t[i][m + 1] = p
  <2>1. p \in Y
    OBVIOUS
  <2> HIDE DEF Y, m
  <2> QED BY <1>1, <2>1, AppendIs
<1>3. Len(t[i]) = m + 1
  <2> HIDE DEF Y, m
  <2>1. m + 1 \in Nat
    BY <1>1
  <2> QED BY <2>1, <1>2, ListIs
<1> HIDE DEF m
<1>4. \A k \in 1..(m + 1) : k = m + 1 \/ k \in 1..m
  BY <1>1
<1>5. \A b \in 1..B : Len(s[b]) \in Nat /\ s[b] \in [1..Len(s[b]) -> X]
  BY DEF Spreads, Lists
<1>6. \A b \in 1..B : Len(t[b]) \in Nat /\ t[b] \in [1..Len(t[b]) -> Y]
  <2> SUFFICES ASSUME NEW b \in 1..B
               PROVE  Len(t[b]) \in Nat /\ t[b] \in [1..Len(t[b]) -> Y]
    OBVIOUS
  <2>1. CASE b = i
    BY <2>1, <1>1, <1>2, <1>3
  <2>2. CASE b # i
    BY <2>2, <1>5
  <2> QED BY <2>1, <2>2
(* A place of t is one of s, or the last of bin i.                         *)
<1>7. ASSUME NEW b \in 1..B, NEW r \in 1..Len(t[b])
      PROVE  \/ b = i /\ r = m + 1 /\ t[b][r] = p
             \/ r \in 1..Len(s[b]) /\ t[b][r] = s[b][r] /\ t[b][r] # p
  <2>1. CASE b = i
    <3>1. r \in 1..(m + 1)
      BY <2>1, <1>3
    <3>2. CASE r = m + 1
      BY <3>2, <2>1, <1>2
    <3>3. CASE r \in 1..m
      BY <3>3, <2>1, <1>2, <1>5 DEF m
    <3> QED BY <3>1, <3>2, <3>3, <1>4
  <2>2. CASE b # i
    BY <2>2, <1>5
  <2> QED BY <2>1, <2>2
<1>8. ASSUME NEW b \in 1..B, NEW c \in 1..B,
             NEW r \in 1..Len(t[b]), NEW q \in 1..Len(t[c]), t[b][r] = t[c][q]
      PROVE  b = c /\ r = q
  <2>1. CASE b = i /\ r = m + 1 /\ t[b][r] = p
    BY <2>1, <1>7, <1>8
  <2>2. CASE r \in 1..Len(s[b]) /\ t[b][r] = s[b][r] /\ t[b][r] # p
    <3>1. q \in 1..Len(s[c]) /\ t[c][q] = s[c][q]
      BY <2>2, <1>7, <1>8
    <3> QED BY <3>1, <2>2, <1>8 DEF Spreads
  <2> QED BY <2>1, <2>2, <1>7
<1>9. ASSUME NEW x \in Y
      PROVE  \E b \in 1..B : \E r \in 1..Len(t[b]) : t[b][r] = x
  <2>1. CASE x = p
    <3>1. m + 1 \in 1..Len(t[i]) /\ t[i][m + 1] = x
      BY <2>1, <1>1, <1>2, <1>3
    <3> QED BY <3>1
  <2>2. CASE x \in X
    <3>1. PICK b \in 1..B : \E r \in 1..Len(s[b]) : s[b][r] = x
      BY <2>2 DEF Spreads
    <3>3. PICK r \in 1..Len(s[b]) : s[b][r] = x
      BY <3>1
    <3>2. r \in 1..Len(t[b]) /\ t[b][r] = x
      <4>1. CASE b = i
        <5>1. r \in 1..m
          BY <4>1 DEF m
        <5>2. r \in 1..(m + 1)
          BY <5>1, <1>1
        <5> QED BY <5>1, <5>2, <4>1, <3>3, <1>2, <1>3
      <4>2. CASE b # i
        BY <4>2, <3>3
      <4> QED BY <4>1, <4>2
    <3> QED BY <3>2
  <2> QED BY <2>1, <2>2
<1>10. \A b \in 1..B : Len(t[b]) \in Nat /\ Lists(t[b], Len(t[b]), Y)
  <2> SUFFICES ASSUME NEW b \in 1..B
               PROVE  Len(t[b]) \in Nat /\ Lists(t[b], Len(t[b]), Y)
    OBVIOUS
  <2>1. Len(t[b]) \in Nat /\ t[b] \in [1..Len(t[b]) -> Y]
    BY <1>6
  <2>2. \A j, k \in 1..Len(t[b]) : t[b][j] = t[b][k] => j = k
    BY <1>8
  <2> QED BY <2>1, <2>2 DEF Lists
<1>11. Spreads(t, B, Y)
  BY <1>8, <1>9, <1>10 DEF Spreads
<1>12. t[i][Len(t[i])] = p /\ Len(t[i]) = Len(s[i]) + 1 /\ \A k \in 1..Len(s[i]) : t[i][k] = s[i][k]
  BY <1>2, <1>3 DEF m
<1> QED BY <1>11, <1>12

(* The two cases of Place.                                                 *)
OpenTo(m, p, len, cfg) == {i \in DOMAIN m : Takes(m[i], len[p], cfg)}
NewMicro(p, len, cfg) == [rows |-> <<p>>, width |-> Width(len[p], cfg)]
GrownMicro(m, p, len, cfg) ==
  [rows |-> Append(m.rows, p),
   width |-> IF cfg.layout = "padded" THEN m.width ELSE m.width + len[p]]
MicroRecords == [rows : Seq(Int), width : Nat]

LEMMA PlaceIs ==
  ASSUME NEW M \in Nat, NEW m \in [1..M -> MicroRecords], NEW p \in Int,
         NEW len, len[p] \in Nat, NEW cfg, cfg.align \in Nat \ {0}
  PROVE  \/ Place(m, p, len, cfg) = Append(m, NewMicro(p, len, cfg))
         \/ \E i \in 1..M :
              Place(m, p, len, cfg) = [m EXCEPT ![i] = GrownMicro(m[i], p, len, cfg)]
<1> DEFINE open == OpenTo(m, p, len, cfg)
<1>1. Place(m, p, len, cfg) =
        IF open = {} THEN Append(m, NewMicro(p, len, cfg))
        ELSE [m EXCEPT ![Min(open)] = GrownMicro(m[Min(open)], p, len, cfg)]
  BY DEF Place, OpenTo, NewMicro, GrownMicro
<1>2. open \subseteq 1..M
  BY DEF OpenTo
<1>3. open # {} => Min(open) \in 1..M
  <2>1. IsFiniteSet(1..M)
    BY FS_Interval
  <2>2. IsFiniteSet(open) /\ open \subseteq Int
    <3> HIDE DEF open
    <3>1. IsFiniteSet(open)
      BY <1>2, <2>1, FS_Subset
    <3>2. open \subseteq Int
      BY <1>2
    <3> QED BY <3>1, <3>2
  <2> HIDE DEF open
  <2>3. open # {} => Min(open) \in open
    BY <2>2, MaxMin
  <2> QED BY <2>3, <1>2
<1> HIDE DEF open
<1> QED BY <1>1, <1>3

LEMMA MicroTypes ==
  ASSUME NEW p \in Int, NEW len, len[p] \in Nat, NEW cfg, cfg.align \in Nat \ {0},
         NEW m \in MicroRecords
  PROVE  /\ NewMicro(p, len, cfg) \in MicroRecords
         /\ NewMicro(p, len, cfg).rows = <<p>>
         /\ cfg.layout = "padded" => len[p] <= NewMicro(p, len, cfg).width
         /\ GrownMicro(m, p, len, cfg) \in MicroRecords
         /\ GrownMicro(m, p, len, cfg).rows = Append(m.rows, p)
         /\ cfg.layout = "padded" => GrownMicro(m, p, len, cfg).width = m.width
<1>1. Width(len[p], cfg) \in Nat /\ (cfg.layout = "padded" => len[p] <= Width(len[p], cfg))
  BY RoundUpIs DEF Width
<1>2. <<p>> \in Seq(Int)
  OBVIOUS
<1>3. m.rows \in Seq(Int) /\ m.width \in Nat
  BY DEF MicroRecords
<1>4. Append(m.rows, p) \in Seq(Int)
  BY <1>3
<1> QED BY <1>1, <1>2, <1>3, <1>4 DEF NewMicro, GrownMicro, MicroRecords

LEMMA PlaceType ==
  ASSUME NEW m \in Seq(MicroRecords), NEW p \in Int,
         NEW len, len[p] \in Nat, NEW cfg, cfg.align \in Nat \ {0}
  PROVE  Place(m, p, len, cfg) \in Seq(MicroRecords)
<1>1. Len(m) \in Nat /\ m \in [1..Len(m) -> MicroRecords]
  OBVIOUS
<1>2. NewMicro(p, len, cfg) \in MicroRecords
  <2>1. [rows |-> << >>, width |-> 0] \in MicroRecords
    BY DEF MicroRecords
  <2> QED BY <2>1, MicroTypes
<1>3. \A i \in 1..Len(m) : GrownMicro(m[i], p, len, cfg) \in MicroRecords
  BY <1>1, MicroTypes
<1>4. CASE Place(m, p, len, cfg) = Append(m, NewMicro(p, len, cfg))
  BY <1>2, <1>4
<1>5. ASSUME NEW i \in 1..Len(m),
             Place(m, p, len, cfg) = [m EXCEPT ![i] = GrownMicro(m[i], p, len, cfg)]
      PROVE  Place(m, p, len, cfg) \in Seq(MicroRecords)
  <2>1. [m EXCEPT ![i] = GrownMicro(m[i], p, len, cfg)] \in [1..Len(m) -> MicroRecords]
    BY <1>1, <1>3
  <2> QED BY <2>1, <1>5, <1>1, ListIs
<1> QED BY <1>1, <1>4, <1>5, PlaceIs

(* Packed as a recursion.                                                  *)
Packings(order, len, cfg) ==
  CHOOSE packed : packed = [n \in 0..Len(order) |->
    IF n = 0 THEN << >> ELSE Place(packed[n - 1], order[n], len, cfg)]

LEMMA PackedIsPackings ==
  ASSUME NEW order, NEW len, NEW cfg
  PROVE  Packed(order, len, cfg) = Packings(order, len, cfg)
BY DEF Packed, Packings

PacksItems(f, order, len, cfg) ==
  f = [n \in 0..Len(order) |->
         IF n = 0 THEN << >> ELSE Place(f[n - 1], order[n], len, cfg)]

LEMMA PackedSolves ==
  ASSUME NEW order, NEW len, NEW cfg, NEW f, PacksItems(f, order, len, cfg)
  PROVE  PacksItems(Packings(order, len, cfg), order, len, cfg)
BY Zenon DEF Packings, PacksItems

PacksFrom(P, N, order, len, cfg) ==
  P[0] = << >> /\ \A k \in 1..N : P[k] = Place(P[k - 1], order[k], len, cfg)

LEMMA PackedIs ==
  ASSUME NEW N \in Nat, NEW order \in [1..N -> Int], NEW len,
         \A n \in 1..N : len[order[n]] \in Nat,
         NEW cfg, cfg.align \in Nat \ {0}
  PROVE  PacksFrom(Packed(order, len, cfg), N, order, len, cfg)
<1> DEFINE V == Seq(MicroRecords)
           F == [e \in V \X (1..N) |-> Place(e[1], order[e[2]], len, cfg)]
<1>1. ASSUME NEW x \in V, NEW k \in 1..N
      PROVE  F[<<x, k>>] = Place(x, order[k], len, cfg) /\ F[<<x, k>>] \in V
  <2>1. F[<<x, k>>] = Place(x, order[k], len, cfg)
    OBVIOUS
  <2>2. order[k] \in Int /\ len[order[k]] \in Nat
    OBVIOUS
  <2>3. Place(x, order[k], len, cfg) \in V
    BY <2>2, PlaceType
  <2> QED BY <2>1, <2>3
<1>2. PICK f \in [0..N -> V] : Recursion(f, << >>, F, N)
  <2>1. << >> \in V
    OBVIOUS
  <2> HIDE DEF F, V
  <2>2. StepsIn(F, V, N)
    <3>1. ASSUME NEW x \in V, NEW k \in 1..N PROVE F[<<x, k>>] \in V
      BY <1>1
    <3> QED BY <3>1 DEF StepsIn
  <2> QED BY <2>1, <2>2, RecursionExists
<1> DEFINE G(f1, n) == IF n = 0 THEN << >> ELSE Place(f1[n - 1], order[n], len, cfg)
<1> HIDE DEF F, V
<1>3. f = [n \in 0..N |-> G(f, n)]
  <2>1. ASSUME NEW n \in 1..N PROVE f[n] = G(f, n)
    <3>1. f[n - 1] \in V /\ n # 0
      BY <1>2
    <3>2. f[n] = F[<<f[n - 1], n>>]
      BY <1>2 DEF Recursion
    <3> QED BY <3>1, <3>2, <1>1
  <2>2. f[0] = << >>
    BY <1>2 DEF Recursion
  <2>3. \A n \in 0..N : f[n] = G(f, n)
    <3>1. \A n \in 0..N : n = 0 \/ n \in 1..N
      OBVIOUS
    <3>2. G(f, 0) = << >>
      OBVIOUS
    <3> HIDE DEF G
    <3> QED BY <2>1, <2>2, <3>1, <3>2
  <2>4. f = [n \in 0..N |-> f[n]]
    OBVIOUS
  <2> HIDE DEF G
  <2> QED BY <2>3, <2>4
<1> DEFINE o == Packings(order, len, cfg)
<1> HIDE DEF o
<1>4. o = [n \in 0..N |-> G(o, n)]
  <2>0. Len(order) = N
    BY ListIs
  <2>1. f = [n \in 0..Len(order) |-> G(f, n)]
    BY <1>3, <2>0
  <2>2. PacksItems(f, order, len, cfg)
    BY <2>1 DEF PacksItems
  <2>3. PacksItems(o, order, len, cfg)
    BY <2>2, PackedSolves DEF o
  <2> QED BY <2>3, <2>0 DEF PacksItems
<1>5. o[0] = << >>
  BY <1>4
<1>6. ASSUME NEW k \in 1..N PROVE o[k] = Place(o[k - 1], order[k], len, cfg)
  <2>1. o[k] = G(o, k) /\ k # 0
    <3> HIDE DEF G
    <3>1. k \in 0..N /\ k # 0
      OBVIOUS
    <3> QED BY <1>4, <3>1
  <2> QED BY <2>1
<1>7. Packed(order, len, cfg) = o
  BY PackedIsPackings DEF o
<1> QED BY <1>5, <1>6, <1>7 DEF PacksFrom

(* m packs the rows of X into M micro-batches, a padded row in one that is *)
(* wide enough.                                                            *)
RowsIn(m) == [i \in DOMAIN m |-> m[i].rows]
WideEnough(m, M, len) ==
  \A i \in 1..M : \A p \in 1..Len(m[i].rows) : len[m[i].rows[p]] <= m[i].width
Packs(m, M, X, len, cfg) ==
  /\ M \in Nat
  /\ m \in [1..M -> MicroRecords]
  /\ Spreads(RowsIn(m), M, X)
  /\ \A i \in 1..M : Len(m[i].rows) >= 1
  /\ cfg.layout = "padded" => WideEnough(m, M, len)

GrowsAt(t, s, B, i, p) ==
  /\ DOMAIN t = 1..B
  /\ \A b \in 1..B : b # i => t[b] = s[b]
  /\ t[i] = Append(s[i], p)
GrownAt(t, s, i, p) ==
  /\ Len(t[i]) = Len(s[i]) + 1
  /\ \A k \in 1..Len(s[i]) : t[i][k] = s[i][k]
  /\ t[i][Len(t[i])] = p

LEMMA SpreadsAt ==
  ASSUME NEW B \in Nat, NEW X, NEW s, Spreads(s, B, X), NEW p, p \notin X,
         NEW i \in 1..B, NEW t, GrowsAt(t, s, B, i, p)
  PROVE  Spreads(t, B, X \cup {p}) /\ GrownAt(t, s, i, p)
<1>1. DOMAIN t = 1..B /\ (\A b \in 1..B : b # i => t[b] = s[b]) /\ t[i] = Append(s[i], p)
  BY DEF GrowsAt
<1> QED BY <1>1, SpreadsGrown DEF GrownAt

PlacedBy(t, m, M, p, len, cfg) ==
  \/ t = Append(m, NewMicro(p, len, cfg))
  \/ \E i \in 1..M : t = [m EXCEPT ![i] = GrownMicro(m[i], p, len, cfg)]

LEMMA PlaceIsPlacing ==
  ASSUME NEW M \in Nat, NEW m \in [1..M -> MicroRecords], NEW p \in Int,
         NEW len, len[p] \in Nat, NEW cfg, cfg.align \in Nat \ {0}
  PROVE  PlacedBy(Place(m, p, len, cfg), m, M, p, len, cfg)
BY PlaceIs DEF PlacedBy

LEMMA PacksMore ==
  ASSUME NEW M, NEW m, NEW X, X \subseteq Int, NEW len, NEW cfg, cfg.align \in Nat \ {0},
         Packs(m, M, X, len, cfg),
         NEW p \in Int, p \notin X, len[p] \in Nat,
         \A x \in X : len[x] \in Nat /\ len[p] <= len[x]
  PROVE  \E K : Packs(Place(m, p, len, cfg), K, X \cup {p}, len, cfg)
<1>1. /\ M \in Nat /\ m \in [1..M -> MicroRecords]
      /\ Spreads(RowsIn(m), M, X)
      /\ \A i \in 1..M : Len(m[i].rows) >= 1
      /\ cfg.layout = "padded" => WideEnough(m, M, len)
  BY DEF Packs
<1>2. DOMAIN RowsIn(m) = 1..M /\ \A i \in 1..M : RowsIn(m)[i] = m[i].rows
  BY <1>1 DEF RowsIn
<1>3. CASE Place(m, p, len, cfg) = Append(m, NewMicro(p, len, cfg))
  <2> DEFINE new == NewMicro(p, len, cfg)
  <2>1. /\ new \in MicroRecords /\ new.rows = <<p>>
        /\ cfg.layout = "padded" => len[p] <= new.width
    <3>1. [rows |-> << >>, width |-> 0] \in MicroRecords
      BY DEF MicroRecords
    <3> QED BY <3>1, MicroTypes
  <2> HIDE DEF new
  <2>2. PICK t : t = Place(m, p, len, cfg)
    OBVIOUS
  <2>3. /\ t \in [1..(M + 1) -> MicroRecords]
        /\ \A k \in 1..M : t[k] = m[k]
        /\ t[M + 1] = new
    BY <1>1, <1>3, <2>1, <2>2, AppendIs DEF new
  <2>4. \A k \in 1..(M + 1) : k = M + 1 \/ k \in 1..M
    BY <1>1
  <2>5. DOMAIN RowsIn(t) = 1..(M + 1) /\ \A i \in 1..(M + 1) : RowsIn(t)[i] = t[i].rows
    BY <2>3 DEF RowsIn
  <2>6. Spreads(RowsIn(t), M + 1, X \cup {p})
    <3>1. M + 1 \in 1..(M + 1) /\ \A k \in 1..M : k \in 1..(M + 1)
      BY <1>1
    <3>2. (\A b \in 1..M : RowsIn(t)[b] = RowsIn(m)[b]) /\ RowsIn(t)[M + 1] = <<p>>
      BY <3>1, <2>1, <2>3, <2>5, <1>2
    <3> QED BY <3>2, <2>5, <1>1, SpreadsNew
  <2>7. Len(<<p>>) = 1 /\ <<p>>[1] = p /\ \A k \in 1..1 : k = 1
    OBVIOUS
  <2>8. \A i \in 1..(M + 1) : Len(t[i].rows) >= 1
    <3> SUFFICES ASSUME NEW i \in 1..(M + 1) PROVE Len(t[i].rows) >= 1
      OBVIOUS
    <3>1. CASE i \in 1..M
      BY <3>1, <2>3, <1>1
    <3>2. CASE i = M + 1
      <4>1. Len(t[i].rows) = 1
        BY <3>2, <2>1, <2>3, <2>7
      <4> QED BY <4>1
    <3> QED BY <3>1, <3>2, <2>4
  <2>9. ASSUME cfg.layout = "padded" PROVE WideEnough(t, M + 1, len)
    <3>1. ASSUME NEW i \in 1..(M + 1), NEW q \in 1..Len(t[i].rows)
          PROVE  len[t[i].rows[q]] <= t[i].width
      <4>1. CASE i \in 1..M
        BY <4>1, <2>3, <2>9, <1>1 DEF WideEnough
      <4>2. CASE i = M + 1
        <5>1. t[i] = new /\ t[i].rows[q] = p
          BY <4>2, <2>1, <2>3, <2>7
        <5> QED BY <5>1, <2>1, <2>9
      <4> QED BY <4>1, <4>2, <2>4
    <3> QED BY <3>1 DEF WideEnough
  <2>10. M + 1 \in Nat
    BY <1>1
  <2>11. Packs(t, M + 1, X \cup {p}, len, cfg)
    BY <2>3, <2>6, <2>8, <2>9, <2>10 DEF Packs
  <2> QED BY <2>2, <2>11
<1>4. ASSUME NEW i \in 1..M,
             Place(m, p, len, cfg) = [m EXCEPT ![i] = GrownMicro(m[i], p, len, cfg)]
      PROVE  \E K : Packs(Place(m, p, len, cfg), K, X \cup {p}, len, cfg)
  <2> DEFINE new == GrownMicro(m[i], p, len, cfg)
  <2>1. /\ new \in MicroRecords /\ new.rows = Append(m[i].rows, p)
        /\ cfg.layout = "padded" => new.width = m[i].width
    <3>1. m[i] \in MicroRecords
      BY <1>1
    <3>2. PICK e \in MicroRecords : e = m[i]
      BY <3>1
    <3>3. GrownMicro(e, p, len, cfg) \in MicroRecords
      BY MicroTypes
    <3>4. GrownMicro(e, p, len, cfg).rows = Append(e.rows, p)
      BY MicroTypes
    <3>5. cfg.layout = "padded" => GrownMicro(e, p, len, cfg).width = e.width
      BY MicroTypes
    <3> QED BY <3>2, <3>3, <3>4, <3>5
  <2> HIDE DEF new
  <2>2. PICK t : t = Place(m, p, len, cfg)
    OBVIOUS
  <2>3. /\ t \in [1..M -> MicroRecords]
        /\ \A k \in 1..M : k # i => t[k] = m[k]
        /\ t[i] = new
    BY <1>1, <1>4, <2>1, <2>2 DEF new
  <2>4. DOMAIN RowsIn(t) = 1..M /\ \A k \in 1..M : RowsIn(t)[k] = t[k].rows
    BY <2>3 DEF RowsIn
  <2>5. /\ Spreads(RowsIn(t), M, X \cup {p})
        /\ Len(t[i].rows) = Len(m[i].rows) + 1
        /\ \A k \in 1..Len(m[i].rows) : t[i].rows[k] = m[i].rows[k]
        /\ t[i].rows[Len(t[i].rows)] = p
    <3>1. \A b \in 1..M : b # i => RowsIn(t)[b] = RowsIn(m)[b]
      BY <2>3, <2>4, <1>2
    <3>2. RowsIn(t)[i] = Append(RowsIn(m)[i], p)
      BY <2>1, <2>3, <2>4, <1>2
    <3>3. RowsIn(t)[i] = t[i].rows /\ RowsIn(m)[i] = m[i].rows
      BY <2>4, <1>2
    <3> DEFINE T == RowsIn(t)
               S == RowsIn(m)
    <3> HIDE DEF T, S
    <3>4. /\ Spreads(T, M, X \cup {p})
          /\ Len(T[i]) = Len(S[i]) + 1
          /\ \A k \in 1..Len(S[i]) : T[i][k] = S[i][k]
          /\ T[i][Len(T[i])] = p
      <4>1. Spreads(S, M, X)
        BY <1>1 DEF S
      <4>2. DOMAIN T = 1..M
        BY <2>4 DEF T
      <4>3. \A b \in 1..M : b # i => T[b] = S[b]
        BY <3>1 DEF T, S
      <4>4. T[i] = Append(S[i], p)
        BY <3>2 DEF T, S
      <4>5. M \in Nat
        BY <1>1
      <4>6. GrowsAt(T, S, M, i, p)
        BY <4>2, <4>3, <4>4 DEF GrowsAt
      <4>7. Spreads(T, M, X \cup {p}) /\ GrownAt(T, S, i, p)
        BY <4>1, <4>5, <4>6, SpreadsAt
      <4> QED BY <4>7 DEF GrownAt
    <3> QED BY <3>3, <3>4 DEF T, S
  <2>6. \A k \in 1..M : Len(m[k].rows) \in Nat /\ m[k].rows \in [1..Len(m[k].rows) -> X]
    <3>1. \A k \in 1..M : Len(RowsIn(m)[k]) \in Nat /\ RowsIn(m)[k] \in [1..Len(RowsIn(m)[k]) -> X]
      BY <1>1 DEF Spreads, Lists
    <3> QED BY <3>1, <1>2
  <2>7. \A k \in 1..M : Len(t[k].rows) >= 1
    <3>1. Len(t[i].rows) >= 1
      BY <2>5, <2>6
    <3> QED BY <3>1, <2>3, <1>1
  <2>8. ASSUME cfg.layout = "padded" PROVE WideEnough(t, M, len)
    <3>1. ASSUME NEW k \in 1..M, NEW q \in 1..Len(t[k].rows)
          PROVE  len[t[k].rows[q]] <= t[k].width
      <4>1. CASE k # i
        BY <4>1, <2>3, <2>8, <1>1 DEF WideEnough
      <4>2. CASE k = i
        <5>1. t[k].width = m[i].width
          BY <4>2, <2>1, <2>3, <2>8
        <5>2. CASE q \in 1..Len(m[i].rows)
          BY <5>1, <5>2, <4>2, <2>5, <2>8, <1>1 DEF WideEnough
        <5>3. CASE q = Len(t[i].rows)
          <6>1. t[k].rows[q] = p
            BY <5>3, <4>2, <2>5
          <6>2. 1 \in 1..Len(m[i].rows) /\ m[i].rows[1] \in X
            <7>1. Len(m[i].rows) \in Nat /\ Len(m[i].rows) >= 1
              BY <2>6, <1>1
            <7>2. 1 \in 1..Len(m[i].rows)
              BY <7>1
            <7> QED BY <7>2, <2>6
          <6>3. len[m[i].rows[1]] <= m[i].width
            BY <6>2, <2>8, <1>1 DEF WideEnough
          <6>4. len[p] <= len[m[i].rows[1]] /\ len[m[i].rows[1]] \in Nat
            BY <6>2
          <6>5. m[i].width \in Nat
            BY <1>1 DEF MicroRecords
          <6>6. len[p] <= m[i].width
            BY <6>3, <6>4, <6>5
          <6> QED BY <6>1, <6>6, <5>1
        <5>4. q \in 1..Len(m[i].rows) \/ q = Len(t[i].rows)
          BY <4>2, <2>5, <2>6
        <5> QED BY <5>2, <5>3, <5>4
      <4> QED BY <4>1, <4>2
    <3> QED BY <3>1 DEF WideEnough
  <2>9. Packs(t, M, X \cup {p}, len, cfg)
    BY <2>3, <2>5, <2>7, <2>8, <1>1 DEF Packs
  <2> QED BY <2>2, <2>9
<1>5. Place(m, p, len, cfg) = Append(m, NewMicro(p, len, cfg))
      \/ \E i \in 1..M : Place(m, p, len, cfg) = [m EXCEPT ![i] = GrownMicro(m[i], p, len, cfg)]
  <2>1. M \in Nat
    BY <1>1
  <2>2. m \in [1..M -> MicroRecords]
    BY <1>1
  <2> QED BY <2>1, <2>2, PlaceIsPlacing DEF PlacedBy
<1> QED BY <1>3, <1>4, <1>5

LEMMA PackedPacks ==
  ASSUME NEW X, X \subseteq Int, NEW N \in Nat, NEW order, Lists(order, N, X),
         Range(order) = X, NEW len, \A x \in X : len[x] \in Nat, Falls(order, N, len),
         NEW cfg, cfg.align \in Nat \ {0}
  PROVE  \E K : Packs(Packed(order, len, cfg)[Len(order)], K, X, len, cfg)
<1>1. /\ order \in [1..N -> X] /\ order \in [1..N -> Int] /\ DOMAIN order = 1..N
      /\ Len(order) = N /\ \A j, k \in 1..N : order[j] = order[k] => j = k
  <2>1. order \in [1..N -> X] /\ \A j, k \in 1..N : order[j] = order[k] => j = k
    BY DEF Lists
  <2> QED BY <2>1, ListIs
<1> DEFINE P == Packed(order, len, cfg)
           Y(k) == {order[j] : j \in 1..k}
           Good(k) == \E K : Packs(P[k], K, Y(k), len, cfg)
           S == {k \in 0..N : Good(k)}
<1>2. P[0] = << >> /\ \A k \in 1..N : P[k] = Place(P[k - 1], order[k], len, cfg)
  <2>1. \A n \in 1..N : len[order[n]] \in Nat
    BY <1>1
  <2>2. order \in [1..N -> Int]
    BY <1>1
  <2>3. PacksFrom(P, N, order, len, cfg)
    BY <2>1, <2>2, PackedIs
  <2> QED BY <2>3 DEF PacksFrom
<1> HIDE DEF P
<1>3. 0 \in S
  <2>1. Y(0) = {}
    OBVIOUS
  <2>2. << >> \in [1..0 -> MicroRecords] /\ DOMAIN RowsIn(<< >>) = 1..0
    BY DEF RowsIn
  <2>3. Spreads(RowsIn(<< >>), 0, {})
    BY <2>2 DEF Spreads
  <2>4. Packs(<< >>, 0, {}, len, cfg)
    BY <2>2, <2>3 DEF Packs, WideEnough
  <2>5. 0 \in 0..N
    OBVIOUS
  <2>6. Good(0)
    BY <2>1, <2>4, <1>2
  <2> HIDE DEF Good
  <2> QED BY <2>5, <2>6
<1>4. ASSUME NEW k \in 1..N, k - 1 \in S PROVE k \in S
  <2>1. PICK K : Packs(P[k - 1], K, Y(k - 1), len, cfg)
    BY <1>4
  <2> DEFINE Z == Y(k - 1)
             p == order[k]
  <2>2. Z \subseteq Int /\ p \in Int /\ p \notin Z /\ len[p] \in Nat
    <3>1. \A j \in 1..(k - 1) : j \in 1..N /\ j # k
      OBVIOUS
    <3> QED BY <3>1, <1>1
  <2>3. \A x \in Z : len[x] \in Nat /\ len[p] <= len[x]
    <3>1. \A j \in 1..(k - 1) : j \in 1..N /\ j <= k
      OBVIOUS
    <3>2. \A j \in 1..(k - 1) : len[order[j]] \in Nat /\ len[p] <= len[order[j]]
      BY <3>1, <1>1 DEF Falls
    <3> QED BY <3>2
  <2>4. Y(k) = Z \cup {p}
    <3>1. \A j \in 1..k : j = k \/ j \in 1..(k - 1)
      OBVIOUS
    <3>2. k \in 1..k /\ \A j \in 1..(k - 1) : j \in 1..k
      OBVIOUS
    <3> QED BY <3>1, <3>2
  <2>5. PICK m : m = P[k - 1]
    OBVIOUS
  <2>6. P[k] = Place(m, p, len, cfg) /\ Packs(m, K, Z, len, cfg)
    BY <1>2, <2>1, <2>5
  <2>7. \E J : Packs(Place(m, p, len, cfg), J, Z \cup {p}, len, cfg)
    <3> HIDE DEF Z, p
    <3> QED BY <2>2, <2>3, <2>6, PacksMore
  <2>8. Good(k)
    BY <2>4, <2>6, <2>7
  <2>9. k \in 0..N
    OBVIOUS
  <2> HIDE DEF Good
  <2> QED BY <2>8, <2>9
<1>5. N \in S
  <2>1. \A k \in 0..N : k \in S
    <3> HIDE DEF S
    <3> QED BY <1>3, <1>4, Upwards
  <2>2. N \in 0..N
    OBVIOUS
  <2> HIDE DEF S
  <2> QED BY <2>1, <2>2
<1>6. Y(N) = X
  BY <1>1 DEF Range
<1>7. Good(N)
  BY <1>5
<1> QED BY <1>1, <1>6, <1>7 DEF P

(* PackMicros spreads the rows it is given over micro-batches whose width  *)
(* is a multiple of the alignment.                                         *)
LEMMA PackMicrosPacks ==
  ASSUME NEW members, NEW X, X = Range(members), X \subseteq Int, IsFiniteSet(X),
         NEW len, X \subseteq DOMAIN len, \A x \in X : len[x] \in Nat,
         NEW cfg, cfg.align \in Nat \ {0}
  PROVE  /\ \E K : Packs(PackMicros(members, len, cfg), K, X, len, cfg)
         /\ \A i \in DOMAIN PackMicros(members, len, cfg) :
              PackMicros(members, len, cfg)[i].width % cfg.align = 0
<1> DEFINE order == Descending(Range(members), len)
           packed == Packed(order, len, cfg)[Len(order)]
           pm == PackMicros(members, len, cfg)
<1>1. PICK N \in Nat : N = Cardinality(X)
  BY FS_CardinalityType
<1>2. Lists(order, N, X) /\ Falls(order, N, len) /\ Range(order) = X
  <2>1. Sizes(X, len)
    BY DEF Sizes
  <2>2. /\ Lists(Descending(X, len), N, X)
        /\ Falls(Descending(X, len), N, len)
        /\ Range(Descending(X, len)) = X
    BY <2>1, <1>1, DescendingIs
  <2> QED BY <2>2
<1>3. PICK K : Packs(packed, K, X, len, cfg)
  <2> HIDE DEF order
  <2> QED BY <1>2, PackedPacks
<1>4. pm = [i \in DOMAIN packed |->
              [packed[i] EXCEPT !.width = RoundUp(@, cfg.align)]]
  BY DEF PackMicros
<1> HIDE DEF order, packed, pm
<1>5. K \in Nat /\ packed \in [1..K -> MicroRecords]
  BY <1>3 DEF Packs
<1>6. DOMAIN pm = 1..K
  BY <1>4, <1>5
<1>7. ASSUME NEW i \in 1..K
      PROVE  /\ pm[i] \in MicroRecords /\ pm[i].rows = packed[i].rows
             /\ packed[i].width \in Nat /\ packed[i].width <= pm[i].width
             /\ pm[i].width % cfg.align = 0
  <2>1. pm[i] = [packed[i] EXCEPT !.width = RoundUp(@, cfg.align)]
    BY <1>4, <1>5
  <2>2. packed[i] \in [rows : Seq(Int), width : Nat]
    BY <1>5 DEF MicroRecords
  <2>3. PICK w : w = RoundUp(packed[i].width, cfg.align)
    OBVIOUS
  <2>4. packed[i].width \in Nat
    BY <2>2
  <2>5. w \in Nat /\ packed[i].width <= w /\ w % cfg.align = 0
    BY <2>3, <2>4, RoundUpIs
  <2>6. pm[i] = [packed[i] EXCEPT !.width = w]
    BY <2>1, <2>3
  <2>7. pm[i] \in [rows : Seq(Int), width : Nat] /\ pm[i].rows = packed[i].rows /\ pm[i].width = w
    BY <2>2, <2>5, <2>6
  <2> QED BY <2>4, <2>5, <2>7 DEF MicroRecords
<1>8. pm \in [1..K -> MicroRecords]
  <2>1. pm = [i \in 1..K |-> pm[i]]
    BY <1>4, <1>6
  <2> QED BY <2>1, <1>7
<1>9. RowsIn(pm) = RowsIn(packed)
  BY <1>5, <1>6, <1>7 DEF RowsIn
<1>10. ASSUME cfg.layout = "padded" PROVE WideEnough(pm, K, len)
  <2>1. WideEnough(packed, K, len)
    BY <1>3, <1>10 DEF Packs
  <2>2. ASSUME NEW i \in 1..K, NEW p \in 1..Len(pm[i].rows)
        PROVE  len[pm[i].rows[p]] <= pm[i].width
    <3>1. p \in 1..Len(packed[i].rows) /\ pm[i].rows[p] = packed[i].rows[p]
      BY <1>7
    <3>2. len[packed[i].rows[p]] <= packed[i].width
      BY <2>1, <3>1 DEF WideEnough
    <3>3. packed[i].rows[p] \in X
      <4>1. RowsIn(packed)[i] = packed[i].rows
        BY <1>5 DEF RowsIn
      <4>2. RowsIn(packed)[i] \in [1..Len(RowsIn(packed)[i]) -> X]
        BY <1>3 DEF Packs, Spreads, Lists
      <4> QED BY <4>1, <4>2, <3>1
    <3>4. len[packed[i].rows[p]] \in Nat
      BY <3>3
    <3>5. packed[i].width \in Nat /\ packed[i].width <= pm[i].width /\ pm[i].width \in Nat
      BY <1>7 DEF MicroRecords
    <3>6. len[packed[i].rows[p]] <= pm[i].width
      BY <3>2, <3>4, <3>5
    <3> QED BY <3>1, <3>6
  <2> QED BY <2>2 DEF WideEnough
<1>11. Packs(pm, K, X, len, cfg)
  <2>1. Spreads(RowsIn(pm), K, X)
    BY <1>3, <1>9 DEF Packs
  <2>2. \A i \in 1..K : Len(pm[i].rows) >= 1
    BY <1>3, <1>7 DEF Packs
  <2> QED BY <2>1, <2>2, <1>5, <1>8, <1>10 DEF Packs
<1>12. \A i \in DOMAIN pm : pm[i].width % cfg.align = 0
  BY <1>6, <1>7
<1> QED BY <1>11, <1>12 DEF pm

-----------------------------------------------------------------------------
(* The plan.                                                               *)

(* How many rows a shard has, and into how many mini-batches they go.      *)
LocalSize(n, dp) == n \div dp
MiniCount(n, dp, cfg) == (LocalSize(n, dp) + cfg.mini - 1) \div cfg.mini

LEMMA PlanSizes ==
  ASSUME NEW n \in Nat \ {0}, NEW dp \in Nat \ {0}, n % dp = 0,
         NEW cfg, cfg.mini \in Nat \ {0}
  PROVE  /\ LocalSize(n, dp) \in Nat \ {0} /\ n = LocalSize(n, dp) * dp
         /\ MiniCount(n, dp, cfg) \in Nat \ {0}
         /\ MiniCount(n, dp, cfg) <= LocalSize(n, dp)
<1> DEFINE a == LocalSize(n, dp)
           b == MiniCount(n, dp, cfg)
           m == cfg.mini
<1>1. \A u \in Nat, v \in Nat : v > 0 =>
        u \div v \in Nat /\ u % v \in 0..(v - 1) /\ u = (u \div v) * v + (u % v)
  OBVIOUS
<1>2. a \in Nat /\ n = a * dp
  <2>1. a \in Nat /\ n = a * dp + (n % dp)
    BY <1>1 DEF LocalSize
  <2> DEFINE X == a * dp
  <2>2. X \in Nat
    <3> HIDE DEF a
    <3> QED BY <2>1, Times
  <2> HIDE DEF X
  <2>3. n = X
    BY <2>1, <2>2 DEF X
  <2> QED BY <2>1, <2>3 DEF X
<1> HIDE DEF a
<1>3. a # 0
  <2>1. a = 0 => a * dp = 0
    OBVIOUS
  <2> QED BY <2>1, <1>2
<1>4. m \in Nat /\ m > 0 /\ m >= 1
  OBVIOUS
<1> DEFINE y == a + m - 1
<1>5. y \in Nat /\ b = y \div m
  BY <1>2, <1>4 DEF a, MiniCount
<1>6. b \in Nat /\ y % m \in 0..(m - 1) /\ y = b * m + (y % m)
  BY <1>1, <1>4, <1>5
<1> HIDE DEF b, m
<1> DEFINE X == b * m
           w == y % m
<1>7. X \in Nat
  BY <1>4, <1>6, Times
<1>8. a + m - 1 = X + w /\ w \in 0..(m - 1)
  BY <1>6
<1>9. b # 0
  <2>1. b = 0 => X = 0
    BY <1>4
  <2> HIDE DEF X, w
  <2> QED BY <2>1, <1>2, <1>3, <1>4, <1>8
<1>10. b <= a
  <2>1. CASE b >= 1 /\ b - 1 >= a
    <3>1. a \in Nat /\ b - 1 \in Nat /\ a <= b - 1
      BY <2>1, <1>2, <1>6
    <3>2. a * 1 <= a * m
      <4>1. 1 <= m /\ 1 * a <= m * a
        BY <1>2, <1>4, Times
      <4> QED BY <4>1, <1>2, <1>4
    <3>3. a * m <= (b - 1) * m
      BY <3>1, <1>4, Times
    <3>4. X = (b - 1) * m + m
      BY <1>4, <1>6
    <3> DEFINE A == a * m
               B == (b - 1) * m
    <3>5. A \in Nat /\ B \in Nat
      BY <3>1, <1>4, Times
    <3>6. a <= A /\ A <= B /\ X = B + m
      BY <3>2, <3>3, <3>4, <1>2
    <3> HIDE DEF A, B, X, w
    <3> QED BY <3>5, <3>6, <1>2, <1>4, <1>7, <1>8
  <2>2. CASE ~(b >= 1 /\ b - 1 >= a)
    BY <2>2, <1>2, <1>6, <1>9
  <2> QED BY <2>1, <2>2
<1> QED BY <1>2, <1>3, <1>6, <1>9, <1>10 DEF a, b

LEMMA CountTo ==
  ASSUME NEW n \in Nat
  PROVE  IsFiniteSet(1..n) /\ Cardinality(1..n) = n /\ 1..n \subseteq Int
<1>1. CASE n = 0
  <2>1. 1..n = {}
    BY <1>1
  <2> QED BY <2>1, <1>1, FS_EmptySet
<1>2. CASE n # 0
  BY <1>2, FS_Interval
<1> QED BY <1>1, <1>2

(* What build_plan accepts.                                                *)
Plannable(lengths, n, dp, cfg) ==
  /\ n \in Nat \ {0} /\ dp \in Nat \ {0} /\ n % dp = 0
  /\ lengths \in [1..n -> Nat]
  /\ cfg.mini \in Nat \ {0} /\ cfg.align \in Nat \ {0} /\ cfg.seqLen \in Nat

LEMMA SmallerIs ==
  ASSUME NEW x \in Nat, NEW y \in Nat
  PROVE  Smaller(x, y) \in Nat /\ Smaller(x, y) <= x /\ Smaller(x, y) <= y
BY DEF Smaller

LEMMA LocalRowsSpread ==
  ASSUME NEW lengths, NEW n, NEW dp, NEW cfg, Plannable(lengths, n, dp, cfg)
  PROVE  /\ Spreads(LocalRows(lengths, dp, cfg), dp, 1..n)
         /\ \A d \in 1..dp : Len(LocalRows(lengths, dp, cfg)[d]) = LocalSize(n, dp)
<1>1. n \in Nat /\ n \in Nat \ {0} /\ dp \in Nat \ {0} /\ n % dp = 0 /\ DOMAIN lengths = 1..n
      /\ cfg.mini \in Nat \ {0}
  BY DEF Plannable
<1> DEFINE len == [i \in DOMAIN lengths |-> Smaller(lengths[i], cfg.seqLen)]
           order == Descending(1..n, len)
<1>2. Sizes(1..n, len)
  <2>1. \A i \in 1..n : lengths[i] \in Nat /\ cfg.seqLen \in Nat
    BY DEF Plannable
  <2>2. ASSUME NEW i \in 1..n PROVE Smaller(lengths[i], cfg.seqLen) \in Int
    <3>1. PICK x \in Nat, y \in Nat : x = lengths[i] /\ y = cfg.seqLen
      BY <2>1
    <3>2. Smaller(x, y) \in Nat
      BY SmallerIs
    <3> QED BY <3>1, <3>2
  <2> QED BY <2>2, <1>1 DEF Sizes
<1> HIDE DEF len
<1>3. Lists(order, n, 1..n) /\ Range(order) = 1..n
  <2> DEFINE I == 1..n
  <2>1. IsFiniteSet(I) /\ I \subseteq Int /\ Sizes(I, len)
    BY <1>1, <1>2, CountTo
  <2>2. n \in Nat /\ n = Cardinality(I)
    BY <1>1, CountTo
  <2> HIDE DEF I
  <2>3. Lists(Descending(I, len), n, I) /\ Range(Descending(I, len)) = I
    BY <2>1, <2>2, DescendingIs
  <2> QED BY <2>3 DEF I
<1>4. LocalRows(lengths, dp, cfg) = Snake(order, dp)
  BY <1>1 DEF LocalRows, len
<1> HIDE DEF order
<1>5. Spreads(Snake(order, dp), dp, 1..n)
  BY <1>1, <1>3, SnakeSpreads
<1>6. \A d \in 1..dp : Len(Snake(order, dp)[d]) = LocalSize(n, dp)
  <2>1. LocalSize(n, dp) \in Nat /\ n = LocalSize(n, dp) * dp
    BY <1>1, PlanSizes
  <2>2. \A m \in Nat : n = m * dp => \A b \in 1..dp : Len(Snake(order, dp)[b]) = m
    BY <1>1, <1>3, SnakeSpreads
  <2> QED BY <2>1, <2>2
<1> QED BY <1>4, <1>5, <1>6

(* The lengths of a shard's rows, cut to the sequence length.              *)
CutLengths(lengths, dp, d, cfg) ==
  [p \in DOMAIN LocalRows(lengths, dp, cfg)[d] |->
     Smaller(lengths[LocalRows(lengths, dp, cfg)[d][p]], cfg.seqLen)]

LEMMA CutLengthsAre ==
  ASSUME NEW lengths, NEW n, NEW dp, NEW cfg, Plannable(lengths, n, dp, cfg),
         NEW d \in 1..dp
  PROVE  /\ LocalRows(lengths, dp, cfg)[d] \in [1..LocalSize(n, dp) -> 1..n]
         /\ DOMAIN CutLengths(lengths, dp, d, cfg) = 1..LocalSize(n, dp)
         /\ \A p \in 1..LocalSize(n, dp) : CutLengths(lengths, dp, d, cfg)[p] \in Nat
<1>1. LocalRows(lengths, dp, cfg)[d] \in [1..LocalSize(n, dp) -> 1..n]
  BY LocalRowsSpread DEF Spreads, Lists
<1>2. DOMAIN CutLengths(lengths, dp, d, cfg) = 1..LocalSize(n, dp)
  BY <1>1 DEF CutLengths
<1>3. ASSUME NEW p \in 1..LocalSize(n, dp)
      PROVE  CutLengths(lengths, dp, d, cfg)[p] \in Nat
  <2>1. lengths[LocalRows(lengths, dp, cfg)[d][p]] \in Nat /\ cfg.seqLen \in Nat
    BY <1>1 DEF Plannable
  <2> QED BY <2>1, <1>1, SmallerIs DEF CutLengths
<1> QED BY <1>1, <1>2, <1>3

LEMMA MembersSpread ==
  ASSUME NEW lengths, NEW n, NEW dp, NEW cfg, Plannable(lengths, n, dp, cfg)
  PROVE  /\ DOMAIN Members(lengths, dp, cfg) = 1..dp
         /\ \A d \in 1..dp :
              /\ Spreads(Members(lengths, dp, cfg)[d], MiniCount(n, dp, cfg), 1..LocalSize(n, dp))
              /\ \A i \in 1..MiniCount(n, dp, cfg) : Len(Members(lengths, dp, cfg)[d][i]) >= 1
<1>1. /\ n \in Nat \ {0} /\ dp \in Nat \ {0} /\ n % dp = 0 /\ cfg.mini \in Nat \ {0}
      /\ Len(lengths) = n
  <2>1. lengths \in [1..n -> Nat] /\ n \in Nat
    BY DEF Plannable
  <2> QED BY <2>1, ListIs DEF Plannable
<1> DEFINE local == LocalSize(n, dp)
           minis == MiniCount(n, dp, cfg)
           len(d) == [p \in 1..local |->
                        Smaller(lengths[LocalRows(lengths, dp, cfg)[d][p]], cfg.seqLen)]
           order(d) == Descending(1..local, len(d))
<1>2. Members(lengths, dp, cfg) = [d \in 1..dp |-> Snake(order(d), minis)]
  BY <1>1 DEF Members, LocalSize, MiniCount
<1>3. local \in Nat \ {0} /\ minis \in Nat \ {0} /\ minis <= local
  BY <1>1, PlanSizes
<1>4. ASSUME NEW d \in 1..dp
      PROVE  /\ Spreads(Snake(order(d), minis), minis, 1..local)
             /\ \A i \in 1..minis : Len(Snake(order(d), minis)[i]) >= 1
  <2>1. Sizes(1..local, len(d))
    <3>1. /\ LocalRows(lengths, dp, cfg)[d] \in [1..local -> 1..n]
          /\ \A p \in 1..local : CutLengths(lengths, dp, d, cfg)[p] \in Nat
      BY CutLengthsAre
    <3>2. DOMAIN LocalRows(lengths, dp, cfg)[d] = 1..local
      BY <3>1
    <3>3. len(d) = CutLengths(lengths, dp, d, cfg)
      BY <3>2 DEF CutLengths
    <3>4. DOMAIN len(d) = 1..local
      OBVIOUS
    <3> HIDE DEF len, local
    <3> QED BY <3>1, <3>3, <3>4 DEF Sizes
  <2> HIDE DEF len, local, minis
  <2>2. PICK o : o = order(d)
    OBVIOUS
  <2>3. Lists(o, local, 1..local) /\ Range(o) = 1..local
    <3> DEFINE I == 1..local
    <3>1. IsFiniteSet(I) /\ I \subseteq Int /\ local = Cardinality(I)
      BY <1>3, CountTo
    <3>2. Sizes(I, len(d)) /\ local \in Nat /\ o = Descending(I, len(d))
      BY <2>1, <2>2, <1>3
    <3> HIDE DEF I
    <3>3. Lists(o, local, I) /\ Range(o) = I
      BY <3>1, <3>2, DescendingIs
    <3> QED BY <3>3 DEF I
  <2> HIDE DEF order
  <2>4. Spreads(Snake(o, minis), minis, 1..local)
    BY <2>3, <1>3, SnakeSpreads
  <2>5. \A i \in 1..minis : Len(Snake(o, minis)[i]) >= 1
    BY <2>3, <1>3, SnakeSpreads
  <2> QED BY <2>2, <2>4, <2>5
<1> HIDE DEF order, local, minis
<1>5. DOMAIN Members(lengths, dp, cfg) = 1..dp
  BY <1>2
<1> QED BY <1>2, <1>4, <1>5 DEF local, minis

LEMMA ConcatIs ==
  ASSUME NEW m \in Nat, NEW n \in Nat, NEW S, NEW s \in [1..m -> S], NEW t \in [1..n -> S]
  PROVE  /\ s \o t \in [1..(m + n) -> S]
         /\ \A k \in 1..m : (s \o t)[k] = s[k]
         /\ \A k \in 1..n : (s \o t)[m + k] = t[k]
<1>1. s \in Seq(S) /\ Len(s) = m /\ t \in Seq(S) /\ Len(t) = n
  BY ListIs
<1>2. s \o t \in Seq(S) /\ Len(s \o t) = m + n
  BY <1>1
<1>3. s \o t \in [1..(m + n) -> S]
  BY <1>2, LenProperties
<1>4. \A k \in 1..(m + n) : (s \o t)[k] = IF k <= m THEN s[k] ELSE t[k - m]
  BY <1>1
<1>5. \A k \in 1..m : k \in 1..(m + n) /\ k <= m
  OBVIOUS
<1>6. \A k \in 1..n : m + k \in 1..(m + n) /\ ~(m + k <= m) /\ (m + k) - m = k
  OBVIOUS
<1> QED BY <1>3, <1>4, <1>5, <1>6

(* Empty bins at the end.                                                  *)
LEMMA SpreadsPadded ==
  ASSUME NEW B \in Nat, NEW X, NEW s, Spreads(s, B, X), NEW K \in Nat, B <= K,
         NEW t, DOMAIN t = 1..K, \A b \in 1..B : t[b] = s[b],
         \A b \in 1..K : b > B => t[b] = << >>
  PROVE  Spreads(t, K, X)
<1>1. \A b \in 1..K : b \in 1..B \/ b > B
  OBVIOUS
<1>2. \A b \in 1..K : b > B => Len(t[b]) = 0 /\ Lists(t[b], 0, X)
  <2>1. Len(<< >>) = 0 /\ << >> \in [1..0 -> X]
    OBVIOUS
  <2>2. Lists(<< >>, 0, X)
    BY <2>1 DEF Lists
  <2> QED BY <2>1, <2>2
<1>3. \A b \in 1..K : Len(t[b]) \in Nat /\ Lists(t[b], Len(t[b]), X)
  <2>1. \A b \in 1..B : Len(t[b]) \in Nat /\ Lists(t[b], Len(t[b]), X)
    BY DEF Spreads
  <2> QED BY <2>1, <1>1, <1>2
<1>4. \A b \in 1..K : \A r \in 1..Len(t[b]) : b \in 1..B
  BY <1>1, <1>2
<1>5. \A b, c \in 1..K : \A r \in 1..Len(t[b]), q \in 1..Len(t[c]) :
        t[b][r] = t[c][q] => b = c /\ r = q
  <2>1. \A b, c \in 1..B : \A r \in 1..Len(t[b]), q \in 1..Len(t[c]) :
          t[b][r] = t[c][q] => b = c /\ r = q
    BY DEF Spreads
  <2> QED BY <2>1, <1>4
<1>6. \A i \in X : \E b \in 1..K : \E r \in 1..Len(t[b]) : t[b][r] = i
  <2>1. \A i \in X : \E b \in 1..B : \E r \in 1..Len(t[b]) : t[b][r] = i
    BY DEF Spreads
  <2>2. \A b \in 1..B : b \in 1..K
    OBVIOUS
  <2> QED BY <2>1, <2>2
<1> QED BY <1>3, <1>5, <1>6 DEF Spreads

(* The micro-batches of every mini-batch of every rank.                    *)
PackedMinis(lengths, dp, cfg) ==
  [d \in 1..dp |->
     [i \in DOMAIN Members(lengths, dp, cfg)[d] |->
        PackMicros(Members(lengths, dp, cfg)[d][i], CutLengths(lengths, dp, d, cfg), cfg)]]

LEMMA PackedMiniPacks ==
  ASSUME NEW lengths, NEW n, NEW dp, NEW cfg, Plannable(lengths, n, dp, cfg),
         NEW d \in 1..dp, NEW i \in 1..MiniCount(n, dp, cfg),
         NEW X, X = Range(Members(lengths, dp, cfg)[d][i]),
         NEW pm, pm = PackedMinis(lengths, dp, cfg)[d][i]
  PROVE  /\ X \subseteq 1..LocalSize(n, dp) /\ IsFiniteSet(X)
         /\ Cardinality(X) = Len(Members(lengths, dp, cfg)[d][i]) /\ X # {}
         /\ \E K \in Nat \ {0} : Packs(pm, K, X, CutLengths(lengths, dp, d, cfg), cfg)
         /\ \A k \in DOMAIN pm : pm[k].width % cfg.align = 0
<1> DEFINE s == Members(lengths, dp, cfg)[d][i]
           local == LocalSize(n, dp)
           len == CutLengths(lengths, dp, d, cfg)
<1>1. /\ DOMAIN Members(lengths, dp, cfg)[d] = 1..MiniCount(n, dp, cfg)
      /\ Len(s) \in Nat /\ Len(s) >= 1 /\ Lists(s, Len(s), 1..local)
  BY MembersSpread DEF Spreads
<1>2. pm = PackMicros(s, len, cfg)
  BY <1>1 DEF PackedMinis
<1>3. DOMAIN len = 1..local /\ \A p \in 1..local : len[p] \in Nat
  BY CutLengthsAre
<1> HIDE DEF s, local, len
<1>4. X = Range(s)
  BY DEF s
<1>5. X \subseteq 1..local /\ IsFiniteSet(X) /\ Cardinality(X) = Len(s)
  <2> DEFINE m == Len(s)
  <2>1. m \in Nat /\ Lists(s, m, 1..local)
    BY <1>1
  <2> HIDE DEF m
  <2>2. Range(s) \subseteq 1..local /\ IsFiniteSet(Range(s)) /\ Cardinality(Range(s)) = m
    BY <2>1, ListRange
  <2> QED BY <2>2, <1>4 DEF m
<1>6. X # {}
  <2>1. Cardinality(X) # 0
    BY <1>1, <1>5
  <2> QED BY <2>1, FS_EmptySet
<1>7. /\ \E K : Packs(pm, K, X, len, cfg)
      /\ \A k \in DOMAIN pm : pm[k].width % cfg.align = 0
  <2>1. X \subseteq Int /\ X \subseteq DOMAIN len /\ \A x \in X : len[x] \in Nat
    <3>1. local \in Int
      <4>1. local \in Nat
        BY PlanSizes DEF Plannable, local
      <4> QED BY <4>1
    <3> QED BY <3>1, <1>3, <1>5
  <2>2. cfg.align \in Nat \ {0}
    BY DEF Plannable
  <2> QED BY <2>1, <2>2, <1>2, <1>4, <1>5, PackMicrosPacks
<1>8. PICK K : Packs(pm, K, X, len, cfg)
  BY <1>7
<1>9. K \in Nat \ {0}
  <2>1. K \in Nat
    BY <1>8 DEF Packs
  <2>2. CASE K = 0
    <3>1. PICK x : x \in X
      BY <1>6
    <3>2. \E b \in 1..K : TRUE
      BY <3>1, <1>8 DEF Packs, Spreads
    <3> QED BY <3>2, <2>2
  <2> QED BY <2>1, <2>2
<1>10. \E J \in Nat \ {0} : Packs(pm, J, X, len, cfg)
  BY <1>8, <1>9
<1> QED BY <1>5, <1>6, <1>7, <1>10 DEF s, local, len

(* As many micro-batches as the rank with the most.                        *)
MostMicros(minis, i) == Max({Len(minis[q][i]) : q \in DOMAIN minis})

EqualMicrosAre(ms, K, X, len, cfg) ==
  /\ K \in Nat \ {0}
  /\ ms \in [1..K -> MicroRecords]
  /\ Spreads(RowsIn(ms), K, X)
  /\ cfg.layout = "padded" => WideEnough(ms, K, len)
  /\ \A k \in 1..K : ms[k].width % cfg.align = 0

LEMMA EqualMicrosPack ==
  ASSUME NEW dp \in Nat \ {0}, NEW minis, DOMAIN minis = 1..dp, NEW i,
         \A q \in 1..dp : Len(minis[q][i]) \in Nat,
         NEW cfg, cfg.align \in Nat \ {0}, NEW d \in 1..dp, NEW len, NEW X,
         NEW B \in Nat \ {0}, Packs(minis[d][i], B, X, len, cfg),
         \A k \in DOMAIN minis[d][i] : minis[d][i][k].width % cfg.align = 0,
         NEW ms, ms = EqualMicros(minis, d, i, cfg),
         NEW K, K = MostMicros(minis, i)
  PROVE  EqualMicrosAre(ms, K, X, len, cfg)
<1>1. PICK pm : pm = minis[d][i]
  OBVIOUS
<1>2. /\ B \in Nat /\ B >= 1 /\ pm \in [1..B -> MicroRecords] /\ Spreads(RowsIn(pm), B, X)
      /\ cfg.layout = "padded" => WideEnough(pm, B, len)
      /\ \A k \in 1..B : pm[k].width % cfg.align = 0
  <2>1. Packs(pm, B, X, len, cfg)
    BY <1>1
  <2>2. DOMAIN pm = 1..B
    BY <2>1 DEF Packs
  <2> QED BY <2>1, <2>2, <1>1 DEF Packs
<1>3. Len(pm) = B
  BY <1>2, ListIs
<1>4. K \in Nat /\ B <= K
  <2> DEFINE L == {Len(minis[q][i]) : q \in 1..dp}
             f == [q \in 1..dp |-> Len(minis[q][i])]
  <2>1. L = {f[q] : q \in 1..dp} /\ 1..dp \subseteq DOMAIN f
    OBVIOUS
  <2>2. IsFiniteSet(L)
    <3>1. IsFiniteSet(1..dp)
      BY CountTo
    <3> DEFINE I == 1..dp
    <3>2. IsFiniteSet(I) /\ I \subseteq DOMAIN f
      BY <2>1, <3>1
    <3> HIDE DEF I, f
    <3>3. IsFiniteSet({f[q] : q \in I})
      BY <3>2, ImageFinite
    <3> QED BY <3>3, <2>1 DEF I
  <2>3. L \subseteq Int /\ L \subseteq Nat /\ B \in L
    <3>1. \A q \in 1..dp : Len(minis[q][i]) \in Int
      OBVIOUS
    <3> QED BY <3>1, <1>1, <1>3
  <2>4. K = Max(L)
    BY DEF MostMicros
  <2> HIDE DEF L
  <2>5. Max(L) \in L /\ \A y \in L : Max(L) >= y
    <3>1. L # {}
      BY <2>3
    <3> QED BY <3>1, <2>2, <2>3, MaxMin
  <2> QED BY <2>3, <2>4, <2>5
<1> DEFINE f == [k \in 1..(K - B) |-> Filler(cfg)]
<1>5. K - B \in Nat /\ f \in [1..(K - B) -> MicroRecords]
  <2>1. cfg.align \in Nat /\ << >> \in Seq(Int)
    OBVIOUS
  <2>2. Filler(cfg) \in MicroRecords
    BY <2>1 DEF Filler, MicroRecords
  <2> QED BY <2>2, <1>4
<1>6. ms = pm \o f
  BY <1>1, <1>3 DEF EqualMicros, MostMicros
<1>7. \A k \in 1..(K - B) : f[k] = Filler(cfg)
  OBVIOUS
<1> HIDE DEF f
<1>8. /\ ms \in [1..K -> MicroRecords]
      /\ \A k \in 1..B : ms[k] = pm[k]
      /\ \A k \in 1..K : k > B => ms[k] = Filler(cfg)
  <2>1. /\ pm \o f \in [1..(B + (K - B)) -> MicroRecords]
        /\ \A k \in 1..B : (pm \o f)[k] = pm[k]
        /\ \A k \in 1..(K - B) : (pm \o f)[B + k] = f[k]
    <3>1. PICK n \in Nat : n = K - B
      BY <1>5
    <3>2. f \in [1..n -> MicroRecords]
      BY <3>1, <1>5
    <3>3. pm \in [1..B -> MicroRecords]
      BY <1>2
    <3>4. pm \o f \in [1..(B + n) -> MicroRecords]
      BY <3>2, <3>3, ConcatIs
    <3>5. \A k \in 1..B : (pm \o f)[k] = pm[k]
      BY <3>2, <3>3, ConcatIs
    <3>6. \A k \in 1..n : (pm \o f)[B + k] = f[k]
      BY <3>2, <3>3, ConcatIs
    <3> QED BY <3>1, <3>4, <3>5, <3>6
  <2>2. B + (K - B) = K
    BY <1>4
  <2>3. ASSUME NEW k \in 1..K, k > B PROVE ms[k] = Filler(cfg)
    <3>1. k - B \in 1..(K - B) /\ B + (k - B) = k
      BY <2>3, <1>4
    <3> QED BY <3>1, <2>1, <1>6, <1>7
  <2> QED BY <2>1, <2>2, <2>3, <1>6
<1>9. \A k \in 1..K : k \in 1..B \/ k > B
  BY <1>4
<1>10. DOMAIN RowsIn(ms) = 1..K /\ \A k \in 1..K : RowsIn(ms)[k] = ms[k].rows
  BY <1>8 DEF RowsIn
<1>11. Filler(cfg).rows = << >> /\ Filler(cfg).width = cfg.align
  BY DEF Filler
<1>12. Spreads(RowsIn(ms), K, X)
  <2>1. \A k \in 1..B : RowsIn(pm)[k] = pm[k].rows
    BY <1>2 DEF RowsIn
  <2>2. \A k \in 1..B : RowsIn(ms)[k] = RowsIn(pm)[k]
    <3>1. \A k \in 1..B : k \in 1..K
      BY <1>4
    <3> QED BY <3>1, <2>1, <1>8, <1>10
  <2>3. \A k \in 1..K : k > B => RowsIn(ms)[k] = << >>
    BY <1>8, <1>10, <1>11
  <2> QED BY <2>2, <2>3, <1>2, <1>4, <1>10, SpreadsPadded
<1>13. ASSUME cfg.layout = "padded" PROVE WideEnough(ms, K, len)
  <2>1. ASSUME NEW k \in 1..K, NEW p \in 1..Len(ms[k].rows)
        PROVE  len[ms[k].rows[p]] <= ms[k].width
    <3>1. CASE k \in 1..B
      BY <3>1, <1>2, <1>8, <1>13 DEF WideEnough
    <3>2. CASE k > B
      <4>1. Len(ms[k].rows) = 0
        BY <3>2, <1>8, <1>11
      <4> QED BY <4>1
    <3> QED BY <3>1, <3>2, <1>9
  <2> QED BY <2>1 DEF WideEnough
<1>14. \A k \in 1..K : ms[k].width % cfg.align = 0
  <2>1. cfg.align % cfg.align = 0
    OBVIOUS
  <2> QED BY <2>1, <1>2, <1>8, <1>9, <1>11
<1>15. K # 0
  BY <1>2, <1>4
<1> QED BY <1>4, <1>8, <1>12, <1>13, <1>14, <1>15 DEF EqualMicrosAre

(* The rows that a shard trains in a mini-batch, as positions in its list  *)
(* and as rows of the batch.                                               *)
Share(lengths, dp, cfg, d, i) == Range(Members(lengths, dp, cfg)[d][i])
ShareRows(lengths, dp, cfg, d, i) ==
  {LocalRows(lengths, dp, cfg)[d][x] : x \in Share(lengths, dp, cfg, d, i)}

(* What a plan says of shard d.                                            *)
Micro(P, d, i) == P[d].minis[i].micros
Plans(P, lengths, n, dp, cfg) ==
  /\ DOMAIN P = 1..dp
  /\ \A d \in 1..dp :
       /\ P[d].rows = LocalRows(lengths, dp, cfg)[d]
       /\ P[d].rows \in [1..LocalSize(n, dp) -> 1..n]
       /\ DOMAIN P[d].minis = 1..MiniCount(n, dp, cfg)
       /\ Len(P[d].minis) = MiniCount(n, dp, cfg)
MicrosAre(P, lengths, dp, cfg, d, i, K) ==
  /\ Micro(P, d, i) \in [1..K -> MicroRecords]
  /\ Len(Micro(P, d, i)) = K
  /\ Spreads(RowsIn(Micro(P, d, i)), K, Share(lengths, dp, cfg, d, i))
  /\ cfg.layout = "padded" =>
       WideEnough(Micro(P, d, i), K, CutLengths(lengths, dp, d, cfg))
  /\ \A k \in 1..K : Micro(P, d, i)[k].width % cfg.align = 0

LEMMA BuildPlanParts ==
  ASSUME NEW lengths, NEW n, NEW dp, NEW cfg, Plannable(lengths, n, dp, cfg)
  PROVE  BuildPlan(lengths, dp, cfg) =
           [d \in 1..dp |->
             [rows |-> LocalRows(lengths, dp, cfg)[d],
              minis |-> [i \in DOMAIN PackedMinis(lengths, dp, cfg)[d] |->
                [micros |-> EqualMicros(PackedMinis(lengths, dp, cfg), d, i, cfg),
                 docs |-> GlobalDocs(Members(lengths, dp, cfg), i, d)]]]]
BY DEF BuildPlan, PackedMinis, CutLengths

(* What build_plan promises, for a batch it accepts: a plan of every shard *)
(* with its own rows; in each mini-batch the same number of micro-batches  *)
(* on all shards, over which the shard's share is spread, none of it lost  *)
(* or repeated, and in the padded layout in micro-batches wide enough for  *)
(* it; widths of the planner's alignment; and a count of the mini-batch's  *)
(* documents over all shards.                                              *)
THEOREM BuildPlanIs ==
  ASSUME NEW lengths, NEW n, NEW dp, NEW cfg, Plannable(lengths, n, dp, cfg),
         NEW P, P = BuildPlan(lengths, dp, cfg)
  PROVE  /\ Plans(P, lengths, n, dp, cfg)
         /\ \A i \in 1..MiniCount(n, dp, cfg) :
              \E K \in Nat \ {0} : \A d \in 1..dp : MicrosAre(P, lengths, dp, cfg, d, i, K)
         /\ \A d \in 1..dp, i \in 1..MiniCount(n, dp, cfg) :
              P[d].minis[i].docs = GlobalDocs(Members(lengths, dp, cfg), i, d)
<1> DEFINE PM == PackedMinis(lengths, dp, cfg)
           LR == LocalRows(lengths, dp, cfg)
           MB == Members(lengths, dp, cfg)
           I == MiniCount(n, dp, cfg)
<1>1. ASSUME NEW d \in 1..dp PROVE DOMAIN PM[d] = 1..I
  <2>1. DOMAIN MB[d] = 1..I
    BY MembersSpread DEF Spreads
  <2> QED BY <2>1 DEF PackedMinis
<1>2. DOMAIN PM = 1..dp
  BY DEF PackedMinis
<1> HIDE DEF PM, LR, MB, I
<1>3. P = [d \in 1..dp |->
             [rows |-> LR[d],
              minis |-> [i \in DOMAIN PM[d] |->
                [micros |-> EqualMicros(PM, d, i, cfg), docs |-> GlobalDocs(MB, i, d)]]]]
  BY BuildPlanParts DEF PM, LR, MB
<1>4. ASSUME NEW d \in 1..dp
      PROVE  /\ P[d].rows = LR[d]
             /\ P[d].minis = [i \in 1..I |->
                  [micros |-> EqualMicros(PM, d, i, cfg), docs |-> GlobalDocs(MB, i, d)]]
  <2>1. P[d] = [rows |-> LR[d],
                minis |-> [i \in DOMAIN PM[d] |->
                  [micros |-> EqualMicros(PM, d, i, cfg), docs |-> GlobalDocs(MB, i, d)]]]
    BY <1>3
  <2>2. /\ P[d].rows = LR[d]
        /\ P[d].minis = [i \in DOMAIN PM[d] |->
             [micros |-> EqualMicros(PM, d, i, cfg), docs |-> GlobalDocs(MB, i, d)]]
    BY <2>1
  <2>3. P[d].minis = [i \in 1..I |->
             [micros |-> EqualMicros(PM, d, i, cfg), docs |-> GlobalDocs(MB, i, d)]]
    BY <2>2, <1>1, Zenon
  <2> QED BY <2>2, <2>3
<1>5. ASSUME NEW d \in 1..dp, NEW i \in 1..I
      PROVE  /\ Micro(P, d, i) = EqualMicros(PM, d, i, cfg)
             /\ P[d].minis[i].docs = GlobalDocs(MB, i, d)
  <2>1. P[d].minis[i] = [micros |-> EqualMicros(PM, d, i, cfg), docs |-> GlobalDocs(MB, i, d)]
    BY <1>4
  <2>2. /\ P[d].minis[i].micros = EqualMicros(PM, d, i, cfg)
        /\ P[d].minis[i].docs = GlobalDocs(MB, i, d)
    BY <2>1
  <2> QED BY <2>2 DEF Micro
<1>6. Plans(P, lengths, n, dp, cfg)
  <2>1. DOMAIN P = 1..dp
    BY <1>3
  <2>2. ASSUME NEW d \in 1..dp
        PROVE  /\ P[d].rows = LR[d]
               /\ P[d].rows \in [1..LocalSize(n, dp) -> 1..n]
               /\ DOMAIN P[d].minis = 1..I
               /\ Len(P[d].minis) = I
    <3>1. P[d].rows = LR[d] /\ DOMAIN P[d].minis = 1..I
      BY <1>4
    <3>2. P[d].rows \in [1..LocalSize(n, dp) -> 1..n]
      BY <3>1, CutLengthsAre DEF LR
    <3>3. I \in Nat
      BY PlanSizes DEF Plannable, I
    <3>4. P[d].minis \in [1..I -> {P[d].minis[i] : i \in 1..I}]
      <4>1. P[d].minis = [i \in 1..I |-> P[d].minis[i]]
        BY <1>4
      <4> QED BY <4>1
    <3>5. Len(P[d].minis) = I
      BY <3>3, <3>4, ListIs
    <3> QED BY <3>1, <3>2, <3>5
  <2> QED BY <2>1, <2>2 DEF Plans, LR, I
<1>7. ASSUME NEW i \in 1..I
      PROVE  \E K \in Nat \ {0} : \A d \in 1..dp : MicrosAre(P, lengths, dp, cfg, d, i, K)
  <2> DEFINE K == MostMicros(PM, i)
  <2>1. ASSUME NEW d \in 1..dp
        PROVE  /\ \E B \in Nat \ {0} : Packs(PM[d][i], B, Share(lengths, dp, cfg, d, i),
                                             CutLengths(lengths, dp, d, cfg), cfg)
               /\ \A k \in DOMAIN PM[d][i] : PM[d][i][k].width % cfg.align = 0
    BY PackedMiniPacks DEF PM, I, Share
  <2>2. \A q \in 1..dp : Len(PM[q][i]) \in Nat
    <3> SUFFICES ASSUME NEW q \in 1..dp PROVE Len(PM[q][i]) \in Nat
      OBVIOUS
    <3>1. PICK B \in Nat : PM[q][i] \in [1..B -> MicroRecords]
      BY <2>1 DEF Packs
    <3> QED BY <3>1, ListIs
  <2>3. dp \in Nat \ {0} /\ cfg.align \in Nat \ {0}
    BY DEF Plannable
  <2> HIDE DEF K
  <2>4. ASSUME NEW d \in 1..dp
        PROVE  K \in Nat \ {0} /\ MicrosAre(P, lengths, dp, cfg, d, i, K)
    <3> DEFINE X == Share(lengths, dp, cfg, d, i)
               len == CutLengths(lengths, dp, d, cfg)
               ms == Micro(P, d, i)
    <3>1. PICK B \in Nat \ {0} : Packs(PM[d][i], B, X, len, cfg)
      BY <2>1
    <3>2. ms = EqualMicros(PM, d, i, cfg)
      BY <1>5
    <3> HIDE DEF X, len, ms
    <3>3. /\ K \in Nat \ {0}
          /\ ms \in [1..K -> MicroRecords]
          /\ Spreads(RowsIn(ms), K, X)
          /\ cfg.layout = "padded" => WideEnough(ms, K, len)
          /\ \A k \in 1..K : ms[k].width % cfg.align = 0
      <4>1. \A k \in DOMAIN PM[d][i] : PM[d][i][k].width % cfg.align = 0
        BY <2>1
      <4>2. K = MostMicros(PM, i)
        BY DEF K
      <4>3. EqualMicrosAre(ms, K, X, len, cfg)
        BY <1>2, <2>2, <2>3, <3>1, <3>2, <4>1, <4>2, EqualMicrosPack
      <4> QED BY <4>3 DEF EqualMicrosAre
    <3>4. Len(ms) = K
      BY <3>3, ListIs
    <3> QED BY <3>3, <3>4 DEF X, len, ms, MicrosAre
  <2>5. 1 \in 1..dp
    BY <2>3
  <2>6. K \in Nat \ {0}
    BY <2>4, <2>5
  <2> QED BY <2>4, <2>6
<1> QED BY <1>5, <1>6, <1>7 DEF MB, I

(* The shards' shares of the mini-batches spread the rows of the batch:    *)
(* every row is in one mini-batch of one shard, and in one only.           *)
THEOREM SharesSpread ==
  ASSUME NEW lengths, NEW n, NEW dp, NEW cfg, Plannable(lengths, n, dp, cfg)
  PROVE  /\ \A d \in 1..dp, i \in 1..MiniCount(n, dp, cfg) :
              /\ Share(lengths, dp, cfg, d, i) \subseteq 1..LocalSize(n, dp)
              /\ ShareRows(lengths, dp, cfg, d, i) \subseteq 1..n
              /\ IsFiniteSet(ShareRows(lengths, dp, cfg, d, i))
              /\ Cardinality(ShareRows(lengths, dp, cfg, d, i)) =
                   Len(Members(lengths, dp, cfg)[d][i])
         /\ \A d, e \in 1..dp, i, k \in 1..MiniCount(n, dp, cfg), x \in 1..n :
              x \in ShareRows(lengths, dp, cfg, d, i) /\ x \in ShareRows(lengths, dp, cfg, e, k)
                => d = e /\ i = k
         /\ \A x \in 1..n : \E d \in 1..dp, i \in 1..MiniCount(n, dp, cfg) :
              x \in ShareRows(lengths, dp, cfg, d, i)
<1> DEFINE LR == LocalRows(lengths, dp, cfg)
           MB == Members(lengths, dp, cfg)
           I == MiniCount(n, dp, cfg)
           local == LocalSize(n, dp)
           S(d, i) == Share(lengths, dp, cfg, d, i)
           R(d, i) == ShareRows(lengths, dp, cfg, d, i)
<1>1. \A d \in 1..dp : LR[d] \in [1..local -> 1..n] /\ Len(LR[d]) = local
  BY CutLengthsAre, LocalRowsSpread
<1>2. /\ \A b, c \in 1..dp : \A r \in 1..local, q \in 1..local :
           LR[b][r] = LR[c][q] => b = c /\ r = q
      /\ \A x \in 1..n : \E b \in 1..dp : \E r \in 1..local : LR[b][r] = x
  BY <1>1, LocalRowsSpread DEF Spreads
<1>3. ASSUME NEW d \in 1..dp
      PROVE  /\ \A i \in 1..I : Len(MB[d][i]) \in Nat /\ Lists(MB[d][i], Len(MB[d][i]), 1..local)
             /\ \A i, k \in 1..I : \A r \in 1..Len(MB[d][i]), q \in 1..Len(MB[d][k]) :
                  MB[d][i][r] = MB[d][k][q] => i = k /\ r = q
             /\ \A x \in 1..local : \E i \in 1..I : \E r \in 1..Len(MB[d][i]) : MB[d][i][r] = x
  <2>1. Spreads(MB[d], I, 1..local)
    BY MembersSpread
  <2> HIDE DEF MB, I, local
  <2> QED BY <2>1 DEF Spreads
<1> HIDE DEF LR, MB, I, local
<1>4. ASSUME NEW d \in 1..dp, NEW i \in 1..I
      PROVE  S(d, i) = {MB[d][i][r] : r \in 1..Len(MB[d][i])} /\ S(d, i) \subseteq 1..local
  <2>1. Lists(MB[d][i], Len(MB[d][i]), 1..local) /\ Len(MB[d][i]) \in Nat
    BY <1>3
  <2> DEFINE s == MB[d][i]
             m == Len(s)
  <2>2. m \in Nat /\ Lists(s, m, 1..local)
    BY <2>1
  <2> HIDE DEF m
  <2>3. Range(s) = {s[r] : r \in 1..m} /\ Range(s) \subseteq 1..local
    <3> HIDE DEF s
    <3> QED BY <2>2, ListRange
  <2>4. S(d, i) = Range(s)
    BY DEF MB, Share
  <2> QED BY <2>3, <2>4 DEF m
<1>5. ASSUME NEW d \in 1..dp, NEW i \in 1..I
      PROVE  R(d, i) = {LR[d][x] : x \in S(d, i)}
  BY DEF ShareRows, LR
<1> HIDE DEF R, S
<1>6. ASSUME NEW d \in 1..dp, NEW i \in 1..I PROVE R(d, i) \subseteq 1..n
  BY <1>1, <1>4, <1>5
<1>7. ASSUME NEW d \in 1..dp, NEW i \in 1..I
      PROVE  IsFiniteSet(R(d, i)) /\ Cardinality(R(d, i)) = Len(MB[d][i])
  <2>10. PICK m : m = Len(MB[d][i])
    OBVIOUS
  <2>11. PICK g : g = [r \in 1..m |-> LR[d][MB[d][i][r]]]
    OBVIOUS
  <2>1. m \in Nat /\ \A r \in 1..m : MB[d][i][r] \in 1..local
    BY <1>3, <2>10 DEF Lists
  <2>2. \A r, q \in 1..m : g[r] = g[q] => r = q
    <3> SUFFICES ASSUME NEW r \in 1..m, NEW q \in 1..m, g[r] = g[q] PROVE r = q
      OBVIOUS
    <3>1. LR[d][MB[d][i][r]] = LR[d][MB[d][i][q]]
      BY <2>11
    <3> DEFINE y == MB[d][i][r]
               z == MB[d][i][q]
    <3>2. y \in 1..local /\ z \in 1..local
      BY <2>1
    <3>3. y = z
      <4> HIDE DEF y, z
      <4>1. LR[d][y] = LR[d][z]
        BY <3>1 DEF y, z
      <4> QED BY <3>2, <4>1, <1>2
    <3> QED BY <3>3, <1>3, <2>10
  <2>3. R(d, i) = {g[r] : r \in 1..m}
    <3>1. R(d, i) = {LR[d][x] : x \in {MB[d][i][r] : r \in 1..m}}
      BY <1>4, <1>5, <2>10
    <3>2. \A r \in 1..m : g[r] = LR[d][MB[d][i][r]]
      BY <2>11
    <3> QED BY <3>1, <3>2
  <2>4. DOMAIN g = 1..m
    BY <2>11
  <2>5. IsFiniteSet({g[r] : r \in 1..m}) /\ Cardinality({g[r] : r \in 1..m}) = m
    <3>1. m \in Nat
      BY <2>1
    <3> QED BY <3>1, <2>2, <2>4, CountOfList
  <2> QED BY <2>3, <2>5, <2>10
<1>8. ASSUME NEW d \in 1..dp, NEW e \in 1..dp, NEW i \in 1..I, NEW k \in 1..I,
             NEW x, x \in R(d, i), x \in R(e, k)
      PROVE  d = e /\ i = k
  <2>1. PICK y \in S(d, i) : x = LR[d][y]
    BY <1>5, <1>8
  <2>2. PICK z \in S(e, k) : x = LR[e][z]
    BY <1>5, <1>8
  <2>3. y \in 1..local /\ z \in 1..local
    BY <1>4
  <2>4. d = e /\ y = z
    <3>1. LR[d][y] = LR[e][z]
      BY <2>1, <2>2
    <3> QED BY <3>1, <2>3, <1>2
  <2>5. PICK r \in 1..Len(MB[d][i]) : y = MB[d][i][r]
    BY <1>4
  <2>6. PICK q \in 1..Len(MB[d][k]) : y = MB[d][k][q]
    BY <1>4, <2>4
  <2>7. i = k
    <3>1. MB[d][i][r] = MB[d][k][q]
      BY <2>5, <2>6
    <3> QED BY <3>1, <1>3
  <2> QED BY <2>4, <2>7
<1>9. ASSUME NEW x \in 1..n PROVE \E d \in 1..dp, i \in 1..I : x \in R(d, i)
  <2>1. PICK d \in 1..dp : \E r \in 1..local : LR[d][r] = x
    BY <1>2
  <2>2. PICK r \in 1..local : LR[d][r] = x
    BY <2>1
  <2>3. PICK i \in 1..I : \E q \in 1..Len(MB[d][i]) : MB[d][i][q] = r
    BY <1>3
  <2>4. r \in S(d, i)
    BY <2>3, <1>4
  <2> QED BY <2>2, <2>4, <1>5
<1>10. \A d \in 1..dp, i \in 1..I :
         S(d, i) \subseteq 1..local /\ R(d, i) \subseteq 1..n /\ IsFiniteSet(R(d, i))
         /\ Cardinality(R(d, i)) = Len(MB[d][i])
  BY <1>4, <1>6, <1>7
<1> QED BY <1>8, <1>9, <1>10 DEF R, S, MB, I, local

(* What is counted bin by bin is counted in all.                           *)
Places(f, n) == {e \in (1..n) \X Nat : e[2] \in 1..f[e[1]]}

LEMMA PlacesAre ==
  ASSUME NEW N \in Nat, NEW f \in [1..N -> Nat]
  PROVE  IsFiniteSet(Places(f, N)) /\ Cardinality(Places(f, N)) = Total(f)
<1> DEFINE T(n) == Total(First(f, n))
           S == {n \in 0..N : IsFiniteSet(Places(f, n)) /\ Cardinality(Places(f, n)) = T(n)}
<1>1. /\ \A n \in 0..N : T(n) \in Int
      /\ T(0) = 0 /\ \A n \in 1..N : T(n) = T(n - 1) + f[n]
      /\ T(N) = Total(f)
  <2>1. f \in [1..N -> Int]
    OBVIOUS
  <2> QED BY <2>1, TotalFirst, TotalIsFirst
<1> HIDE DEF T
<1>2. 0 \in S
  <2>1. Places(f, 0) = {}
    BY DEF Places
  <2>2. IsFiniteSet({}) /\ Cardinality({}) = 0 /\ 0 \in 0..N
    BY FS_EmptySet
  <2> QED BY <2>1, <2>2, <1>1
<1>3. ASSUME NEW n \in 1..N, n - 1 \in S PROVE n \in S
  <2>1. PICK A : A = Places(f, n - 1)
    OBVIOUS
  <2>2. PICK B : B = {n} \X (1..f[n])
    OBVIOUS
  <2>3. IsFiniteSet(A) /\ Cardinality(A) = T(n - 1)
    BY <1>3, <2>1
  <2>4. f[n] \in Nat
    OBVIOUS
  <2>5. IsFiniteSet(B) /\ Cardinality(B) = f[n]
    <3>1. IsFiniteSet({n}) /\ Cardinality({n}) = 1
      BY FS_Singleton
    <3>2. IsFiniteSet(1..f[n]) /\ Cardinality(1..f[n]) = f[n]
      BY <2>4, CountTo
    <3>3. IsFiniteSet({n} \X (1..f[n])) /\ Cardinality({n} \X (1..f[n])) = 1 * f[n]
      <4> DEFINE U == {n}
                 V == 1..f[n]
      <4>1. IsFiniteSet(U) /\ IsFiniteSet(V) /\ Cardinality(U) = 1 /\ Cardinality(V) = f[n]
        BY <3>1, <3>2
      <4> HIDE DEF U, V
      <4>2. IsFiniteSet(U \X V) /\ Cardinality(U \X V) = Cardinality(U) * Cardinality(V)
        BY <4>1, FS_Product
      <4> QED BY <4>1, <4>2 DEF U, V
    <3> QED BY <3>3, <2>2, <2>4
  <2>6. Places(f, n) = A \cup B
    <3>1. \A q \in 1..n : q = n \/ q \in 1..(n - 1)
      OBVIOUS
    <3>2. \A q \in 1..(n - 1) : q \in 1..n
      OBVIOUS
    <3>3. n \in 1..n
      OBVIOUS
    <3>4. ASSUME NEW e \in Places(f, n) PROVE e \in A \cup B
      <4>1. e \in (1..n) \X Nat /\ e[2] \in 1..f[e[1]]
        BY DEF Places
      <4>2. CASE e[1] = n
        BY <4>1, <4>2, <2>2
      <4>3. CASE e[1] \in 1..(n - 1)
        BY <4>1, <4>3, <2>1 DEF Places
      <4> QED BY <4>1, <4>2, <4>3, <3>1
    <3>5. ASSUME NEW e \in A PROVE e \in Places(f, n)
      BY <3>2, <2>1 DEF Places
    <3>6. ASSUME NEW e \in B PROVE e \in Places(f, n)
      <4>1. PICK j \in 1..f[n] : e = <<n, j>>
        BY <2>2
      <4>2. j \in Nat
        BY <2>4
      <4> QED BY <4>1, <4>2, <3>3 DEF Places
    <3> QED BY <3>4, <3>5, <3>6
  <2>7. A \cap B = {}
    <3>1. \A e \in A : e[1] # n
      BY <2>1 DEF Places
    <3>2. \A e \in B : e[1] = n
      BY <2>2
    <3> QED BY <3>1, <3>2
  <2>8. IsFiniteSet(A \cup B) /\ Cardinality(A \cup B) = Cardinality(A) + Cardinality(B)
    <3>1. IsFiniteSet(A \cup B)
      BY <2>3, <2>5, FS_Union
    <3>2. Cardinality(A \cup B) = Cardinality(A) + Cardinality(B) - Cardinality(A \cap B)
      BY <2>3, <2>5, FS_Union
    <3>3. Cardinality(A \cap B) = 0
      BY <2>7, FS_EmptySet
    <3>4. Cardinality(A) \in Int /\ Cardinality(B) \in Int
      BY <2>3, <2>5, FS_CardinalityType
    <3> QED BY <3>1, <3>2, <3>3, <3>4
  <2>9. n \in 0..N /\ T(n) = T(n - 1) + f[n]
    BY <1>1
  <2> QED BY <2>3, <2>5, <2>6, <2>8, <2>9
<1>4. N \in S
  <2>1. \A n \in 0..N : n \in S
    <3> HIDE DEF S
    <3> QED BY <1>2, <1>3, Upwards
  <2>2. N \in 0..N
    OBVIOUS
  <2> HIDE DEF S
  <2> QED BY <2>1, <2>2
<1> QED BY <1>1, <1>4

-----------------------------------------------------------------------------
(* Powers, and the closed form of a discounted sum.                        *)

Powers(b, n) ==
  CHOOSE power : power = [k \in 0..n |-> IF k = 0 THEN 1 ELSE b * power[k - 1]]
PowersOf(f, b, n) == f = [k \in 0..n |-> IF k = 0 THEN 1 ELSE b * f[k - 1]]

LEMMA PowerIsPowers ==
  ASSUME NEW b, NEW n
  PROVE  Power(b, n) = Powers(b, n)[n]
BY DEF Power, Powers

LEMMA PowersSolve ==
  ASSUME NEW b, NEW n, NEW f, PowersOf(f, b, n)
  PROVE  PowersOf(Powers(b, n), b, n)
BY Zenon DEF Powers, PowersOf

LEMMA PowersAre ==
  ASSUME NEW b \in Int, NEW n \in Nat
  PROVE  /\ Powers(b, n)[0] = 1
         /\ \A k \in 1..n : Powers(b, n)[k] = b * Powers(b, n)[k - 1]
         /\ \A k \in 0..n : Powers(b, n)[k] \in Int
<1> DEFINE F == [e \in Int \X (1..n) |-> b * e[1]]
<1>1. \A x \in Int, k \in 1..n : F[<<x, k>>] = b * x /\ F[<<x, k>>] \in Int
  OBVIOUS
<1>2. PICK f \in [0..n -> Int] : Recursion(f, 1, F, n)
  <2>1. 1 \in Int /\ StepsIn(F, Int, n)
    BY <1>1 DEF StepsIn
  <2> HIDE DEF F
  <2> QED BY <2>1, RecursionExists
<1>3. f = [k \in 0..n |-> IF k = 0 THEN 1 ELSE b * f[k - 1]]
  <2>1. ASSUME NEW k \in 1..n PROVE f[k] = b * f[k - 1]
    <3>1. f[k - 1] \in Int
      OBVIOUS
    <3> HIDE DEF F
    <3> QED BY <3>1, <1>1, <1>2 DEF Recursion
  <2> QED BY <2>1, <1>2 DEF Recursion
<1>4. PICK p : p = Powers(b, n)
  OBVIOUS
<1>5. p = [k \in 0..n |-> IF k = 0 THEN 1 ELSE b * p[k - 1]]
  <2>1. PowersOf(f, b, n)
    BY <1>3 DEF PowersOf
  <2>2. PowersOf(p, b, n)
    BY <2>1, <1>4, PowersSolve
  <2> QED BY <2>2 DEF PowersOf
<1>6. p[0] = 1 /\ \A k \in 1..n : p[k] = b * p[k - 1]
  BY <1>5
<1> DEFINE S == {j \in 0..n : p[j] \in Int}
<1>7. \A k \in 0..n : k \in S
  <2>1. 0 \in S
    BY <1>6
  <2>2. ASSUME NEW k \in 1..n, k - 1 \in S PROVE k \in S
    <3>1. p[k - 1] \in Int /\ k \in 0..n
      BY <2>2
    <3> QED BY <3>1, <1>6
  <2> HIDE DEF S
  <2> QED BY <2>1, <2>2, Upwards
<1>8. \A k \in 0..n : p[k] \in Int
  BY <1>7
<1> QED BY <1>4, <1>6, <1>8

LEMMA PowerIs ==
  ASSUME NEW b \in Int
  PROVE  /\ Power(b, 0) = 1
         /\ \A n \in Nat : Power(b, n) \in Int
         /\ \A n \in Nat : Power(b, n + 1) = b * Power(b, n)
<1>1. Power(b, 0) = 1
  BY PowerIsPowers, PowersAre
<1>2. ASSUME NEW n \in Nat PROVE Power(b, n) \in Int
  <2>1. n \in 0..n
    OBVIOUS
  <2> QED BY <2>1, PowerIsPowers, PowersAre
<1>3. ASSUME NEW n \in Nat PROVE Power(b, n + 1) = b * Power(b, n)
  <2>1. PICK p : p = Powers(b, n)
    OBVIOUS
  <2>2. PICK q : q = Powers(b, n + 1)
    OBVIOUS
  <2>3. p[0] = 1 /\ (\A k \in 1..n : p[k] = b * p[k - 1]) /\ Power(b, n) = p[n]
    BY <2>1, PowersAre, PowerIsPowers
  <2>4. q[0] = 1 /\ (\A k \in 1..(n + 1) : q[k] = b * q[k - 1]) /\ Power(b, n + 1) = q[n + 1]
    <3>1. n + 1 \in Nat
      OBVIOUS
    <3> QED BY <3>1, <2>2, PowersAre, PowerIsPowers
  <2> DEFINE S == {k \in 0..n : q[k] = p[k]}
  <2>5. \A k \in 0..n : k \in S
    <3>1. 0 \in S
      BY <2>3, <2>4
    <3>2. ASSUME NEW k \in 1..n, k - 1 \in S PROVE k \in S
      <4>1. q[k - 1] = p[k - 1] /\ k \in 0..n /\ k \in 1..(n + 1)
        BY <3>2
      <4> QED BY <4>1, <2>3, <2>4
    <3> HIDE DEF S
    <3> QED BY <3>1, <3>2, Upwards
  <2>6. n \in 0..n /\ n + 1 \in 1..(n + 1) /\ (n + 1) - 1 = n
    OBVIOUS
  <2>7. q[n] = p[n]
    BY <2>5, <2>6
  <2>8. q[n + 1] = b * q[n]
    BY <2>4, <2>6
  <2> QED BY <2>3, <2>4, <2>7, <2>8
<1> QED BY <1>1, <1>2, <1>3

LEMMA PowerAdds ==
  ASSUME NEW b \in Int, NEW m \in Nat, NEW n \in Nat
  PROVE  Power(b, m + n) = Power(b, m) * Power(b, n)
<1> DEFINE S == {k \in 0..m : Power(b, k + n) = Power(b, k) * Power(b, n)}
<1>1. Power(b, n) \in Int /\ \A k \in Nat : Power(b, k) \in Int
  BY PowerIs
<1>2. 0 \in S
  <2>1. 0 + n = n /\ 1 * Power(b, n) = Power(b, n)
    BY <1>1
  <2>2. Power(b, 0) = 1
    BY PowerIs
  <2> QED BY <2>1, <2>2
<1>3. ASSUME NEW k \in 1..m, k - 1 \in S PROVE k \in S
  <2>1. PICK j \in Nat : j = k - 1
    OBVIOUS
  <2>2. Power(b, j + n) = Power(b, j) * Power(b, n)
    BY <1>3, <2>1
  <2>3. Power(b, j + 1) = b * Power(b, j)
    BY PowerIs
  <2>4. Power(b, (j + n) + 1) = b * Power(b, j + n)
    <3>1. j + n \in Nat
      OBVIOUS
    <3> QED BY <3>1, PowerIs
  <2>5. (j + n) + 1 = k + n /\ j + 1 = k /\ k \in 0..m
    BY <2>1
  <2>6. \A u, v, w \in Int : u * (v * w) = (u * v) * w
    OBVIOUS
  <2>7. b * (Power(b, j) * Power(b, n)) = (b * Power(b, j)) * Power(b, n)
    BY <2>6, <1>1
  <2>8. Power(b, k + n) = Power(b, k) * Power(b, n)
    BY <2>2, <2>3, <2>4, <2>5, <2>7
  <2> QED BY <2>5, <2>8
<1>4. m \in S
  <2>1. \A k \in 0..m : k \in S
    <3> HIDE DEF S
    <3> QED BY <1>2, <1>3, Upwards
  <2>2. m \in 0..m
    OBVIOUS
  <2> HIDE DEF S
  <2> QED BY <2>1, <2>2
<1> QED BY <1>4

(* The run of linked positions around t, and what is left of it.           *)
LEMMA RunStartIs ==
  ASSUME NEW S \in Nat, NEW mask, mask \subseteq 1..S, NEW t \in mask
  PROVE  /\ RunStart(mask, t) \in 1..t
         /\ RunStart(mask, t)..t \subseteq mask
         /\ RunStart(mask, t) > 1 => RunStart(mask, t) - 1 \notin mask
<1> DEFINE A == {s \in 1..t : s \in mask /\ ~(s > 1 /\ Continues(mask, s - 1))}
           B == {0} \cup A
           s == RunStart(mask, t)
<1>1. t \in Nat /\ t >= 1
  OBVIOUS
<1>2. IsFiniteSet(B) /\ B \subseteq Int /\ B # {}
  <2>1. IsFiniteSet(1..t) /\ A \subseteq 1..t
    BY <1>1, CountTo
  <2>2. IsFiniteSet(A)
    <3> HIDE DEF A
    <3> QED BY <2>1, FS_Subset
  <2>3. IsFiniteSet({0})
    BY FS_Singleton
  <2>4. IsFiniteSet(B)
    <3> HIDE DEF A
    <3> QED BY <2>2, <2>3, FS_Union
  <2> QED BY <2>1, <2>4
<1>3. s \in B /\ \A y \in B : s >= y
  <2>1. s = Max(B)
    BY DEF RunStart
  <2> HIDE DEF B, s
  <2> QED BY <1>2, <2>1, MaxMin
<1> HIDE DEF s
<1>4. \A u \in 1..t : u \in mask /\ u > s /\ u > 1 => u - 1 \in mask
  <2> SUFFICES ASSUME NEW u \in 1..t, u \in mask, u > s, u > 1 PROVE u - 1 \in mask
    OBVIOUS
  <2>1. u \notin B
    <3>1. ~(s >= u)
      <4>1. s \in Int
        BY <1>3, <1>2
      <4> QED BY <4>1
    <3> QED BY <3>1, <1>3
  <2>2. Continues(mask, u - 1)
    BY <2>1
  <2> QED BY <2>2 DEF Continues
<1>5. s \in 0..t
  BY <1>3
<1> DEFINE D == {k \in 0..(t - s) : k = t \/ t - k \in mask}
<1>6. \A k \in 0..(t - s) : k \in D
  <2>1. t - s \in Nat /\ 0 \in D
    BY <1>5, <1>1
  <2>2. ASSUME NEW k \in 1..(t - s), k - 1 \in D PROVE k \in D
    <3>1. k \in 0..(t - s)
      OBVIOUS
    <3>2. CASE k = t
      BY <3>1, <3>2
    <3>3. CASE k # t
      <4>1. k - 1 # t /\ t - (k - 1) > s /\ t - (k - 1) > 1 /\ t - (k - 1) \in 1..t
        BY <3>3, <1>1, <1>5
      <4>2. t - (k - 1) \in mask
        BY <2>2, <4>1
      <4>3. (t - (k - 1)) - 1 \in mask
        BY <4>1, <4>2, <1>4
      <4>4. (t - (k - 1)) - 1 = t - k
        BY <1>1
      <4> QED BY <3>1, <4>3, <4>4
    <3> QED BY <3>2, <3>3
  <2> HIDE DEF D
  <2> QED BY <2>1, <2>2, Upwards
<1>7. s # 0
  <2>1. CASE s = 0
    <3>1. t - 1 \in 0..(t - s) /\ t - 1 # t /\ t - (t - 1) = 1
      BY <2>1, <1>1
    <3>2. t - 1 \in D
      BY <3>1, <1>6
    <3>3. 1 \in mask
      BY <3>1, <3>2
    <3>4. 1 \in B
      BY <3>3, <1>1
    <3> QED BY <3>4, <2>1, <1>3
  <2> QED BY <2>1
<1>8. s \in A
  BY <1>3, <1>7
<1>9. ASSUME NEW u \in s..t PROVE u \in mask
  <2>1. t - u \in 0..(t - s) /\ t - u # t /\ t - (t - u) = u
    BY <1>1, <1>5, <1>7
  <2>2. t - u \in D
    BY <2>1, <1>6
  <2> QED BY <2>1, <2>2
<1>10. s > 1 => s - 1 \notin mask
  BY <1>8 DEF Continues
<1>11. s \in 1..t
  BY <1>5, <1>7
<1> QED BY <1>9, <1>10, <1>11 DEF s

LEMMA RunEndIs ==
  ASSUME NEW S \in Nat, NEW mask, mask \subseteq 1..S, NEW t \in mask
  PROVE  /\ RunEnd(mask, t, S) \in t..S
         /\ t..RunEnd(mask, t, S) \subseteq mask
         /\ RunEnd(mask, t, S) + 1 \notin mask
<1> DEFINE A == {e \in t..S : e \in mask /\ ~Continues(mask, e)}
           B == {S + 1} \cup A
           e == RunEnd(mask, t, S)
<1>1. t \in Nat /\ t >= 1 /\ t <= S
  OBVIOUS
<1>2. IsFiniteSet(B) /\ B \subseteq Int /\ B # {}
  <2>1. IsFiniteSet(1..S) /\ A \subseteq 1..S
    BY <1>1, CountTo
  <2>2. IsFiniteSet(A)
    <3> HIDE DEF A
    <3> QED BY <2>1, FS_Subset
  <2>3. IsFiniteSet({S + 1})
    BY FS_Singleton
  <2>4. IsFiniteSet(B)
    <3> HIDE DEF A
    <3> QED BY <2>2, <2>3, FS_Union
  <2> QED BY <2>1, <2>4
<1>3. e \in B /\ \A y \in B : e <= y
  <2>1. e = Min(B)
    BY DEF RunEnd
  <2> HIDE DEF B, e
  <2> QED BY <1>2, <2>1, MaxMin
<1> HIDE DEF e
<1>4. \A u \in t..S : u \in mask /\ u < e => u + 1 \in mask
  <2> SUFFICES ASSUME NEW u \in t..S, u \in mask, u < e PROVE u + 1 \in mask
    OBVIOUS
  <2>1. u \notin B
    <3>1. ~(e <= u)
      <4>1. e \in Int
        BY <1>3, <1>2
      <4> QED BY <4>1
    <3> QED BY <3>1, <1>3
  <2>2. Continues(mask, u)
    BY <2>1
  <2> QED BY <2>2 DEF Continues
<1>5. e \in t..(S + 1)
  BY <1>3, <1>1
<1> DEFINE D == {k \in 0..(e - t) : t + k \in mask}
<1>6. \A k \in 0..(e - t) : k \in D
  <2>1. e - t \in Nat /\ 0 \in D
    BY <1>5, <1>1
  <2>2. ASSUME NEW k \in 1..(e - t), k - 1 \in D PROVE k \in D
    <3>1. k \in 0..(e - t)
      OBVIOUS
    <3>2. t + (k - 1) \in mask /\ t + (k - 1) < e /\ t + (k - 1) \in t..S
      BY <2>2, <1>1, <1>5
    <3>3. (t + (k - 1)) + 1 \in mask
      BY <3>2, <1>4
    <3>4. (t + (k - 1)) + 1 = t + k
      BY <1>1
    <3> QED BY <3>1, <3>3, <3>4
  <2> HIDE DEF D
  <2> QED BY <2>1, <2>2, Upwards
<1>7. ASSUME NEW u \in t..e PROVE u \in mask
  <2>1. u - t \in 0..(e - t) /\ t + (u - t) = u
    BY <1>1, <1>5
  <2>2. u - t \in D
    BY <2>1, <1>6
  <2> QED BY <2>1, <2>2
<1>8. e # S + 1
  <2>1. CASE e = S + 1
    <3>1. S + 1 \in t..e
      BY <2>1, <1>1
    <3>2. S + 1 \in mask
      BY <3>1, <1>7
    <3> QED BY <3>2
  <2> QED BY <2>1
<1>9. e \in A
  BY <1>3, <1>8
<1>10. e + 1 \notin mask
  BY <1>9 DEF Continues
<1>11. e \in t..S
  BY <1>9
<1> QED BY <1>7, <1>10, <1>11 DEF e

RunAround(mask, t, S, s, e) ==
  /\ s \in 1..t /\ e \in t..S
  /\ TurnAfter(mask, t, S) = t..e
  /\ \A u \in t..e : u \in mask /\ RunStart(mask, u) = s

LEMMA RunIs ==
  ASSUME NEW S \in Nat, NEW mask, mask \subseteq 1..S, NEW t \in mask,
         NEW s, s = RunStart(mask, t), NEW e, e = RunEnd(mask, t, S)
  PROVE  RunAround(mask, t, S, s, e)
<1>1. t \in 1..S
  OBVIOUS
<1>2. s \in 1..t /\ s..t \subseteq mask /\ (s > 1 => s - 1 \notin mask)
  BY RunStartIs
<1>3. e \in t..S /\ t..e \subseteq mask /\ e + 1 \notin mask
  BY RunEndIs
<1>4. TurnAfter(mask, t, S) = t..e
  <2>1. ASSUME NEW k \in t..e PROVE k \in TurnAfter(mask, t, S)
    <3>1. k \in t..S /\ \A j \in t..k : j \in t..e
      BY <1>1, <1>3
    <3> QED BY <3>1, <1>3 DEF TurnAfter
  <2>2. ASSUME NEW k \in TurnAfter(mask, t, S) PROVE k \in t..e
    <3>1. k \in t..S /\ t..k \subseteq mask
      BY DEF TurnAfter
    <3>2. CASE k > e
      <4>1. e + 1 \in t..k
        BY <3>1, <3>2, <1>1, <1>3
      <4> QED BY <4>1, <3>1, <1>3
    <3>3. CASE k <= e
      BY <3>1, <3>3, <1>1, <1>3
    <3> QED BY <3>1, <3>2, <3>3, <1>1, <1>3
  <2> QED BY <2>1, <2>2
<1>5. ASSUME NEW u \in t..e PROVE u \in mask /\ RunStart(mask, u) = s
  <2>1. u \in mask
    BY <1>3
  <2>2. PICK v : v = RunStart(mask, u)
    OBVIOUS
  <2>3. v \in 1..u /\ v..u \subseteq mask /\ (v > 1 => v - 1 \notin mask)
    BY <2>1, <2>2, RunStartIs
  <2>4. ~(v < s)
    <3> SUFFICES ASSUME v < s PROVE FALSE
      OBVIOUS
    <3>1. s > 1 /\ s - 1 \in v..u
      BY <2>3, <1>1, <1>2
    <3> QED BY <3>1, <2>3, <1>2
  <2>5. ~(v > s)
    <3> SUFFICES ASSUME v > s PROVE FALSE
      OBVIOUS
    <3>1. v > 1 /\ v - 1 \in s..u
      BY <2>3, <1>1, <1>2
    <3>2. v - 1 \in s..t \/ v - 1 \in t..e
      BY <3>1, <1>1, <1>2, <1>3
    <3> QED BY <3>1, <3>2, <2>3, <1>2, <1>3
  <2>6. v = s
    BY <2>3, <2>4, <2>5, <1>1, <1>2
  <2> QED BY <2>1, <2>2, <2>6
<1> QED BY <1>2, <1>3, <1>4, <1>5 DEF RunAround

(* The parts of the closed form.                                           *)
InRun(mask, t) == IF t > RunStart(mask, t) THEN t - RunStart(mask, t) ELSE 0
ScanTerm(x, Den, mask, S, t) ==
  IF t \in mask THEN x[t] * Power(Den, S - InRun(mask, t)) ELSE 0
Suffix(x, Den, mask, S, t) ==
  Total([k \in 1..(S + 1 - t) |-> ScanTerm(x, Den, mask, S, S + 1 - k)])

LEMMA ReverseScanParts ==
  ASSUME NEW x, NEW Den, NEW mask, NEW S
  PROVE  ReverseScan(x, Den, mask, S) =
           [t \in 1..S |->
              IF t \in mask
              THEN (Suffix(x, Den, mask, S, t)
                      - Suffix(x, Den, mask, S, Min({RunEnd(mask, t, S) + 1, S + 1})))
                     * Power(Den, InRun(mask, t))
              ELSE 0]
BY DEF ReverseScan, Suffix, ScanTerm, InRun

LEMMA InRunIs ==
  ASSUME NEW S \in Nat, NEW mask, mask \subseteq 1..S, NEW t \in mask
  PROVE  InRun(mask, t) = t - RunStart(mask, t) /\ InRun(mask, t) \in 0..(t - 1)
<1>1. RunStart(mask, t) \in 1..t /\ t \in 1..S
  BY RunStartIs
<1> QED BY <1>1 DEF InRun

LEMMA ScanTermIs ==
  ASSUME NEW S \in Nat, NEW mask, mask \subseteq 1..S, NEW x \in [1..S -> Int],
         NEW Den \in Int, NEW t
  PROVE  ScanTerm(x, Den, mask, S, t) \in Int
<1>1. CASE t \in mask
  <2>1. InRun(mask, t) \in 0..(t - 1) /\ t \in 1..S
    BY <1>1, InRunIs
  <2>2. S - InRun(mask, t) \in Nat
    BY <2>1
  <2>3. Power(Den, S - InRun(mask, t)) \in Int
    BY <2>2, PowerIs
  <2>4. x[t] \in Int
    BY <2>1
  <2>5. x[t] * Power(Den, S - InRun(mask, t)) \in Int
    BY <2>3, <2>4
  <2> QED BY <1>1, <2>5 DEF ScanTerm
<1>2. CASE t \notin mask
  BY <1>2 DEF ScanTerm
<1> QED BY <1>1, <1>2

LEMMA TakeOff ==
  ASSUME NEW a \in Int, NEW b \in Int, NEW y \in Int, NEW c \in Int
  PROVE  (a - b) * c + y * c = (a - (b - y)) * c
OBVIOUS

SumsTurn(x, Den, mask, S, t, n) ==
  (Suffix(x, Den, mask, S, t) - Suffix(x, Den, mask, S, RunEnd(mask, t, S) + 1))
        * Power(Den, InRun(mask, t))
      = Total([k \in 1..n |-> x[t + k - 1] * Power(Den, S - (k - 1))])

(* Taking terms off the suffix adds them to the sum of the turn.           *)
LEMMA TurnSum ==
  ASSUME NEW S \in Nat, NEW mask, mask \subseteq 1..S, NEW x \in [1..S -> Int],
         NEW Den \in Int, NEW t \in mask,
         NEW n, n = RunEnd(mask, t, S) + 1 - t
  PROVE  SumsTurn(x, Den, mask, S, t, n)
<1> DEFINE term(u) == ScanTerm(x, Den, mask, S, u)
           g == [k \in 1..S |-> term(S + 1 - k)]
           H(k) == Total(First(g, k))
           h == [k \in 1..n |-> x[t + k - 1] * Power(Den, S - (k - 1))]
           B(k) == Total(First(h, k))
           c == Power(Den, InRun(mask, t))
<1>1. PICK s : s = RunStart(mask, t)
  OBVIOUS
<1>2. PICK e : e = RunEnd(mask, t, S)
  OBVIOUS
<1>3. /\ s \in 1..t /\ e \in t..S /\ t \in 1..S
      /\ \A u \in t..e : u \in mask /\ RunStart(mask, u) = s
  <2>1. RunAround(mask, t, S, s, e)
    BY <1>1, <1>2, RunIs
  <2>2. t \in 1..S
    OBVIOUS
  <2> QED BY <2>1, <2>2 DEF RunAround
<1>4. n = e + 1 - t /\ n \in Nat /\ n \in 1..S
  BY <1>2, <1>3
<1>5. InRun(mask, t) = t - s /\ t - s \in Nat
  <2>1. s \in 1..t /\ t \in 1..S
    BY <1>3
  <2>2. InRun(mask, t) = t - RunStart(mask, t)
    BY InRunIs
  <2>3. t - s \in Nat
    BY <2>1
  <2> QED BY <2>2, <2>3, <1>1
<1>6. \A k \in Nat : Power(Den, k) \in Int
  BY PowerIs
<1>7. c \in Int
  BY <1>5, <1>6
<1>8. g \in [1..S -> Int] /\ \A u \in 1..S : g[S + 1 - u] = term(u)
  <2>1. \A u : term(u) \in Int
    BY ScanTermIs
  <2>2. \A u \in 1..S : S + 1 - u \in 1..S /\ S + 1 - (S + 1 - u) = u
    OBVIOUS
  <2> HIDE DEF term
  <2> QED BY <2>1, <2>2
<1>9. ASSUME NEW k \in 1..n
      PROVE  /\ h[k] = term(t + k - 1) * c /\ h[k] \in Int
             /\ term(t + k - 1) \in Int /\ t + k - 1 \in 1..S
  <2>1. PICK u \in t..e : u = t + k - 1
    BY <1>3, <1>4
  <2>2. u \in mask /\ u \in 1..S /\ InRun(mask, u) = u - s
    BY <1>3, InRunIs
  <2>3. term(u) = x[u] * Power(Den, S - (u - s))
    BY <2>2 DEF ScanTerm
  <2>4. S - (u - s) \in Nat /\ (S - (u - s)) + (t - s) = S - (k - 1) /\ S - (k - 1) \in Nat
    BY <2>1, <2>2, <1>3, <1>4
  <2>5. Power(Den, (S - (u - s)) + (t - s)) = Power(Den, S - (u - s)) * Power(Den, t - s)
    BY <2>4, <1>5, PowerAdds
  <2>6. Power(Den, S - (k - 1)) = Power(Den, S - (u - s)) * c
    BY <2>4, <2>5, <1>5
  <2>7. x[u] \in Int /\ Power(Den, S - (u - s)) \in Int
    BY <2>2, <2>4, <1>6
  <2>8. \A a, b, d \in Int : a * (b * d) = (a * b) * d /\ a * (b * d) \in Int /\ a * b \in Int
    OBVIOUS
  <2>9. h[k] = x[u] * (Power(Den, S - (u - s)) * c)
    BY <2>1, <2>6
  <2> HIDE DEF h, c, term
  <2> QED BY <2>1, <2>2, <2>3, <2>7, <2>8, <2>9, <1>7
<1>10. h \in [1..n -> Int]
  <2>1. \A k \in 1..n : h[k] \in Int
    BY <1>9
  <2>2. h = [k \in 1..n |-> h[k]]
    OBVIOUS
  <2> HIDE DEF h
  <2> QED BY <2>1, <2>2
<1> HIDE DEF g, h, c, term
<1>11. /\ \A k \in 0..S : H(k) \in Int
       /\ \A k \in 1..S : H(k) = H(k - 1) + g[k]
  BY <1>8, TotalFirst
<1>12. /\ \A k \in 0..n : B(k) \in Int
       /\ B(0) = 0
       /\ \A k \in 1..n : B(k) = B(k - 1) + h[k]
       /\ B(n) = Total(h)
  BY <1>4, <1>10, TotalFirst, TotalIsFirst
<1> HIDE DEF H, B
<1> DEFINE N == S + 1 - t
           D == {k \in 0..n : (H(N) - H(N - k)) * c = B(k)}
<1>13. 0 \in D
  <2>1. N \in 0..S /\ N - 0 = N /\ 0 \in 0..n
    BY <1>3, <1>4
  <2>2. H(N) \in Int
    BY <2>1, <1>11
  <2>3. H(N) - H(N - 0) = 0
    BY <2>1, <2>2
  <2>4. 0 * c = 0
    BY <1>7
  <2> HIDE DEF N
  <2> QED BY <2>1, <2>3, <2>4, <1>12
<1>14. ASSUME NEW k \in 1..n, k - 1 \in D PROVE k \in D
  <2>1. (H(N) - H(N - (k - 1))) * c = B(k - 1)
    BY <1>14
  <2>2. PICK m \in 1..S : m = N - (k - 1)
    BY <1>3, <1>4
  <2>3. N \in 0..S /\ m \in 0..S /\ m - 1 \in 0..S /\ m - 1 = N - k
    BY <2>2, <1>3, <1>4
  <2>4. H(N) \in Int /\ H(m) \in Int /\ H(m - 1) \in Int
    BY <2>3, <1>11
  <2>5. H(m) = H(m - 1) + g[m]
    BY <1>11
  <2>6. g[m] = term(t + k - 1)
    <3>1. t + k - 1 \in 1..S /\ m = S + 1 - (t + k - 1)
      BY <2>2, <1>3, <1>9
    <3> QED BY <3>1, <1>8
  <2>7. h[k] = g[m] * c /\ g[m] \in Int
    BY <2>6, <1>9
  <2>9. H(N) - H(m - 1) = H(N) - (H(m) - g[m])
    BY <2>4, <2>5, <2>7
  <2>10. (H(N) - H(m)) * c + g[m] * c = (H(N) - H(m - 1)) * c
    <3> HIDE DEF N
    <3>1. PICK a \in Int : a = H(N)
      BY <2>4
    <3>2. PICK b \in Int : b = H(m)
      BY <2>4
    <3>3. PICK y \in Int : y = g[m]
      BY <2>7
    <3>4. (a - b) * c + y * c = (a - (b - y)) * c
      BY <1>7, TakeOff
    <3>5. H(N) - H(m - 1) = a - (b - y)
      BY <2>9, <3>1, <3>2, <3>3
    <3> QED BY <3>1, <3>2, <3>3, <3>4, <3>5
  <2>11. B(k) = B(k - 1) + h[k]
    BY <1>12
  <2>12. (H(N) - H(N - k)) * c = B(k)
    <3> HIDE DEF N
    <3> QED BY <2>1, <2>2, <2>3, <2>7, <2>10, <2>11
  <2>13. k \in 0..n
    BY <1>4
  <2> HIDE DEF N
  <2> QED BY <2>12, <2>13
<1>15. n \in D
  <2>1. \A k \in 0..n : k \in D
    <3> HIDE DEF D
    <3> QED BY <1>4, <1>13, <1>14, Upwards
  <2>2. n \in 0..n
    BY <1>4
  <2> HIDE DEF D
  <2> QED BY <2>1, <2>2
<1>16. (H(N) - H(N - n)) * c = Total(h)
  BY <1>12, <1>15
<1>17. ASSUME NEW u \in 1..(S + 1) PROVE Suffix(x, Den, mask, S, u) = H(S + 1 - u)
  <2>1. \A k \in 1..(S + 1 - u) : k \in 1..S
    OBVIOUS
  <2>2. \A k \in 1..(S + 1 - u) : g[k] = ScanTerm(x, Den, mask, S, S + 1 - k)
    BY <2>1 DEF g, term
  <2>3. First(g, S + 1 - u) = [k \in 1..(S + 1 - u) |-> ScanTerm(x, Den, mask, S, S + 1 - k)]
    BY <2>2 DEF First
  <2> QED BY <2>3 DEF H, Suffix
<1>18. Suffix(x, Den, mask, S, t) = H(N) /\ Suffix(x, Den, mask, S, e + 1) = H(N - n)
  <2>1. t \in 1..(S + 1) /\ e + 1 \in 1..(S + 1) /\ S + 1 - (e + 1) = N - n
    <3>1. e \in t..S /\ t \in 1..S
      BY <1>3
    <3>2. e \in Int /\ t \in Int
      BY <3>1
    <3>3. S + 1 - (e + 1) = (S + 1 - t) - (e + 1 - t)
      BY <3>2
    <3>4. t \in 1..(S + 1) /\ e + 1 \in 1..(S + 1)
      BY <3>1
    <3> QED BY <3>3, <3>4, <1>4
  <2> QED BY <2>1, <1>17
<1> HIDE DEF N
<1> QED BY <1>2, <1>16, <1>18 DEF h, c, SumsTurn

(* The difference of two suffix sums that the trainer and the critic take  *)
(* for a position is the discounted sum of the rest of its own turn, for   *)
(* every mask, width and input.                                            *)
THEOREM ScanIsByTurn ==
  ASSUME NEW S \in Nat, NEW mask, mask \subseteq 1..S, NEW x \in [1..S -> Int],
         NEW Den \in Int
  PROVE  ReverseScan(x, Den, mask, S) = ByTurn(x, Den, mask, S)
<1> DEFINE R == ReverseScan(x, Den, mask, S)
           T == ByTurn(x, Den, mask, S)
<1>1. /\ DOMAIN R = 1..S /\ R = [t \in 1..S |-> R[t]]
      /\ DOMAIN T = 1..S /\ T = [t \in 1..S |-> T[t]]
  BY ReverseScanParts DEF ByTurn
<1>2. ASSUME NEW t \in 1..S PROVE R[t] = T[t]
  <2>1. T[t] = Total([k \in 1..Cardinality(TurnAfter(mask, t, S)) |->
                        x[t + k - 1] * Power(Den, S - (k - 1))])
    BY DEF ByTurn
  <2>2. CASE t \in mask
    <3>1. PICK e : e = RunEnd(mask, t, S)
      OBVIOUS
    <3>2. e \in t..S /\ TurnAfter(mask, t, S) = t..e
      <4>1. PICK s : s = RunStart(mask, t)
        OBVIOUS
      <4>2. RunAround(mask, t, S, s, e)
        BY <2>2, <3>1, <4>1, RunIs
      <4> QED BY <4>2 DEF RunAround
    <3>3. Cardinality(t..e) = e + 1 - t
      <4>1. t \in Int /\ e \in Int /\ t <= e
        BY <3>2
      <4>2. Cardinality(t..e) = e - t + 1
        BY <4>1, FS_Interval
      <4> QED BY <4>1, <4>2
    <3>4. Min({e + 1, S + 1}) = e + 1
      <4>1. {e + 1, S + 1} \subseteq Int /\ IsFiniteSet({e + 1, S + 1})
        <5>1. IsFiniteSet({e + 1}) /\ IsFiniteSet({S + 1})
          BY FS_Singleton
        <5>2. IsFiniteSet({e + 1} \cup {S + 1})
          BY <5>1, FS_Union
        <5>3. {e + 1} \cup {S + 1} = {e + 1, S + 1}
          OBVIOUS
        <5>4. IsFiniteSet({e + 1, S + 1})
          BY <5>2, <5>3
        <5>5. {e + 1, S + 1} \subseteq Int
          BY <3>2
        <5> QED BY <5>4, <5>5
      <4>2. Min({e + 1, S + 1}) \in {e + 1, S + 1} /\ Min({e + 1, S + 1}) <= e + 1
        BY <4>1, MaxMin
      <4> QED BY <4>2, <3>2
    <3>5. R[t] = (Suffix(x, Den, mask, S, t) - Suffix(x, Den, mask, S, e + 1))
                   * Power(Den, InRun(mask, t))
      BY <2>2, <3>1, <3>4, ReverseScanParts
    <3>6. R[t] = Total([k \in 1..(e + 1 - t) |-> x[t + k - 1] * Power(Den, S - (k - 1))])
      <4>1. PICK n : n = e + 1 - t
        OBVIOUS
      <4>2. n = RunEnd(mask, t, S) + 1 - t
        BY <4>1, <3>1
      <4>3. SumsTurn(x, Den, mask, S, t, n)
        BY <2>2, <4>2, TurnSum
      <4> QED BY <3>1, <3>5, <4>1, <4>3 DEF SumsTurn
    <3> QED BY <2>1, <3>2, <3>3, <3>6
  <2>3. CASE t \notin mask
    <3>1. R[t] = 0
      BY <2>3, ReverseScanParts
    <3>2. TurnAfter(mask, t, S) = {}
      <4>1. \A k \in t..S : t \in t..k
        OBVIOUS
      <4> QED BY <4>1, <2>3 DEF TurnAfter
    <3>3. Cardinality(TurnAfter(mask, t, S)) = 0
      BY <3>2, FS_EmptySet
    <3>4. Total([k \in 1..0 |-> x[t + k - 1] * Power(Den, S - (k - 1))]) = 0
      <4>1. [k \in 1..0 |-> x[t + k - 1] * Power(Den, S - (k - 1))] = << >>
        OBVIOUS
      <4>2. Total(<< >>) = 0
        <5>1. DOMAIN << >> = 1..0
          OBVIOUS
        <5> QED BY <5>1, TotalNone
      <4> QED BY <4>1, <4>2
    <3> QED BY <2>1, <3>1, <3>3, <3>4
  <2> QED BY <2>2, <2>3
<1> HIDE DEF R, T
<1>3. R = T
  BY <1>1, <1>2
<1> QED BY <1>3 DEF R, T

-----------------------------------------------------------------------------
(* What a rank runs through: the rows of its share of a mini-batch, one    *)
(* micro-batch after the other.                                            *)

(* What stands in the first k lists of s.                                  *)
Before(s, k) == UNION {{s[j][q] : q \in 1..Len(s[j])} : j \in 1..k}

LEMMA BeforeIs ==
  ASSUME NEW K \in Nat, NEW X, NEW s, Spreads(s, K, X)
  PROVE  /\ Before(s, 0) = {} /\ Before(s, K) = X
         /\ \A k \in 1..K :
              /\ Before(s, k) = Before(s, k - 1) \cup {s[k][q] : q \in 1..Len(s[k])}
              /\ \A q \in 1..Len(s[k]) : s[k][q] \notin Before(s, k - 1)
<1>1. Before(s, 0) = {}
  BY DEF Before
<1>2. Before(s, K) = X
  <2>1. ASSUME NEW j \in 1..K, NEW q \in 1..Len(s[j]) PROVE s[j][q] \in X
    BY DEF Spreads, Lists
  <2>2. ASSUME NEW x \in X PROVE x \in Before(s, K)
    BY DEF Spreads, Before
  <2> QED BY <2>1, <2>2 DEF Before
<1>3. ASSUME NEW k \in 1..K
      PROVE  Before(s, k) = Before(s, k - 1) \cup {s[k][q] : q \in 1..Len(s[k])}
  <2>1. 1..k = (1..(k - 1)) \cup {k}
    OBVIOUS
  <2> QED BY <2>1 DEF Before
<1>4. ASSUME NEW k \in 1..K, NEW q \in 1..Len(s[k]), s[k][q] \in Before(s, k - 1)
      PROVE  FALSE
  <2>1. PICK j \in 1..(k - 1) : \E p \in 1..Len(s[j]) : s[j][p] = s[k][q]
    BY <1>4 DEF Before
  <2>2. PICK p \in 1..Len(s[j]) : s[j][p] = s[k][q]
    BY <2>1
  <2>3. j \in 1..K /\ j # k
    OBVIOUS
  <2> QED BY <2>2, <2>3 DEF Spreads
<1> QED BY <1>1, <1>2, <1>3, <1>4

(* The terms g are in T, and one for each row of S.                        *)
Enters(g, S, T) ==
  /\ Len(g) \in Nat /\ g \in [1..Len(g) -> T]
  /\ \A p, q \in 1..Len(g) : g[p].row = g[q].row => p = q
  /\ \A p \in 1..Len(g) : g[p].row \in S
  /\ \A x \in S : \E p \in 1..Len(g) : g[p].row = x

LEMMA NothingEnters ==
  ASSUME NEW T
  PROVE  Enters(<< >>, {}, T)
BY DEF Enters

LEMMA EntersCount ==
  ASSUME NEW g, NEW S, NEW T, Enters(g, S, T)
  PROVE  IsFiniteSet(S) /\ Cardinality(S) = Len(g)
<1> DEFINE f == [p \in 1..Len(g) |-> g[p].row]
<1>1. PICK n \in Nat : n = Len(g)
  BY DEF Enters
<1>2. DOMAIN f = 1..n
  BY <1>1
<1>3. \A j, k \in 1..n : f[j] = f[k] => j = k
  BY <1>1 DEF Enters
<1>4. {f[k] : k \in 1..n} = S
  BY <1>1 DEF Enters
<1> HIDE DEF f
<1>5. IsFiniteSet({f[k] : k \in 1..n}) /\ Cardinality({f[k] : k \in 1..n}) = n
  BY <1>2, <1>3, CountOfList
<1> QED BY <1>1, <1>4, <1>5

LEMMA EntersNext ==
  ASSUME NEW K \in Nat, NEW X, NEW s, Spreads(s, K, X), NEW k \in 1..K,
         NEW T, NEW g, Enters(g, Before(s, k - 1), T),
         NEW n, n = Len(s[k]), NEW h \in [1..n -> T], \A q \in 1..n : h[q].row = s[k][q]
  PROVE  Enters(g \o h, Before(s, k), T)
<1>0. PICK m \in Nat : m = Len(g)
  BY DEF Enters
<1>1. g \in [1..m -> T] /\ m = Len(g)
  BY <1>0 DEF Enters
<1>2. n \in Nat
  BY DEF Spreads
<1>3. /\ g \o h \in [1..(m + n) -> T]
      /\ \A p \in 1..m : (g \o h)[p] = g[p]
      /\ \A p \in 1..n : (g \o h)[m + p] = h[p]
  <2>1. g \o h \in [1..(m + n) -> T]
    BY <1>1, <1>2, ConcatIs
  <2>2. \A p \in 1..m : (g \o h)[p] = g[p]
    BY <1>1, <1>2, ConcatIs
  <2>3. \A p \in 1..n : (g \o h)[m + p] = h[p]
    BY <1>1, <1>2, ConcatIs
  <2> QED BY <2>1, <2>2, <2>3
<1>4. Len(g \o h) = m + n /\ m + n \in Nat
  BY <1>1, <1>2, <1>3, ListIs
<1>5. PICK z : z = g \o h
  OBVIOUS
<1>6. PICK A : A = Before(s, k - 1)
  OBVIOUS
<1>7. PICK B : B = {s[k][q] : q \in 1..n}
  OBVIOUS
<1>8. Before(s, k) = A \cup B /\ \A q \in 1..n : s[k][q] \notin A
  BY <1>6, <1>7, BeforeIs
<1>9. \A p, q \in 1..n : s[k][p] = s[k][q] => p = q
  BY DEF Spreads, Lists
<1>10. /\ \A p, q \in 1..m : g[p].row = g[q].row => p = q
       /\ \A p \in 1..m : g[p].row \in A
       /\ \A x \in A : \E p \in 1..m : g[p].row = x
  BY <1>1, <1>6 DEF Enters
<1>11. ASSUME NEW p \in 1..(m + n)
       PROVE  \/ p \in 1..m /\ z[p].row = g[p].row /\ z[p].row \in A
              \/ p - m \in 1..n /\ z[p].row = s[k][p - m] /\ z[p].row \in B /\ z[p].row \notin A
  <2>1. CASE p \in 1..m
    BY <2>1, <1>3, <1>5, <1>10
  <2>2. CASE p \notin 1..m
    <3>1. p - m \in 1..n /\ m + (p - m) = p
      BY <2>2, <1>2
    <3>2. z[p] = h[p - m]
      BY <3>1, <1>3, <1>5
    <3> QED BY <3>1, <3>2, <1>7, <1>8
  <2> QED BY <2>1, <2>2
<1>12. ASSUME NEW p \in 1..(m + n), NEW q \in 1..(m + n), z[p].row = z[q].row PROVE p = q
  BY <1>2, <1>11, <1>12, <1>9, <1>10
<1>13. ASSUME NEW p \in 1..(m + n) PROVE z[p].row \in A \cup B
  BY <1>11
<1>14. ASSUME NEW x \in A \cup B PROVE \E p \in 1..(m + n) : z[p].row = x
  <2>1. CASE x \in A
    <3>1. PICK p \in 1..m : g[p].row = x
      BY <2>1, <1>10
    <3>2. p \in 1..(m + n) /\ z[p].row = x
      BY <3>1, <1>2, <1>3, <1>5
    <3> QED BY <3>2
  <2>2. CASE x \in B
    <3>1. PICK q \in 1..n : s[k][q] = x
      BY <2>2, <1>7
    <3>2. m + q \in 1..(m + n)
      BY <1>2
    <3>3. z[m + q] = h[q] /\ h[q].row = s[k][q]
      BY <1>3, <1>5
    <3> QED BY <3>1, <3>2, <3>3
  <2> QED BY <2>1, <2>2
<1> QED BY <1>3, <1>4, <1>5, <1>8, <1>12, <1>13, <1>14 DEF Enters

(* The rows of a micro-batch, by their place in the batch.                 *)
RowList(P, d, i, k) ==
  [q \in 1..Len(Micro(P, d, i)[k].rows) |-> P[d].rows[Micro(P, d, i)[k].rows[q]]]
RowLists(P, d, i) == [k \in 1..Len(Micro(P, d, i)) |-> RowList(P, d, i, k)]

RowsFit(P, lengths, cfg, d, i, K) ==
  \A k \in 1..K : \A q \in 1..Len(RowList(P, d, i, k)) :
    Smaller(lengths[RowList(P, d, i, k)[q]], cfg.seqLen) <= Micro(P, d, i)[k].width
MicroLists(P, lengths, dp, cfg, d, i, K) ==
  /\ Micro(P, d, i) \in [1..K -> MicroRecords]
  /\ Len(Micro(P, d, i)) = K
  /\ Spreads(RowLists(P, d, i), K, ShareRows(lengths, dp, cfg, d, i))
  /\ \A k \in 1..K : Len(RowList(P, d, i, k)) = Len(Micro(P, d, i)[k].rows)
  /\ \A k \in 1..K : Micro(P, d, i)[k].width % cfg.align = 0
  /\ cfg.layout = "padded" => RowsFit(P, lengths, cfg, d, i, K)

Image(s, K, f) == [k \in 1..K |-> [q \in 1..Len(s[k]) |-> f[s[k][q]]]]
OneToOne(f, X) == \A x, y \in X : f[x] = f[y] => x = y

SameLengths(t, s, K) == \A k \in 1..K : Len(t[k]) = Len(s[k])

LEMMA SpreadsImage ==
  ASSUME NEW K \in Nat, NEW X, NEW s, Spreads(s, K, X), NEW f,
         OneToOne(f, X), NEW t, t = Image(s, K, f),
         NEW Y, Y = {f[x] : x \in X}
  PROVE  /\ Spreads(t, K, Y)
         /\ SameLengths(t, s, K)
<1>0. t = [k \in 1..K |-> [q \in 1..Len(s[k]) |-> f[s[k][q]]]]
  BY DEF Image
<1>1. ASSUME NEW k \in 1..K
      PROVE  /\ Len(s[k]) \in Nat /\ Len(t[k]) = Len(s[k])
             /\ t[k] \in [1..Len(s[k]) -> {f[x] : x \in X}]
             /\ \A q \in 1..Len(s[k]) : t[k][q] = f[s[k][q]] /\ s[k][q] \in X
  <2>1. PICK n \in Nat : n = Len(s[k])
    BY DEF Spreads
  <2>2. s[k] \in [1..n -> X]
    BY <2>1 DEF Spreads, Lists
  <2>3. t[k] = [q \in 1..n |-> f[s[k][q]]]
    BY <2>1, <1>0
  <2>4. t[k] \in [1..n -> {f[x] : x \in X}]
    BY <2>2, <2>3
  <2>5. Len(t[k]) = n
    BY <2>4, ListIs
  <2>6. \A q \in 1..n : t[k][q] = f[s[k][q]] /\ s[k][q] \in X
    BY <2>2, <2>3
  <2> QED BY <2>1, <2>4, <2>5, <2>6
<1>2. DOMAIN t = 1..K
  BY <1>0
<1>3. ASSUME NEW b \in 1..K, NEW c \in 1..K, NEW r \in 1..Len(t[b]), NEW q \in 1..Len(t[c]),
             t[b][r] = t[c][q]
      PROVE  b = c /\ r = q
  <2>1. f[s[b][r]] = f[s[c][q]] /\ s[b][r] \in X /\ s[c][q] \in X
        /\ r \in 1..Len(s[b]) /\ q \in 1..Len(s[c])
    BY <1>1, <1>3
  <2>2. s[b][r] = s[c][q]
    BY <2>1 DEF OneToOne
  <2> QED BY <2>1, <2>2 DEF Spreads
<1>4. ASSUME NEW b \in 1..K
      PROVE  Len(t[b]) \in Nat /\ Lists(t[b], Len(t[b]), {f[x] : x \in X})
  BY <1>1, <1>3 DEF Lists
<1>5. ASSUME NEW y \in {f[x] : x \in X} PROVE \E b \in 1..K : \E r \in 1..Len(t[b]) : t[b][r] = y
  <2>1. PICK x \in X : y = f[x]
    OBVIOUS
  <2>2. PICK b \in 1..K : \E r \in 1..Len(s[b]) : s[b][r] = x
    BY DEF Spreads
  <2>3. PICK r \in 1..Len(s[b]) : s[b][r] = x
    BY <2>2
  <2>4. r \in 1..Len(t[b]) /\ t[b][r] = y
    BY <2>1, <2>3, <1>1
  <2> QED BY <2>4
<1> QED BY <1>1, <1>2, <1>3, <1>4, <1>5 DEF Spreads, SameLengths

LEMMA MicroListsAre ==
  ASSUME NEW lengths, NEW n, NEW dp, NEW cfg, Plannable(lengths, n, dp, cfg),
         NEW P, P = BuildPlan(lengths, dp, cfg), NEW i \in 1..MiniCount(n, dp, cfg)
  PROVE  \E K \in Nat \ {0} : \A d \in 1..dp : MicroLists(P, lengths, dp, cfg, d, i, K)
<1>1. PICK K \in Nat \ {0} : \A d \in 1..dp : MicrosAre(P, lengths, dp, cfg, d, i, K)
  BY BuildPlanIs
<1>2. ASSUME NEW d \in 1..dp PROVE MicroLists(P, lengths, dp, cfg, d, i, K)
  <2>1. PICK L : L = LocalSize(n, dp)
    OBVIOUS
  <2>2. PICK X : X = Share(lengths, dp, cfg, d, i)
    OBVIOUS
  <2>3. PICK f : f = P[d].rows
    OBVIOUS
  <2>4. f \in [1..L -> 1..n] /\ f = LocalRows(lengths, dp, cfg)[d]
    BY <2>1, <2>3, BuildPlanIs DEF Plans
  <2>5. X \subseteq 1..L
    BY <2>1, <2>2, SharesSpread
  <2>6. \A x, y \in X : f[x] = f[y] => x = y
    <3>1. Spreads(LocalRows(lengths, dp, cfg), dp, 1..n) /\ Len(f) = L
      BY LocalRowsSpread, <2>1, <2>4
    <3>2. \A x, y \in 1..L : f[x] = f[y] => x = y
      BY <3>1, <2>4 DEF Spreads
    <3> QED BY <3>2, <2>5
  <2>7. PICK ms : ms = Micro(P, d, i)
    OBVIOUS
  <2>8. ms \in [1..K -> MicroRecords] /\ Len(ms) = K
    BY <1>1, <2>7 DEF MicrosAre
  <2>9. PICK s : s = RowsIn(ms)
    OBVIOUS
  <2>10. Spreads(s, K, X) /\ \A k \in 1..K : s[k] = ms[k].rows
    BY <1>1, <2>2, <2>7, <2>8, <2>9 DEF MicrosAre, RowsIn
  <2>11. PICK t : t = Image(s, K, f)
    OBVIOUS
  <2>12. Spreads(t, K, {f[x] : x \in X}) /\ \A k \in 1..K : Len(t[k]) = Len(s[k])
    <3>1. Spreads(s, K, X) /\ K \in Nat
      BY <2>10
    <3>0. OneToOne(f, X)
      BY <2>6 DEF OneToOne
    <3>2. PICK Y : Y = {f[x] : x \in X}
      OBVIOUS
    <3>3. Spreads(t, K, Y)
      BY <3>0, <3>1, <3>2, <2>11, SpreadsImage
    <3>4. SameLengths(t, s, K)
      BY <3>0, <3>1, <3>2, <2>11, SpreadsImage
    <3> QED BY <3>2, <3>3, <3>4 DEF SameLengths
  <2>13. \A k \in 1..K : t[k] = RowList(P, d, i, k)
    BY <2>3, <2>7, <2>10, <2>11 DEF RowList, Image
  <2>14. t = RowLists(P, d, i)
    BY <2>7, <2>8, <2>11, <2>13 DEF RowLists, Image
  <2>15. {f[x] : x \in X} = ShareRows(lengths, dp, cfg, d, i)
    BY <2>2, <2>4 DEF ShareRows
  <2>16. ASSUME cfg.layout = "padded" PROVE RowsFit(P, lengths, cfg, d, i, K)
    <3>1. WideEnough(ms, K, CutLengths(lengths, dp, d, cfg))
      BY <2>16, <1>1, <2>7 DEF MicrosAre
    <3>2. SUFFICES ASSUME NEW k \in 1..K, NEW q \in 1..Len(RowList(P, d, i, k))
                   PROVE  Smaller(lengths[RowList(P, d, i, k)[q]], cfg.seqLen)
                            <= Micro(P, d, i)[k].width
      BY DEF RowsFit
    <3>3. q \in 1..Len(s[k]) /\ RowList(P, d, i, k)[q] = f[s[k][q]] /\ s[k] = ms[k].rows
      BY <2>10, <2>11, <2>12, <2>13 DEF Image
    <3>4. CutLengths(lengths, dp, d, cfg)[s[k][q]] <= ms[k].width
      BY <3>1, <3>3 DEF WideEnough
    <3>5. s[k][q] \in 1..L
      BY <3>3, <2>10, <2>5 DEF Spreads, Lists
    <3>6. CutLengths(lengths, dp, d, cfg)[s[k][q]] = Smaller(lengths[f[s[k][q]]], cfg.seqLen)
      BY <3>5, <2>4 DEF CutLengths
    <3> QED BY <3>3, <3>4, <3>6, <2>7
  <2> QED BY <1>1, <2>7, <2>8, <2>10, <2>12, <2>13, <2>14, <2>15, <2>16 DEF MicroLists, MicrosAre
<1> QED BY <1>1, <1>2

(* How many micro-batches a rank has run before mini-batch i + 1.          *)
MicrosTo(P, d, i) == Total([j \in 1..i |-> Len(Micro(P, d, j))])

LEMMA MicrosToIs ==
  ASSUME NEW P, NEW d, NEW M \in Nat, \A i \in 1..M : Len(Micro(P, d, i)) \in Nat
  PROVE  /\ MicrosTo(P, d, 0) = 0
         /\ \A i \in 0..M : MicrosTo(P, d, i) \in Nat
         /\ \A i \in 1..M : MicrosTo(P, d, i) = MicrosTo(P, d, i - 1) + Len(Micro(P, d, i))
         /\ \A i \in 0..M : MicrosTo(P, d, i) <= MicrosTo(P, d, M)
<1> DEFINE f == [j \in 1..M |-> Len(Micro(P, d, j))]
<1>1. f \in [1..M -> Int] /\ \A i \in 1..M : f[i] = Len(Micro(P, d, i)) /\ f[i] \in Nat
  OBVIOUS
<1>2. ASSUME NEW i \in 0..M PROVE MicrosTo(P, d, i) = Total(First(f, i))
  <2>1. First(f, i) = [j \in 1..i |-> Len(Micro(P, d, j))]
    BY DEF First
  <2> QED BY <2>1 DEF MicrosTo
<1> HIDE DEF f
<1>3. /\ Total(First(f, 0)) = 0
      /\ \A i \in 1..M : Total(First(f, i)) = Total(First(f, i - 1)) + f[i]
  BY <1>1, TotalFirst
<1>4. 0 \in 0..M /\ \A i \in 1..M : i \in 0..M /\ i - 1 \in 0..M
  OBVIOUS
<1> DEFINE c(i) == MicrosTo(P, d, i)
<1>5. c(0) = 0 /\ \A i \in 1..M : c(i) = c(i - 1) + f[i]
  BY <1>2, <1>3, <1>4
<1> HIDE DEF c
<1>6. \A i \in 0..M : c(i) \in Nat
  <2> DEFINE S == {i \in 0..M : c(i) \in Nat}
  <2>1. 0 \in S
    BY <1>5
  <2>2. ASSUME NEW i \in 1..M, i - 1 \in S PROVE i \in S
    BY <2>2, <1>1, <1>4, <1>5
  <2> HIDE DEF S
  <2>3. \A i \in 0..M : i \in S
    BY <2>1, <2>2, Upwards
  <2> QED BY <2>3 DEF S
<1>7. ASSUME NEW i \in 0..M PROVE c(i) <= c(M)
  <2> DEFINE S == {j \in 0..M : i + j <= M => c(i) <= c(i + j)}
  <2>1. 0 \in S
    BY <1>6
  <2>2. ASSUME NEW j \in 1..M, j - 1 \in S PROVE j \in S
    <3>1. CASE i + j <= M
      <4>1. PICK q \in Int : q = i + j
        OBVIOUS
      <4>2. i + (j - 1) = q - 1 /\ q \in 1..M /\ q - 1 \in 0..M /\ q \in 0..M
        BY <3>1, <4>1
      <4>3. c(i) <= c(q - 1)
        BY <2>2, <4>2
      <4>4. c(q) = c(q - 1) + f[q] /\ f[q] \in Nat /\ c(q) \in Nat /\ c(q - 1) \in Nat /\ c(i) \in Nat
        BY <4>2, <1>1, <1>5, <1>6
      <4>5. c(i) <= c(i + j)
        BY <4>1, <4>3, <4>4
      <4> QED BY <4>5
    <3>2. CASE ~(i + j <= M)
      BY <3>2
    <3> QED BY <3>1, <3>2
  <2>3. \A j \in 0..M : j \in S
    <3> HIDE DEF S
    <3> QED BY <2>1, <2>2, Upwards
  <2>4. M - i \in S
    <3>1. M - i \in 0..M
      OBVIOUS
    <3> HIDE DEF S
    <3> QED BY <2>3, <3>1
  <2>5. i + (M - i) = M
    OBVIOUS
  <2> QED BY <2>4, <2>5
<1> QED BY <1>1, <1>5, <1>6, <1>7 DEF c

-----------------------------------------------------------------------------
(* Credit as it is used: the block holds the row.                          *)

LEMMA MaskFits ==
  ASSUME NEW row, NEW L \in Nat, NEW S \in Nat, L <= S
  PROVE  Mask(row, L) \subseteq 1..S
BY DEF Mask

LEMMA RewardsAre ==
  ASSUME NEW row, row.reward \in Int, NEW L, NEW S
  PROVE  Rewards(row, L, S) \in [1..S -> Int]
BY DEF Rewards

LEMMA ValueIs ==
  ASSUME NEW i \in Int, NEW t \in Int
  PROVE  Value(i, t) \in Int
<1>1. PICK z \in Int : z = t * t
  OBVIOUS
<1>2. (3 * i + z) % 5 \in Int
  OBVIOUS
<1> QED BY <1>1, <1>2 DEF Value

LEMMA ResidualIs ==
  ASSUME NEW i \in Int, NEW row, row.reward \in Int, NEW L, NEW S
  PROVE  Residual(i, row, L, S) \in [1..S -> Int]
<1> DEFINE V(t) == IF t <= L THEN Value(i, t) ELSE 0
           next(t) == IF Continues(Mask(row, L), t) THEN V(t + 1) ELSE 0
<1>1. \A t \in 1..S : V(t) \in Int /\ V(t + 1) \in Int
  <2>1. ASSUME NEW t \in 1..S PROVE V(t) \in Int /\ V(t + 1) \in Int
    <3>1. PICK u \in Int : u = t + 1
      OBVIOUS
    <3>11. t \in Int
      OBVIOUS
    <3>12. Value(i, t) \in Int
      BY <3>11, ValueIs
    <3>13. Value(i, u) \in Int
      BY ValueIs
    <3>2. Value(i, t) \in Int /\ Value(i, u) \in Int
      BY <3>12, <3>13
    <3> QED BY <3>1, <3>2
  <2> QED BY <2>1
<1>2. \A t \in 1..S : Rewards(row, L, S)[t] \in Int
  BY RewardsAre
<1>3. \A t \in 1..S : Rewards(row, L, S)[t] + next(t) - V(t) \in Int
  <2> HIDE DEF V
  <2> QED BY <1>1, <1>2
<1>4. Residual(i, row, L, S) = [t \in 1..S |-> Rewards(row, L, S)[t] + next(t) - V(t)]
  BY DEF Residual
<1> HIDE DEF V, next
<1> QED BY <1>3, <1>4

LEMMA AdvantageByTurn ==
  ASSUME NEW i \in Int, NEW row, row.reward \in Int, NEW L \in Nat, NEW S \in Nat, L <= S,
         NEW Den \in Int
  PROVE  Advantage(i, row, L, S, Den) =
           ByTurn(Residual(i, row, L, S), Den, Mask(row, L), S)
<1>1. PICK x : x = Residual(i, row, L, S)
  OBVIOUS
<1>2. PICK mask : mask = Mask(row, L)
  OBVIOUS
<1>3. x \in [1..S -> Int]
  BY <1>1, ResidualIs
<1>4. mask \subseteq 1..S
  BY <1>2, MaskFits
<1>5. ReverseScan(x, Den, mask, S) = ByTurn(x, Den, mask, S)
  BY <1>3, <1>4, ScanIsByTurn
<1> QED BY <1>1, <1>2, <1>5 DEF Advantage

LEMMA TurnReturnsByTurn ==
  ASSUME NEW row, row.reward \in Int, NEW L \in Nat, NEW S \in Nat, L <= S
  PROVE  TurnReturns(row, L, S) = ByTurn(Rewards(row, L, S), 1, Mask(row, L), S)
<1>1. PICK x : x = Rewards(row, L, S)
  OBVIOUS
<1>2. PICK mask : mask = Mask(row, L)
  OBVIOUS
<1>3. x \in [1..S -> Int]
  BY <1>1, RewardsAre
<1>4. mask \subseteq 1..S
  BY <1>2, MaskFits
<1>5. PICK Den \in Int : Den = 1
  OBVIOUS
<1>6. ReverseScan(x, Den, mask, S) = ByTurn(x, Den, mask, S)
  BY <1>3, <1>4, ScanIsByTurn
<1> QED BY <1>1, <1>2, <1>5, <1>6 DEF TurnReturns
=============================================================================
