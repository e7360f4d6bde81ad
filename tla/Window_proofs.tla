---------------------------- MODULE Window_proofs ----------------------------
(***************************************************************************)
(* Proofs about a window, for every batch, setting and number of ranks, in *)
(* every interleaving of them: a step of the trainer takes each row once,  *)
(* into the true mean of its mini-batch, and the values that the critic    *)
(* publishes are each row's own, in the order of time.                     *)
(*                                                                         *)
(* Both start from one fact of every rank: what it has done is determined  *)
(* by the call it is in and by how far it has come in the plan (RankIs,    *)
(* CriticRankIs).  No rank of the trainer is said anything of by another;  *)
(* the critic's publishing needs how many calls of all ranks each has made.*)
(***************************************************************************)
EXTENDS Window, Plan_proofs

-----------------------------------------------------------------------------
(* The trainer's and the critic's instances have planner and credit of     *)
(* their own: they are the ones Plan_proofs is about.                      *)

LEMMA SameCardinalityT ==
  ASSUME NEW S
  PROVE  T!Cardinality(S) = Cardinality(S)
BY DEF T!Cardinality, Cardinality

LEMMA SameDescendingT ==
  ASSUME NEW items, NEW len
  PROVE  T!Descending(items, len) = Descending(items, len)
BY DEF T!Descending, T!Longest, T!Min, Descending, Longest, Min, T!Range, Range, T!Cardinality, Cardinality

LEMMA SameSnakeT ==
  ASSUME NEW order, NEW bins
  PROVE  T!Snake(order, bins) = Snake(order, bins)
BY DEF T!Snake, T!Dealt, Snake, Dealt, T!Cardinality, Cardinality

LEMMA SameTotalT ==
  ASSUME NEW s
  PROVE  T!Total(s) = Total(s)
BY DEF T!Total, Total

LEMMA SamePackedT ==
  ASSUME NEW order, NEW len, NEW cfg
  PROVE  T!Packed(order, len, cfg) = Packed(order, len, cfg)
BY DEF T!Packed, T!Place, T!Takes, T!Cost, T!Width, T!RoundUp, T!Min,
       Packed, Place, Takes, Cost, Width, RoundUp, Min

LEMMA SamePackMicrosT ==
  ASSUME NEW members, NEW len, NEW cfg
  PROVE  T!PackMicros(members, len, cfg) = PackMicros(members, len, cfg)
<1>1. PICK order : order = Descending(Range(members), len)
  OBVIOUS
<1>2. T!Descending(T!Range(members), len) = order
  <2>1. T!Range(members) = Range(members)
    BY DEF T!Range, Range
  <2> QED BY <1>1, <2>1, SameDescendingT
<1>3. PICK packed : packed = Packed(order, len, cfg)[Len(order)]
  OBVIOUS
<1>4. T!Packed(order, len, cfg)[Len(order)] = packed
  BY <1>3, SamePackedT
<1>5. PackMicros(members, len, cfg) =
        [i \in DOMAIN packed |-> [packed[i] EXCEPT !.width = RoundUp(@, cfg.align)]]
  BY <1>1, <1>3 DEF PackMicros
<1>6. T!PackMicros(members, len, cfg) =
        [i \in DOMAIN packed |-> [packed[i] EXCEPT !.width = T!RoundUp(@, cfg.align)]]
  BY <1>2, <1>4 DEF T!PackMicros
<1> QED BY <1>5, <1>6 DEF T!RoundUp, RoundUp

LEMMA SameLocalRowsT ==
  ASSUME NEW lengths, NEW dp, NEW cfg
  PROVE  T!LocalRows(lengths, dp, cfg) = LocalRows(lengths, dp, cfg)
BY SameSnakeT, SameDescendingT DEF T!LocalRows, LocalRows, T!Smaller, Smaller

LEMMA SameMembersT ==
  ASSUME NEW lengths, NEW dp, NEW cfg
  PROVE  T!Members(lengths, dp, cfg) = Members(lengths, dp, cfg)
<1> DEFINE local == Len(lengths) \div dp
           minis == (local + cfg.mini - 1) \div cfg.mini
           rows == LocalRows(lengths, dp, cfg)
           len(d) == [p \in 1..local |-> Smaller(lengths[rows[d][p]], cfg.seqLen)]
<1>1. Members(lengths, dp, cfg) = [d \in 1..dp |-> Snake(Descending(1..local, len(d)), minis)]
  BY DEF Members
<1>2. T!LocalRows(lengths, dp, cfg) = rows
  BY SameLocalRowsT
<1>3. T!Members(lengths, dp, cfg) =
        [d \in 1..dp |-> T!Snake(T!Descending(1..local, len(d)), minis)]
  BY <1>2 DEF T!Members, T!Smaller, Smaller
<1> HIDE DEF len, minis, local
<1>4. \A d \in 1..dp : T!Snake(T!Descending(1..local, len(d)), minis)
                        = Snake(Descending(1..local, len(d)), minis)
  BY SameSnakeT, SameDescendingT
<1> QED BY <1>1, <1>3, <1>4

LEMMA SameEqualMicrosT ==
  ASSUME NEW minis, NEW d, NEW i, NEW cfg
  PROVE  T!EqualMicros(minis, d, i, cfg) = EqualMicros(minis, d, i, cfg)
BY DEF T!EqualMicros, EqualMicros, T!Max, Max, T!Filler, Filler

LEMMA SameGlobalDocsT ==
  ASSUME NEW members, NEW i, NEW d
  PROVE  T!GlobalDocs(members, i, d) = GlobalDocs(members, i, d)
BY SameTotalT DEF T!GlobalDocs, GlobalDocs

LEMMA SamePlanT ==
  ASSUME NEW lengths, NEW dp, NEW cfg
  PROVE  T!BuildPlan(lengths, dp, cfg) = BuildPlan(lengths, dp, cfg)
<1> DEFINE rows == LocalRows(lengths, dp, cfg)
           members == Members(lengths, dp, cfg)
           len(d) == [p \in DOMAIN rows[d] |-> Smaller(lengths[rows[d][p]], cfg.seqLen)]
           minis == [d \in 1..dp |->
                       [i \in DOMAIN members[d] |-> PackMicros(members[d][i], len(d), cfg)]]
           tminis == [d \in 1..dp |->
                       [i \in DOMAIN members[d] |-> T!PackMicros(members[d][i], len(d), cfg)]]
<1>1. BuildPlan(lengths, dp, cfg) =
        [d \in 1..dp |->
          [rows |-> rows[d],
           minis |-> [i \in DOMAIN minis[d] |->
                        [micros |-> EqualMicros(minis, d, i, cfg),
                         docs |-> GlobalDocs(members, i, d)]]]]
  BY DEF BuildPlan
<1>2. T!LocalRows(lengths, dp, cfg) = rows /\ T!Members(lengths, dp, cfg) = members
  BY SameLocalRowsT, SameMembersT
<1>3. T!BuildPlan(lengths, dp, cfg) =
        [d \in 1..dp |->
          [rows |-> rows[d],
           minis |-> [i \in DOMAIN tminis[d] |->
                        [micros |-> T!EqualMicros(tminis, d, i, cfg),
                         docs |-> T!GlobalDocs(members, i, d)]]]]
  BY <1>2 DEF T!BuildPlan, T!Smaller, Smaller
<1>4. tminis = minis
  <2> HIDE DEF len, members
  <2> QED BY SamePackMicrosT
<1> HIDE DEF rows, members, len, minis, tminis
<1>5. \A d, i : T!EqualMicros(minis, d, i, cfg) = EqualMicros(minis, d, i, cfg)
             /\ T!GlobalDocs(members, i, d) = GlobalDocs(members, i, d)
  BY SameEqualMicrosT, SameGlobalDocsT
<1> QED BY <1>1, <1>3, <1>4, <1>5

LEMMA SamePowerT ==
  ASSUME NEW b, NEW n
  PROVE  T!Power(b, n) = Power(b, n)
BY DEF T!Power, Power

LEMMA SameMaskT ==
  ASSUME NEW row, NEW L
  PROVE  T!Mask(row, L) = Mask(row, L)
BY DEF T!Mask, Mask

LEMMA SameRunsT ==
  ASSUME NEW mask, NEW t, NEW S
  PROVE  /\ T!RunStart(mask, t) = RunStart(mask, t)
         /\ T!RunEnd(mask, t, S) = RunEnd(mask, t, S)
BY DEF T!RunStart, RunStart, T!RunEnd, RunEnd, T!Continues, Continues, T!Max, Max, T!Min, Min

LEMMA SameScanT ==
  ASSUME NEW x, NEW Den, NEW mask, NEW S
  PROVE  T!ReverseScan(x, Den, mask, S) = ReverseScan(x, Den, mask, S)
<1> DEFINE j(t) == IF t > RunStart(mask, t) THEN t - RunStart(mask, t) ELSE 0
           term(t) == IF t \in mask THEN x[t] * Power(Den, S - j(t)) ELSE 0
           suffix(t) == Total([k \in 1..(S + 1 - t) |-> term(S + 1 - k)])
           after(t) == Min({RunEnd(mask, t, S) + 1, S + 1})
<1>1. ReverseScan(x, Den, mask, S) =
        [t \in 1..S |->
           IF t \in mask THEN (suffix(t) - suffix(after(t))) * Power(Den, j(t)) ELSE 0]
  BY DEF ReverseScan
<1> DEFINE jt(t) == IF t > T!RunStart(mask, t) THEN t - T!RunStart(mask, t) ELSE 0
           termt(t) == IF t \in mask THEN x[t] * T!Power(Den, S - jt(t)) ELSE 0
           suffixt(t) == T!Total([k \in 1..(S + 1 - t) |-> termt(S + 1 - k)])
           aftert(t) == T!Min({T!RunEnd(mask, t, S) + 1, S + 1})
<1>2. T!ReverseScan(x, Den, mask, S) =
        [t \in 1..S |->
           IF t \in mask THEN (suffixt(t) - suffixt(aftert(t))) * T!Power(Den, jt(t)) ELSE 0]
  BY DEF T!ReverseScan
<1>3. \A t : jt(t) = j(t)
  BY SameRunsT
<1>4. \A t : termt(t) = term(t)
  <2> HIDE DEF j, jt
  <2> QED BY <1>3, SamePowerT
<1>5. \A t : suffixt(t) = suffix(t)
  <2>1. SUFFICES ASSUME NEW t PROVE suffixt(t) = suffix(t)
    OBVIOUS
  <2> HIDE DEF term, termt
  <2>2. [k \in 1..(S + 1 - t) |-> termt(S + 1 - k)] = [k \in 1..(S + 1 - t) |-> term(S + 1 - k)]
    BY <1>4
  <2> QED BY <2>2, SameTotalT
<1>6. \A t : aftert(t) = after(t)
  BY SameRunsT DEF T!Min, Min
<1> HIDE DEF j, jt, suffix, suffixt, after, aftert
<1>7. \A t : T!Power(Den, jt(t)) = Power(Den, j(t))
  BY <1>3, SamePowerT
<1>8. \A t : suffixt(aftert(t)) = suffix(after(t))
  BY <1>5, <1>6
<1> QED BY <1>1, <1>2, <1>5, <1>7, <1>8

LEMMA SameByTurnT ==
  ASSUME NEW x, NEW Den, NEW mask, NEW S
  PROVE  T!ByTurn(x, Den, mask, S) = ByTurn(x, Den, mask, S)
<1> DEFINE rest(t) == TurnAfter(mask, t, S)
           sum(t) == [k \in 1..Cardinality(rest(t)) |-> x[t + k - 1] * Power(Den, S - (k - 1))]
           restt(t) == T!TurnAfter(mask, t, S)
           sumt(t) == [k \in 1..T!Cardinality(restt(t)) |->
                         x[t + k - 1] * T!Power(Den, S - (k - 1))]
<1>1. ByTurn(x, Den, mask, S) = [t \in 1..S |-> Total(sum(t))]
  BY DEF ByTurn
<1>2. T!ByTurn(x, Den, mask, S) = [t \in 1..S |-> T!Total(sumt(t))]
  BY DEF T!ByTurn
<1>3. \A t : T!Cardinality(restt(t)) = Cardinality(rest(t))
  <2>1. \A t : restt(t) = rest(t)
    BY DEF T!TurnAfter, TurnAfter
  <2> HIDE DEF rest, restt
  <2> QED BY <2>1, SameCardinalityT
<1>4. \A t : sumt(t) = sum(t)
  <2> HIDE DEF rest, restt
  <2> QED BY <1>3, SamePowerT
<1> HIDE DEF sum, sumt
<1>5. \A t : T!Total(sumt(t)) = Total(sum(t))
  BY <1>4, SameTotalT
<1> QED BY <1>1, <1>2, <1>5

LEMMA SameRewardsT ==
  ASSUME NEW row, NEW L, NEW S
  PROVE  T!Rewards(row, L, S) = Rewards(row, L, S)
<1>1. T!Rewarded(row, L) = Rewarded(row, L)
  BY SameMaskT DEF T!Rewarded, Rewarded, T!Max, Max
<1> QED BY <1>1 DEF T!Rewards, Rewards

LEMMA SameResidualT ==
  ASSUME NEW i, NEW row, NEW L, NEW S
  PROVE  T!Residual(i, row, L, S) = Residual(i, row, L, S)
BY SameRewardsT, SameMaskT DEF T!Residual, Residual, T!Value, Value, T!Continues, Continues

LEMMA SameAdvantageT ==
  ASSUME NEW i, NEW row, NEW L, NEW S, NEW Den
  PROVE  T!Advantage(i, row, L, S, Den) = Advantage(i, row, L, S, Den)
BY SameResidualT, SameMaskT, SameScanT DEF T!Advantage, Advantage

LEMMA SameReturnsT ==
  ASSUME NEW row, NEW L, NEW S
  PROVE  T!TurnReturns(row, L, S) = TurnReturns(row, L, S)
BY SameRewardsT, SameMaskT, SameScanT DEF T!TurnReturns, TurnReturns

LEMMA SameCardinalityC ==
  ASSUME NEW S
  PROVE  C!Cardinality(S) = Cardinality(S)
BY DEF C!Cardinality, Cardinality

LEMMA SameDescendingC ==
  ASSUME NEW items, NEW len
  PROVE  C!Descending(items, len) = Descending(items, len)
BY DEF C!Descending, C!Longest, C!Min, Descending, Longest, Min, C!Range, Range, C!Cardinality, Cardinality

LEMMA SameSnakeC ==
  ASSUME NEW order, NEW bins
  PROVE  C!Snake(order, bins) = Snake(order, bins)
BY DEF C!Snake, C!Dealt, Snake, Dealt, C!Cardinality, Cardinality

LEMMA SameTotalC ==
  ASSUME NEW s
  PROVE  C!Total(s) = Total(s)
BY DEF C!Total, Total

LEMMA SamePackedC ==
  ASSUME NEW order, NEW len, NEW cfg
  PROVE  C!Packed(order, len, cfg) = Packed(order, len, cfg)
BY DEF C!Packed, C!Place, C!Takes, C!Cost, C!Width, C!RoundUp, C!Min,
       Packed, Place, Takes, Cost, Width, RoundUp, Min

LEMMA SamePackMicrosC ==
  ASSUME NEW members, NEW len, NEW cfg
  PROVE  C!PackMicros(members, len, cfg) = PackMicros(members, len, cfg)
<1>1. PICK order : order = Descending(Range(members), len)
  OBVIOUS
<1>2. C!Descending(C!Range(members), len) = order
  <2>1. C!Range(members) = Range(members)
    BY DEF C!Range, Range
  <2> QED BY <1>1, <2>1, SameDescendingC
<1>3. PICK packed : packed = Packed(order, len, cfg)[Len(order)]
  OBVIOUS
<1>4. C!Packed(order, len, cfg)[Len(order)] = packed
  BY <1>3, SamePackedC
<1>5. PackMicros(members, len, cfg) =
        [i \in DOMAIN packed |-> [packed[i] EXCEPT !.width = RoundUp(@, cfg.align)]]
  BY <1>1, <1>3 DEF PackMicros
<1>6. C!PackMicros(members, len, cfg) =
        [i \in DOMAIN packed |-> [packed[i] EXCEPT !.width = C!RoundUp(@, cfg.align)]]
  BY <1>2, <1>4 DEF C!PackMicros
<1> QED BY <1>5, <1>6 DEF C!RoundUp, RoundUp

LEMMA SameLocalRowsC ==
  ASSUME NEW lengths, NEW dp, NEW cfg
  PROVE  C!LocalRows(lengths, dp, cfg) = LocalRows(lengths, dp, cfg)
BY SameSnakeC, SameDescendingC DEF C!LocalRows, LocalRows, C!Smaller, Smaller

LEMMA SameMembersC ==
  ASSUME NEW lengths, NEW dp, NEW cfg
  PROVE  C!Members(lengths, dp, cfg) = Members(lengths, dp, cfg)
<1> DEFINE local == Len(lengths) \div dp
           minis == (local + cfg.mini - 1) \div cfg.mini
           rows == LocalRows(lengths, dp, cfg)
           len(d) == [p \in 1..local |-> Smaller(lengths[rows[d][p]], cfg.seqLen)]
<1>1. Members(lengths, dp, cfg) = [d \in 1..dp |-> Snake(Descending(1..local, len(d)), minis)]
  BY DEF Members
<1>2. C!LocalRows(lengths, dp, cfg) = rows
  BY SameLocalRowsC
<1>3. C!Members(lengths, dp, cfg) =
        [d \in 1..dp |-> C!Snake(C!Descending(1..local, len(d)), minis)]
  BY <1>2 DEF C!Members, C!Smaller, Smaller
<1> HIDE DEF len, minis, local
<1>4. \A d \in 1..dp : C!Snake(C!Descending(1..local, len(d)), minis)
                        = Snake(Descending(1..local, len(d)), minis)
  BY SameSnakeC, SameDescendingC
<1> QED BY <1>1, <1>3, <1>4

LEMMA SameEqualMicrosC ==
  ASSUME NEW minis, NEW d, NEW i, NEW cfg
  PROVE  C!EqualMicros(minis, d, i, cfg) = EqualMicros(minis, d, i, cfg)
BY DEF C!EqualMicros, EqualMicros, C!Max, Max, C!Filler, Filler

LEMMA SameGlobalDocsC ==
  ASSUME NEW members, NEW i, NEW d
  PROVE  C!GlobalDocs(members, i, d) = GlobalDocs(members, i, d)
BY SameTotalC DEF C!GlobalDocs, GlobalDocs

LEMMA SamePlanC ==
  ASSUME NEW lengths, NEW dp, NEW cfg
  PROVE  C!BuildPlan(lengths, dp, cfg) = BuildPlan(lengths, dp, cfg)
<1> DEFINE rows == LocalRows(lengths, dp, cfg)
           members == Members(lengths, dp, cfg)
           len(d) == [p \in DOMAIN rows[d] |-> Smaller(lengths[rows[d][p]], cfg.seqLen)]
           minis == [d \in 1..dp |->
                       [i \in DOMAIN members[d] |-> PackMicros(members[d][i], len(d), cfg)]]
           tminis == [d \in 1..dp |->
                       [i \in DOMAIN members[d] |-> C!PackMicros(members[d][i], len(d), cfg)]]
<1>1. BuildPlan(lengths, dp, cfg) =
        [d \in 1..dp |->
          [rows |-> rows[d],
           minis |-> [i \in DOMAIN minis[d] |->
                        [micros |-> EqualMicros(minis, d, i, cfg),
                         docs |-> GlobalDocs(members, i, d)]]]]
  BY DEF BuildPlan
<1>2. C!LocalRows(lengths, dp, cfg) = rows /\ C!Members(lengths, dp, cfg) = members
  BY SameLocalRowsC, SameMembersC
<1>3. C!BuildPlan(lengths, dp, cfg) =
        [d \in 1..dp |->
          [rows |-> rows[d],
           minis |-> [i \in DOMAIN tminis[d] |->
                        [micros |-> C!EqualMicros(tminis, d, i, cfg),
                         docs |-> C!GlobalDocs(members, i, d)]]]]
  BY <1>2 DEF C!BuildPlan, C!Smaller, Smaller
<1>4. tminis = minis
  <2> HIDE DEF len, members
  <2> QED BY SamePackMicrosC
<1> HIDE DEF rows, members, len, minis, tminis
<1>5. \A d, i : C!EqualMicros(minis, d, i, cfg) = EqualMicros(minis, d, i, cfg)
             /\ C!GlobalDocs(members, i, d) = GlobalDocs(members, i, d)
  BY SameEqualMicrosC, SameGlobalDocsC
<1> QED BY <1>1, <1>3, <1>4, <1>5

LEMMA SamePowerC ==
  ASSUME NEW b, NEW n
  PROVE  C!Power(b, n) = Power(b, n)
BY DEF C!Power, Power

LEMMA SameMaskC ==
  ASSUME NEW row, NEW L
  PROVE  C!Mask(row, L) = Mask(row, L)
BY DEF C!Mask, Mask

LEMMA SameRunsC ==
  ASSUME NEW mask, NEW t, NEW S
  PROVE  /\ C!RunStart(mask, t) = RunStart(mask, t)
         /\ C!RunEnd(mask, t, S) = RunEnd(mask, t, S)
BY DEF C!RunStart, RunStart, C!RunEnd, RunEnd, C!Continues, Continues, C!Max, Max, C!Min, Min

LEMMA SameScanC ==
  ASSUME NEW x, NEW Den, NEW mask, NEW S
  PROVE  C!ReverseScan(x, Den, mask, S) = ReverseScan(x, Den, mask, S)
<1> DEFINE j(t) == IF t > RunStart(mask, t) THEN t - RunStart(mask, t) ELSE 0
           term(t) == IF t \in mask THEN x[t] * Power(Den, S - j(t)) ELSE 0
           suffix(t) == Total([k \in 1..(S + 1 - t) |-> term(S + 1 - k)])
           after(t) == Min({RunEnd(mask, t, S) + 1, S + 1})
<1>1. ReverseScan(x, Den, mask, S) =
        [t \in 1..S |->
           IF t \in mask THEN (suffix(t) - suffix(after(t))) * Power(Den, j(t)) ELSE 0]
  BY DEF ReverseScan
<1> DEFINE jt(t) == IF t > C!RunStart(mask, t) THEN t - C!RunStart(mask, t) ELSE 0
           termt(t) == IF t \in mask THEN x[t] * C!Power(Den, S - jt(t)) ELSE 0
           suffixt(t) == C!Total([k \in 1..(S + 1 - t) |-> termt(S + 1 - k)])
           aftert(t) == C!Min({C!RunEnd(mask, t, S) + 1, S + 1})
<1>2. C!ReverseScan(x, Den, mask, S) =
        [t \in 1..S |->
           IF t \in mask THEN (suffixt(t) - suffixt(aftert(t))) * C!Power(Den, jt(t)) ELSE 0]
  BY DEF C!ReverseScan
<1>3. \A t : jt(t) = j(t)
  BY SameRunsC
<1>4. \A t : termt(t) = term(t)
  <2> HIDE DEF j, jt
  <2> QED BY <1>3, SamePowerC
<1>5. \A t : suffixt(t) = suffix(t)
  <2>1. SUFFICES ASSUME NEW t PROVE suffixt(t) = suffix(t)
    OBVIOUS
  <2> HIDE DEF term, termt
  <2>2. [k \in 1..(S + 1 - t) |-> termt(S + 1 - k)] = [k \in 1..(S + 1 - t) |-> term(S + 1 - k)]
    BY <1>4
  <2> QED BY <2>2, SameTotalC
<1>6. \A t : aftert(t) = after(t)
  BY SameRunsC DEF C!Min, Min
<1> HIDE DEF j, jt, suffix, suffixt, after, aftert
<1>7. \A t : C!Power(Den, jt(t)) = Power(Den, j(t))
  BY <1>3, SamePowerC
<1>8. \A t : suffixt(aftert(t)) = suffix(after(t))
  BY <1>5, <1>6
<1> QED BY <1>1, <1>2, <1>5, <1>7, <1>8

LEMMA SameByTurnC ==
  ASSUME NEW x, NEW Den, NEW mask, NEW S
  PROVE  C!ByTurn(x, Den, mask, S) = ByTurn(x, Den, mask, S)
<1> DEFINE rest(t) == TurnAfter(mask, t, S)
           sum(t) == [k \in 1..Cardinality(rest(t)) |-> x[t + k - 1] * Power(Den, S - (k - 1))]
           restt(t) == C!TurnAfter(mask, t, S)
           sumt(t) == [k \in 1..C!Cardinality(restt(t)) |->
                         x[t + k - 1] * C!Power(Den, S - (k - 1))]
<1>1. ByTurn(x, Den, mask, S) = [t \in 1..S |-> Total(sum(t))]
  BY DEF ByTurn
<1>2. C!ByTurn(x, Den, mask, S) = [t \in 1..S |-> C!Total(sumt(t))]
  BY DEF C!ByTurn
<1>3. \A t : C!Cardinality(restt(t)) = Cardinality(rest(t))
  <2>1. \A t : restt(t) = rest(t)
    BY DEF C!TurnAfter, TurnAfter
  <2> HIDE DEF rest, restt
  <2> QED BY <2>1, SameCardinalityC
<1>4. \A t : sumt(t) = sum(t)
  <2> HIDE DEF rest, restt
  <2> QED BY <1>3, SamePowerC
<1> HIDE DEF sum, sumt
<1>5. \A t : C!Total(sumt(t)) = Total(sum(t))
  BY <1>4, SameTotalC
<1> QED BY <1>1, <1>2, <1>5

LEMMA SameRewardsC ==
  ASSUME NEW row, NEW L, NEW S
  PROVE  C!Rewards(row, L, S) = Rewards(row, L, S)
<1>1. C!Rewarded(row, L) = Rewarded(row, L)
  BY SameMaskC DEF C!Rewarded, Rewarded, C!Max, Max
<1> QED BY <1>1 DEF C!Rewards, Rewards

LEMMA SameResidualC ==
  ASSUME NEW i, NEW row, NEW L, NEW S
  PROVE  C!Residual(i, row, L, S) = Residual(i, row, L, S)
BY SameRewardsC, SameMaskC DEF C!Residual, Residual, C!Value, Value, C!Continues, Continues

LEMMA SameAdvantageC ==
  ASSUME NEW i, NEW row, NEW L, NEW S, NEW Den
  PROVE  C!Advantage(i, row, L, S, Den) = Advantage(i, row, L, S, Den)
BY SameResidualC, SameMaskC, SameScanC DEF C!Advantage, Advantage

LEMMA SameReturnsC ==
  ASSUME NEW row, NEW L, NEW S
  PROVE  C!TurnReturns(row, L, S) = TurnReturns(row, L, S)
BY SameRewardsC, SameMaskC, SameScanC DEF C!TurnReturns, TurnReturns

-----------------------------------------------------------------------------
(* The trainer.                                                            *)

IsList(s, n) == s = [k \in 1..n |-> s[k]]

LEMMA AppendList ==
  ASSUME NEW n \in Nat, NEW s, IsList(s, n), NEW e
  PROVE  /\ IsList(Append(s, e), n + 1) /\ Len(s) = n
         /\ \A k \in 1..n : Append(s, e)[k] = s[k]
         /\ Append(s, e)[n + 1] = e
<1> DEFINE S == {s[k] : k \in 1..n} \cup {e}
<1>1. s \in [1..n -> S] /\ e \in S
  BY DEF IsList
<1> HIDE DEF S
<1>2. Append(s, e) \in [1..(n + 1) -> S]
      /\ (\A k \in 1..n : Append(s, e)[k] = s[k]) /\ Append(s, e)[n + 1] = e
  <2>1. s \in [1..n -> S]
    BY <1>1
  <2>2. e \in S
    BY <1>1
  <2>3. Append(s, e) \in [1..(n + 1) -> S]
    BY <2>1, <2>2, AppendIs
  <2>4. \A k \in 1..n : Append(s, e)[k] = s[k]
    BY <2>1, <2>2, AppendIs
  <2>5. Append(s, e)[n + 1] = e
    BY <2>1, <2>2, AppendIs
  <2> QED BY <2>3, <2>4, <2>5
<1>3. Len(s) = n
  BY <1>1, ListIs
<1> QED BY <1>2, <1>3 DEF IsList

Lens(w) == [i \in DOMAIN w.batch |-> w.batch[i].len]
TrainerRefuses(w) == w.batch = << >> \/ Len(w.batch) % w.trainer.dp # 0
TrainerRanks(w) == (1..w.trainer.dp) \X (1..w.trainer.cp)
TrainerPlan(w) == BuildPlan(Lens(w), w.trainer.dp, w.trainer.plan)
TrainerMinis(w) == MiniCount(Len(w.batch), w.trainer.dp, w.trainer.plan)
TrainerShare(w, d, i) == ShareRows(Lens(w), w.trainer.dp, w.trainer.plan, d, i)
TrainerMicros(w, d, i) == Len(Micro(TrainerPlan(w), d, i))
TrainerLists(w, d, i) == RowLists(TrainerPlan(w), d, i)

LEMMA LensAre ==
  ASSUME NEW w \in Windows
  PROVE  /\ Len(w.batch) \in Nat /\ DOMAIN w.batch = 1..Len(w.batch)
         /\ Lens(w) \in [1..Len(w.batch) -> Nat] /\ Len(Lens(w)) = Len(w.batch)
         /\ \A i \in 1..Len(w.batch) : w.batch[i].len \in Nat /\ w.batch[i].reward \in Int
         /\ Lens(w) = << >> <=> w.batch = << >>
<1> DEFINE Row == [len : Nat, response : SUBSET Nat, reward : Int]
<1>1. w.batch \in Seq(Row)
  BY WindowAssumption
<1>2. Len(w.batch) \in Nat /\ w.batch \in [1..Len(w.batch) -> Row]
  <2>1. PICK R : R = Row
    OBVIOUS
  <2>2. PICK b : b = w.batch
    OBVIOUS
  <2>3. b \in Seq(R)
    BY <1>1, <2>1, <2>2
  <2>4. Len(b) \in Nat /\ b \in [1..Len(b) -> R]
    BY <2>3
  <2> QED BY <2>1, <2>2, <2>4
<1>3. \A i \in 1..Len(w.batch) : w.batch[i].len \in Nat /\ w.batch[i].reward \in Int
  BY <1>2
<1>4. Lens(w) \in [1..Len(w.batch) -> Nat]
  BY <1>2, <1>3 DEF Lens
<1>5. Len(Lens(w)) = Len(w.batch)
  BY <1>2, <1>4, ListIs
<1>6. Lens(w) = << >> <=> w.batch = << >>
  <2>1. ASSUME Lens(w) = << >> PROVE w.batch = << >>
    <3>1. Len(w.batch) = 0
      BY <2>1, <1>5
    <3> QED BY <3>1, <1>1
  <2>2. ASSUME w.batch = << >> PROVE Lens(w) = << >>
    BY <2>2 DEF Lens
  <2> QED BY <2>1, <2>2
<1> QED BY <1>2, <1>3, <1>4, <1>5, <1>6

LEMMA TrainerPlannable ==
  ASSUME NEW w \in Windows, ~TrainerRefuses(w)
  PROVE  Plannable(Lens(w), Len(w.batch), w.trainer.dp, w.trainer.plan)
<1>1. Len(w.batch) # 0
  <2>1. w.batch \in Seq([len : Nat, response : SUBSET Nat, reward : Int])
    BY WindowAssumption
  <2> QED BY <2>1 DEF TrainerRefuses
<1>2. Len(w.batch) \in Nat \ {0} /\ Lens(w) \in [1..Len(w.batch) -> Nat]
  BY <1>1, LensAre
<1> QED BY <1>2, WindowAssumption DEF Plannable, TrainerRefuses

TrainerMini(w, d, i) ==
  /\ TrainerMicros(w, d, i) \in Nat \ {0}
  /\ Spreads(TrainerLists(w, d, i), TrainerMicros(w, d, i), TrainerShare(w, d, i))
  /\ \A k \in 1..TrainerMicros(w, d, i) :
       /\ TrainerLists(w, d, i)[k] = RowList(TrainerPlan(w), d, i, k)
       /\ Len(TrainerLists(w, d, i)[k]) = Len(Micro(TrainerPlan(w), d, i)[k].rows)
       /\ DOMAIN Micro(TrainerPlan(w), d, i)[k].rows
            = 1..Len(Micro(TrainerPlan(w), d, i)[k].rows)
       /\ \A q \in 1..Len(TrainerLists(w, d, i)[k]) : TrainerLists(w, d, i)[k][q] \in 1..Len(w.batch)

LEMMA TrainerPlanIs ==
  ASSUME NEW w \in Windows, ~TrainerRefuses(w)
  PROVE  /\ TrainerMinis(w) \in Nat \ {0}
         /\ \A d \in 1..w.trainer.dp :
              /\ Len(TrainerPlan(w)[d].minis) = TrainerMinis(w)
              /\ \A i \in 1..TrainerMinis(w) : TrainerMini(w, d, i)
<1>1. PICK n : n = Len(w.batch)
  OBVIOUS
<1>2. PICK dp : dp = w.trainer.dp
  OBVIOUS
<1>3. PICK cfg : cfg = w.trainer.plan
  OBVIOUS
<1>4. PICK lengths : lengths = Lens(w)
  OBVIOUS
<1>5. PICK P : P = BuildPlan(lengths, dp, cfg)
  OBVIOUS
<1>6. Plannable(lengths, n, dp, cfg)
  BY <1>1, <1>2, <1>3, <1>4, TrainerPlannable
<1>7. P = TrainerPlan(w) /\ TrainerMinis(w) = MiniCount(n, dp, cfg)
  BY <1>1, <1>2, <1>3, <1>4, <1>5 DEF TrainerPlan, TrainerMinis
<1>8. TrainerMinis(w) \in Nat \ {0}
  <2>1. n \in Nat \ {0} /\ dp \in Nat \ {0} /\ n % dp = 0 /\ cfg.mini \in Nat \ {0}
    BY <1>6 DEF Plannable
  <2> QED BY <2>1, <1>7, PlanSizes
<1>9. Plans(P, lengths, n, dp, cfg)
  BY <1>5, <1>6, BuildPlanIs
<1>10. ASSUME NEW d \in 1..dp, NEW i \in 1..TrainerMinis(w) PROVE TrainerMini(w, d, i)
  <2>1. PICK K \in Nat \ {0} : \A e \in 1..dp : MicroLists(P, lengths, dp, cfg, e, i, K)
    BY <1>5, <1>6, <1>7, MicroListsAre
  <2>2. MicroLists(P, lengths, dp, cfg, d, i, K)
    BY <2>1
  <2>3. K = TrainerMicros(w, d, i)
    BY <2>2, <1>7 DEF MicroLists, TrainerMicros
  <2>4. Spreads(TrainerLists(w, d, i), K, TrainerShare(w, d, i))
    BY <2>2, <1>2, <1>3, <1>4, <1>7 DEF MicroLists, TrainerLists, TrainerShare
  <2>5. ASSUME NEW k \in 1..K
        PROVE  /\ TrainerLists(w, d, i)[k] = RowList(TrainerPlan(w), d, i, k)
               /\ Len(TrainerLists(w, d, i)[k]) = Len(Micro(TrainerPlan(w), d, i)[k].rows)
               /\ DOMAIN Micro(TrainerPlan(w), d, i)[k].rows
                    = 1..Len(Micro(TrainerPlan(w), d, i)[k].rows)
               /\ \A q \in 1..Len(TrainerLists(w, d, i)[k]) :
                    TrainerLists(w, d, i)[k][q] \in 1..Len(w.batch)
    <3>1. TrainerLists(w, d, i)[k] = RowList(P, d, i, k)
      BY <2>2, <1>7 DEF TrainerLists, RowLists, MicroLists
    <3>2. Len(RowList(P, d, i, k)) = Len(Micro(P, d, i)[k].rows)
      BY <2>2 DEF MicroLists
    <3>3. DOMAIN Micro(P, d, i)[k].rows = 1..Len(Micro(P, d, i)[k].rows)
      <4>1. Micro(P, d, i)[k] \in MicroRecords
        BY <2>2 DEF MicroLists
      <4>2. Micro(P, d, i)[k].rows \in Seq(Int)
        BY <4>1 DEF MicroRecords
      <4> QED BY <4>2
    <3>4. TrainerShare(w, d, i) \subseteq 1..n
      BY <1>2, <1>3, <1>4, <1>6, <1>7, SharesSpread DEF TrainerShare
    <3>5. \A q \in 1..Len(TrainerLists(w, d, i)[k]) : TrainerLists(w, d, i)[k][q] \in 1..n
      BY <2>4, <3>4 DEF Spreads, Lists
    <3> QED BY <3>1, <3>2, <3>3, <3>5, <1>1, <1>7
  <2> QED BY <2>1, <2>3, <2>4, <2>5 DEF TrainerMini
<1> QED BY <1>2, <1>7, <1>8, <1>9, <1>10 DEF Plans

(* What a rank of shard d has, by the call it is in: nothing yet; the old  *)
(* log-probs up to its micro-batch; the gradient of the first k micro-     *)
(* batches of its mini-batch and a step for each before; all its steps.    *)
Terms(w, d, i) ==
  [row : 1..Len(w.batch), docs : {TrainerPlan(w)[d].minis[i].docs},
   old : {0, -1}, weights : {i - 1}]
StepsAre(w, d, applied, m) ==
  /\ IsList(applied, m)
  /\ \A i \in 1..m : Enters(applied[i], TrainerShare(w, d, i), Terms(w, d, i))
AllOlds(w, d) == MicrosTo(TrainerPlan(w), d, TrainerMinis(w))
OldsBefore(w, d, i, k) == MicrosTo(TrainerPlan(w), d, i - 1) + k - 1
OldsDone(w, d, old) == w.trainer.old = "train" => old \in [1..AllOlds(w, d) -> {0}]

Begins(i, k, old, weights, grad, applied) ==
  i = 1 /\ k = 1 /\ old = << >> /\ weights = 0 /\ grad = << >> /\ applied = << >>
Looks(w, d, i, k, old, weights, grad, applied) ==
  /\ i \in 1..TrainerMinis(w) /\ k \in 1..TrainerMicros(w, d, i)
  /\ old \in [1..OldsBefore(w, d, i, k) -> {0}]
  /\ weights = 0 /\ grad = << >> /\ applied = << >>
Learns(w, d, i, k, old, weights, grad, applied) ==
  /\ i \in 1..TrainerMinis(w) /\ k \in 0..TrainerMicros(w, d, i)
  /\ OldsDone(w, d, old) /\ weights = i - 1
  /\ Enters(grad, Before(TrainerLists(w, d, i), k), Terms(w, d, i))
  /\ StepsAre(w, d, applied, i - 1)
Stepped(w, d, i, old, weights, applied) ==
  /\ i \in 1..TrainerMinis(w)
  /\ OldsDone(w, d, old) /\ weights = i
  /\ StepsAre(w, d, applied, i)

LEMMA LookFirst ==
  ASSUME NEW w \in Windows, ~TrainerRefuses(w), NEW d \in 1..w.trainer.dp
  PROVE  Looks(w, d, 1, 1, << >>, 0, << >>, << >>)
<1>1. 1 \in 1..TrainerMinis(w) /\ TrainerMini(w, d, 1) /\ TrainerMinis(w) \in Nat
  BY TrainerPlanIs
<1>2. TrainerMicros(w, d, 1) \in Nat \ {0}
  BY <1>1 DEF TrainerMini
<1>3. MicrosTo(TrainerPlan(w), d, 0) = 0
  <2>1. \A i \in 1..TrainerMinis(w) : Len(Micro(TrainerPlan(w), d, i)) \in Nat
    BY TrainerPlanIs DEF TrainerMini, TrainerMicros
  <2> QED BY <1>1, <2>1, MicrosToIs
<1>4. OldsBefore(w, d, 1, 1) = 0
  BY <1>3 DEF OldsBefore
<1> QED BY <1>1, <1>2, <1>4 DEF Looks

LEMMA OldsAre ==
  ASSUME NEW w \in Windows, ~TrainerRefuses(w), NEW d \in 1..w.trainer.dp,
         NEW i \in 1..TrainerMinis(w), NEW k \in 1..TrainerMicros(w, d, i)
  PROVE  /\ OldsBefore(w, d, i, k) \in Nat /\ AllOlds(w, d) \in Nat
         /\ OldsBefore(w, d, i, k + 1) = OldsBefore(w, d, i, k) + 1
         /\ i < TrainerMinis(w) /\ k = TrainerMicros(w, d, i) =>
              OldsBefore(w, d, i + 1, 1) = OldsBefore(w, d, i, k) + 1
         /\ i = TrainerMinis(w) /\ k = TrainerMicros(w, d, i) =>
              AllOlds(w, d) = OldsBefore(w, d, i, k) + 1
         /\ OldsBefore(w, d, i, k) + 1 <= AllOlds(w, d)
<1> DEFINE c(j) == MicrosTo(TrainerPlan(w), d, j)
<1>1. PICK M \in Nat \ {0} : M = TrainerMinis(w)
  BY TrainerPlanIs
<1>2. \A j \in 1..M : Len(Micro(TrainerPlan(w), d, j)) \in Nat
  BY <1>1, TrainerPlanIs DEF TrainerMini, TrainerMicros
<1>3. /\ \A j \in 0..M : c(j) \in Nat
      /\ \A j \in 1..M : c(j) = c(j - 1) + TrainerMicros(w, d, j)
      /\ \A j \in 0..M : c(j) <= c(M)
  BY <1>2, MicrosToIs DEF TrainerMicros
<1>4. /\ \A j, q : OldsBefore(w, d, j, q) = c(j - 1) + q - 1
      /\ AllOlds(w, d) = c(M)
  BY <1>1 DEF OldsBefore, AllOlds
<1> HIDE DEF c
<1>5. i - 1 \in 0..M /\ i \in 1..M /\ i \in 0..M /\ M \in 0..M /\ TrainerMicros(w, d, i) \in Nat
  BY <1>1, <1>2 DEF TrainerMicros
<1>6. c(i - 1) \in Nat /\ c(M) \in Nat /\ c(i) = c(i - 1) + TrainerMicros(w, d, i) /\ c(i) <= c(M)
  BY <1>3, <1>5
<1>7. i + 1 - 1 = i
  OBVIOUS
<1>8. OldsBefore(w, d, i + 1, 1) = c(i) + 1 - 1
  BY <1>4, <1>7
<1> QED BY <1>1, <1>4, <1>5, <1>6, <1>8

LooksOn(w, d, i, k, old, weights, grad, applied) ==
  /\ k < TrainerMicros(w, d, i) => Looks(w, d, i, k + 1, old, weights, grad, applied)
  /\ ~(k < TrainerMicros(w, d, i)) /\ i < TrainerMinis(w) =>
       Looks(w, d, i + 1, 1, old, weights, grad, applied)
  /\ ~(k < TrainerMicros(w, d, i)) /\ ~(i < TrainerMinis(w)) =>
       OldsDone(w, d, old) /\ weights = 0 /\ grad = << >> /\ applied = << >>

LEMMA LookOn ==
  ASSUME NEW w \in Windows, ~TrainerRefuses(w), NEW d \in 1..w.trainer.dp,
         NEW i, NEW k, NEW old, NEW weights, NEW grad, NEW applied,
         Looks(w, d, i, k, old, weights, grad, applied)
  PROVE  LooksOn(w, d, i, k, Append(old, weights), weights, grad, applied)
<1>1. PICK n : n = OldsBefore(w, d, i, k)
  OBVIOUS
<1>2. /\ i \in 1..TrainerMinis(w) /\ k \in 1..TrainerMicros(w, d, i)
      /\ old \in [1..n -> {0}] /\ weights = 0 /\ grad = << >> /\ applied = << >>
  BY <1>1 DEF Looks
<1>3. n \in Nat
  BY <1>1, <1>2, OldsAre
<1>4. PICK z : z = Append(old, weights)
  OBVIOUS
<1>5. z \in [1..(n + 1) -> {0}]
  <2>1. weights \in {0} /\ old \in [1..n -> {0}]
    BY <1>2
  <2> QED BY <2>1, <1>3, <1>4, AppendIs
<1>6. TrainerMinis(w) \in Nat /\ TrainerMicros(w, d, i) \in Nat
  BY <1>2, TrainerPlanIs DEF TrainerMini
<1>7. ASSUME k < TrainerMicros(w, d, i) PROVE Looks(w, d, i, k + 1, z, weights, grad, applied)
  <2>1. OldsBefore(w, d, i, k + 1) = n + 1
    BY <1>1, <1>2, OldsAre
  <2>2. k + 1 \in 1..TrainerMicros(w, d, i)
    BY <1>2, <1>6, <1>7
  <2> QED BY <1>2, <1>5, <2>1, <2>2 DEF Looks
<1>8. ASSUME ~(k < TrainerMicros(w, d, i)) PROVE k = TrainerMicros(w, d, i)
  BY <1>2, <1>6, <1>8
<1>9. ASSUME k = TrainerMicros(w, d, i), i < TrainerMinis(w)
      PROVE  Looks(w, d, i + 1, 1, z, weights, grad, applied)
  <2>1. OldsBefore(w, d, i + 1, 1) = n + 1
    BY <1>1, <1>2, <1>9, OldsAre
  <2>2. i + 1 \in 1..TrainerMinis(w)
    BY <1>2, <1>6, <1>9
  <2>3. 1 \in 1..TrainerMicros(w, d, i + 1)
    BY <2>2, TrainerPlanIs DEF TrainerMini
  <2> QED BY <1>2, <1>5, <2>1, <2>2, <2>3 DEF Looks
<1>10. ASSUME k = TrainerMicros(w, d, i), ~(i < TrainerMinis(w)) PROVE OldsDone(w, d, z)
  <2>1. i = TrainerMinis(w)
    BY <1>2, <1>6, <1>10
  <2>2. AllOlds(w, d) = n + 1
    BY <1>1, <1>2, <1>10, <2>1, OldsAre
  <2> QED BY <1>5, <2>2 DEF OldsDone
<1> QED BY <1>2, <1>4, <1>7, <1>8, <1>9, <1>10 DEF LooksOn

LEMMA LearnFirst ==
  ASSUME NEW w \in Windows, ~TrainerRefuses(w), NEW d \in 1..w.trainer.dp,
         NEW old, OldsDone(w, d, old)
  PROVE  Learns(w, d, 1, 0, old, 0, << >>, << >>)
<1>1. 1 \in 1..TrainerMinis(w) /\ TrainerMini(w, d, 1)
  BY TrainerPlanIs
<1>2. TrainerMicros(w, d, 1) \in Nat \ {0}
      /\ Spreads(TrainerLists(w, d, 1), TrainerMicros(w, d, 1), TrainerShare(w, d, 1))
  BY <1>1 DEF TrainerMini
<1>3. Before(TrainerLists(w, d, 1), 0) = {}
  BY <1>2, BeforeIs
<1>4. Enters(<< >>, {}, Terms(w, d, 1))
  BY NothingEnters
<1>5. StepsAre(w, d, << >>, 0)
  BY DEF StepsAre, IsList
<1>6. 1 - 1 = 0 /\ 0 \in 0..TrainerMicros(w, d, 1)
  BY <1>2
<1>7. StepsAre(w, d, << >>, 1 - 1)
  BY <1>5, <1>6
<1> QED BY <1>1, <1>3, <1>4, <1>6, <1>7 DEF Learns

(* The terms of a micro-batch.                                             *)
TermsOf(w, d, i, k, o) ==
  [q \in DOMAIN Micro(TrainerPlan(w), d, i)[k].rows |->
     [row |-> TrainerPlan(w)[d].rows[Micro(TrainerPlan(w), d, i)[k].rows[q]],
      docs |-> TrainerPlan(w)[d].minis[i].docs, old |-> o, weights |-> i - 1]]

LEMMA LearnOn ==
  ASSUME NEW w \in Windows, ~TrainerRefuses(w), NEW d \in 1..w.trainer.dp,
         NEW i, NEW k, k > 0, NEW old, NEW weights, NEW grad, NEW applied,
         Learns(w, d, i, k - 1, old, weights, grad, applied),
         k \in 1..TrainerMicros(w, d, i), NEW o \in {0, -1}
  PROVE  Learns(w, d, i, k, old, weights, grad \o TermsOf(w, d, i, k, o), applied)
<1>1. /\ i \in 1..TrainerMinis(w)
      /\ OldsDone(w, d, old) /\ weights = i - 1
      /\ Enters(grad, Before(TrainerLists(w, d, i), k - 1), Terms(w, d, i))
      /\ StepsAre(w, d, applied, i - 1)
  BY DEF Learns
<1>2. TrainerMini(w, d, i)
  BY <1>1, TrainerPlanIs
<1>3. PICK K \in Nat \ {0} : K = TrainerMicros(w, d, i)
  BY <1>2 DEF TrainerMini
<1>4. PICK s : s = TrainerLists(w, d, i)
  OBVIOUS
<1>5. PICK X : X = TrainerShare(w, d, i)
  OBVIOUS
<1>6. PICK V : V = Terms(w, d, i)
  OBVIOUS
<1>7. Spreads(s, K, X)
  BY <1>2, <1>3, <1>4, <1>5 DEF TrainerMini
<1>8. PICK n : n = Len(s[k])
  OBVIOUS
<1>9. PICK h : h = TermsOf(w, d, i, k, o)
  OBVIOUS
<1>10. /\ s[k] = RowList(TrainerPlan(w), d, i, k)
       /\ n = Len(Micro(TrainerPlan(w), d, i)[k].rows)
       /\ DOMAIN Micro(TrainerPlan(w), d, i)[k].rows = 1..n
       /\ \A q \in 1..n : s[k][q] \in 1..Len(w.batch)
  BY <1>2, <1>4, <1>8 DEF TrainerMini
<1>11. \A q \in 1..n : s[k][q] = TrainerPlan(w)[d].rows[Micro(TrainerPlan(w), d, i)[k].rows[q]]
  BY <1>10 DEF RowList
<1>12. h = [q \in 1..n |-> [row |-> s[k][q], docs |-> TrainerPlan(w)[d].minis[i].docs,
                            old |-> o, weights |-> i - 1]]
  BY <1>9, <1>10, <1>11 DEF TermsOf
<1>13. h \in [1..n -> V] /\ \A q \in 1..n : h[q].row = s[k][q]
  BY <1>6, <1>10, <1>12 DEF Terms
<1>14. k \in 1..K /\ K \in Nat
  BY <1>3
<1>15. Enters(grad, Before(s, k - 1), V)
  BY <1>1, <1>4, <1>6
<1>16. Enters(grad \o h, Before(s, k), V)
  BY <1>7, <1>8, <1>13, <1>14, <1>15, EntersNext
<1> QED BY <1>1, <1>3, <1>4, <1>6, <1>9, <1>14, <1>16 DEF Learns

LEMMA Step ==
  ASSUME NEW w \in Windows, ~TrainerRefuses(w), NEW d \in 1..w.trainer.dp,
         NEW i, NEW old, NEW weights, NEW grad, NEW applied,
         Learns(w, d, i, TrainerMicros(w, d, i), old, weights, grad, applied)
  PROVE  Stepped(w, d, i, old, weights + 1, Append(applied, grad))
<1>1. /\ i \in 1..TrainerMinis(w)
      /\ OldsDone(w, d, old) /\ weights = i - 1
      /\ Enters(grad, Before(TrainerLists(w, d, i), TrainerMicros(w, d, i)), Terms(w, d, i))
      /\ IsList(applied, i - 1)
      /\ \A j \in 1..(i - 1) : Enters(applied[j], TrainerShare(w, d, j), Terms(w, d, j))
  BY DEF Learns, StepsAre
<1>2. TrainerMini(w, d, i) /\ TrainerMinis(w) \in Nat
  BY <1>1, TrainerPlanIs
<1>3. Before(TrainerLists(w, d, i), TrainerMicros(w, d, i)) = TrainerShare(w, d, i)
  BY <1>2, BeforeIs DEF TrainerMini
<1>4. PICK z : z = Append(applied, grad)
  OBVIOUS
<1>5. PICK m \in Nat : m = i - 1
  BY <1>1, <1>2
<1>6. IsList(z, m + 1) /\ (\A j \in 1..m : z[j] = applied[j]) /\ z[m + 1] = grad
  <2>1. IsList(applied, m)
    BY <1>1, <1>5
  <2> QED BY <1>4, <2>1, AppendList
<1>7. m + 1 = i
  BY <1>1, <1>2, <1>5
<1>8. \A j \in 1..i : Enters(z[j], TrainerShare(w, d, j), Terms(w, d, j))
  <2>1. 1..i = 1..m \cup {i}
    BY <1>5, <1>7
  <2> QED BY <2>1, <1>1, <1>3, <1>5, <1>6, <1>7
<1>9. weights + 1 = i
  BY <1>1, <1>2
<1> QED BY <1>1, <1>4, <1>6, <1>7, <1>8, <1>9 DEF Stepped, StepsAre

LEMMA NextMini ==
  ASSUME NEW w \in Windows, ~TrainerRefuses(w), NEW d \in 1..w.trainer.dp,
         NEW i, NEW old, NEW weights, NEW applied,
         Stepped(w, d, i, old, weights, applied), i < TrainerMinis(w)
  PROVE  Learns(w, d, i + 1, 0, old, weights, << >>, applied)
<1>1. /\ i \in 1..TrainerMinis(w) /\ OldsDone(w, d, old) /\ weights = i
      /\ StepsAre(w, d, applied, i) /\ TrainerMinis(w) \in Nat
  BY TrainerPlanIs DEF Stepped
<1>2. PICK j : j = i + 1
  OBVIOUS
<1>3. j \in 1..TrainerMinis(w) /\ j - 1 = i
  BY <1>1, <1>2
<1>4. TrainerMini(w, d, j)
  BY <1>3, TrainerPlanIs
<1>5. TrainerMicros(w, d, j) \in Nat \ {0}
      /\ Spreads(TrainerLists(w, d, j), TrainerMicros(w, d, j), TrainerShare(w, d, j))
  BY <1>4 DEF TrainerMini
<1>6. Before(TrainerLists(w, d, j), 0) = {}
  BY <1>5, BeforeIs
<1>7. Enters(<< >>, {}, Terms(w, d, j))
  BY NothingEnters
<1>8. 0 \in 0..TrainerMicros(w, d, j)
  BY <1>5
<1> QED BY <1>1, <1>2, <1>3, <1>6, <1>7, <1>8 DEF Learns

TrainerCalls ==
  {"broadcast", "whiten", "logprobs", "forward", "segments", "backward",
   "clip", "metrics", "barrier", "export", "done", "raised"}
RankIs(w, d, call, i, k, old, weights, grad, applied) ==
  /\ call \in TrainerCalls
  /\ call \in {"broadcast", "whiten"} => Begins(i, k, old, weights, grad, applied)
  /\ call = "logprobs" => Looks(w, d, i, k, old, weights, grad, applied)
  /\ call \in {"forward", "segments", "backward"} =>
       /\ k \in 1..TrainerMicros(w, d, i)
       /\ Learns(w, d, i, k - 1, old, weights, grad, applied)
  /\ call = "clip" => Learns(w, d, i, TrainerMicros(w, d, i), old, weights, grad, applied)
  /\ call = "metrics" => Stepped(w, d, i, old, weights, applied)
  /\ call \in {"barrier", "export", "done"} => StepsAre(w, d, applied, TrainerMinis(w))
TrainerRank(w, r) ==
  RankIs(w, r[1], tcall[r], tmini[r], tmicro[r], told[r], tweights[r], tgrad[r], tapplied[r])

IsMap(f, D) == f = [r \in D |-> f[r]]
TrainerMaps(D) ==
  /\ IsMap(tcall, D) /\ IsMap(tmini, D) /\ IsMap(tmicro, D) /\ IsMap(told, D)
  /\ IsMap(tweights, D) /\ IsMap(tgrad, D) /\ IsMap(tapplied, D)

Becomes(r, c, i, k, o, z, g, a) ==
  /\ tcall' = [tcall EXCEPT ![r] = c] /\ tmini' = [tmini EXCEPT ![r] = i]
  /\ tmicro' = [tmicro EXCEPT ![r] = k] /\ told' = [told EXCEPT ![r] = o]
  /\ tweights' = [tweights EXCEPT ![r] = z] /\ tgrad' = [tgrad EXCEPT ![r] = g]
  /\ tapplied' = [tapplied EXCEPT ![r] = a]

LEMMA MapKept ==
  ASSUME NEW D, NEW f, IsMap(f, D), NEW r \in D
  PROVE  f = [f EXCEPT ![r] = f[r]]
BY DEF IsMap

Changed(f, g, D, r, v) ==
  IsMap(g, D) /\ g[r] = v /\ \A q \in D : q # r => g[q] = f[q]
Excepts(f, g, r, v) == g = [f EXCEPT ![r] = v]

LEMMA ExceptIs ==
  ASSUME NEW D, NEW f, IsMap(f, D), NEW r \in D, NEW v, NEW g, Excepts(f, g, r, v)
  PROVE  Changed(f, g, D, r, v)
BY DEF IsMap, Excepts, Changed

LEMMA BecomesKeeps ==
  ASSUME NEW w, NEW D, TrainerMaps(D), \A q \in D : TrainerRank(w, q),
         NEW r \in D, NEW c, NEW i, NEW k, NEW o, NEW z, NEW g, NEW a,
         Becomes(r, c, i, k, o, z, g, a), RankIs(w, r[1], c, i, k, o, z, g, a)
  PROVE  TrainerMaps(D)' /\ \A q \in D : TrainerRank(w, q)'
<1>1. Changed(tcall, tcall', D, r, c)
  <2>1. IsMap(tcall, D) /\ Excepts(tcall, tcall', r, c)
    BY DEF TrainerMaps, Becomes, Excepts
  <2> QED BY <2>1, ExceptIs
<1>2. Changed(tmini, tmini', D, r, i)
  <2>1. IsMap(tmini, D) /\ Excepts(tmini, tmini', r, i)
    BY DEF TrainerMaps, Becomes, Excepts
  <2> QED BY <2>1, ExceptIs
<1>3. Changed(tmicro, tmicro', D, r, k)
  <2>1. IsMap(tmicro, D) /\ Excepts(tmicro, tmicro', r, k)
    BY DEF TrainerMaps, Becomes, Excepts
  <2> QED BY <2>1, ExceptIs
<1>4. Changed(told, told', D, r, o)
  <2>1. IsMap(told, D) /\ Excepts(told, told', r, o)
    BY DEF TrainerMaps, Becomes, Excepts
  <2> QED BY <2>1, ExceptIs
<1>5. Changed(tweights, tweights', D, r, z)
  <2>1. IsMap(tweights, D) /\ Excepts(tweights, tweights', r, z)
    BY DEF TrainerMaps, Becomes, Excepts
  <2> QED BY <2>1, ExceptIs
<1>6. Changed(tgrad, tgrad', D, r, g)
  <2>1. IsMap(tgrad, D) /\ Excepts(tgrad, tgrad', r, g)
    BY DEF TrainerMaps, Becomes, Excepts
  <2> QED BY <2>1, ExceptIs
<1>7. Changed(tapplied, tapplied', D, r, a)
  <2>1. IsMap(tapplied, D) /\ Excepts(tapplied, tapplied', r, a)
    BY DEF TrainerMaps, Becomes, Excepts
  <2> QED BY <2>1, ExceptIs
<1>8. TrainerMaps(D)'
  BY <1>1, <1>2, <1>3, <1>4, <1>5, <1>6, <1>7 DEF TrainerMaps, IsMap, Changed
<1>9. ASSUME NEW q \in D PROVE TrainerRank(w, q)'
  <2>1. CASE q = r
    BY <2>1, <1>1, <1>2, <1>3, <1>4, <1>5, <1>6, <1>7 DEF TrainerRank, Changed
  <2>2. CASE q # r
    BY <2>2, <1>1, <1>2, <1>3, <1>4, <1>5, <1>6, <1>7 DEF TrainerRank, Changed
  <2> QED BY <2>1, <2>2
<1> QED BY <1>8, <1>9

LEMMA ContributionIs ==
  ASSUME NEW w \in Windows, ~TrainerRefuses(w), tplan = TrainerPlan(w), tcfg = w.trainer,
         NEW r \in TrainerRanks(w),
         NEW i, i = tmini[r], NEW k, k = tmicro[r], k \in 1..TrainerMicros(w, r[1], i),
         NEW g, NEW a, Learns(w, r[1], i, k - 1, told[r], tweights[r], g, a)
  PROVE  \E o \in {0, -1} : T!Contribution(r) = TermsOf(w, r[1], i, k, o)
<1>1. PICK d \in 1..w.trainer.dp : d = r[1]
  BY DEF TrainerRanks
<1>2. i \in 1..TrainerMinis(w) /\ OldsDone(w, d, told[r]) /\ tweights[r] = i - 1
  BY <1>1 DEF Learns
<1>3. T!Preceding(r) = OldsBefore(w, d, i, k) + 1
  <2>1. PICK f : f = [j \in 1..(i - 1) |-> Len(Micro(TrainerPlan(w), d, j))]
    OBVIOUS
  <2>2. T!Preceding(r) = T!Total(f) + k
    BY <1>1, <2>1 DEF T!Preceding, T!Micros, T!Minis, Micro
  <2>3. T!Total(f) = MicrosTo(TrainerPlan(w), d, i - 1)
    BY <2>1, SameTotalT DEF MicrosTo
  <2>4. /\ OldsBefore(w, d, i, k) \in Nat
        /\ OldsBefore(w, d, i, k) = MicrosTo(TrainerPlan(w), d, i - 1) + k - 1
    BY <1>1, <1>2, OldsAre DEF OldsBefore
  <2>5. MicrosTo(TrainerPlan(w), d, i - 1) \in Int
    <3>1. PICK M \in Nat : M = TrainerMinis(w)
      BY TrainerPlanIs
    <3>2. \A j \in 1..M : Len(Micro(TrainerPlan(w), d, j)) \in Nat
      BY <3>1, TrainerPlanIs DEF TrainerMini, TrainerMicros
    <3>3. i - 1 \in 0..M
      BY <1>2, <3>1
    <3> QED BY <3>2, <3>3, MicrosToIs
  <2>6. k \in Int
    OBVIOUS
  <2> QED BY <2>2, <2>3, <2>4, <2>5, <2>6
<1>4. PICK o : o = IF tcfg.old = "train" THEN told[r][T!Preceding(r)] ELSE T!Rollout
  OBVIOUS
<1>5. o \in {0, -1}
  <2>1. CASE tcfg.old = "train"
    <3>1. told[r] \in [1..AllOlds(w, d) -> {0}]
      BY <2>1, <1>2 DEF OldsDone
    <3>2. PICK p : p = OldsBefore(w, d, i, k) + 1
      OBVIOUS
    <3>3. p \in 1..AllOlds(w, d)
      <4>1. OldsBefore(w, d, i, k) \in Nat /\ AllOlds(w, d) \in Nat
            /\ OldsBefore(w, d, i, k) + 1 <= AllOlds(w, d)
        BY <1>1, <1>2, OldsAre
      <4> QED BY <4>1, <3>2
    <3> QED BY <3>1, <3>2, <3>3, <2>1, <1>3, <1>4
  <2>2. CASE tcfg.old # "train"
    BY <2>2, <1>4 DEF T!Rollout
  <2> QED BY <2>1, <2>2
<1>6. T!Contribution(r) = TermsOf(w, d, i, k, o)
  <2>1. T!Current(r) = Micro(TrainerPlan(w), d, i)[k]
    BY <1>1 DEF T!Current, T!Micros, T!Minis, Micro
  <2>2. T!Rows(r) = TrainerPlan(w)[d].rows /\ T!Minis(r)[tmini[r]].docs = TrainerPlan(w)[d].minis[i].docs
    BY <1>1 DEF T!Rows, T!Minis
  <2> QED BY <2>1, <2>2, <1>2, <1>4 DEF T!Contribution, TermsOf
<1> QED BY <1>1, <1>5, <1>6

LEMMA TrainerStep ==
  ASSUME NEW w \in Windows, ~TrainerRefuses(w), tplan = TrainerPlan(w), tcfg = w.trainer,
         NEW D, D = TrainerRanks(w), TrainerMaps(D), \A q \in D : TrainerRank(w, q),
         NEW r \in D, T!TrainRank(r)
  PROVE  TrainerMaps(D)' /\ \A q \in D : TrainerRank(w, q)'
<1>1. PICK d \in 1..w.trainer.dp : d = r[1]
  BY DEF TrainerRanks
<1>2. PICK c, i, k, o, z, g, a :
        /\ c = tcall[r] /\ i = tmini[r] /\ k = tmicro[r] /\ o = told[r]
        /\ z = tweights[r] /\ g = tgrad[r] /\ a = tapplied[r]
  OBVIOUS
<1>3. RankIs(w, d, c, i, k, o, z, g, a)
  BY <1>1, <1>2 DEF TrainerRank
<1>4. /\ tmini = [tmini EXCEPT ![r] = i] /\ tmicro = [tmicro EXCEPT ![r] = k]
      /\ told = [told EXCEPT ![r] = o] /\ tweights = [tweights EXCEPT ![r] = z]
      /\ tgrad = [tgrad EXCEPT ![r] = g] /\ tapplied = [tapplied EXCEPT ![r] = a]
  BY <1>2, MapKept DEF TrainerMaps
<1>5. SUFFICES \E c2, i2, k2, o2, z2, g2, a2 :
                 /\ Becomes(r, c2, i2, k2, o2, z2, g2, a2)
                 /\ RankIs(w, d, c2, i2, k2, o2, z2, g2, a2)
  BY <1>1, BecomesKeeps
<1>6. /\ T!MoreMicros(r) <=> k < TrainerMicros(w, d, i)
      /\ T!MoreMinis(r) <=> i < TrainerMinis(w)
  <2>1. Len(TrainerPlan(w)[d].minis) = TrainerMinis(w)
    BY TrainerPlanIs
  <2> QED BY <1>1, <1>2, <2>1
       DEF T!MoreMicros, T!MoreMinis, T!Micros, T!Minis, TrainerMicros, Micro
<1>7. /\ TrainerMinis(w) \in Nat
      /\ \A j \in 1..TrainerMinis(w) : TrainerMicros(w, d, j) \in Nat \ {0}
  BY TrainerPlanIs DEF TrainerMini
<1>8. Looks(w, d, 1, 1, << >>, 0, << >>, << >>)
  BY LookFirst
<1>9. ASSUME NEW old, OldsDone(w, d, old)
      PROVE  RankIs(w, d, "forward", 1, 1, old, 0, << >>, << >>)
  <2>1. Learns(w, d, 1, 0, old, 0, << >>, << >>)
    BY <1>9, LearnFirst
  <2>2. 1 \in 1..TrainerMicros(w, d, 1)
    BY <1>7, <1>8 DEF Looks
  <2>3. 1 - 1 = 0
    OBVIOUS
  <2> QED BY <2>1, <2>2, <2>3 DEF RankIs, TrainerCalls
<1>10. T!FirstPass = IF w.trainer.old = "train" THEN "logprobs" ELSE "forward"
  BY DEF T!FirstPass
<1>11. ASSUME Begins(i, k, o, z, g, a)
       PROVE  RankIs(w, d, T!FirstPass, i, k, o, z, g, a)
  <2>1. i = 1 /\ k = 1 /\ o = << >> /\ z = 0 /\ g = << >> /\ a = << >>
    BY <1>11 DEF Begins
  <2>2. CASE w.trainer.old = "train"
    BY <2>1, <2>2, <1>8, <1>10 DEF RankIs, TrainerCalls
  <2>3. CASE w.trainer.old # "train"
    <3>1. OldsDone(w, d, << >>)
      BY <2>3 DEF OldsDone
    <3> QED BY <2>1, <2>3, <3>1, <1>9, <1>10
  <2> QED BY <2>2, <2>3
<1>12. CASE T!PlanBatch(r)
  <2>1. c = "broadcast" /\ Begins(i, k, o, z, g, a)
    BY <1>2, <1>3, <1>12 DEF T!PlanBatch, RankIs
  <2>2. PICK c2 \in {"raised", "whiten", T!FirstPass} : tcall' = [tcall EXCEPT ![r] = c2]
    BY <1>12 DEF T!PlanBatch, T!GoesTo, T!Ends
  <2>3. Becomes(r, c2, i, k, o, z, g, a)
    BY <1>4, <1>12, <2>2 DEF Becomes, T!PlanBatch
  <2>4. RankIs(w, d, c2, i, k, o, z, g, a)
    <3>1. CASE c2 = T!FirstPass
      BY <3>1, <2>1, <1>11
    <3>2. CASE c2 = "raised" \/ c2 = "whiten"
      BY <3>2, <2>1 DEF RankIs, TrainerCalls
    <3> QED BY <3>1, <3>2, <2>2
  <2> QED BY <2>3, <2>4
<1>13. CASE T!Whiten(r)
  <2>1. c = "whiten" /\ Begins(i, k, o, z, g, a)
    BY <1>2, <1>3, <1>13 DEF T!Whiten, RankIs
  <2>2. Becomes(r, T!FirstPass, i, k, o, z, g, a)
    BY <1>4, <1>13 DEF Becomes, T!Whiten, T!GoesTo
  <2> QED BY <2>1, <2>2, <1>11
<1>14. CASE T!OldLogprobs(r)
  <2>1. c = "logprobs" /\ Looks(w, d, i, k, o, z, g, a)
    BY <1>2, <1>3, <1>14 DEF T!OldLogprobs, RankIs
  <2>2. PICK o2 : o2 = Append(o, z)
    OBVIOUS
  <2>3. told' = [told EXCEPT ![r] = o2]
    BY <1>2, <1>14, <2>2 DEF T!OldLogprobs
  <2>4. LooksOn(w, d, i, k, o2, z, g, a)
    BY <2>1, <2>2, LookOn
  <2>5. CASE T!MoreMicros(r) /\ T!At(r, tmini[r], tmicro[r] + 1) /\ T!GoesTo(r, "logprobs")
    <3>1. Becomes(r, "logprobs", i, k + 1, o2, z, g, a)
      BY <1>2, <1>4, <1>14, <2>3, <2>5 DEF Becomes, T!OldLogprobs, T!GoesTo, T!At
    <3>2. RankIs(w, d, "logprobs", i, k + 1, o2, z, g, a)
      BY <1>6, <2>4, <2>5 DEF RankIs, TrainerCalls, LooksOn
    <3> QED BY <3>1, <3>2
  <2>6. CASE /\ ~T!MoreMicros(r) /\ T!MoreMinis(r) /\ T!At(r, tmini[r] + 1, 1)
             /\ T!GoesTo(r, "logprobs")
    <3>1. Becomes(r, "logprobs", i + 1, 1, o2, z, g, a)
      BY <1>2, <1>4, <1>14, <2>3, <2>6 DEF Becomes, T!OldLogprobs, T!GoesTo, T!At
    <3>2. RankIs(w, d, "logprobs", i + 1, 1, o2, z, g, a)
      BY <1>6, <2>4, <2>6 DEF RankIs, TrainerCalls, LooksOn
    <3> QED BY <3>1, <3>2
  <2>7. CASE ~T!MoreMicros(r) /\ ~T!MoreMinis(r) /\ T!At(r, 1, 1) /\ T!GoesTo(r, "forward")
    <3>1. Becomes(r, "forward", 1, 1, o2, z, g, a)
      BY <1>2, <1>4, <1>14, <2>3, <2>7 DEF Becomes, T!OldLogprobs, T!GoesTo, T!At
    <3>2. RankIs(w, d, "forward", 1, 1, o2, z, g, a)
      BY <1>6, <1>9, <2>4, <2>7 DEF LooksOn
    <3> QED BY <3>1, <3>2
  <2> QED BY <1>14, <2>5, <2>6, <2>7 DEF T!OldLogprobs
<1>15. CASE T!Forward(r)
  <2>1. c = "forward" /\ k \in 1..TrainerMicros(w, d, i) /\ Learns(w, d, i, k - 1, o, z, g, a)
    BY <1>2, <1>3, <1>15 DEF T!Forward, RankIs
  <2>2. PICK c2 \in {"segments", "backward"} : tcall' = [tcall EXCEPT ![r] = c2]
    BY <1>15 DEF T!Forward, T!GoesTo
  <2>3. Becomes(r, c2, i, k, o, z, g, a)
    BY <1>4, <1>15, <2>2 DEF Becomes, T!Forward
  <2>4. RankIs(w, d, c2, i, k, o, z, g, a)
    BY <2>1 DEF RankIs, TrainerCalls
  <2> QED BY <2>3, <2>4
<1>16. CASE T!Segments(r)
  <2>1. c = "segments" /\ k \in 1..TrainerMicros(w, d, i) /\ Learns(w, d, i, k - 1, o, z, g, a)
    BY <1>2, <1>3, <1>16 DEF T!Segments, RankIs
  <2>2. Becomes(r, "backward", i, k, o, z, g, a)
    BY <1>4, <1>16 DEF Becomes, T!Segments, T!GoesTo
  <2>3. RankIs(w, d, "backward", i, k, o, z, g, a)
    BY <2>1 DEF RankIs, TrainerCalls
  <2> QED BY <2>2, <2>3
<1>17. CASE T!Backward(r)
  <2>1. c = "backward" /\ k \in 1..TrainerMicros(w, d, i) /\ Learns(w, d, i, k - 1, o, z, g, a)
    BY <1>2, <1>3, <1>17 DEF T!Backward, RankIs
  <2>2. PICK y \in {0, -1} : T!Contribution(r) = TermsOf(w, d, i, k, y)
    BY <1>1, <1>2, <2>1, ContributionIs
  <2>3. PICK g2 : g2 = g \o TermsOf(w, d, i, k, y)
    OBVIOUS
  <2>4. tgrad' = [tgrad EXCEPT ![r] = g2]
    BY <1>2, <1>17, <2>2, <2>3 DEF T!Backward
  <2>5. Learns(w, d, i, k, o, z, g2, a)
    BY <2>1, <2>3, LearnOn
  <2>6. i \in 1..TrainerMinis(w)
    BY <2>1 DEF Learns
  <2>7. TrainerMicros(w, d, i) \in Nat
    BY <1>7, <2>6
  <2>8. CASE T!MoreMicros(r) /\ T!At(r, tmini[r], tmicro[r] + 1) /\ T!GoesTo(r, "forward")
    <3>1. Becomes(r, "forward", i, k + 1, o, z, g2, a)
      BY <1>2, <1>4, <1>17, <2>4, <2>8 DEF Becomes, T!Backward, T!GoesTo, T!At
    <3>2. k + 1 \in 1..TrainerMicros(w, d, i) /\ (k + 1) - 1 = k
      BY <1>6, <2>1, <2>7, <2>8
    <3>3. RankIs(w, d, "forward", i, k + 1, o, z, g2, a)
      BY <2>5, <3>2 DEF RankIs, TrainerCalls
    <3> QED BY <3>1, <3>3
  <2>9. CASE ~T!MoreMicros(r) /\ T!GoesTo(r, "clip") /\ UNCHANGED <<tmini, tmicro>>
    <3>1. Becomes(r, "clip", i, k, o, z, g2, a)
      BY <1>2, <1>4, <1>17, <2>4, <2>9 DEF Becomes, T!Backward, T!GoesTo
    <3>2. k = TrainerMicros(w, d, i)
      BY <1>6, <2>1, <2>7, <2>9
    <3>3. RankIs(w, d, "clip", i, k, o, z, g2, a)
      BY <2>5, <3>2 DEF RankIs, TrainerCalls
    <3> QED BY <3>1, <3>3
  <2> QED BY <1>17, <2>8, <2>9 DEF T!Backward
<1>18. CASE T!OptimizerStep(r)
  <2>1. c = "clip" /\ Learns(w, d, i, TrainerMicros(w, d, i), o, z, g, a)
    BY <1>2, <1>3, <1>18 DEF T!OptimizerStep, RankIs
  <2>2. Becomes(r, "metrics", i, k, o, z + 1, g, Append(a, g))
    BY <1>2, <1>4, <1>18 DEF Becomes, T!OptimizerStep, T!GoesTo
  <2>3. Stepped(w, d, i, o, z + 1, Append(a, g))
    BY <2>1, Step
  <2>4. RankIs(w, d, "metrics", i, k, o, z + 1, g, Append(a, g))
    BY <2>3 DEF RankIs, TrainerCalls
  <2> QED BY <2>2, <2>4
<1>19. CASE T!ReduceMetrics(r)
  <2>1. c = "metrics" /\ Stepped(w, d, i, o, z, a)
    BY <1>2, <1>3, <1>19 DEF T!ReduceMetrics, RankIs
  <2>2. CASE /\ T!MoreMinis(r) /\ T!At(r, tmini[r] + 1, 1)
             /\ tgrad' = [tgrad EXCEPT ![r] = << >>]
             /\ T!GoesTo(r, "forward") /\ UNCHANGED tstep
    <3>1. Becomes(r, "forward", i + 1, 1, o, z, << >>, a)
      BY <1>2, <1>4, <1>19, <2>2 DEF Becomes, T!ReduceMetrics, T!GoesTo, T!At
    <3>2. Learns(w, d, i + 1, 0, o, z, << >>, a)
      BY <1>6, <2>1, <2>2, NextMini
    <3>3. 1 \in 1..TrainerMicros(w, d, i + 1) /\ 1 - 1 = 0
      BY <1>7, <3>2 DEF Learns
    <3>4. RankIs(w, d, "forward", i + 1, 1, o, z, << >>, a)
      BY <3>2, <3>3 DEF RankIs, TrainerCalls
    <3> QED BY <3>1, <3>4
  <2>3. CASE /\ ~T!MoreMinis(r)
             /\ T!GoesTo(r, "barrier") /\ UNCHANGED <<tmini, tmicro, tgrad>>
    <3>1. Becomes(r, "barrier", i, k, o, z, g, a)
      BY <1>2, <1>4, <1>19, <2>3 DEF Becomes, T!ReduceMetrics, T!GoesTo
    <3>2. StepsAre(w, d, a, TrainerMinis(w))
      <4>1. i = TrainerMinis(w)
        BY <1>6, <1>7, <2>1, <2>3 DEF Stepped
      <4> QED BY <4>1, <2>1 DEF Stepped
    <3>3. RankIs(w, d, "barrier", i, k, o, z, g, a)
      BY <3>2 DEF RankIs, TrainerCalls
    <3> QED BY <3>1, <3>3
  <2> QED BY <1>19, <2>2, <2>3 DEF T!ReduceMetrics
<1>20. CASE T!Barrier(r)
  <2>1. c = "barrier" /\ StepsAre(w, d, a, TrainerMinis(w))
    BY <1>2, <1>3, <1>20 DEF T!Barrier, RankIs
  <2>2. PICK c2 \in {"export", "done"} : tcall' = [tcall EXCEPT ![r] = c2]
    BY <1>20 DEF T!Barrier, T!GoesTo, T!Ends
  <2>3. Becomes(r, c2, i, k, o, z, g, a)
    BY <1>4, <1>20, <2>2 DEF Becomes, T!Barrier
  <2>4. RankIs(w, d, c2, i, k, o, z, g, a)
    BY <2>1 DEF RankIs, TrainerCalls
  <2> QED BY <2>3, <2>4
<1>21. CASE T!Export(r)
  <2>1. c = "export" /\ StepsAre(w, d, a, TrainerMinis(w))
    BY <1>2, <1>3, <1>21 DEF T!Export, RankIs
  <2>2. Becomes(r, "done", i, k, o, z, g, a)
    BY <1>4, <1>21 DEF Becomes, T!Export, T!Ends
  <2>3. RankIs(w, d, "done", i, k, o, z, g, a)
    BY <2>1 DEF RankIs, TrainerCalls
  <2> QED BY <2>2, <2>3
<1> QED BY <1>12, <1>13, <1>14, <1>15, <1>16, <1>17, <1>18, <1>19, <1>20, <1>21
     DEF T!TrainRank

(* What the trainer is at every moment.                                    *)
TrainerInv ==
  \E w \in Windows :
    /\ batch = w.batch /\ ccfg = w.critic /\ tcfg = w.trainer
    /\ TrainerMaps(TrainerRanks(w))
    /\ TrainerRefuses(w) => \A r \in TrainerRanks(w) : tcall[r] \in {"broadcast", "raised"}
    /\ ~TrainerRefuses(w) =>
         tplan = TrainerPlan(w) /\ \A r \in TrainerRanks(w) : TrainerRank(w, r)

LEMMA TrainerOf ==
  ASSUME NEW w \in Windows, batch = w.batch, tcfg = w.trainer
  PROVE  /\ T!Ranks = TrainerRanks(w) /\ T!Lengths = Lens(w)
         /\ T!Refused(T!Lengths, T!Dp) <=> TrainerRefuses(w)
         /\ T!BuildPlan(T!Lengths, T!Dp, tcfg.plan) = TrainerPlan(w)
<1>1. T!Ranks = TrainerRanks(w)
  BY DEF T!Ranks, T!Dp, T!Cp, TrainerRanks
<1>2. T!Lengths = Lens(w)
  BY DEF T!Lengths, Lens
<1>3. T!Refused(T!Lengths, T!Dp) <=> TrainerRefuses(w)
  <2>1. T!Refused(T!Lengths, T!Dp) <=> (Lens(w) = << >> \/ Len(Lens(w)) % w.trainer.dp # 0)
    BY <1>2 DEF T!Refused, T!Dp
  <2>2. Len(Lens(w)) = Len(w.batch) /\ (Lens(w) = << >> <=> w.batch = << >>)
    BY LensAre
  <2> QED BY <2>1, <2>2 DEF TrainerRefuses
<1>4. T!BuildPlan(T!Lengths, T!Dp, tcfg.plan) = TrainerPlan(w)
  BY <1>2, SamePlanT DEF TrainerPlan, T!Dp
<1> QED BY <1>1, <1>2, <1>3, <1>4

LEMMA TrainerStarts ==
  Init => TrainerInv
<1> SUFFICES ASSUME Init PROVE TrainerInv
  OBVIOUS
<1>1. PICK w \in Windows : batch = w.batch /\ ccfg = w.critic /\ tcfg = w.trainer
  BY DEF Init
<1>2. T!TrainInit
  BY DEF Init
<1>3. PICK D : D = TrainerRanks(w)
  OBVIOUS
<1>4. T!Ranks = D /\ (T!Refused(T!Lengths, T!Dp) <=> TrainerRefuses(w))
      /\ T!BuildPlan(T!Lengths, T!Dp, tcfg.plan) = TrainerPlan(w)
  BY <1>1, <1>3, TrainerOf
<1>5. /\ tcall = [r \in D |-> "broadcast"]
      /\ tmini = [r \in D |-> 1] /\ tmicro = [r \in D |-> 1] /\ told = [r \in D |-> << >>]
      /\ tweights = [r \in D |-> 0] /\ tgrad = [r \in D |-> << >>]
      /\ tapplied = [r \in D |-> << >>]
  BY <1>2, <1>4 DEF T!TrainInit, T!AllIn
<1>6. TrainerMaps(D)
  BY <1>5 DEF TrainerMaps, IsMap
<1>7. ~TrainerRefuses(w) => tplan = TrainerPlan(w)
  BY <1>2, <1>4 DEF T!TrainInit
<1>8. \A r \in D : tcall[r] = "broadcast" /\ TrainerRank(w, r)
  BY <1>5 DEF TrainerRank, RankIs, TrainerCalls, Begins
<1> QED BY <1>1, <1>3, <1>6, <1>7, <1>8 DEF TrainerInv

LEMMA CriticLeaves ==
  ASSUME NEW r, C!CriticRank(r)
  PROVE  UNCHANGED <<batch, ccfg>>
BY DEF C!CriticRank, C!PlanWindow, C!CountTokens, C!Forward, C!Backward, C!GatherSeq,
       C!OptimizerStep, C!EndEpoch, C!Save, C!SaveBarrier, C!Collect

LEMMA TrainerLeaves ==
  ASSUME NEW r, T!TrainRank(r)
  PROVE  UNCHANGED <<batch, tcfg, tplan>>
BY DEF T!TrainRank, T!PlanBatch, T!Whiten, T!OldLogprobs, T!Forward, T!Segments, T!Backward,
       T!OptimizerStep, T!ReduceMetrics, T!Barrier, T!Export

LEMMA TrainerRefusing ==
  ASSUME NEW w \in Windows, batch = w.batch, tcfg = w.trainer, TrainerRefuses(w),
         NEW D, D = TrainerRanks(w), TrainerMaps(D),
         \A q \in D : tcall[q] \in {"broadcast", "raised"},
         NEW r \in D, T!TrainRank(r)
  PROVE  TrainerMaps(D)' /\ \A q \in D : tcall'[q] \in {"broadcast", "raised"}
<1>1. tcall[r] \in {"broadcast", "raised"}
  OBVIOUS
<1>2. T!PlanBatch(r)
  BY <1>1 DEF T!TrainRank, T!Whiten, T!OldLogprobs, T!Forward, T!Segments, T!Backward,
       T!OptimizerStep, T!ReduceMetrics, T!Barrier, T!Export
<1>3. T!Refused(T!Lengths, T!Dp)
  BY TrainerOf
<1>4. T!Ends(r, "raised")
  BY <1>2, <1>3 DEF T!PlanBatch
<1>5. tcall' = [tcall EXCEPT ![r] = "raised"]
  BY <1>4 DEF T!Ends
<1>6. UNCHANGED <<tmini, tmicro, told, tweights, tgrad, tapplied>>
  BY <1>2 DEF T!PlanBatch
<1>7. Changed(tcall, tcall', D, r, "raised")
  <2>1. IsMap(tcall, D) /\ Excepts(tcall, tcall', r, "raised")
    BY <1>5 DEF TrainerMaps, Excepts
  <2> QED BY <2>1, ExceptIs
<1>8. TrainerMaps(D)'
  BY <1>6, <1>7 DEF TrainerMaps, Changed, IsMap
<1>9. ASSUME NEW q \in D PROVE tcall'[q] \in {"broadcast", "raised"}
  BY <1>7 DEF Changed
<1> QED BY <1>8, <1>9

LEMMA TrainerKept ==
  TrainerInv /\ [Next]_vars => TrainerInv'
<1> SUFFICES ASSUME TrainerInv, [Next]_vars PROVE TrainerInv'
  OBVIOUS
<1>1. PICK w \in Windows :
        /\ batch = w.batch /\ ccfg = w.critic /\ tcfg = w.trainer
        /\ TrainerMaps(TrainerRanks(w))
        /\ TrainerRefuses(w) =>
             \A r \in TrainerRanks(w) : tcall[r] \in {"broadcast", "raised"}
        /\ ~TrainerRefuses(w) =>
             tplan = TrainerPlan(w) /\ \A r \in TrainerRanks(w) : TrainerRank(w, r)
  BY DEF TrainerInv
<1>2. PICK D : D = TrainerRanks(w)
  OBVIOUS
<1>3. T!Ranks = D
  BY <1>1, <1>2, TrainerOf
<1>4. CASE UNCHANGED <<batch, ccfg, tvars>>
  <2>1. UNCHANGED <<batch, ccfg, tcfg, tcall, tplan, tmini, tmicro, told, tweights, tgrad, tapplied>>
    BY <1>4 DEF tvars
  <2>2. TrainerMaps(D)'
    BY <1>1, <1>2, <2>1 DEF TrainerMaps, IsMap
  <2>3. \A r \in D : TrainerRank(w, r) => TrainerRank(w, r)'
    BY <2>1 DEF TrainerRank
  <2> QED BY <1>1, <1>2, <2>1, <2>2, <2>3 DEF TrainerInv
<1>5. CASE \E r \in AllRanks : CriticRuns(r)
  <2>1. PICK r \in AllRanks : CriticRuns(r)
    BY <1>5
  <2>2. UNCHANGED <<batch, ccfg>>
    BY <2>1, CriticLeaves DEF CriticRuns
  <2>3. UNCHANGED tvars
    BY <2>1 DEF CriticRuns
  <2> QED BY <1>4, <2>2, <2>3
<1>6. CASE \E r \in AllRanks : TrainerRuns(r)
  <2>1. PICK r \in AllRanks : TrainerRuns(r)
    BY <1>6
  <2>2. r \in D /\ T!TrainRank(r) /\ UNCHANGED ccfg
    BY <2>1, <1>3 DEF TrainerRuns, cvars
  <2>3. UNCHANGED <<batch, tcfg, tplan>>
    BY <2>2, TrainerLeaves
  <2>4. CASE TrainerRefuses(w)
    <3>1. TrainerMaps(D)' /\ \A q \in D : tcall'[q] \in {"broadcast", "raised"}
      BY <1>1, <1>2, <2>2, <2>4, TrainerRefusing
    <3> QED BY <1>1, <1>2, <2>2, <2>3, <2>4, <3>1 DEF TrainerInv
  <2>5. CASE ~TrainerRefuses(w)
    <3>1. TrainerMaps(D)' /\ \A q \in D : TrainerRank(w, q)'
      BY <1>1, <1>2, <2>2, <2>5, TrainerStep
    <3> QED BY <1>1, <1>2, <2>2, <2>3, <2>5, <3>1 DEF TrainerInv
  <2> QED BY <2>4, <2>5
<1>7. CASE UNCHANGED vars
  BY <1>4, <1>7 DEF vars, cvars, tvars
<1> QED BY <1>5, <1>6, <1>7 DEF Next

(* The end of a step.  What rank <<d, c>> had contributed to step k.       *)
Applied(d, c, k) == tapplied[<<d, c>>][k]

EndedAt(w) ==
  \A d \in 1..w.trainer.dp, c \in 1..w.trainer.cp :
    /\ IsList(tapplied[<<d, c>>], TrainerMinis(w))
    /\ Len(tapplied[<<d, c>>]) = TrainerMinis(w)
    /\ \A k \in 1..TrainerMinis(w) :
         Enters(Applied(d, c, k), TrainerShare(w, d, k), Terms(w, d, k))

LEMMA TrainerDone ==
  ASSUME TrainerInv, T!Done
  PROVE  \E w \in Windows :
           /\ batch = w.batch /\ tcfg = w.trainer /\ ~TrainerRefuses(w)
           /\ tplan = TrainerPlan(w) /\ EndedAt(w)
<1>1. PICK w \in Windows :
        /\ batch = w.batch /\ ccfg = w.critic /\ tcfg = w.trainer
        /\ TrainerMaps(TrainerRanks(w))
        /\ TrainerRefuses(w) =>
             \A r \in TrainerRanks(w) : tcall[r] \in {"broadcast", "raised"}
        /\ ~TrainerRefuses(w) =>
             tplan = TrainerPlan(w) /\ \A r \in TrainerRanks(w) : TrainerRank(w, r)
  BY DEF TrainerInv
<1>2. \A r \in TrainerRanks(w) : tcall[r] = "done"
  BY <1>1, TrainerOf DEF T!Done
<1>3. <<1, 1>> \in TrainerRanks(w)
  <2>1. 1 \in 1..w.trainer.dp /\ 1 \in 1..w.trainer.cp
    BY WindowAssumption
  <2> QED BY <2>1 DEF TrainerRanks
<1>4. ~TrainerRefuses(w)
  <2>1. tcall[<<1, 1>>] = "done"
    BY <1>2, <1>3
  <2> QED BY <1>1, <1>3, <2>1
<1>5. PICK M \in Nat : M = TrainerMinis(w)
  BY <1>4, TrainerPlanIs
<1>6. ASSUME NEW d \in 1..w.trainer.dp, NEW c \in 1..w.trainer.cp
      PROVE  /\ IsList(tapplied[<<d, c>>], M) /\ Len(tapplied[<<d, c>>]) = M
             /\ \A k \in 1..M : Enters(Applied(d, c, k), TrainerShare(w, d, k), Terms(w, d, k))
  <2>0. PICK r : r = <<d, c>>
    OBVIOUS
  <2>1. r = <<d, c>> /\ r \in TrainerRanks(w) /\ r[1] = d
    BY <2>0 DEF TrainerRanks
  <2>2. StepsAre(w, d, tapplied[r], M)
    BY <1>1, <1>2, <1>4, <1>5, <2>1 DEF TrainerRank, RankIs
  <2>3. IsList(tapplied[r], M)
    BY <2>2 DEF StepsAre
  <2>4. Len(tapplied[r]) = M
    BY <2>3, AppendList
  <2> QED BY <2>1, <2>2, <2>3, <2>4 DEF StepsAre, Applied
<1> QED BY <1>1, <1>4, <1>5, <1>6 DEF EndedAt

LEMMA StepsTakenAre ==
  ASSUME NEW w \in Windows, EndedAt(w)
  PROVE  T!StepsTaken = 1..TrainerMinis(w)
<1>1. 1 \in 1..w.trainer.dp /\ 1 \in 1..w.trainer.cp
  BY WindowAssumption
<1>2. Len(tapplied[<<1, 1>>]) = TrainerMinis(w)
  BY <1>1 DEF EndedAt
<1> QED BY <1>2 DEF T!StepsTaken, T!MasterRank

AppliedAre(w, g, d, k) ==
  /\ Len(g) \in 0..Len(w.batch) /\ DOMAIN g = 1..Len(g)
  /\ Len(g) = Len(Members(Lens(w), w.trainer.dp, w.trainer.plan)[d][k])
  /\ \A p, q \in 1..Len(g) : g[p].row = g[q].row => p = q
  /\ \A p \in 1..Len(g) :
       /\ g[p].row \in TrainerShare(w, d, k)
       /\ g[p].docs = TrainerPlan(w)[d].minis[k].docs
       /\ g[p].weights = k - 1 /\ g[p].old \in {0, -1}
  /\ \A x \in TrainerShare(w, d, k) : \E p \in 1..Len(g) : g[p].row = x

LEMMA AppliedIs ==
  ASSUME NEW w \in Windows, ~TrainerRefuses(w), EndedAt(w),
         NEW d \in 1..w.trainer.dp, NEW c \in 1..w.trainer.cp, NEW k \in 1..TrainerMinis(w)
  PROVE  AppliedAre(w, Applied(d, c, k), d, k)
<1>1. PICK g : g = Applied(d, c, k)
  OBVIOUS
<1>2. Enters(g, TrainerShare(w, d, k), Terms(w, d, k))
  BY <1>1 DEF EndedAt
<1>3. PICK n : n = Len(w.batch)
  OBVIOUS
<1>4. Plannable(Lens(w), n, w.trainer.dp, w.trainer.plan)
  BY <1>3, TrainerPlannable
<1>5. /\ TrainerShare(w, d, k) \subseteq 1..n
      /\ Cardinality(TrainerShare(w, d, k)) =
           Len(Members(Lens(w), w.trainer.dp, w.trainer.plan)[d][k])
  BY <1>3, <1>4, SharesSpread DEF TrainerShare, TrainerMinis
<1>6. Cardinality(TrainerShare(w, d, k)) = Len(g) /\ IsFiniteSet(TrainerShare(w, d, k))
  BY <1>2, EntersCount
<1>7. n \in Nat
  BY <1>3, LensAre
<1>8. Len(g) \in 0..n
  <2>1. IsFiniteSet(1..n) /\ Cardinality(1..n) = n
    BY <1>7, CountTo
  <2>2. Cardinality(TrainerShare(w, d, k)) <= Cardinality(1..n)
    BY <2>1, <1>5, FS_Subset
  <2>3. Len(g) \in Nat
    BY <1>2 DEF Enters
  <2> QED BY <2>1, <2>2, <2>3, <1>6, <1>7
<1>9. g \in [1..Len(g) -> Terms(w, d, k)]
  BY <1>2 DEF Enters
<1>10. \A p \in 1..Len(g) :
         /\ g[p].docs = TrainerPlan(w)[d].minis[k].docs
         /\ g[p].weights = k - 1 /\ g[p].old \in {0, -1}
  BY <1>9 DEF Terms
<1> QED BY <1>1, <1>2, <1>3, <1>5, <1>6, <1>8, <1>9, <1>10 DEF Enters, AppliedAre

(* Summed(k, c) counts the terms of the shards.                            *)
Entered(w, c, k) == [d \in 1..w.trainer.dp |-> Len(Applied(d, c, k))]

LEMMA SummedIs ==
  ASSUME NEW w \in Windows, batch = w.batch, tcfg = w.trainer,
         ~TrainerRefuses(w), EndedAt(w),
         NEW c \in 1..w.trainer.cp, NEW k \in 1..TrainerMinis(w)
  PROVE  /\ T!Summed(k, c) = Places(Entered(w, c, k), w.trainer.dp)
         /\ \A e \in T!Summed(k, c) :
              /\ e = <<e[1], e[2]>> /\ e[1] \in 1..w.trainer.dp
              /\ e[2] \in 1..Len(Applied(e[1], c, k))
              /\ T!Term(k, c, e) = Applied(e[1], c, k)[e[2]]
         /\ \A d \in 1..w.trainer.dp : \A p \in 1..Len(Applied(d, c, k)) :
              <<d, p>> \in T!Summed(k, c)
<1>1. PICK dp : dp = w.trainer.dp
  OBVIOUS
<1>2. PICK n \in Nat : n = Len(w.batch)
  BY LensAre
<1>3. \A d \in 1..dp : /\ Len(Applied(d, c, k)) \in 0..n
                       /\ DOMAIN Applied(d, c, k) = 1..Len(Applied(d, c, k))
  BY <1>1, <1>2, AppliedIs DEF AppliedAre
<1>4. T!Summed(k, c) =
        {<<d, p>> : d \in 1..dp, p \in 1..n} \cap
        UNION {{<<d, p>> : p \in DOMAIN Applied(d, c, k)} : d \in 1..dp}
  BY <1>1, <1>2 DEF T!Summed, T!Dp, Applied
<1>5. ASSUME NEW e \in T!Summed(k, c)
      PROVE  /\ e = <<e[1], e[2]>> /\ e[1] \in 1..dp
             /\ e[2] \in 1..Len(Applied(e[1], c, k))
  <2>1. PICK d \in 1..dp : e \in {<<d, p>> : p \in DOMAIN Applied(d, c, k)}
    BY <1>4
  <2>2. PICK p \in DOMAIN Applied(d, c, k) : e = <<d, p>>
    BY <2>1
  <2> QED BY <2>2, <1>3
<1>6. ASSUME NEW d \in 1..dp, NEW p \in 1..Len(Applied(d, c, k))
      PROVE  <<d, p>> \in T!Summed(k, c)
  <2>1. p \in DOMAIN Applied(d, c, k) /\ p \in 1..n
    BY <1>3
  <2>2. <<d, p>> \in {<<x, y>> : x \in 1..dp, y \in 1..n}
    BY <2>1
  <2>3. <<d, p>> \in UNION {{<<x, y>> : y \in DOMAIN Applied(x, c, k)} : x \in 1..dp}
    BY <2>1
  <2> QED BY <1>4, <2>2, <2>3
<1>7. ASSUME NEW e \in T!Summed(k, c) PROVE e \in Places(Entered(w, c, k), dp)
  <2>1. Entered(w, c, k)[e[1]] = Len(Applied(e[1], c, k))
    BY <1>1, <1>5 DEF Entered
  <2>2. e[2] \in Nat
    BY <1>3, <1>5
  <2> QED BY <1>5, <2>1, <2>2 DEF Places
<1>8. ASSUME NEW e \in Places(Entered(w, c, k), dp) PROVE e \in T!Summed(k, c)
  <2>1. e = <<e[1], e[2]>> /\ e[1] \in 1..dp /\ e[2] \in 1..Entered(w, c, k)[e[1]]
    BY DEF Places
  <2>2. Entered(w, c, k)[e[1]] = Len(Applied(e[1], c, k))
    BY <1>1, <2>1 DEF Entered
  <2> QED BY <1>6, <2>1, <2>2
<1>9. T!Summed(k, c) = Places(Entered(w, c, k), dp)
  BY <1>7, <1>8
<1> QED BY <1>1, <1>5, <1>6, <1>9 DEF T!Term, Applied

(* The terms of a row, over all optimizer steps.                           *)
Takings(c, x) ==
  {u \in T!StepsTaken \X ((1..T!Dp) \X (1..Len(batch))) :
     u[2] \in T!Summed(u[1], c) /\ T!Term(u[1], c, u[2]).row = x}

LEMMA OncePerRowIs ==
  T!OncePerRow <=> \A c \in 1..T!Cp, i \in DOMAIN batch : T!Cardinality(Takings(c, i)) = 1
BY DEF T!OncePerRow, Takings

LEMMA TrainsOnce ==
  ASSUME NEW w \in Windows, batch = w.batch, tcfg = w.trainer,
         ~TrainerRefuses(w), EndedAt(w)
  PROVE  T!OncePerRow
<1>1. PICK dp : dp = w.trainer.dp
  OBVIOUS
<1>2. PICK n \in Nat : n = Len(w.batch)
  BY LensAre
<1>3. PICK M \in Nat : M = TrainerMinis(w)
  BY TrainerPlanIs
<1>4. T!StepsTaken = 1..M /\ DOMAIN batch = 1..n /\ Len(batch) = n
  BY <1>2, <1>3, StepsTakenAre, LensAre
<1>5. Plannable(Lens(w), n, dp, w.trainer.plan)
  BY <1>1, <1>2, TrainerPlannable
<1>6. /\ \A d, e \in 1..dp, i, k \in 1..M, x \in 1..n :
           x \in TrainerShare(w, d, i) /\ x \in TrainerShare(w, e, k) => d = e /\ i = k
      /\ \A x \in 1..n : \E d \in 1..dp, i \in 1..M : x \in TrainerShare(w, d, i)
  BY <1>1, <1>2, <1>3, <1>5, SharesSpread DEF TrainerShare, TrainerMinis
<1>7. SUFFICES ASSUME NEW c \in 1..w.trainer.cp, NEW x \in 1..n
               PROVE  T!Cardinality(Takings(c, x)) = 1
  BY <1>4, OncePerRowIs DEF T!Cp
<1>8. PICK d \in 1..dp, k \in 1..M : x \in TrainerShare(w, d, k)
  BY <1>6
<1>9. PICK p \in 1..Len(Applied(d, c, k)) : Applied(d, c, k)[p].row = x
  BY <1>1, <1>3, <1>8, AppliedIs DEF AppliedAre
<1>10. p \in 1..n
  <2>1. Len(Applied(d, c, k)) \in 0..n
    BY <1>1, <1>2, <1>3, AppliedIs DEF AppliedAre
  <2> QED BY <2>1
<1> DEFINE U == Takings(c, x)
<1>11. PICK v : v = <<k, <<d, p>>>>
  OBVIOUS
<1>12. v \in U
  <2>1. v[1] = k /\ v[2] = <<d, p>> /\ v \in T!StepsTaken \X ((1..T!Dp) \X (1..Len(batch)))
    BY <1>1, <1>4, <1>10, <1>11 DEF T!Dp
  <2>2. <<d, p>> \in T!Summed(k, c)
    BY <1>1, <1>3, SummedIs
  <2>3. T!Term(k, c, <<d, p>>) = Applied(d, c, k)[p]
    BY <1>1 DEF T!Term, Applied
  <2> QED BY <2>1, <2>2, <2>3, <1>9 DEF Takings
<1>13. ASSUME NEW u \in U PROVE u = v
  <2>1. /\ u = <<u[1], u[2]>> /\ u[1] \in 1..M
        /\ u[2] \in T!Summed(u[1], c) /\ T!Term(u[1], c, u[2]).row = x
    BY <1>4 DEF Takings
  <2>2. PICK j \in 1..M : j = u[1]
    BY <2>1
  <2>3. PICK e : e = u[2]
    OBVIOUS
  <2>4. e \in T!Summed(j, c)
    BY <2>1, <2>2, <2>3
  <2>5. /\ e = <<e[1], e[2]>> /\ e[1] \in 1..dp /\ e[2] \in 1..Len(Applied(e[1], c, j))
        /\ T!Term(j, c, e) = Applied(e[1], c, j)[e[2]]
    BY <2>4, <1>1, <1>3, SummedIs
  <2>6. Applied(e[1], c, j)[e[2]].row = x
    BY <2>1, <2>2, <2>3, <2>5
  <2>7. x \in TrainerShare(w, e[1], j)
    <3>1. AppliedAre(w, Applied(e[1], c, j), e[1], j)
      BY <2>5, <1>1, <1>3, AppliedIs
    <3>2. PICK g : g = Applied(e[1], c, j)
      OBVIOUS
    <3>3. \A i \in 1..Len(g) : g[i].row \in TrainerShare(w, e[1], j)
      BY <3>1, <3>2 DEF AppliedAre
    <3> QED BY <2>5, <2>6, <3>2, <3>3
  <2>8. e[1] = d /\ j = k
    BY <2>5, <2>7, <1>6, <1>8
  <2>9. e[2] = p
    <3>1. e[2] \in 1..Len(Applied(d, c, k)) /\ Applied(d, c, k)[e[2]].row = x
      BY <2>5, <2>6, <2>8
    <3>2. AppliedAre(w, Applied(d, c, k), d, k)
      BY <1>1, <1>3, AppliedIs
    <3>3. PICK g : g = Applied(d, c, k)
      OBVIOUS
    <3>4. \A i, o \in 1..Len(g) : g[i].row = g[o].row => i = o
      BY <3>2, <3>3 DEF AppliedAre
    <3>5. e[2] \in 1..Len(g) /\ p \in 1..Len(g) /\ g[e[2]].row = g[p].row
      BY <3>1, <3>3, <1>9
    <3> QED BY <3>4, <3>5
  <2> QED BY <2>1, <2>2, <2>3, <2>5, <2>8, <2>9, <1>11
<1> HIDE DEF U
<1>14. U = {v}
  BY <1>12, <1>13
<1>15. Cardinality(U) = 1
  BY <1>14, FS_Singleton
<1> QED BY <1>15, SameCardinalityT DEF U

LEMMA StepsAreMeans ==
  ASSUME NEW w \in Windows, batch = w.batch, tcfg = w.trainer,
         ~TrainerRefuses(w), EndedAt(w)
  PROVE  T!TrueMean
<1>1. PICK dp \in Nat : dp = w.trainer.dp
  BY WindowAssumption
<1>2. PICK n \in Nat : n = Len(w.batch)
  BY LensAre
<1>3. PICK M \in Nat : M = TrainerMinis(w)
  BY TrainerPlanIs
<1>4. SUFFICES ASSUME NEW c \in 1..w.trainer.cp, NEW k \in 1..M, NEW e \in T!Summed(k, c)
               PROVE  T!Term(k, c, e).docs = T!Cardinality(T!Summed(k, c))
  BY <1>3, StepsTakenAre DEF T!TrueMean, T!Cp
<1>5. Plannable(Lens(w), n, dp, w.trainer.plan)
  BY <1>1, <1>2, TrainerPlannable
<1>6. PICK members : members = Members(Lens(w), dp, w.trainer.plan)
  OBVIOUS
<1>7. PICK f : f = Entered(w, c, k)
  OBVIOUS
<1>8. f \in [1..dp -> Nat] /\ \A d \in 1..dp : f[d] = Len(members[d][k])
  <2>1. ASSUME NEW d \in 1..dp
        PROVE  Len(Applied(d, c, k)) \in Nat /\ Len(Applied(d, c, k)) = Len(members[d][k])
    <3>1. Len(Applied(d, c, k)) \in 0..n /\ Len(Applied(d, c, k)) = Len(members[d][k])
      <4>1. AppliedAre(w, Applied(d, c, k), d, k)
        BY <1>1, <1>3, AppliedIs
      <4> QED BY <4>1, <1>1, <1>2, <1>6 DEF AppliedAre
    <3> QED BY <3>1
  <2> QED BY <2>1, <1>1, <1>7 DEF Entered
<1>9. T!Summed(k, c) = Places(f, dp)
  BY <1>1, <1>3, <1>7, SummedIs
<1>10. Cardinality(Places(f, dp)) = Total(f)
  BY <1>8, PlacesAre
<1>11. \A d \in 1..dp : TrainerPlan(w)[d].minis[k].docs = Total(f)
  <2>1. \A d \in 1..dp :
          TrainerPlan(w)[d].minis[k].docs = GlobalDocs(members, k, d)
    BY <1>1, <1>2, <1>3, <1>5, <1>6, BuildPlanIs DEF TrainerPlan, TrainerMinis
  <2>2. DOMAIN members = 1..dp
    BY <1>5, <1>6, MembersSpread
  <2>3. f = [q \in DOMAIN members |-> Len(members[q][k])]
    BY <2>2, <1>8
  <2> QED BY <2>1, <2>3 DEF GlobalDocs
<1>12. e[1] \in 1..dp /\ e[2] \in 1..Len(Applied(e[1], c, k))
       /\ T!Term(k, c, e) = Applied(e[1], c, k)[e[2]]
  BY <1>1, <1>3, SummedIs
<1>13. T!Term(k, c, e).docs = TrainerPlan(w)[e[1]].minis[k].docs
  <2>1. AppliedAre(w, Applied(e[1], c, k), e[1], k)
    BY <1>1, <1>3, <1>12, AppliedIs
  <2>2. PICK g : g = Applied(e[1], c, k)
    OBVIOUS
  <2>3. \A p \in 1..Len(g) : g[p].docs = TrainerPlan(w)[e[1]].minis[k].docs
    BY <2>1, <2>2 DEF AppliedAre
  <2> QED BY <2>2, <2>3, <1>12
<1> QED BY <1>9, <1>10, <1>11, <1>12, <1>13, SameCardinalityT

LEMMA OldIsOld ==
  ASSUME NEW w \in Windows, batch = w.batch, tcfg = w.trainer,
         ~TrainerRefuses(w), EndedAt(w)
  PROVE  T!OldPolicyIsOld
<1>1. SUFFICES ASSUME NEW c \in 1..w.trainer.cp, NEW k \in 1..TrainerMinis(w),
                      NEW e \in T!Summed(k, c)
               PROVE  T!Term(k, c, e).weights = k - 1 /\ T!Term(k, c, e).old \in {0, T!Rollout}
  BY StepsTakenAre DEF T!OldPolicyIsOld, T!Cp
<1>2. e[1] \in 1..w.trainer.dp /\ e[2] \in 1..Len(Applied(e[1], c, k))
      /\ T!Term(k, c, e) = Applied(e[1], c, k)[e[2]]
  BY SummedIs
<1>3. T!Term(k, c, e).weights = k - 1 /\ T!Term(k, c, e).old \in {0, -1}
  <2>1. AppliedAre(w, Applied(e[1], c, k), e[1], k)
    BY <1>2, AppliedIs
  <2>2. PICK g : g = Applied(e[1], c, k)
    OBVIOUS
  <2>3. \A p \in 1..Len(g) : g[p].weights = k - 1 /\ g[p].old \in {0, -1}
    BY <2>1, <2>2 DEF AppliedAre
  <2> QED BY <2>2, <2>3, <1>2
<1> QED BY <1>3 DEF T!Rollout

LEMMA CreditIsPerTurn ==
  ASSUME NEW w \in Windows, batch = w.batch, tcfg = w.trainer,
         ~TrainerRefuses(w), tplan = TrainerPlan(w)
  PROVE  T!CreditStaysInTurn
<1>1. PICK n \in Nat : n = Len(w.batch)
  BY LensAre
<1>2. PICK L \in Nat : L = LocalSize(n, w.trainer.dp)
  <2>1. Plannable(Lens(w), n, w.trainer.dp, w.trainer.plan)
    BY <1>1, TrainerPlannable
  <2>2. LocalSize(n, w.trainer.dp) \in Nat \ {0}
    BY <2>1, PlanSizes DEF Plannable
  <2> QED BY <2>2
<1>3. SUFFICES ASSUME NEW r \in TrainerRanks(w), NEW p \in DOMAIN T!Rows(r),
                      NEW i, i = T!Rows(r)[p]
               PROVE  T!AdvantageOf(r, i) =
                        T!ByTurn(T!Residual(i, batch[i], T!Truncated(i), T!Block(r)), tcfg.den,
                                 T!Mask(batch[i], T!Truncated(i)), T!Block(r))
  BY TrainerOf DEF T!CreditStaysInTurn
<1>4. T!Rows(r) \in [1..L -> 1..n]
  <2>1. Plannable(Lens(w), n, w.trainer.dp, w.trainer.plan)
    BY <1>1, TrainerPlannable
  <2>2. Plans(TrainerPlan(w), Lens(w), n, w.trainer.dp, w.trainer.plan)
    BY <2>1, BuildPlanIs DEF TrainerPlan
  <2>3. r[1] \in 1..w.trainer.dp
    BY DEF TrainerRanks
  <2>4. TrainerPlan(w)[r[1]].rows \in [1..LocalSize(n, w.trainer.dp) -> 1..n]
    BY <2>2, <2>3 DEF Plans
  <2> QED BY <2>4, <1>2 DEF T!Rows
<1>5. \A q \in 1..n : T!Truncated(q) \in Nat /\ batch[q].reward \in Int
  <2>1. ASSUME NEW q \in 1..n PROVE T!Truncated(q) \in Nat
    <3>1. batch[q].len \in Nat /\ tcfg.plan.seqLen \in Nat
      BY <1>1, LensAre, WindowAssumption
    <3> QED BY <3>1 DEF T!Truncated, T!Smaller
  <2> QED BY <2>1, <1>1, LensAre
<1>6. i \in 1..n /\ p \in 1..L
  BY <1>3, <1>4
<1>7. PICK B : B = T!Block(r)
  OBVIOUS
<1>8. B \in Nat /\ T!Truncated(i) <= B
  <2> DEFINE f == [q \in 1..L |-> T!Truncated(T!Rows(r)[q])]
             S == {f[q] : q \in 1..L}
  <2>1. T!Block(r) = Max(S)
    BY <1>4 DEF T!Block, T!Max, Max
  <2>2. \A q \in 1..L : f[q] \in Nat
    BY <1>4, <1>5
  <2>3. T!Truncated(i) \in S
    BY <1>3, <1>6
  <2>4. IsFiniteSet(1..L) /\ 1..L \subseteq DOMAIN f
    BY <1>2, CountTo
  <2> HIDE DEF f
  <2>5. IsFiniteSet(S)
    BY <2>4, ImageFinite
  <2>6. S \subseteq Nat /\ S \subseteq Int /\ S # {}
    BY <2>2, <2>3
  <2> HIDE DEF S
  <2>7. Max(S) \in S /\ \A y \in S : Max(S) >= y
    BY <2>5, <2>6, MaxMin
  <2> QED BY <2>1, <2>3, <2>6, <2>7, <1>5, <1>6, <1>7
<1>9. PICK l \in Nat : l = T!Truncated(i)
  BY <1>5, <1>6
<1>10. PICK row : row = batch[i] /\ row.reward \in Int
  BY <1>5, <1>6
<1>11. PICK Den \in Int : Den = tcfg.den
  BY WindowAssumption
<1>12. Advantage(i, row, l, B, Den) = ByTurn(Residual(i, row, l, B), Den, Mask(row, l), B)
  <2>1. i \in Int /\ l <= B /\ B \in Nat
    BY <1>6, <1>8, <1>9
  <2> QED BY <2>1, <1>10, AdvantageByTurn
<1>13. T!AdvantageOf(r, i) = Advantage(i, row, l, B, Den)
  BY <1>7, <1>9, <1>10, <1>11, SameAdvantageT DEF T!AdvantageOf
<1>14. T!ByTurn(T!Residual(i, row, l, B), Den, T!Mask(row, l), B) =
         ByTurn(Residual(i, row, l, B), Den, Mask(row, l), B)
  BY SameByTurnT, SameResidualT, SameMaskT
<1> QED BY <1>7, <1>9, <1>10, <1>11, <1>12, <1>13, <1>14

(* EveryRowTrainedOnce: whatever the batch, the planner's settings and the *)
(* number of ranks, a step that is through has taken every row into one    *)
(* optimizer step, once on each context-parallel rank; a step is the mean  *)
(* over the rows it sums; the old policy is the one before the first step; *)
(* and the two-sum form of the advantages credits a position for the rest  *)
(* of its own turn.                                                        *)
THEOREM TrainedOnce == FairSpec => []EveryRowTrainedOnce
<1>1. TrainerInv => EveryRowTrainedOnce
  <2> SUFFICES ASSUME TrainerInv, T!Done
               PROVE  T!OncePerRow /\ T!TrueMean /\ T!OldPolicyIsOld /\ T!CreditStaysInTurn
    BY DEF EveryRowTrainedOnce, T!EveryRowTrainedOnce
  <2> QED BY TrainerDone, TrainsOnce, StepsAreMeans, OldIsOld, CreditIsPerTurn
<1> QED BY <1>1, TrainerStarts, TrainerKept, PTL DEF FairSpec

-----------------------------------------------------------------------------
(* The critic.  Context parallelism rearranges a row and puts it back: the *)
(* joined shards have every position of a row that divides.                *)

(* The h positions of block b, and what rank c of cp has of a row.         *)
Block(b, h) == [j \in 1..h |-> (b - 1) * h + j]
CutOf(c, cp, h) == Block(c, h) \o Block(2 * cp + 1 - c, h)
Onto(x, c, cp, h) == x \o CutOf(c, cp, h)
Joined(cp, h) ==
  CHOOSE joined : joined = [c \in 0..cp |-> IF c = 0 THEN << >>
                                            ELSE Onto(joined[c - 1], c, cp, h)]
JoinedBy(f, cp, h) ==
  f = [c \in 0..cp |-> IF c = 0 THEN << >> ELSE Onto(f[c - 1], c, cp, h)]

LEMMA RearrangedIsJoined ==
  ASSUME NEW cp, cp = ccfg.cp, NEW width
  PROVE  C!Rearranged(width) = Joined(cp, width \div (2 * cp))[cp]
BY DEF C!Rearranged, C!Shard, C!Cp, Joined, Onto, CutOf, Block

Follows(z, m, n, t) == \A k \in 1..n : z[m + k] = t[k]

LEMMA ConcatFollows ==
  ASSUME NEW m \in Nat, NEW n \in Nat, NEW S, NEW s \in [1..m -> S], NEW t \in [1..n -> S]
  PROVE  Follows(s \o t, m, n, t)
<1>1. \A k \in 1..n : (s \o t)[m + k] = t[k]
  BY ConcatIs
<1> QED BY <1>1 DEF Follows

LEMMA CutIs ==
  ASSUME NEW cp \in Nat, NEW h \in Nat, NEW c \in 1..cp
  PROVE  /\ CutOf(c, cp, h) \in [1..(h + h) -> Int]
         /\ \A j \in 1..h : CutOf(c, cp, h)[j] = (c - 1) * h + j
         /\ \A j \in 1..h : CutOf(c, cp, h)[h + j] = (2 * cp + 1 - c - 1) * h + j
<1>1. \A b \in Int, x \in Int : (b - 1) * h + x \in Int
  OBVIOUS
<1>2. Block(c, h) \in [1..h -> Int] /\ Block(2 * cp + 1 - c, h) \in [1..h -> Int]
  BY <1>1 DEF Block
<1>3. CutOf(c, cp, h) \in [1..(h + h) -> Int]
  BY <1>2, ConcatIs DEF CutOf
<1>4. \A j \in 1..h : CutOf(c, cp, h)[j] = Block(c, h)[j]
  BY <1>2, ConcatIs DEF CutOf
<1>5. \A j \in 1..h : CutOf(c, cp, h)[h + j] = Block(2 * cp + 1 - c, h)[j]
  BY <1>2, ConcatIs DEF CutOf
<1> QED BY <1>3, <1>4, <1>5 DEF Block

LEMMA JoinedSolves ==
  ASSUME NEW cp \in Nat, NEW h \in Nat
  PROVE  JoinedBy(Joined(cp, h), cp, h)
<1>0. PICK G : G = [c \in 1..cp |-> CutOf(c, cp, h)]
  OBVIOUS
<1> DEFINE F == [e \in Seq(Int) \X (1..cp) |-> e[1] \o G[e[2]]]
<1>1. \A c \in 1..cp : G[c] \in Seq(Int)
  <2>1. ASSUME NEW c \in 1..cp PROVE CutOf(c, cp, h) \in Seq(Int)
    <3>1. CutOf(c, cp, h) \in [1..(h + h) -> Int] /\ h + h \in Nat
      BY CutIs
    <3> QED BY <3>1, ListIs
  <2> QED BY <2>1, <1>0
<1>2. ASSUME NEW x \in Seq(Int), NEW c \in 1..cp
      PROVE  F[<<x, c>>] = Onto(x, c, cp, h) /\ F[<<x, c>>] \in Seq(Int)
  <2>1. PICK e : e = <<x, c>>
    OBVIOUS
  <2>2. e \in Seq(Int) \X (1..cp) /\ e[1] = x /\ e[2] = c
    BY <2>1
  <2>3. F[e] = x \o G[c]
    BY <2>2
  <2>4. x \o G[c] \in Seq(Int)
    BY <1>1
  <2> QED BY <2>1, <2>3, <2>4, <1>0 DEF Onto
<1>3. PICK f \in [0..cp -> Seq(Int)] : Recursion(f, << >>, F, cp)
  <2>1. << >> \in Seq(Int)
    OBVIOUS
  <2> HIDE DEF F
  <2>2. StepsIn(F, Seq(Int), cp)
    BY <1>2 DEF StepsIn
  <2> QED BY <2>1, <2>2, RecursionExists
<1>4. JoinedBy(f, cp, h)
  <2> HIDE DEF F
  <2>1. ASSUME NEW c \in 1..cp PROVE f[c] = Onto(f[c - 1], c, cp, h)
    <3>1. f[c - 1] \in Seq(Int)
      OBVIOUS
    <3> QED BY <3>1, <1>2, <1>3 DEF Recursion
  <2>2. f[0] = << >>
    BY <1>3 DEF Recursion
  <2>3. f = [c \in 0..cp |-> f[c]]
    OBVIOUS
  <2>4. ASSUME NEW c \in 0..cp
        PROVE  f[c] = IF c = 0 THEN << >> ELSE Onto(f[c - 1], c, cp, h)
    BY <2>1, <2>2
  <2> QED BY <2>3, <2>4 DEF JoinedBy
<1> QED BY <1>4 DEF Joined, JoinedBy

(* s has the positions of the first c blocks and of the last c.            *)
Reaches(s, cp, h, c) ==
  \A b \in 1..(2 * cp), j \in 1..h :
    b <= c \/ b > 2 * cp - c => \E p \in DOMAIN s : s[p] = (b - 1) * h + j

LEMMA ReachesMore ==
  ASSUME NEW cp \in Nat, NEW h \in Nat, NEW c \in 1..cp,
         NEW m \in Nat, NEW s \in [1..m -> Int], Reaches(s, cp, h, c - 1)
  PROVE  /\ s \o CutOf(c, cp, h) \in [1..(m + (h + h)) -> Int]
         /\ Reaches(s \o CutOf(c, cp, h), cp, h, c)
<1>1. PICK k \in Nat : k = h + h
  OBVIOUS
<1>2. PICK t : t = CutOf(c, cp, h)
  OBVIOUS
<1>3. t \in [1..k -> Int]
  BY <1>1, <1>2, CutIs
<1>4. s \o t \in [1..(m + k) -> Int]
  BY <1>3, ConcatIs
<1>5. \A p \in 1..m : (s \o t)[p] = s[p]
  BY <1>3, ConcatIs
<1>6. \A p \in 1..k : (s \o t)[m + p] = t[p]
  <2>1. Follows(s \o t, m, k, t)
    BY <1>3, ConcatFollows
  <2> QED BY <2>1 DEF Follows
<1>7. PICK z : z = s \o t
  OBVIOUS
<1>8. ASSUME NEW b \in 1..(2 * cp), NEW j \in 1..h, b <= c \/ b > 2 * cp - c
      PROVE  \E p \in DOMAIN z : z[p] = (b - 1) * h + j
  <2>1. PICK x : x = (b - 1) * h + j
    OBVIOUS
  <2>2. CASE b <= c - 1 \/ b > 2 * cp - (c - 1)
    <3>1. PICK p \in DOMAIN s : s[p] = x
      BY <2>1, <2>2 DEF Reaches
    <3>2. p \in 1..m /\ p \in 1..(m + k)
      OBVIOUS
    <3> QED BY <2>1, <3>1, <3>2, <1>4, <1>5, <1>7
  <2>3. CASE b = c
    <3>1. t[j] = x /\ j \in 1..k
      <4>1. t[j] = (c - 1) * h + j
        BY <1>2, CutIs
      <4> QED BY <4>1, <2>1, <2>3, <1>1
    <3>2. m + j \in 1..(m + k)
      BY <3>1
    <3> QED BY <2>1, <3>1, <3>2, <1>4, <1>6, <1>7
  <2>4. CASE b = 2 * cp + 1 - c
    <3>1. t[h + j] = x /\ h + j \in 1..k
      <4>1. t[h + j] = (2 * cp + 1 - c - 1) * h + j
        BY <1>2, CutIs
      <4> QED BY <4>1, <2>1, <2>4, <1>1
    <3>2. m + (h + j) \in 1..(m + k)
      BY <3>1
    <3> QED BY <2>1, <3>1, <3>2, <1>4, <1>6, <1>7
  <2>5. b <= c - 1 \/ b > 2 * cp - (c - 1) \/ b = c \/ b = 2 * cp + 1 - c
    BY <1>8
  <2> QED BY <2>2, <2>3, <2>4, <2>5
<1>9. Reaches(z, cp, h, c)
  BY <1>8 DEF Reaches
<1> QED BY <1>1, <1>2, <1>4, <1>7, <1>9

LEMMA JoinedReaches ==
  ASSUME NEW cp \in Nat, NEW h \in Nat, NEW s, s = Joined(cp, h)[cp]
  PROVE  s \in [1..(cp * (h + h)) -> Int] /\ Reaches(s, cp, h, cp)
<1>1. PICK J : J = Joined(cp, h)
  OBVIOUS
<1>2. DOMAIN J = 0..cp /\ J[0] = << >> /\ \A c \in 1..cp : J[c] = Onto(J[c - 1], c, cp, h)
  <2>1. JoinedBy(J, cp, h)
    BY <1>1, JoinedSolves
  <2> QED BY <2>1 DEF JoinedBy
<1>3. PICK k \in Nat : k = h + h
  OBVIOUS
<1> DEFINE S == {c \in 0..cp : J[c] \in [1..(c * k) -> Int] /\ Reaches(J[c], cp, h, c)}
<1>4. 0 \in S
  <2>1. 0 * k = 0
    OBVIOUS
  <2>2. << >> \in [1..0 -> Int]
    OBVIOUS
  <2>3. Reaches(<< >>, cp, h, 0)
    BY DEF Reaches
  <2>4. J[0] \in [1..(0 * k) -> Int] /\ Reaches(J[0], cp, h, 0) /\ 0 \in 0..cp
    BY <2>1, <2>2, <2>3, <1>2
  <2> QED BY <2>4
<1>5. ASSUME NEW c \in 1..cp, c - 1 \in S PROVE c \in S
  <2>1. PICK m \in Nat : m = (c - 1) * k
    <3>1. c - 1 \in Nat
      OBVIOUS
    <3> QED BY <3>1, Times
  <2>2. J[c - 1] \in [1..m -> Int] /\ Reaches(J[c - 1], cp, h, c - 1)
    BY <1>5, <2>1
  <2>3. J[c - 1] \o CutOf(c, cp, h) \in [1..(m + (h + h)) -> Int]
    BY <2>2, ReachesMore
  <2>4. Reaches(J[c - 1] \o CutOf(c, cp, h), cp, h, c)
    BY <2>2, ReachesMore
  <2>5. m + (h + h) = c * k
    BY <2>1, <1>3
  <2>6. J[c] = J[c - 1] \o CutOf(c, cp, h) /\ c \in 0..cp
    BY <1>2 DEF Onto
  <2>7. J[c] \in [1..(c * k) -> Int]
    BY <2>3, <2>5, <2>6
  <2>8. Reaches(J[c], cp, h, c)
    BY <2>4, <2>6
  <2> QED BY <2>6, <2>7, <2>8
<1> HIDE DEF S
<1>6. cp \in S
  <2>1. cp \in 0..cp
    OBVIOUS
  <2> QED BY <2>1, <1>4, <1>5, Upwards
<1> QED BY <1>1, <1>3, <1>6 DEF S

(* Every position of a width that divides is of a block.                   *)
LEMMA InBlock ==
  ASSUME NEW m \in Nat, NEW h \in Nat, NEW t \in 1..(m * h)
  PROVE  \E b \in 1..m, j \in 1..h : t = (b - 1) * h + j
<1>1. \A u \in Nat, v \in Nat : v > 0 =>
        u \div v \in Nat /\ u % v \in 0..(v - 1) /\ u = (u \div v) * v + (u % v)
  OBVIOUS
<1>2. h > 0
  <2>1. h = 0 => m * h = 0
    OBVIOUS
  <2> QED BY <2>1
<1>3. t \in Nat /\ t >= 1 /\ t - 1 \in Nat /\ t <= m * h
  <2>1. m * h \in Nat
    BY Times
  <2> QED BY <2>1
<1>4. PICK q \in Nat : q = (t - 1) \div h
  BY <1>1, <1>2, <1>3
<1>5. PICK r \in 0..(h - 1) : r = (t - 1) % h
  BY <1>1, <1>2, <1>3
<1>6. t - 1 = q * h + r
  BY <1>1, <1>2, <1>3, <1>4, <1>5
<1>7. q < m
  <2>1. CASE m <= q
    <3>1. m * h \in Nat /\ q * h \in Nat /\ m * h <= q * h
      BY <2>1, Times
    <3> QED BY <3>1, <1>3, <1>5, <1>6
  <2>2. CASE ~(m <= q)
    BY <2>2
  <2> QED BY <2>1, <2>2
<1>8. PICK b \in 1..m : b = q + 1
  BY <1>7
<1>9. PICK j \in 1..h : j = r + 1
  <2>1. r + 1 \in 1..h
    OBVIOUS
  <2> QED BY <2>1
<1>10. (b - 1) * h + j = q * h + r + 1
  <2>1. b - 1 = q
    BY <1>8
  <2> DEFINE x == q * h
  <2>2. x \in Nat
    BY Times
  <2> HIDE DEF x
  <2> QED BY <2>1, <2>2, <1>9 DEF x
<1>11. PICK x \in Nat : x = q * h
  BY Times
<1>12. t = (b - 1) * h + j
  <2>1. t - 1 = x + r /\ (b - 1) * h + j = x + r + 1
    BY <1>6, <1>10, <1>11
  <2> QED BY <2>1, <1>3, <1>11
<1> QED BY <1>12

(* The joined shards of a row, and the way back.                           *)
LEMMA RearrangedIs ==
  ASSUME NEW cp \in Nat \ {0}, cp = ccfg.cp,
         NEW width \in Nat, width % (2 * cp) = 0
  PROVE  /\ C!Rearranged(width) \in [1..width -> Int]
         /\ \A t \in 1..width : \E p \in 1..width : C!Rearranged(width)[p] = t
<1>1. \A u \in Nat, v \in Nat : v > 0 =>
        u \div v \in Nat /\ u % v \in 0..(v - 1) /\ u = (u \div v) * v + (u % v)
  OBVIOUS
<1>2. PICK m \in Nat : m = 2 * cp
  OBVIOUS
<1>3. m > 0
  BY <1>2
<1>4. PICK h \in Nat : h = width \div m
  BY <1>1, <1>3
<1>5. width = h * m
  <2>1. width = h * m + 0
    <3>1. width % m = 0
      BY <1>2
    <3>2. width = (width \div m) * m + (width % m)
      BY <1>1, <1>3
    <3> QED BY <3>1, <3>2, <1>4
  <2>2. h * m \in Nat
    BY Times
  <2> QED BY <2>1, <2>2
<1>6. width = m * h /\ width = cp * (h + h)
  BY <1>2, <1>5
<1>7. PICK s : s = C!Rearranged(width)
  OBVIOUS
<1>8. s = Joined(cp, h)[cp]
  BY <1>2, <1>4, <1>7, RearrangedIsJoined
<1>9. s \in [1..(cp * (h + h)) -> Int] /\ Reaches(s, cp, h, cp)
  <2>1. cp \in Nat
    OBVIOUS
  <2> QED BY <2>1, <1>8, JoinedReaches
<1>10. s \in [1..width -> Int]
  BY <1>6, <1>9
<1>11. ASSUME NEW t \in 1..width PROVE \E p \in 1..width : s[p] = t
  <2>1. PICK b \in 1..m, j \in 1..h : t = (b - 1) * h + j
    <3>1. t \in 1..(m * h)
      BY <1>6
    <3> QED BY <3>1, InBlock
  <2>2. b <= cp \/ b > 2 * cp - cp
    OBVIOUS
  <2>3. \E p \in DOMAIN s : s[p] = (b - 1) * h + j
    BY <2>2, <1>2, <1>9 DEF Reaches
  <2> QED BY <2>1, <2>3, <1>10
<1> QED BY <1>7, <1>10, <1>11

LEMMA RestoredIs ==
  ASSUME NEW cp \in Nat \ {0}, cp = ccfg.cp,
         NEW width \in Nat, width % (2 * cp) = 0,
         NEW order, order = C!Rearranged(width)
  PROVE  [t \in DOMAIN order |-> order[C!Restore(order, t)]] = [t \in 1..width |-> t]
<1>1. order \in [1..width -> Int] /\ \A t \in 1..width : \E p \in 1..width : order[p] = t
  BY RearrangedIs
<1>2. DOMAIN order = 1..width
  BY <1>1
<1>3. ASSUME NEW t \in 1..width PROVE order[C!Restore(order, t)] = t
  <2>1. \E p \in DOMAIN order : order[p] = t
    BY <1>1, <1>2
  <2> QED BY <2>1 DEF C!Restore
<1> QED BY <1>2, <1>3

-----------------------------------------------------------------------------
(* What the critic's ranks do.                                             *)

CriticRefuses(w) == w.batch = << >> \/ Len(w.batch) % w.critic.dp # 0
CriticRanks(w) == (1..w.critic.dp) \X (1..w.critic.cp)
CriticConfig(w) ==
  [layout |-> "padded", mini |-> Max({1, Len(w.batch) \div w.critic.dp}),
   seqLen |-> w.critic.seqLen, align |-> w.critic.align, budget |-> w.critic.budget,
   rows |-> IF w.critic.budget = 0 THEN w.critic.rows ELSE 0]
CriticPlan(w) == BuildPlan(Lens(w), w.critic.dp, CriticConfig(w))
CriticShare(w, d) == ShareRows(Lens(w), w.critic.dp, CriticConfig(w), d, 1)
CriticMicros(w) == Len(Micro(CriticPlan(w), 1, 1))
CriticLists(w, d) == RowLists(CriticPlan(w), d, 1)
CriticMicro(w, d, k) == Micro(CriticPlan(w), d, 1)[k]

(* A shard is one mini-batch.                                              *)
LEMMA CriticPlannable ==
  ASSUME NEW w \in Windows, w.critic # NoCritic, ~CriticRefuses(w)
  PROVE  /\ Plannable(Lens(w), Len(w.batch), w.critic.dp, CriticConfig(w))
         /\ MiniCount(Len(w.batch), w.critic.dp, CriticConfig(w)) = 1
<1>1. Len(w.batch) # 0
  <2>1. w.batch \in Seq([len : Nat, response : SUBSET Nat, reward : Int])
    BY WindowAssumption
  <2> QED BY <2>1 DEF CriticRefuses
<1>2. PICK n \in Nat \ {0} : n = Len(w.batch)
  BY <1>1, LensAre
<1>3. PICK dp \in Nat \ {0} : dp = w.critic.dp
  BY WindowAssumption
<1>4. n % dp = 0
  BY <1>2, <1>3 DEF CriticRefuses
<1>5. PICK L : L = LocalSize(n, dp)
  OBVIOUS
<1>6. L \in Nat \ {0}
  <2>1. PICK cfg : cfg = [mini |-> 1]
    OBVIOUS
  <2>2. cfg.mini \in Nat \ {0}
    BY <2>1
  <2> QED BY <2>2, <1>4, <1>5, PlanSizes
<1>7. PICK cfg : cfg = CriticConfig(w)
  OBVIOUS
<1>8. cfg.mini = L
  <2>1. PICK S : S = {1, L}
    OBVIOUS
  <2>2. cfg.mini = Max(S)
    BY <1>2, <1>3, <1>5, <1>7, <2>1 DEF CriticConfig, LocalSize
  <2>3. S \subseteq Int /\ S # {} /\ IsFiniteSet(S)
    <3>1. IsFiniteSet({1}) /\ IsFiniteSet({1} \cup {L})
      BY FS_EmptySet, FS_AddElement, FS_Singleton
    <3>2. S = {1} \cup {L}
      BY <2>1
    <3> QED BY <3>1, <3>2, <2>1, <1>6
  <2>4. Max(S) \in S /\ \A y \in S : Max(S) >= y
    BY <2>3, MaxMin
  <2> QED BY <2>1, <2>2, <2>4, <1>6
<1>9. cfg.align \in Nat \ {0} /\ cfg.seqLen \in Nat
  BY <1>7, WindowAssumption DEF CriticConfig
<1>10. Plannable(Lens(w), n, dp, cfg)
  <2>1. Lens(w) \in [1..n -> Nat]
    BY <1>2, LensAre
  <2> QED BY <2>1, <1>4, <1>6, <1>8, <1>9 DEF Plannable
<1>11. MiniCount(n, dp, cfg) = 1
  <2>1. PICK q : q = MiniCount(n, dp, cfg)
    OBVIOUS
  <2>2. q \in Nat \ {0}
    BY <2>1, <1>4, <1>6, <1>8, PlanSizes
  <2>3. q = (L + L - 1) \div L
    BY <2>1, <1>5, <1>8 DEF MiniCount
  <2>4. \A u \in Nat, v \in Nat : v > 0 =>
          u \div v \in Nat /\ u % v \in 0..(v - 1) /\ u = (u \div v) * v + (u % v)
    OBVIOUS
  <2>5. PICK u \in Nat : u = L + L - 1
    BY <1>6
  <2>6. u % L \in 0..(L - 1) /\ u = q * L + (u % L)
    BY <2>3, <2>4, <2>5, <1>6
  <2>7. CASE 2 <= q
    <3>1. 2 * L <= q * L /\ q * L \in Nat
      BY <2>2, <2>7, <1>6, Times
    <3> QED BY <3>1, <2>5, <2>6, <1>6
  <2>8. CASE ~(2 <= q)
    BY <2>1, <2>2, <2>8
  <2> QED BY <2>7, <2>8
<1> QED BY <1>2, <1>3, <1>7, <1>10, <1>11

CriticMicroIs(w, d, k) ==
  /\ CriticLists(w, d)[k] = RowList(CriticPlan(w), d, 1, k)
  /\ Len(CriticLists(w, d)[k]) = Len(CriticMicro(w, d, k).rows)
  /\ DOMAIN CriticMicro(w, d, k).rows = 1..Len(CriticMicro(w, d, k).rows)
  /\ CriticMicro(w, d, k).width \in Nat
  /\ CriticMicro(w, d, k).width % w.critic.align = 0
  /\ \A q \in 1..Len(CriticLists(w, d)[k]) :
       /\ CriticLists(w, d)[k][q] \in CriticShare(w, d)
       /\ Smaller(Lens(w)[CriticLists(w, d)[k][q]], w.critic.seqLen)
            <= CriticMicro(w, d, k).width
CriticShard(w, d) ==
  /\ Len(Micro(CriticPlan(w), d, 1)) = CriticMicros(w)
  /\ Spreads(CriticLists(w, d), CriticMicros(w), CriticShare(w, d))
  /\ CriticShare(w, d) \subseteq 1..Len(w.batch)
  /\ \A k \in 1..CriticMicros(w) : CriticMicroIs(w, d, k)

LEMMA CriticPlanIs ==
  ASSUME NEW w \in Windows, w.critic # NoCritic, ~CriticRefuses(w)
  PROVE  /\ CriticMicros(w) \in Nat \ {0}
         /\ \A d \in 1..w.critic.dp : CriticShard(w, d)
<1>1. PICK n : n = Len(w.batch)
  OBVIOUS
<1>2. PICK dp : dp = w.critic.dp
  OBVIOUS
<1>3. PICK cfg : cfg = CriticConfig(w)
  OBVIOUS
<1>4. PICK lengths : lengths = Lens(w)
  OBVIOUS
<1>5. PICK P : P = BuildPlan(lengths, dp, cfg)
  OBVIOUS
<1>6. Plannable(lengths, n, dp, cfg) /\ MiniCount(n, dp, cfg) = 1
  BY <1>1, <1>2, <1>3, <1>4, CriticPlannable
<1>7. P = CriticPlan(w)
  BY <1>2, <1>3, <1>4, <1>5 DEF CriticPlan
<1>8. PICK K \in Nat \ {0} : \A e \in 1..dp : MicroLists(P, lengths, dp, cfg, e, 1, K)
  <2>1. 1 \in 1..MiniCount(n, dp, cfg)
    BY <1>6
  <2> QED BY <2>1, <1>5, <1>6, MicroListsAre
<1>9. K = CriticMicros(w)
  <2>1. 1 \in 1..dp
    BY <1>6 DEF Plannable
  <2>2. MicroLists(P, lengths, dp, cfg, 1, 1, K)
    BY <2>1, <1>8
  <2> QED BY <2>2, <1>7 DEF MicroLists, CriticMicros
<1>10. ASSUME NEW d \in 1..dp PROVE CriticShard(w, d)
  <2>1. MicroLists(P, lengths, dp, cfg, d, 1, K)
    BY <1>8
  <2>2. Len(Micro(CriticPlan(w), d, 1)) = CriticMicros(w)
    BY <2>1, <1>7, <1>9 DEF MicroLists
  <2>3. Spreads(CriticLists(w, d), K, CriticShare(w, d))
    BY <2>1, <1>2, <1>3, <1>4, <1>7 DEF MicroLists, CriticLists, CriticShare
  <2>4. CriticShare(w, d) \subseteq 1..n
    <3>1. 1 \in 1..MiniCount(n, dp, cfg)
      BY <1>6
    <3> QED BY <3>1, <1>2, <1>3, <1>4, <1>6, SharesSpread DEF CriticShare
  <2>5. ASSUME NEW k \in 1..K PROVE CriticMicroIs(w, d, k)
    <3>1. CriticLists(w, d)[k] = RowList(P, d, 1, k)
      BY <2>1, <1>7 DEF CriticLists, RowLists, MicroLists
    <3>2. Len(RowList(P, d, 1, k)) = Len(Micro(P, d, 1)[k].rows)
      BY <2>1 DEF MicroLists
    <3>3. Micro(P, d, 1)[k] \in MicroRecords
      BY <2>1 DEF MicroLists
    <3>4. DOMAIN Micro(P, d, 1)[k].rows = 1..Len(Micro(P, d, 1)[k].rows)
          /\ Micro(P, d, 1)[k].width \in Nat
      <4>1. Micro(P, d, 1)[k].rows \in Seq(Int)
        BY <3>3 DEF MicroRecords
      <4>2. Micro(P, d, 1)[k].width \in Nat
        BY <3>3 DEF MicroRecords
      <4> QED BY <4>1, <4>2
    <3>5. cfg.layout = "padded" /\ cfg.align = w.critic.align /\ cfg.seqLen = w.critic.seqLen
      BY <1>3 DEF CriticConfig
    <3>6. Micro(P, d, 1)[k].width % w.critic.align = 0
      BY <2>1, <3>5 DEF MicroLists
    <3>7. \A q \in 1..Len(RowList(P, d, 1, k)) :
            Smaller(lengths[RowList(P, d, 1, k)[q]], w.critic.seqLen) <= Micro(P, d, 1)[k].width
      BY <2>1, <3>5 DEF MicroLists, RowsFit
    <3>8. \A q \in 1..Len(CriticLists(w, d)[k]) : CriticLists(w, d)[k][q] \in CriticShare(w, d)
      BY <2>3 DEF Spreads, Lists
    <3> QED BY <3>1, <3>2, <3>4, <3>6, <3>7, <3>8, <1>4, <1>7 DEF CriticMicroIs, CriticMicro
  <2> QED BY <2>2, <2>3, <2>4, <2>5, <1>1, <1>9 DEF CriticShard
<1> QED BY <1>2, <1>8, <1>9, <1>10

LEMMA Divides ==
  ASSUME NEW width \in Nat, NEW align \in Nat \ {0}, NEW m \in Nat \ {0},
         width % align = 0, align % m = 0
  PROVE  width % m = 0
<1>1. \A u \in Nat, v \in Nat : v > 0 =>
        u \div v \in Nat /\ u % v \in 0..(v - 1) /\ u = (u \div v) * v + (u % v)
  OBVIOUS
<1>2. \A u \in Nat, v \in Nat : v > 0 => (u * v) % v = 0
  OBVIOUS
<1>3. PICK a \in Nat : a = width \div align
  BY <1>1
<1>4. PICK b \in Nat : b = align \div m
  BY <1>1
<1>5. PICK x \in Nat : x = a * align
  BY Times
<1>6. PICK y \in Nat : y = b * m
  BY Times
<1>7. width = x
  <2>1. width = (width \div align) * align + (width % align)
    BY <1>1
  <2> QED BY <2>1, <1>3, <1>5
<1>8. align = y
  <2>1. align = (align \div m) * m + (align % m)
    BY <1>1
  <2> QED BY <2>1, <1>4, <1>6
<1>9. PICK c \in Nat : c = a * b
  BY Times
<1>10. x = c * m
  BY <1>5, <1>6, <1>8, <1>9
<1> QED BY <1>2, <1>7, <1>9, <1>10

(* What a rank keeps of a micro-batch: every position, in the order of     *)
(* time, by the weights from before the window.                            *)
Kept(w, d, k) ==
  [order |-> [t \in 1..CriticMicro(w, d, k).width |-> t], weights |-> 0]
Keeps(w, d, taken, k) ==
  IsList(taken, k) /\ \A j \in 1..k : taken[j] = Kept(w, d, j)

LEMMA KeepOn ==
  ASSUME NEW w, NEW d, NEW taken, NEW k \in Nat, Keeps(w, d, taken, k),
         NEW e, e = Kept(w, d, k + 1)
  PROVE  Keeps(w, d, Append(taken, e), k + 1)
<1>1. PICK z : z = Append(taken, e)
  OBVIOUS
<1>2. IsList(z, k + 1) /\ (\A j \in 1..k : z[j] = taken[j]) /\ z[k + 1] = e
  <2>1. IsList(taken, k)
    BY DEF Keeps
  <2> QED BY <1>1, <2>1, AppendList
<1>3. \A j \in 1..(k + 1) : z[j] = Kept(w, d, j)
  <2>1. 1..(k + 1) = 1..k \cup {k + 1}
    OBVIOUS
  <2> QED BY <2>1, <1>2 DEF Keeps
<1> QED BY <1>1, <1>2, <1>3 DEF Keeps

LEMMA KeepsNone ==
  ASSUME NEW w, NEW d
  PROVE  Keeps(w, d, << >>, 0)
BY DEF Keeps, IsList

(* What has entered the optimizer steps of the epochs, and what enters the *)
(* one of this epoch.                                                      *)
CriticTerms(w, e) ==
  {t \in [row : 1..Len(w.batch), weights : {e - 1}, width : Nat] :
     w.batch[t.row].len <= t.width}
Fitted(w, d, applied, m) ==
  IsList(applied, m) /\ \A e \in 1..m : Enters(applied[e], CriticShare(w, d), CriticTerms(w, e))
Fitting(w, d, e, weights, applied, grad, k) ==
  /\ e \in 1..w.critic.epochs /\ weights = e - 1 /\ Fitted(w, d, applied, e - 1)
  /\ Enters(grad, Before(CriticLists(w, d), k), CriticTerms(w, e))
RowsFitIn(w, d) == \A i \in CriticShare(w, d) : w.batch[i].len <= w.critic.seqLen
CriticTermsOf(w, d, k, weights) ==
  [q \in DOMAIN CriticMicro(w, d, k).rows |->
     [row |-> CriticPlan(w)[d].rows[CriticMicro(w, d, k).rows[q]],
      weights |-> weights, width |-> CriticMicro(w, d, k).width]]

LEMMA FitFirst ==
  ASSUME NEW w \in Windows, w.critic # NoCritic, ~CriticRefuses(w), NEW d \in 1..w.critic.dp,
         NEW e \in 1..w.critic.epochs, NEW weights, weights = e - 1,
         NEW applied, Fitted(w, d, applied, e - 1)
  PROVE  Fitting(w, d, e, weights, applied, << >>, 0)
<1>1. Spreads(CriticLists(w, d), CriticMicros(w), CriticShare(w, d)) /\ CriticMicros(w) \in Nat
  BY CriticPlanIs DEF CriticShard
<1>2. Before(CriticLists(w, d), 0) = {}
  BY <1>1, BeforeIs
<1>3. Enters(<< >>, {}, CriticTerms(w, e))
  BY NothingEnters
<1> QED BY <1>2, <1>3 DEF Fitting

LEMMA FitOn ==
  ASSUME NEW w \in Windows, w.critic # NoCritic, ~CriticRefuses(w), NEW d \in 1..w.critic.dp,
         RowsFitIn(w, d), NEW e, NEW weights, NEW applied, NEW grad,
         NEW k \in 1..CriticMicros(w), Fitting(w, d, e, weights, applied, grad, k - 1)
  PROVE  Fitting(w, d, e, weights, applied, grad \o CriticTermsOf(w, d, k, weights), k)
<1>1. /\ e \in 1..w.critic.epochs /\ weights = e - 1 /\ Fitted(w, d, applied, e - 1)
      /\ Enters(grad, Before(CriticLists(w, d), k - 1), CriticTerms(w, e))
  BY DEF Fitting
<1>2. CriticShard(w, d)
  BY CriticPlanIs
<1>3. PICK K \in Nat \ {0} : K = CriticMicros(w)
  BY CriticPlanIs
<1>4. PICK s : s = CriticLists(w, d)
  OBVIOUS
<1>5. PICK X : X = CriticShare(w, d)
  OBVIOUS
<1>6. PICK V : V = CriticTerms(w, e)
  OBVIOUS
<1>7. Spreads(s, K, X) /\ X \subseteq 1..Len(w.batch)
  BY <1>2, <1>3, <1>4, <1>5 DEF CriticShard
<1>8. PICK n : n = Len(s[k])
  OBVIOUS
<1>9. PICK h : h = CriticTermsOf(w, d, k, weights)
  OBVIOUS
<1>10. PICK W : W = CriticMicro(w, d, k).width
  OBVIOUS
<1>11. /\ s[k] = RowList(CriticPlan(w), d, 1, k)
       /\ n = Len(CriticMicro(w, d, k).rows)
       /\ DOMAIN CriticMicro(w, d, k).rows = 1..n
       /\ W \in Nat
       /\ \A q \in 1..n : s[k][q] \in X /\ Smaller(Lens(w)[s[k][q]], w.critic.seqLen) <= W
  <2>1. CriticMicroIs(w, d, k)
    BY <1>2 DEF CriticShard
  <2> QED BY <2>1, <1>4, <1>5, <1>8, <1>10 DEF CriticMicroIs
<1>12. \A q \in 1..n : s[k][q] = CriticPlan(w)[d].rows[CriticMicro(w, d, k).rows[q]]
  BY <1>11 DEF RowList, CriticMicro
<1>13. h = [q \in 1..n |-> [row |-> s[k][q], weights |-> weights, width |-> W]]
  BY <1>9, <1>10, <1>11, <1>12 DEF CriticTermsOf
<1>14. ASSUME NEW q \in 1..n PROVE h[q] \in V /\ h[q].row = s[k][q]
  <2>1. PICK i \in 1..Len(w.batch) : i = s[k][q]
    BY <1>7, <1>11
  <2>2. i \in X /\ Smaller(Lens(w)[i], w.critic.seqLen) <= W
    BY <2>1, <1>11
  <2>3. w.batch[i].len <= w.critic.seqLen
    BY <2>2, <1>5 DEF RowsFitIn
  <2>4. w.batch[i].len \in Nat /\ w.critic.seqLen \in Nat /\ Lens(w)[i] = w.batch[i].len
    BY LensAre, WindowAssumption DEF Lens
  <2>5. w.batch[i].len <= W
    BY <2>2, <2>3, <2>4 DEF Smaller
  <2>6. h[q] = [row |-> i, weights |-> weights, width |-> W]
    BY <2>1, <1>13
  <2>7. h[q] \in [row : 1..Len(w.batch), weights : {e - 1}, width : Nat]
    BY <2>6, <1>1, <1>11
  <2>8. h[q].row = i /\ h[q].width = W
    BY <2>6
  <2> QED BY <2>1, <2>5, <2>7, <2>8, <1>6 DEF CriticTerms
<1>15. h \in [1..n -> V] /\ \A q \in 1..n : h[q].row = s[k][q]
  BY <1>13, <1>14
<1>16. k \in 1..K /\ K \in Nat
  BY <1>3
<1>17. Enters(grad, Before(s, k - 1), V)
  BY <1>1, <1>4, <1>6
<1>18. Enters(grad \o h, Before(s, k), V)
  BY <1>7, <1>8, <1>15, <1>16, <1>17, EntersNext
<1> QED BY <1>1, <1>4, <1>6, <1>9, <1>18 DEF Fitting

LEMMA FitStep ==
  ASSUME NEW w \in Windows, w.critic # NoCritic, ~CriticRefuses(w), NEW d \in 1..w.critic.dp,
         NEW e, NEW weights, NEW applied, NEW grad,
         Fitting(w, d, e, weights, applied, grad, CriticMicros(w))
  PROVE  weights + 1 = e /\ Fitted(w, d, Append(applied, grad), e)
<1>1. /\ e \in 1..w.critic.epochs /\ weights = e - 1
      /\ IsList(applied, e - 1)
      /\ \A j \in 1..(e - 1) : Enters(applied[j], CriticShare(w, d), CriticTerms(w, j))
      /\ Enters(grad, Before(CriticLists(w, d), CriticMicros(w)), CriticTerms(w, e))
  BY DEF Fitting, Fitted
<1>2. Spreads(CriticLists(w, d), CriticMicros(w), CriticShare(w, d)) /\ CriticMicros(w) \in Nat
  BY CriticPlanIs DEF CriticShard
<1>3. Before(CriticLists(w, d), CriticMicros(w)) = CriticShare(w, d)
  BY <1>2, BeforeIs
<1>4. PICK z : z = Append(applied, grad)
  OBVIOUS
<1>5. e \in Nat /\ e >= 1
  BY <1>1, WindowAssumption
<1>6. PICK m \in Nat : m = e - 1
  BY <1>5
<1>7. IsList(z, m + 1) /\ (\A j \in 1..m : z[j] = applied[j]) /\ z[m + 1] = grad
  <2>1. IsList(applied, m)
    BY <1>1, <1>6
  <2> QED BY <1>4, <2>1, AppendList
<1>8. m + 1 = e
  BY <1>5, <1>6
<1>9. \A j \in 1..e : Enters(z[j], CriticShare(w, d), CriticTerms(w, j))
  <2>1. 1..e = 1..m \cup {e}
    BY <1>6, <1>8
  <2> QED BY <2>1, <1>1, <1>3, <1>6, <1>7, <1>8
<1>10. weights + 1 = e
  BY <1>1, <1>5
<1> QED BY <1>4, <1>7, <1>8, <1>9, <1>10 DEF Fitted

(* A rank of shard d, by the call it is in.  It has kept the values of all *)
(* of its micro-batches when it has made this many calls of all ranks.     *)
CriticCalls ==
  {"broadcast", "count", "forward", "backward", "gather", "clip", "loss", "save",
   "saved", "collect", "done", "raised"}
Later(w) == 2 * CriticMicros(w) + 3
Whole(w, d, taken, m) == Keeps(w, d, taken, CriticMicros(w)) /\ m >= Later(w)
ScoredTo(w, d, e, taken, k, m, first) ==
  IF e = 1 THEN Keeps(w, d, taken, k) /\ m = first ELSE Whole(w, d, taken, m)

CriticRankIs(w, d, c, m, e, k, weights, taken, grad, applied) ==
  /\ c \in CriticCalls /\ m \in Nat
  /\ c = "broadcast" =>
       /\ m = 1 /\ e = 1 /\ k = 1
       /\ weights = 0 /\ taken = << >> /\ grad = << >> /\ applied = << >>
  /\ c = "raised" => m <= 2 \/ (Whole(w, d, taken, m) /\ RowsFitIn(w, d))
  /\ c \notin {"broadcast", "raised"} => RowsFitIn(w, d)
  /\ c = "count" =>
       /\ k = 1 /\ Fitting(w, d, e, weights, applied, grad, 0) /\ grad = << >>
       /\ ScoredTo(w, d, e, taken, 0, m, 2)
  /\ c = "forward" =>
       /\ k \in 1..CriticMicros(w) /\ Fitting(w, d, e, weights, applied, grad, k - 1)
       /\ ScoredTo(w, d, e, taken, k - 1, m, 2 * k + 1)
  /\ c = "backward" =>
       /\ k \in 1..CriticMicros(w) /\ Fitting(w, d, e, weights, applied, grad, k - 1)
       /\ ScoredTo(w, d, e, taken, k - 1, m, 2 * k + 2)
  /\ c = "gather" =>
       /\ k \in 1..CriticMicros(w) /\ Fitting(w, d, e, weights, applied, grad, k)
       /\ e = 1 /\ w.critic.cp > 1
       /\ ScoredTo(w, d, e, taken, k - 1, m, 2 * k + 2)
  /\ c = "clip" =>
       /\ k = 1 /\ Fitting(w, d, e, weights, applied, grad, CriticMicros(w))
       /\ Whole(w, d, taken, m)
  /\ c = "loss" =>
       /\ k = 1 /\ e \in 1..w.critic.epochs /\ weights = e /\ Fitted(w, d, applied, e)
       /\ Whole(w, d, taken, m)
  /\ c \in {"save", "saved", "collect", "done"} =>
       Fitted(w, d, applied, w.critic.epochs) /\ Whole(w, d, taken, m)

LEMMA WholeOn ==
  ASSUME NEW w \in Windows, w.critic # NoCritic, ~CriticRefuses(w), NEW d, NEW taken,
         NEW m \in Nat, Whole(w, d, taken, m)
  PROVE  Whole(w, d, taken, m + 1)
<1>1. CriticMicros(w) \in Nat
  BY CriticPlanIs
<1> QED BY <1>1 DEF Whole, Later

(* The next micro-batch, or the optimizer.                                 *)
NextIs(w, d, m, e, k, weights, taken, grad, applied) ==
  /\ k < CriticMicros(w) =>
       CriticRankIs(w, d, "forward", m, e, k + 1, weights, taken, grad, applied)
  /\ ~(k < CriticMicros(w)) =>
       CriticRankIs(w, d, "clip", m, e, 1, weights, taken, grad, applied)

LEMMA NextMicroIs ==
  ASSUME NEW w \in Windows, w.critic # NoCritic, ~CriticRefuses(w), NEW d \in 1..w.critic.dp,
         RowsFitIn(w, d), NEW m \in Nat, NEW e, NEW k \in 1..CriticMicros(w),
         NEW weights, NEW taken, NEW grad, NEW applied,
         Fitting(w, d, e, weights, applied, grad, k),
         ScoredTo(w, d, e, taken, k, m, 2 * k + 2)
  PROVE  NextIs(w, d, m + 1, e, k, weights, taken, grad, applied)
<1>1. PICK K \in Nat \ {0} : K = CriticMicros(w)
  BY CriticPlanIs
<1>2. k \in 1..K /\ k \in Nat
  BY <1>1
<1>3. ASSUME k < K
      PROVE  CriticRankIs(w, d, "forward", m + 1, e, k + 1, weights, taken, grad, applied)
  <2>1. k + 1 \in 1..K /\ (k + 1) - 1 = k
    BY <1>2, <1>3
  <2>2. ScoredTo(w, d, e, taken, k, m + 1, 2 * (k + 1) + 1)
    <3>1. CASE e = 1
      <4>1. Keeps(w, d, taken, k) /\ m = 2 * k + 2
        BY <3>1 DEF ScoredTo
      <4>2. m + 1 = 2 * (k + 1) + 1
        BY <4>1, <1>2
      <4> QED BY <3>1, <4>1, <4>2 DEF ScoredTo
    <3>2. CASE e # 1
      BY <3>2, WholeOn DEF ScoredTo
    <3> QED BY <3>1, <3>2
  <2> QED BY <2>1, <2>2, <1>1 DEF CriticRankIs, CriticCalls
<1>4. ASSUME ~(k < K)
      PROVE  CriticRankIs(w, d, "clip", m + 1, e, 1, weights, taken, grad, applied)
  <2>1. k = K
    BY <1>2, <1>4
  <2>2. Whole(w, d, taken, m + 1)
    <3>1. CASE e = 1
      <4>1. Keeps(w, d, taken, k) /\ m = 2 * k + 2
        BY <3>1 DEF ScoredTo
      <4>2. m + 1 >= Later(w)
        BY <4>1, <2>1, <1>1, <1>2 DEF Later
      <4> QED BY <4>1, <4>2, <2>1, <1>1 DEF Whole
    <3>2. CASE e # 1
      BY <3>2, WholeOn DEF ScoredTo
    <3> QED BY <3>1, <3>2
  <2>3. m + 1 \in Nat
    OBVIOUS
  <2> QED BY <2>1, <2>2, <2>3, <1>1 DEF CriticRankIs, CriticCalls
<1> QED BY <1>1, <1>3, <1>4 DEF NextIs

(* The calls of all ranks and those of a group are counted apart.          *)
Groups == {"world", "cp"}
MadeIs(f, D) ==
  IsMap(f, D) /\ \A q \in D : IsMap(f[q], Groups) /\ f[q]["world"] \in Nat
MovesTo(f, g, D, r, m) ==
  /\ MadeIs(g, D) /\ g[r]["world"] = m
  /\ \A q \in D : q # r => g[q] = f[q]
Counts(f, g, r, x) == g = [f EXCEPT ![r][x] = @ + 1]

LEMMA CountIs ==
  ASSUME NEW D, NEW f, MadeIs(f, D), NEW r \in D, NEW x \in Groups, NEW g, Counts(f, g, r, x),
         NEW m, m = IF x = "world" THEN f[r]["world"] + 1 ELSE f[r]["world"]
  PROVE  MovesTo(f, g, D, r, m) /\ m \in Nat
<1>1. IsMap(f, D) /\ IsMap(f[r], Groups) /\ f[r]["world"] \in Nat
  BY DEF MadeIs
<1>2. PICK a : a = [f[r] EXCEPT ![x] = @ + 1]
  OBVIOUS
<1>3. Excepts(f, g, r, a)
  BY <1>2 DEF Counts, Excepts
<1>4. Changed(f, g, D, r, a)
  BY <1>1, <1>3, ExceptIs
<1>5. m \in Nat
  BY <1>1
<1>6. IsMap(a, Groups) /\ a["world"] = m
  BY <1>1, <1>2 DEF IsMap, Groups
<1>7. ASSUME NEW q \in D PROVE IsMap(g[q], Groups) /\ g[q]["world"] \in Nat
  <2>1. CASE q = r
    BY <2>1, <1>4, <1>5, <1>6 DEF Changed
  <2>2. CASE q # r
    BY <2>2, <1>4 DEF Changed, MadeIs
  <2> QED BY <2>1, <2>2
<1>8. MadeIs(g, D)
  BY <1>4, <1>7 DEF MadeIs, Changed
<1> QED BY <1>4, <1>5, <1>6, <1>8 DEF MovesTo, Changed

Called(D, r, c, m) ==
  ccall' = [ccall EXCEPT ![r] = c] /\ MovesTo(cmade, cmade', D, r, m) /\ m \in Nat

LEMMA GoesOn ==
  ASSUME NEW D, MadeIs(cmade, D), NEW r \in D, NEW next,
         (C!GoesTo(r, next) /\ next \notin {"gather", "segments"}) \/ C!Ends(r, next)
  PROVE  Called(D, r, next, cmade[r]["world"] + 1)
<1>1. ccall' = [ccall EXCEPT ![r] = next]
  BY DEF C!GoesTo, C!Ends
<1>2. Counts(cmade, cmade', r, "world")
  <2>1. CASE C!Ends(r, next)
    BY <2>1 DEF C!Ends, Counts
  <2>2. CASE C!GoesTo(r, next) /\ next \notin {"gather", "segments"}
    <3>1. C!Group(next) = "world"
      BY <2>2 DEF C!Group, C!OnSequence
    <3> QED BY <3>1, <2>2 DEF C!GoesTo, Counts
  <2> QED BY <2>1, <2>2
<1>3. PICK m : m = cmade[r]["world"] + 1
  OBVIOUS
<1>4. MovesTo(cmade, cmade', D, r, m) /\ m \in Nat
  <2>1. "world" \in Groups
    BY DEF Groups
  <2> QED BY <2>1, <1>2, <1>3, CountIs
<1> QED BY <1>1, <1>3, <1>4 DEF Called

LEMMA GoesToGather ==
  ASSUME NEW D, MadeIs(cmade, D), NEW r \in D, C!GoesTo(r, "gather")
  PROVE  Called(D, r, "gather", cmade[r]["world"])
<1>1. ccall' = [ccall EXCEPT ![r] = "gather"]
  BY DEF C!GoesTo
<1>2. Counts(cmade, cmade', r, "cp")
  <2>1. C!Group("gather") = "cp"
    BY DEF C!Group, C!OnSequence
  <2> QED BY <2>1 DEF C!GoesTo, Counts
<1>3. PICK m : m = cmade[r]["world"]
  OBVIOUS
<1>4. MovesTo(cmade, cmade', D, r, m) /\ m \in Nat
  <2>1. "cp" \in Groups /\ "cp" # "world"
    BY DEF Groups
  <2> QED BY <2>1, <1>2, <1>3, CountIs
<1> QED BY <1>1, <1>3, <1>4 DEF Called

CriticRank(w, r) ==
  CriticRankIs(w, r[1], ccall[r], cmade[r]["world"], cepoch[r], cmicro[r], cweights[r],
               ctaken[r], cgrad[r], capplied[r])
CriticMaps(D) ==
  /\ IsMap(ccall, D) /\ MadeIs(cmade, D) /\ IsMap(cepoch, D) /\ IsMap(cmicro, D)
  /\ IsMap(cweights, D) /\ IsMap(ctaken, D) /\ IsMap(cgrad, D) /\ IsMap(capplied, D)
CriticBecomes(D, r, c, m, e, k, z, t, g, a) ==
  /\ Called(D, r, c, m)
  /\ cepoch' = [cepoch EXCEPT ![r] = e] /\ cmicro' = [cmicro EXCEPT ![r] = k]
  /\ cweights' = [cweights EXCEPT ![r] = z] /\ ctaken' = [ctaken EXCEPT ![r] = t]
  /\ cgrad' = [cgrad EXCEPT ![r] = g] /\ capplied' = [capplied EXCEPT ![r] = a]

LEMMA CriticBecomesKeeps ==
  ASSUME NEW w, NEW D, CriticMaps(D), \A q \in D : CriticRank(w, q),
         NEW r \in D, NEW c, NEW m, NEW e, NEW k, NEW z, NEW t, NEW g, NEW a,
         CriticBecomes(D, r, c, m, e, k, z, t, g, a),
         CriticRankIs(w, r[1], c, m, e, k, z, t, g, a)
  PROVE  CriticMaps(D)' /\ \A q \in D : CriticRank(w, q)'
<1>1. Changed(ccall, ccall', D, r, c)
  <2>1. IsMap(ccall, D) /\ Excepts(ccall, ccall', r, c)
    BY DEF CriticMaps, CriticBecomes, Called, Excepts
  <2> QED BY <2>1, ExceptIs
<1>2. MadeIs(cmade', D) /\ cmade'[r]["world"] = m /\ \A q \in D : q # r => cmade'[q] = cmade[q]
  BY DEF CriticBecomes, Called, MovesTo
<1>3. Changed(cepoch, cepoch', D, r, e)
  <2>1. IsMap(cepoch, D) /\ Excepts(cepoch, cepoch', r, e)
    BY DEF CriticMaps, CriticBecomes, Excepts
  <2> QED BY <2>1, ExceptIs
<1>4. Changed(cmicro, cmicro', D, r, k)
  <2>1. IsMap(cmicro, D) /\ Excepts(cmicro, cmicro', r, k)
    BY DEF CriticMaps, CriticBecomes, Excepts
  <2> QED BY <2>1, ExceptIs
<1>5. Changed(cweights, cweights', D, r, z)
  <2>1. IsMap(cweights, D) /\ Excepts(cweights, cweights', r, z)
    BY DEF CriticMaps, CriticBecomes, Excepts
  <2> QED BY <2>1, ExceptIs
<1>6. Changed(ctaken, ctaken', D, r, t)
  <2>1. IsMap(ctaken, D) /\ Excepts(ctaken, ctaken', r, t)
    BY DEF CriticMaps, CriticBecomes, Excepts
  <2> QED BY <2>1, ExceptIs
<1>7. Changed(cgrad, cgrad', D, r, g)
  <2>1. IsMap(cgrad, D) /\ Excepts(cgrad, cgrad', r, g)
    BY DEF CriticMaps, CriticBecomes, Excepts
  <2> QED BY <2>1, ExceptIs
<1>8. Changed(capplied, capplied', D, r, a)
  <2>1. IsMap(capplied, D) /\ Excepts(capplied, capplied', r, a)
    BY DEF CriticMaps, CriticBecomes, Excepts
  <2> QED BY <2>1, ExceptIs
<1>9. CriticMaps(D)'
  <2>1. MadeIs(cmade, D)'
    BY <1>2 DEF MadeIs, IsMap
  <2> QED BY <2>1, <1>1, <1>3, <1>4, <1>5, <1>6, <1>7, <1>8 DEF CriticMaps, IsMap, Changed
<1>10. ASSUME NEW q \in D PROVE CriticRank(w, q)'
  <2>1. CASE q = r
    BY <2>1, <1>1, <1>2, <1>3, <1>4, <1>5, <1>6, <1>7, <1>8 DEF CriticRank, Changed
  <2>2. CASE q # r
    BY <2>2, <1>1, <1>2, <1>3, <1>4, <1>5, <1>6, <1>7, <1>8 DEF CriticRank, Changed
  <2> QED BY <2>1, <2>2
<1> QED BY <1>9, <1>10

(* A row of the shard is one the rank lays out.                            *)
LEMMA SharesAreRows ==
  ASSUME NEW w \in Windows, w.critic # NoCritic, ~CriticRefuses(w), NEW d \in 1..w.critic.dp,
         NEW i \in CriticShare(w, d)
  PROVE  \E p \in DOMAIN CriticPlan(w)[d].rows : CriticPlan(w)[d].rows[p] = i
<1>1. PICK n : n = Len(w.batch)
  OBVIOUS
<1>2. PICK dp : dp = w.critic.dp
  OBVIOUS
<1>3. PICK cfg : cfg = CriticConfig(w)
  OBVIOUS
<1>4. PICK lengths : lengths = Lens(w)
  OBVIOUS
<1>5. Plannable(lengths, n, dp, cfg) /\ MiniCount(n, dp, cfg) = 1
  BY <1>1, <1>2, <1>3, <1>4, CriticPlannable
<1>6. PICK P : P = BuildPlan(lengths, dp, cfg)
  OBVIOUS
<1>7. P = CriticPlan(w)
  BY <1>2, <1>3, <1>4, <1>6 DEF CriticPlan
<1>8. Plans(P, lengths, n, dp, cfg)
  BY <1>5, <1>6, BuildPlanIs
<1>9. P[d].rows = LocalRows(lengths, dp, cfg)[d] /\ DOMAIN P[d].rows = 1..LocalSize(n, dp)
  BY <1>2, <1>8 DEF Plans
<1>10. Share(lengths, dp, cfg, d, 1) \subseteq 1..LocalSize(n, dp)
  <2>1. 1 \in 1..MiniCount(n, dp, cfg)
    BY <1>5
  <2> QED BY <2>1, <1>2, <1>5, SharesSpread
<1>11. PICK x \in Share(lengths, dp, cfg, d, 1) : LocalRows(lengths, dp, cfg)[d][x] = i
  BY <1>2, <1>3, <1>4 DEF CriticShare, ShareRows
<1> QED BY <1>7, <1>9, <1>10, <1>11

LEMMA ScoredOn ==
  ASSUME NEW w \in Windows, w.critic # NoCritic, ~CriticRefuses(w), NEW d, NEW e, NEW taken,
         NEW k, NEW m \in Nat, NEW x \in Nat, ScoredTo(w, d, e, taken, k, m, x),
         NEW y, y = x + 1
  PROVE  ScoredTo(w, d, e, taken, k, m + 1, y)
<1>1. CASE e = 1
  BY <1>1 DEF ScoredTo
<1>2. CASE e # 1
  BY <1>2, WholeOn DEF ScoredTo
<1> QED BY <1>1, <1>2

(* A step of rank r: where it was, and that it comes to where it may be.   *)
CriticAt(w, D, r, d, c, m, e, k, z, t, g, a) ==
  /\ r \in D /\ d = r[1] /\ d \in 1..w.critic.dp /\ MadeIs(cmade, D)
  /\ c = ccall[r] /\ m = cmade[r]["world"] /\ e = cepoch[r] /\ k = cmicro[r]
  /\ z = cweights[r] /\ t = ctaken[r] /\ g = cgrad[r] /\ a = capplied[r]
  /\ CriticRankIs(w, d, c, m, e, k, z, t, g, a)
  /\ cepoch = [cepoch EXCEPT ![r] = e] /\ cmicro = [cmicro EXCEPT ![r] = k]
  /\ cweights = [cweights EXCEPT ![r] = z] /\ ctaken = [ctaken EXCEPT ![r] = t]
  /\ cgrad = [cgrad EXCEPT ![r] = g] /\ capplied = [capplied EXCEPT ![r] = a]
CriticMoves(w, D, r) ==
  \E c, m, e, k, z, t, g, a :
    /\ CriticBecomes(D, r, c, m, e, k, z, t, g, a)
    /\ CriticRankIs(w, r[1], c, m, e, k, z, t, g, a)

LEMMA CriticMicrosAre ==
  ASSUME NEW w \in Windows, w.critic # NoCritic, ~CriticRefuses(w), cplan = CriticPlan(w),
         NEW r, NEW d \in 1..w.critic.dp, d = r[1]
  PROVE  /\ Len(C!Micros(r)) = CriticMicros(w) /\ CriticMicros(w) \in Nat \ {0}
         /\ C!Current(r) = CriticMicro(w, d, cmicro[r])
<1>1. C!Micros(r) = Micro(CriticPlan(w), d, 1)
  BY DEF C!Micros, Micro
<1>2. CriticShard(w, d) /\ CriticMicros(w) \in Nat \ {0}
  BY CriticPlanIs
<1> QED BY <1>1, <1>2 DEF CriticShard, C!Current, CriticMicro

(* A micro-batch is through.                                               *)
LEMMA MovesOn ==
  ASSUME NEW w \in Windows, w.critic # NoCritic, ~CriticRefuses(w), cplan = CriticPlan(w),
         NEW D, NEW r, NEW d, NEW c, NEW m, NEW e, NEW k, NEW z, NEW t, NEW g, NEW a,
         CriticAt(w, D, r, d, c, m, e, k, z, t, g, a),
         NEW u, NEW h, ctaken' = [ctaken EXCEPT ![r] = u], cgrad' = [cgrad EXCEPT ![r] = h],
         UNCHANGED <<cepoch, cweights, capplied>>, C!NextMicro(r),
         RowsFitIn(w, d), k \in 1..CriticMicros(w), Fitting(w, d, e, z, a, h, k),
         ScoredTo(w, d, e, u, k, m, 2 * k + 2)
  PROVE  CriticMoves(w, D, r)
<1>1. /\ r \in D /\ d = r[1] /\ d \in 1..w.critic.dp /\ MadeIs(cmade, D)
      /\ m = cmade[r]["world"] /\ k = cmicro[r] /\ m \in Nat
      /\ cepoch = [cepoch EXCEPT ![r] = e] /\ cweights = [cweights EXCEPT ![r] = z]
      /\ capplied = [capplied EXCEPT ![r] = a]
  BY DEF CriticAt, CriticRankIs
<1>2. NextIs(w, d, m + 1, e, k, z, u, h, a)
  BY <1>1, NextMicroIs
<1>3. Len(C!Micros(r)) = CriticMicros(w)
  BY <1>1, CriticMicrosAre
<1>4. CASE cmicro[r] < Len(C!Micros(r))
  <2>1. cmicro' = [cmicro EXCEPT ![r] = k + 1] /\ C!GoesTo(r, "forward")
    BY <1>1, <1>4 DEF C!NextMicro
  <2>2. Called(D, r, "forward", m + 1)
    BY <1>1, <2>1, GoesOn
  <2>3. CriticBecomes(D, r, "forward", m + 1, e, k + 1, z, u, h, a)
    BY <1>1, <2>1, <2>2 DEF CriticBecomes
  <2>4. CriticRankIs(w, d, "forward", m + 1, e, k + 1, z, u, h, a)
    BY <1>1, <1>2, <1>3, <1>4 DEF NextIs
  <2> QED BY <1>1, <2>3, <2>4 DEF CriticMoves
<1>5. CASE ~(cmicro[r] < Len(C!Micros(r)))
  <2>1. cmicro' = [cmicro EXCEPT ![r] = 1] /\ C!GoesTo(r, "clip")
    BY <1>5 DEF C!NextMicro
  <2>2. Called(D, r, "clip", m + 1)
    BY <1>1, <2>1, GoesOn
  <2>3. CriticBecomes(D, r, "clip", m + 1, e, 1, z, u, h, a)
    BY <1>1, <2>1, <2>2 DEF CriticBecomes
  <2>4. CriticRankIs(w, d, "clip", m + 1, e, 1, z, u, h, a)
    BY <1>1, <1>2, <1>3, <1>5 DEF NextIs
  <2> QED BY <1>1, <2>3, <2>4 DEF CriticMoves
<1> QED BY <1>4, <1>5

(* The calls that change nothing but where the rank is.                    *)
LEMMA MovesStill ==
  ASSUME NEW w, NEW D, NEW r, NEW d, NEW c, NEW m, NEW e, NEW k, NEW z, NEW t, NEW g, NEW a,
         CriticAt(w, D, r, d, c, m, e, k, z, t, g, a),
         UNCHANGED <<cepoch, cmicro, cweights, ctaken, cgrad, capplied>>,
         NEW next, (C!GoesTo(r, next) /\ next \notin {"gather", "segments"}) \/ C!Ends(r, next),
         CriticRankIs(w, d, next, m + 1, e, k, z, t, g, a)
  PROVE  CriticMoves(w, D, r)
<1>1. Called(D, r, next, m + 1) /\ d = r[1]
  BY GoesOn DEF CriticAt
<1>2. CriticBecomes(D, r, next, m + 1, e, k, z, t, g, a)
  BY <1>1 DEF CriticBecomes, CriticAt
<1> QED BY <1>1, <1>2 DEF CriticMoves

LEMMA PlanWindowMoves ==
  ASSUME NEW w \in Windows, w.critic # NoCritic, ~CriticRefuses(w),
         batch = w.batch, ccfg = w.critic, cplan = CriticPlan(w),
         NEW D, NEW r, NEW d, NEW c, NEW m, NEW e, NEW k, NEW z, NEW t, NEW g, NEW a,
         CriticAt(w, D, r, d, c, m, e, k, z, t, g, a), C!PlanWindow(r)
  PROVE  CriticMoves(w, D, r)
<1>1. c = "broadcast" /\ d = r[1] /\ d \in 1..w.critic.dp
  BY DEF CriticAt, C!PlanWindow
<1>2. m = 1 /\ e = 1 /\ k = 1 /\ z = 0 /\ t = << >> /\ g = << >> /\ a = << >>
  BY <1>1 DEF CriticAt, CriticRankIs
<1>3. UNCHANGED <<cepoch, cmicro, cweights, ctaken, cgrad, capplied>>
  BY DEF C!PlanWindow
<1>4. PICK one : one = 1
  OBVIOUS
<1>5. CASE C!Ends(r, "raised")
  <2>1. CriticRankIs(w, d, "raised", m + 1, e, k, z, t, g, a)
    BY <1>2 DEF CriticRankIs, CriticCalls
  <2> QED BY <1>3, <1>5, <2>1, MovesStill
<1>6. CASE /\ C!GoesTo(r, "count")
           /\ \A p \in DOMAIN C!Rows(r) : C!Fits(C!Rows(r)[p])
  <2>1. C!Rows(r) = CriticPlan(w)[d].rows
    BY <1>1 DEF C!Rows
  <2>2. ASSUME NEW i \in CriticShare(w, d) PROVE w.batch[i].len <= w.critic.seqLen
    <3>1. PICK p \in DOMAIN CriticPlan(w)[d].rows : CriticPlan(w)[d].rows[p] = i
      BY <1>1, SharesAreRows
    <3>2. C!Fits(i)
      BY <3>1, <2>1, <1>6
    <3> QED BY <3>2 DEF C!Fits
  <2>3. RowsFitIn(w, d)
    BY <2>2 DEF RowsFitIn
  <2>4. Fitting(w, d, e, z, a, g, 0)
    <3>1. e \in 1..w.critic.epochs /\ z = e - 1
      BY <1>2, WindowAssumption
    <3>2. Fitted(w, d, a, e - 1)
      BY <1>2 DEF Fitted, IsList
    <3> QED BY <3>1, <3>2, <1>1, <1>2, FitFirst
  <2>5. ScoredTo(w, d, e, t, 0, m + 1, 2)
    <3>1. Keeps(w, d, t, 0)
      BY <1>2, KeepsNone
    <3> QED BY <3>1, <1>2 DEF ScoredTo
  <2>6. CriticRankIs(w, d, "count", m + 1, e, k, z, t, g, a)
    BY <1>2, <2>3, <2>4, <2>5 DEF CriticRankIs, CriticCalls
  <2> QED BY <1>3, <1>6, <2>6, MovesStill
<1> QED BY <1>5, <1>6 DEF C!PlanWindow

LEMMA CountTokensMoves ==
  ASSUME NEW w \in Windows, w.critic # NoCritic, ~CriticRefuses(w),
         NEW D, NEW r, NEW d, NEW c, NEW m, NEW e, NEW k, NEW z, NEW t, NEW g, NEW a,
         CriticAt(w, D, r, d, c, m, e, k, z, t, g, a), C!CountTokens(r)
  PROVE  CriticMoves(w, D, r)
<1>1. c = "count"
  BY DEF CriticAt, C!CountTokens
<1>2. /\ k = 1 /\ RowsFitIn(w, d) /\ Fitting(w, d, e, z, a, g, 0)
      /\ ScoredTo(w, d, e, t, 0, m, 2) /\ m \in Nat
  BY <1>1 DEF CriticAt, CriticRankIs
<1>3. ScoredTo(w, d, e, t, 0, m + 1, 3)
  <2>1. PICK x, y \in Nat : x = 2 /\ y = 3 /\ y = x + 1
    OBVIOUS
  <2>2. ScoredTo(w, d, e, t, 0, m, x)
    BY <1>2, <2>1
  <2>3. ScoredTo(w, d, e, t, 0, m + 1, y)
    BY <1>2, <2>1, <2>2, ScoredOn
  <2> QED BY <2>1, <2>3
<1>4. k - 1 = 0 /\ 2 * k + 1 = 3 /\ k \in 1..CriticMicros(w)
  BY <1>2, CriticPlanIs
<1>5. CriticRankIs(w, d, "forward", m + 1, e, k, z, t, g, a)
  BY <1>2, <1>3, <1>4 DEF CriticRankIs, CriticCalls
<1> QED BY <1>5, MovesStill DEF C!CountTokens

LEMMA CriticForwardMoves ==
  ASSUME NEW w \in Windows, w.critic # NoCritic, ~CriticRefuses(w),
         NEW D, NEW r, NEW d, NEW c, NEW m, NEW e, NEW k, NEW z, NEW t, NEW g, NEW a,
         CriticAt(w, D, r, d, c, m, e, k, z, t, g, a), C!Forward(r)
  PROVE  CriticMoves(w, D, r)
<1>1. c = "forward"
  BY DEF CriticAt, C!Forward
<1>2. /\ k \in 1..CriticMicros(w) /\ RowsFitIn(w, d) /\ Fitting(w, d, e, z, a, g, k - 1)
      /\ ScoredTo(w, d, e, t, k - 1, m, 2 * k + 1) /\ m \in Nat
  BY <1>1 DEF CriticAt, CriticRankIs
<1>3. k \in Nat
  BY <1>2, CriticPlanIs
<1>4. PICK x, y \in Nat : x = 2 * k + 1 /\ y = 2 * k + 2 /\ y = x + 1
  BY <1>3
<1>5. ScoredTo(w, d, e, t, k - 1, m + 1, y)
  BY <1>2, <1>4, ScoredOn
<1>6. CriticRankIs(w, d, "backward", m + 1, e, k, z, t, g, a)
  BY <1>2, <1>4, <1>5 DEF CriticRankIs, CriticCalls
<1> QED BY <1>6, MovesStill DEF C!Forward

(* The values of the first epoch's micro-batch are kept.                   *)
LEMMA KeptOn ==
  ASSUME NEW w \in Windows, w.critic # NoCritic, ~CriticRefuses(w), NEW d, NEW k \in 1..CriticMicros(w),
         NEW m, NEW t, NEW x, ScoredTo(w, d, 1, t, k - 1, m, x),
         NEW v, v = Kept(w, d, k), NEW u, u = Append(t, v)
  PROVE  ScoredTo(w, d, 1, u, k, m, x)
<1>1. PICK j \in Nat : j = k - 1
  <2>1. CriticMicros(w) \in Nat
    BY CriticPlanIs
  <2> QED BY <2>1
<1>2. j + 1 = k
  <2>1. CriticMicros(w) \in Nat
    BY CriticPlanIs
  <2> QED BY <1>1, <2>1
<1>3. Keeps(w, d, t, j) /\ m = x
  BY <1>1 DEF ScoredTo
<1>4. Keeps(w, d, Append(t, v), j + 1)
  <2>1. v = Kept(w, d, j + 1)
    BY <1>2
  <2> QED BY <1>3, <2>1, KeepOn
<1> QED BY <1>2, <1>3, <1>4 DEF ScoredTo

LEMMA CriticBackwardMoves ==
  ASSUME NEW w \in Windows, w.critic # NoCritic, ~CriticRefuses(w),
         ccfg = w.critic, cplan = CriticPlan(w),
         NEW D, NEW r, NEW d, NEW c, NEW m, NEW e, NEW k, NEW z, NEW t, NEW g, NEW a,
         CriticAt(w, D, r, d, c, m, e, k, z, t, g, a), C!Backward(r)
  PROVE  CriticMoves(w, D, r)
<1>1. /\ c = "backward" /\ r \in D /\ d = r[1] /\ d \in 1..w.critic.dp /\ MadeIs(cmade, D)
      /\ m = cmade[r]["world"] /\ e = cepoch[r] /\ k = cmicro[r] /\ z = cweights[r]
      /\ t = ctaken[r] /\ g = cgrad[r]
      /\ cepoch = [cepoch EXCEPT ![r] = e] /\ cmicro = [cmicro EXCEPT ![r] = k]
      /\ cweights = [cweights EXCEPT ![r] = z] /\ ctaken = [ctaken EXCEPT ![r] = t]
      /\ capplied = [capplied EXCEPT ![r] = a]
  BY DEF CriticAt, C!Backward
<1>2. /\ k \in 1..CriticMicros(w) /\ RowsFitIn(w, d) /\ Fitting(w, d, e, z, a, g, k - 1)
      /\ ScoredTo(w, d, e, t, k - 1, m, 2 * k + 2) /\ m \in Nat
  BY <1>1 DEF CriticAt, CriticRankIs
<1>3. C!Current(r) = CriticMicro(w, d, k)
  BY <1>1, CriticMicrosAre
<1>4. PICK h : h = g \o CriticTermsOf(w, d, k, z)
  OBVIOUS
<1>5. cgrad' = [cgrad EXCEPT ![r] = h]
  <2>1. C!Contribution(r) = CriticTermsOf(w, d, k, z)
    BY <1>1, <1>3 DEF C!Contribution, C!RowAt, C!Rows, CriticTermsOf
  <2> QED BY <1>1, <1>4, <2>1 DEF C!Backward
<1>6. Fitting(w, d, e, z, a, h, k)
  BY <1>1, <1>2, <1>4, FitOn
<1>7. UNCHANGED <<cepoch, cweights, capplied>>
  BY DEF C!Backward
<1>8. CASE cepoch[r] = 1 /\ C!Cp > 1
  <2>1. C!GoesTo(r, "gather") /\ UNCHANGED <<cmicro, ctaken>>
    BY <1>8 DEF C!Backward
  <2>2. Called(D, r, "gather", m)
    BY <1>1, <2>1, GoesToGather
  <2>3. CriticBecomes(D, r, "gather", m, e, k, z, t, h, a)
    BY <1>1, <1>5, <1>7, <2>1, <2>2 DEF CriticBecomes
  <2>4. CriticRankIs(w, d, "gather", m, e, k, z, t, h, a)
    BY <1>1, <1>2, <1>6, <1>8 DEF CriticRankIs, CriticCalls, C!Cp
  <2> QED BY <1>1, <2>3, <2>4 DEF CriticMoves
<1>9. CASE ~(cepoch[r] = 1 /\ C!Cp > 1) /\ cepoch[r] = 1
  <2>1. PICK v : v = Kept(w, d, k)
    OBVIOUS
  <2>2. PICK u : u = Append(t, v)
    OBVIOUS
  <2>3. z = 0
    BY <1>1, <1>2, <1>9 DEF Fitting
  <2>4. C!NextMicro(r) /\ ctaken' = [ctaken EXCEPT ![r] = u]
    <3>1. [order |-> [q \in 1..C!Current(r).width |-> q], weights |-> cweights[r]] = v
      BY <1>1, <1>3, <2>1, <2>3 DEF Kept
    <3> QED BY <1>1, <1>9, <2>2, <3>1 DEF C!Backward
  <2>5. ScoredTo(w, d, e, u, k, m, 2 * k + 2)
    BY <1>1, <1>2, <1>9, <2>1, <2>2, KeptOn
  <2> QED BY <1>2, <1>5, <1>6, <1>7, <2>4, <2>5, MovesOn
<1>10. CASE cepoch[r] # 1
  <2>1. C!NextMicro(r) /\ ctaken' = [ctaken EXCEPT ![r] = t]
    BY <1>1, <1>10 DEF C!Backward
  <2>2. ScoredTo(w, d, e, t, k, m, 2 * k + 2)
    BY <1>1, <1>2, <1>10 DEF ScoredTo
  <2> QED BY <1>2, <1>5, <1>6, <1>7, <2>1, <2>2, MovesOn
<1> QED BY <1>8, <1>9, <1>10

LEMMA GatherSeqMoves ==
  ASSUME NEW w \in Windows, w.critic # NoCritic, ~CriticRefuses(w),
         ccfg = w.critic, cplan = CriticPlan(w),
         NEW D, NEW r, NEW d, NEW c, NEW m, NEW e, NEW k, NEW z, NEW t, NEW g, NEW a,
         CriticAt(w, D, r, d, c, m, e, k, z, t, g, a), C!GatherSeq(r)
  PROVE  CriticMoves(w, D, r)
<1>1. /\ c = "gather" /\ r \in D /\ d = r[1] /\ d \in 1..w.critic.dp
      /\ k = cmicro[r] /\ z = cweights[r] /\ t = ctaken[r]
      /\ cgrad = [cgrad EXCEPT ![r] = g]
  BY DEF CriticAt, C!GatherSeq
<1>2. /\ k \in 1..CriticMicros(w) /\ RowsFitIn(w, d) /\ Fitting(w, d, e, z, a, g, k)
      /\ e = 1 /\ w.critic.cp > 1 /\ ScoredTo(w, d, e, t, k - 1, m, 2 * k + 2)
  BY <1>1 DEF CriticAt, CriticRankIs
<1>3. C!Current(r) = CriticMicro(w, d, k)
  BY <1>1, CriticMicrosAre
<1>4. PICK width \in Nat : width = CriticMicro(w, d, k).width /\ width % w.critic.align = 0
  BY <1>1, <1>2, CriticPlanIs DEF CriticShard, CriticMicroIs
<1>5. PICK cp \in Nat \ {0} : cp = w.critic.cp
  BY WindowAssumption
<1>6. width % (2 * cp) = 0
  <2>1. PICK align \in Nat \ {0} : align = w.critic.align /\ align % (2 * cp) = 0
    BY <1>2, <1>5, WindowAssumption
  <2>2. PICK x \in Nat \ {0} : x = 2 * cp
    OBVIOUS
  <2>3. align % x = 0 /\ width % align = 0
    BY <1>4, <2>1, <2>2
  <2>4. width % x = 0
    BY <2>3, Divides
  <2> QED BY <2>2, <2>4
<1>7. PICK order : order = C!Rearranged(width)
  OBVIOUS
<1>8. [p \in DOMAIN order |-> order[C!Restore(order, p)]] = [p \in 1..width |-> p]
  BY <1>5, <1>6, <1>7, RestoredIs
<1>9. PICK v : v = Kept(w, d, k)
  OBVIOUS
<1>10. PICK u : u = Append(t, v)
  OBVIOUS
<1>11. z = 0
  BY <1>2 DEF Fitting
<1>12. ctaken' = [ctaken EXCEPT ![r] = u]
  <2>1. [order |-> [p \in DOMAIN order |-> order[C!Restore(order, p)]], weights |-> cweights[r]] = v
    BY <1>1, <1>4, <1>8, <1>9, <1>11 DEF Kept
  <2>2. C!Rearranged(C!Current(r).width) = order
    BY <1>3, <1>4, <1>7
  <2>3. ctaken' = [ctaken EXCEPT ![r] = Append(ctaken[r],
          [order |-> [p \in DOMAIN order |-> order[C!Restore(order, p)]], weights |-> cweights[r]])]
    BY <2>2 DEF C!GatherSeq
  <2> QED BY <1>1, <1>10, <2>1, <2>3
<1>13. ScoredTo(w, d, e, u, k, m, 2 * k + 2)
  BY <1>2, <1>9, <1>10, KeptOn
<1>14. C!NextMicro(r) /\ UNCHANGED <<cepoch, cweights, cgrad, capplied>>
  BY DEF C!GatherSeq
<1>15. cgrad' = [cgrad EXCEPT ![r] = g]
  BY <1>1, <1>14
<1>16. UNCHANGED <<cepoch, cweights, capplied>>
  BY <1>14
<1>17. C!NextMicro(r)
  BY <1>14
<1> QED BY <1>2, <1>12, <1>13, <1>15, <1>16, <1>17, MovesOn

LEMMA CriticOptimizerMoves ==
  ASSUME NEW w \in Windows, w.critic # NoCritic, ~CriticRefuses(w),
         NEW D, NEW r, NEW d, NEW c, NEW m, NEW e, NEW k, NEW z, NEW t, NEW g, NEW a,
         CriticAt(w, D, r, d, c, m, e, k, z, t, g, a), C!OptimizerStep(r)
  PROVE  CriticMoves(w, D, r)
<1>1. /\ c = "clip" /\ r \in D /\ d = r[1] /\ d \in 1..w.critic.dp /\ MadeIs(cmade, D)
      /\ m = cmade[r]["world"] /\ z = cweights[r] /\ g = cgrad[r] /\ a = capplied[r]
      /\ cepoch = [cepoch EXCEPT ![r] = e] /\ cmicro = [cmicro EXCEPT ![r] = k]
      /\ ctaken = [ctaken EXCEPT ![r] = t] /\ cgrad = [cgrad EXCEPT ![r] = g]
  BY DEF CriticAt, C!OptimizerStep
<1>2. /\ k = 1 /\ RowsFitIn(w, d) /\ Fitting(w, d, e, z, a, g, CriticMicros(w))
      /\ Whole(w, d, t, m) /\ m \in Nat
  BY <1>1 DEF CriticAt, CriticRankIs
<1>3. PICK b : b = Append(a, g)
  OBVIOUS
<1>4. z + 1 = e /\ Fitted(w, d, b, e)
  BY <1>1, <1>2, <1>3, FitStep
<1>5. e \in 1..w.critic.epochs
  BY <1>2 DEF Fitting
<1>6. Whole(w, d, t, m + 1)
  BY <1>2, WholeOn
<1>7. CriticRankIs(w, d, "loss", m + 1, e, k, e, t, g, b)
  BY <1>2, <1>4, <1>5, <1>6 DEF CriticRankIs, CriticCalls
<1>8. cweights' = [cweights EXCEPT ![r] = e] /\ capplied' = [capplied EXCEPT ![r] = b]
  BY <1>1, <1>3, <1>4 DEF C!OptimizerStep
<1>9. UNCHANGED <<cepoch, cmicro, ctaken, cgrad>> /\ C!GoesTo(r, "loss")
  BY DEF C!OptimizerStep
<1>10. Called(D, r, "loss", m + 1)
  BY <1>1, <1>9, GoesOn
<1>11. CriticBecomes(D, r, "loss", m + 1, e, k, e, t, g, b)
  BY <1>1, <1>8, <1>9, <1>10 DEF CriticBecomes
<1> QED BY <1>1, <1>7, <1>11 DEF CriticMoves

LEMMA EndEpochMoves ==
  ASSUME NEW w \in Windows, w.critic # NoCritic, ~CriticRefuses(w), ccfg = w.critic,
         NEW D, NEW r, NEW d, NEW c, NEW m, NEW e, NEW k, NEW z, NEW t, NEW g, NEW a,
         CriticAt(w, D, r, d, c, m, e, k, z, t, g, a), C!EndEpoch(r)
  PROVE  CriticMoves(w, D, r)
<1>1. /\ c = "loss" /\ r \in D /\ d = r[1] /\ d \in 1..w.critic.dp /\ MadeIs(cmade, D)
      /\ m = cmade[r]["world"] /\ e = cepoch[r]
      /\ cmicro = [cmicro EXCEPT ![r] = k] /\ cweights = [cweights EXCEPT ![r] = z]
      /\ ctaken = [ctaken EXCEPT ![r] = t] /\ capplied = [capplied EXCEPT ![r] = a]
  BY DEF CriticAt, C!EndEpoch
<1>2. /\ k = 1 /\ RowsFitIn(w, d) /\ e \in 1..w.critic.epochs /\ z = e
      /\ Fitted(w, d, a, e) /\ Whole(w, d, t, m) /\ m \in Nat
  BY <1>1 DEF CriticAt, CriticRankIs
<1>3. PICK E \in Nat : E = w.critic.epochs
  BY WindowAssumption
<1>4. Whole(w, d, t, m + 1)
  BY <1>2, WholeOn
<1>5. UNCHANGED <<cmicro, cweights, ctaken, capplied>>
  BY DEF C!EndEpoch
<1>6. CASE /\ cepoch[r] < ccfg.epochs
           /\ cepoch' = [cepoch EXCEPT ![r] = @ + 1] /\ C!GoesTo(r, "count")
           /\ cgrad' = [cgrad EXCEPT ![r] = << >>]
  <2>1. PICK n : n = e + 1
    OBVIOUS
  <2>2. n \in 1..w.critic.epochs /\ n # 1 /\ z = n - 1
    BY <1>1, <1>2, <1>3, <1>6, <2>1
  <2>3. Fitted(w, d, a, n - 1)
    BY <1>2, <2>2
  <2>4. Fitting(w, d, n, z, a, << >>, 0)
    BY <1>1, <2>2, <2>3, FitFirst
  <2>5. ScoredTo(w, d, n, t, 0, m + 1, 2)
    BY <1>4, <2>2 DEF ScoredTo
  <2>6. CriticRankIs(w, d, "count", m + 1, n, k, z, t, << >>, a)
    BY <1>2, <2>4, <2>5 DEF CriticRankIs, CriticCalls
  <2>7. Called(D, r, "count", m + 1)
    BY <1>1, <1>6, GoesOn
  <2>8. CriticBecomes(D, r, "count", m + 1, n, k, z, t, << >>, a)
    BY <1>1, <1>5, <1>6, <2>1, <2>7 DEF CriticBecomes
  <2> QED BY <1>1, <2>6, <2>8 DEF CriticMoves
<1>7. CASE /\ cepoch[r] = ccfg.epochs
           /\ UNCHANGED <<cepoch, cgrad>>
           /\ C!GoesTo(r, IF ccfg.due THEN "save" ELSE "collect")
  <2>1. PICK next \in {"save", "collect"} : C!GoesTo(r, next)
    BY <1>7
  <2>2. Fitted(w, d, a, w.critic.epochs)
    BY <1>1, <1>2, <1>7
  <2>3. CriticRankIs(w, d, next, m + 1, e, k, z, t, g, a)
    BY <1>2, <1>4, <2>2 DEF CriticRankIs, CriticCalls
  <2>4. UNCHANGED <<cepoch, cmicro, cweights, ctaken, cgrad, capplied>>
    BY <1>5, <1>7
  <2> QED BY <2>1, <2>3, <2>4, MovesStill
<1> QED BY <1>6, <1>7 DEF C!EndEpoch

(* From the last epoch on.                                                 *)
LEMMA EndingMoves ==
  ASSUME NEW w \in Windows, w.critic # NoCritic, ~CriticRefuses(w),
         NEW D, NEW r, NEW d, NEW c, NEW m, NEW e, NEW k, NEW z, NEW t, NEW g, NEW a,
         CriticAt(w, D, r, d, c, m, e, k, z, t, g, a),
         c \in {"save", "saved", "collect"},
         UNCHANGED <<cepoch, cmicro, cweights, ctaken, cgrad, capplied>>,
         NEW next \in {"saved", "collect", "done", "raised"},
         C!GoesTo(r, next) \/ C!Ends(r, next)
  PROVE  CriticMoves(w, D, r)
<1>1. /\ RowsFitIn(w, d) /\ Fitted(w, d, a, w.critic.epochs) /\ Whole(w, d, t, m) /\ m \in Nat
  BY DEF CriticAt, CriticRankIs
<1>2. Whole(w, d, t, m + 1)
  BY <1>1, WholeOn
<1>3. CriticRankIs(w, d, next, m + 1, e, k, z, t, g, a)
  BY <1>1, <1>2 DEF CriticRankIs, CriticCalls
<1>4. (C!GoesTo(r, next) /\ next \notin {"gather", "segments"}) \/ C!Ends(r, next)
  OBVIOUS
<1> QED BY <1>3, <1>4, MovesStill

LEMMA CriticStep ==
  ASSUME NEW w \in Windows, w.critic # NoCritic, ~CriticRefuses(w),
         batch = w.batch, ccfg = w.critic, cplan = CriticPlan(w),
         NEW D, D = CriticRanks(w), CriticMaps(D), \A q \in D : CriticRank(w, q),
         NEW r \in D, C!CriticRank(r)
  PROVE  CriticMaps(D)' /\ \A q \in D : CriticRank(w, q)'
<1>1. PICK d \in 1..w.critic.dp : d = r[1]
  BY DEF CriticRanks
<1>2. PICK c, m, e, k, z, t, g, a :
        /\ c = ccall[r] /\ m = cmade[r]["world"] /\ e = cepoch[r] /\ k = cmicro[r]
        /\ z = cweights[r] /\ t = ctaken[r] /\ g = cgrad[r] /\ a = capplied[r]
  OBVIOUS
<1>3. CriticAt(w, D, r, d, c, m, e, k, z, t, g, a)
  <2>1. CriticRankIs(w, d, c, m, e, k, z, t, g, a)
    BY <1>1, <1>2 DEF CriticRank
  <2>2. /\ cepoch = [cepoch EXCEPT ![r] = e] /\ cmicro = [cmicro EXCEPT ![r] = k]
        /\ cweights = [cweights EXCEPT ![r] = z] /\ ctaken = [ctaken EXCEPT ![r] = t]
        /\ cgrad = [cgrad EXCEPT ![r] = g] /\ capplied = [capplied EXCEPT ![r] = a]
    BY <1>2, MapKept DEF CriticMaps
  <2> QED BY <1>1, <1>2, <2>1, <2>2 DEF CriticAt, CriticMaps
<1>4. SUFFICES CriticMoves(w, D, r)
  BY CriticBecomesKeeps DEF CriticMoves
<1>5. CASE C!PlanWindow(r)
  BY <1>3, <1>5, PlanWindowMoves
<1>6. CASE C!CountTokens(r)
  BY <1>3, <1>6, CountTokensMoves
<1>7. CASE C!Forward(r)
  BY <1>3, <1>7, CriticForwardMoves
<1>8. CASE C!Backward(r)
  BY <1>3, <1>8, CriticBackwardMoves
<1>9. CASE C!GatherSeq(r)
  BY <1>3, <1>9, GatherSeqMoves
<1>10. CASE C!OptimizerStep(r)
  BY <1>3, <1>10, CriticOptimizerMoves
<1>11. CASE C!EndEpoch(r)
  BY <1>3, <1>11, EndEpochMoves
<1>12. CASE C!Save(r)
  <2>1. c = "save" /\ C!GoesTo(r, "saved")
        /\ UNCHANGED <<cepoch, cmicro, cweights, ctaken, cgrad, capplied>>
    BY <1>2, <1>12 DEF C!Save
  <2> QED BY <1>3, <2>1, EndingMoves
<1>13. CASE C!SaveBarrier(r)
  <2>1. c = "saved" /\ C!GoesTo(r, "collect")
        /\ UNCHANGED <<cepoch, cmicro, cweights, ctaken, cgrad, capplied>>
    BY <1>2, <1>13 DEF C!SaveBarrier
  <2> QED BY <1>3, <2>1, EndingMoves
<1>14. CASE C!Collect(r)
  <2>1. c = "collect" /\ UNCHANGED <<cepoch, cmicro, cweights, ctaken, cgrad, capplied>>
    BY <1>2, <1>14 DEF C!Collect
  <2>2. PICK next \in {"done", "raised"} : C!Ends(r, next)
    BY <1>14 DEF C!Collect
  <2> QED BY <1>3, <2>1, <2>2, EndingMoves
<1> QED BY <1>5, <1>6, <1>7, <1>8, <1>9, <1>10, <1>11, <1>12, <1>13, <1>14 DEF C!CriticRank

(* A rank that has come as far as the collect has kept everything.         *)
LEMMA AllKept ==
  ASSUME NEW w \in Windows, w.critic # NoCritic, ~CriticRefuses(w), NEW d,
         NEW c, NEW m, NEW e, NEW k, NEW z, NEW t, NEW g, NEW a,
         CriticRankIs(w, d, c, m, e, k, z, t, g, a), m >= Later(w)
  PROVE  Keeps(w, d, t, CriticMicros(w)) /\ RowsFitIn(w, d)
<1>1. PICK K \in Nat \ {0} : K = CriticMicros(w)
  BY CriticPlanIs
<1>2. m \in Nat /\ m >= 2 * K + 3
  BY <1>1 DEF CriticRankIs, Later
<1>3. ASSUME NEW j, NEW x \in Nat, ScoredTo(w, d, e, t, j, m, x), x < 2 * K + 3
      PROVE  Whole(w, d, t, m)
  BY <1>2, <1>3 DEF ScoredTo
<1>4. CASE c \in {"broadcast", "raised"}
  <2>1. m # 1 /\ ~(m <= 2)
    BY <1>1, <1>2
  <2> QED BY <2>1, <1>4 DEF CriticRankIs, Whole
<1>5. CASE c = "count"
  <2>1. ScoredTo(w, d, e, t, 0, m, 2) /\ RowsFitIn(w, d)
    BY <1>5 DEF CriticRankIs
  <2>2. PICK x \in Nat : x = 2 /\ x < 2 * K + 3
    BY <1>1
  <2>3. ScoredTo(w, d, e, t, 0, m, x)
    BY <2>1, <2>2
  <2>4. Whole(w, d, t, m)
    BY <2>2, <2>3, <1>3
  <2> QED BY <2>1, <2>4 DEF Whole
<1>6. CASE c \in {"forward", "backward", "gather"}
  <2>1. /\ k \in 1..K /\ RowsFitIn(w, d)
        /\ \/ ScoredTo(w, d, e, t, k - 1, m, 2 * k + 1)
           \/ ScoredTo(w, d, e, t, k - 1, m, 2 * k + 2)
    BY <1>1, <1>6 DEF CriticRankIs
  <2>2. PICK j : j = k - 1
    OBVIOUS
  <2>3. PICK x \in Nat : (x = 2 * k + 1 \/ x = 2 * k + 2) /\ ScoredTo(w, d, e, t, j, m, x)
    BY <2>1, <2>2
  <2>4. x < 2 * K + 3
    BY <2>1, <2>3
  <2>5. Whole(w, d, t, m)
    BY <2>3, <2>4, <1>3
  <2> QED BY <2>1, <2>5 DEF Whole
<1>7. CASE c \in {"clip", "loss", "save", "saved", "collect", "done"}
  BY <1>7 DEF CriticRankIs, Whole
<1>8. c \in CriticCalls
  BY DEF CriticRankIs
<1> QED BY <1>4, <1>5, <1>6, <1>7, <1>8 DEF CriticCalls

(* What is right for a row, and what the first ranks of the shards send.   *)
Right(w, i) ==
  [at |-> i, row |-> i, order |-> [t \in 1..w.batch[i].len |-> t], weights |-> 0]
Sent == UNION {C!Published(<<d, 1>>) : d \in 1..C!Dp}
AllRight(w, all) ==
  /\ \A v \in all : \E i \in 1..Len(w.batch) : v = Right(w, i)
  /\ \A i \in 1..Len(w.batch) : \E v \in all : v = Right(w, i)

LEMMA CutIsIdentity ==
  ASSUME NEW width \in Nat, NEW len \in Nat, len <= width,
         NEW s, s = [t \in 1..width |-> t]
  PROVE  SubSeq(s, 1, len) = [t \in 1..len |-> t]
<1>1. PICK one \in Int : one = 1
  OBVIOUS
<1>2. len \in Int /\ \A i \in one..len : s[i] \in Nat
  BY <1>1
<1>3. PICK z : z = SubSeq(s, one, len)
  OBVIOUS
<1>4. z \in Seq(Nat)
  BY <1>2, <1>3, SubSeqProperties
<1>5. Len(z) = len
  <2>1. Len(z) = IF one <= len THEN len - one + 1 ELSE 0
    BY <1>2, <1>3, SubSeqProperties
  <2> QED BY <2>1, <1>1
<1>6. \A i \in 1..len : z[i] = i
  <2>1. \A i \in 1..len - one + 1 : z[i] = s[one + i - 1]
    BY <1>2, <1>3, SubSeqProperties
  <2> QED BY <2>1, <1>1
<1>7. z = [i \in 1..Len(z) |-> z[i]]
  BY <1>4
<1> QED BY <1>1, <1>3, <1>5, <1>6, <1>7

SendsRight(w, d, r, k, p) ==
  /\ C!ValueOf(r, k, p) = Right(w, CriticLists(w, d)[k][p])
  /\ CriticLists(w, d)[k][p] \in 1..Len(w.batch)

LEMMA ValueOfIs ==
  ASSUME NEW w \in Windows, w.critic # NoCritic, ~CriticRefuses(w),
         batch = w.batch, ccfg = w.critic, cplan = CriticPlan(w),
         NEW d \in 1..w.critic.dp, NEW r, r = <<d, 1>>, NEW k \in 1..CriticMicros(w),
         Keeps(w, d, ctaken[r], CriticMicros(w)), RowsFitIn(w, d),
         NEW p \in 1..Len(CriticLists(w, d)[k])
  PROVE  SendsRight(w, d, r, k, p)
<1>1. CriticShard(w, d)
  BY CriticPlanIs
<1>2. CriticMicroIs(w, d, k) /\ CriticShare(w, d) \subseteq 1..Len(w.batch)
  BY <1>1 DEF CriticShard
<1>3. PICK i : i = CriticLists(w, d)[k][p]
  OBVIOUS
<1>4. i \in 1..Len(w.batch) /\ i \in CriticShare(w, d)
  BY <1>2, <1>3 DEF CriticMicroIs
<1>5. PICK width \in Nat : width = CriticMicro(w, d, k).width
  BY <1>2 DEF CriticMicroIs
<1>6. PICK len \in Nat : len = w.batch[i].len
  BY <1>4, LensAre
<1>7. len <= width
  <2>1. Smaller(Lens(w)[i], w.critic.seqLen) <= width
    BY <1>2, <1>3, <1>5 DEF CriticMicroIs
  <2>2. len <= w.critic.seqLen /\ w.critic.seqLen \in Nat
    BY <1>4, <1>6, WindowAssumption DEF RowsFitIn
  <2>3. Lens(w)[i] = len
    BY <1>4, <1>6, LensAre DEF Lens
  <2> QED BY <2>1, <2>2, <2>3 DEF Smaller
<1>8. ctaken[r][k] = [order |-> [t \in 1..width |-> t], weights |-> 0]
  BY <1>5 DEF Keeps, Kept
<1>9. SubSeq(ctaken[r][k].order, 1, len) = [t \in 1..len |-> t]
  <2>1. PICK s : s = [t \in 1..width |-> t]
    OBVIOUS
  <2>2. SubSeq(s, 1, len) = [t \in 1..len |-> t]
    BY <2>1, <1>7, CutIsIdentity
  <2> QED BY <2>1, <2>2, <1>8
<1>10. C!RowAt(r, C!Micros(r)[k], p) = i
  <2>1. r[1] = d
    OBVIOUS
  <2>2. C!Micros(r)[k] = CriticMicro(w, d, k)
    BY <2>1 DEF C!Micros, CriticMicro, Micro
  <2>3. CriticLists(w, d)[k] = RowList(CriticPlan(w), d, 1, k) /\ p \in DOMAIN CriticMicro(w, d, k).rows
    BY <1>2 DEF CriticMicroIs
  <2>4. i = CriticPlan(w)[d].rows[CriticMicro(w, d, k).rows[p]]
    BY <2>3, <1>3 DEF RowList, CriticMicro
  <2> QED BY <2>1, <2>2, <2>4 DEF C!RowAt, C!Rows
<1>11. C!ValueOf(r, k, p) =
         [at |-> i, row |-> i, order |-> SubSeq(ctaken[r][k].order, 1, batch[i].len),
          weights |-> ctaken[r][k].weights]
  BY <1>10 DEF C!ValueOf, C!PlaceInWindow
<1>12. C!ValueOf(r, k, p) = Right(w, i)
  <2>1. PICK o : o = [t \in 1..len |-> t]
    OBVIOUS
  <2>2. SubSeq(ctaken[r][k].order, 1, batch[i].len) = o
    BY <2>1, <1>6, <1>9
  <2>3. Right(w, i) = [at |-> i, row |-> i, order |-> o, weights |-> 0]
    BY <2>1, <1>6 DEF Right
  <2>4. ctaken[r][k].weights = 0
    BY <1>8
  <2> QED BY <2>2, <2>3, <2>4, <1>11
<1> QED BY <1>3, <1>4, <1>12 DEF SendsRight

LEMMA SharesCover ==
  ASSUME NEW w \in Windows, w.critic # NoCritic, ~CriticRefuses(w)
  PROVE  /\ \A x \in 1..Len(w.batch) : \E d \in 1..w.critic.dp : x \in CriticShare(w, d)
         /\ \A d, e \in 1..w.critic.dp, x \in 1..Len(w.batch) :
              x \in CriticShare(w, d) /\ x \in CriticShare(w, e) => d = e
<1>1. PICK n : n = Len(w.batch)
  OBVIOUS
<1>2. PICK dp : dp = w.critic.dp
  OBVIOUS
<1>3. PICK cfg : cfg = CriticConfig(w)
  OBVIOUS
<1>4. PICK lengths : lengths = Lens(w)
  OBVIOUS
<1>5. Plannable(lengths, n, dp, cfg) /\ MiniCount(n, dp, cfg) = 1
  BY <1>1, <1>2, <1>3, <1>4, CriticPlannable
<1>6. \A d \in 1..dp : CriticShare(w, d) = ShareRows(lengths, dp, cfg, d, 1)
  BY <1>2, <1>3, <1>4 DEF CriticShare
<1>7. ASSUME NEW x \in 1..n PROVE \E d \in 1..dp : x \in CriticShare(w, d)
  <2>1. PICK d \in 1..dp, i \in 1..MiniCount(n, dp, cfg) : x \in ShareRows(lengths, dp, cfg, d, i)
    BY <1>5, SharesSpread
  <2>2. i = 1
    BY <1>5
  <2> QED BY <2>1, <2>2, <1>6
<1>8. ASSUME NEW d \in 1..dp, NEW e \in 1..dp, NEW x \in 1..n,
             x \in CriticShare(w, d), x \in CriticShare(w, e)
      PROVE  d = e
  <2>1. PICK i \in 1..MiniCount(n, dp, cfg) : i = 1
    BY <1>5
  <2>2. x \in ShareRows(lengths, dp, cfg, d, i) /\ x \in ShareRows(lengths, dp, cfg, e, i)
    BY <1>6, <1>8, <2>1
  <2> QED BY <2>2, <1>5, SharesSpread
<1> QED BY <1>1, <1>2, <1>7, <1>8

LEMMA SentIsRight ==
  ASSUME NEW w \in Windows, w.critic # NoCritic, ~CriticRefuses(w),
         batch = w.batch, ccfg = w.critic, cplan = CriticPlan(w),
         \A d \in 1..w.critic.dp :
           Keeps(w, d, ctaken[<<d, 1>>], CriticMicros(w)) /\ RowsFitIn(w, d)
  PROVE  AllRight(w, Sent)
<1>1. PICK K \in Nat \ {0} : K = CriticMicros(w)
  BY CriticPlanIs
<1>2. \A d \in 1..w.critic.dp : CriticShard(w, d)
  BY CriticPlanIs
<1>3. ASSUME NEW d \in 1..w.critic.dp, NEW r, r = <<d, 1>>
      PROVE  /\ \A v \in C!Published(r) : \E i \in 1..Len(w.batch) : v = Right(w, i)
             /\ \A i \in CriticShare(w, d) : Right(w, i) \in C!Published(r)
  <2>1. r[1] = d
    BY <1>3
  <2>2. Len(C!Micros(r)) = K
    BY <1>1, <2>1, CriticMicrosAre
  <2>3. ASSUME NEW k \in 1..K
        PROVE  /\ DOMAIN C!Micros(r)[k].rows = 1..Len(CriticLists(w, d)[k])
               /\ \A p \in 1..Len(CriticLists(w, d)[k]) :
                    /\ C!ValueOf(r, k, p) = Right(w, CriticLists(w, d)[k][p])
                    /\ CriticLists(w, d)[k][p] \in 1..Len(w.batch)
    <3>1. C!Micros(r)[k] = CriticMicro(w, d, k)
      BY <2>1 DEF C!Micros, CriticMicro, Micro
    <3>2. DOMAIN C!Micros(r)[k].rows = 1..Len(CriticLists(w, d)[k])
      <4>1. CriticMicroIs(w, d, k)
        BY <1>1, <1>2 DEF CriticShard
      <4> QED BY <3>1, <4>1 DEF CriticMicroIs
    <3>3. Keeps(w, d, ctaken[r], CriticMicros(w)) /\ RowsFitIn(w, d)
      BY <1>3
    <3>4. ASSUME NEW p \in 1..Len(CriticLists(w, d)[k])
          PROVE  /\ C!ValueOf(r, k, p) = Right(w, CriticLists(w, d)[k][p])
                 /\ CriticLists(w, d)[k][p] \in 1..Len(w.batch)
      <4>1. k \in 1..CriticMicros(w)
        BY <1>1
      <4>2. SendsRight(w, d, r, k, p)
        BY <1>3, <3>3, <4>1, ValueOfIs
      <4> QED BY <4>2 DEF SendsRight
    <3> QED BY <3>2, <3>4
  <2>4. ASSUME NEW v \in C!Published(r) PROVE \E i \in 1..Len(w.batch) : v = Right(w, i)
    <3>1. PICK k \in 1..K : v \in {C!ValueOf(r, k, p) : p \in DOMAIN C!Micros(r)[k].rows}
      BY <2>2 DEF C!Published
    <3>2. PICK p \in DOMAIN C!Micros(r)[k].rows : v = C!ValueOf(r, k, p)
      BY <3>1
    <3> QED BY <3>2, <2>3
  <2>5. ASSUME NEW i \in CriticShare(w, d) PROVE Right(w, i) \in C!Published(r)
    <3>1. Spreads(CriticLists(w, d), K, CriticShare(w, d))
      BY <1>1, <1>2 DEF CriticShard
    <3>2. PICK k \in 1..K : \E q \in 1..Len(CriticLists(w, d)[k]) : CriticLists(w, d)[k][q] = i
      BY <3>1 DEF Spreads
    <3>3. PICK p \in 1..Len(CriticLists(w, d)[k]) : CriticLists(w, d)[k][p] = i
      BY <3>2
    <3>4. p \in DOMAIN C!Micros(r)[k].rows /\ C!ValueOf(r, k, p) = Right(w, i)
      BY <3>3, <2>3
    <3>5. Right(w, i) \in {C!ValueOf(r, k, q) : q \in DOMAIN C!Micros(r)[k].rows}
      BY <3>4
    <3> QED BY <3>5, <2>2 DEF C!Published
  <2> QED BY <2>4, <2>5
<1>4. \A v : v \in Sent <=> \E d \in 1..w.critic.dp : v \in C!Published(<<d, 1>>)
  BY DEF Sent, C!Dp
<1>5. ASSUME NEW v \in Sent PROVE \E i \in 1..Len(w.batch) : v = Right(w, i)
  <2>1. PICK d \in 1..w.critic.dp : v \in C!Published(<<d, 1>>)
    BY <1>4
  <2>2. PICK r : r = <<d, 1>>
    OBVIOUS
  <2> QED BY <2>1, <2>2, <1>3
<1>6. ASSUME NEW i \in 1..Len(w.batch) PROVE \E v \in Sent : v = Right(w, i)
  <2>1. PICK d \in 1..w.critic.dp : i \in CriticShare(w, d)
    BY SharesCover
  <2>2. PICK r : r = <<d, 1>>
    OBVIOUS
  <2>3. Right(w, i) \in C!Published(r)
    BY <2>1, <2>2, <1>3
  <2> QED BY <2>2, <2>3, <1>4
<1> QED BY <1>5, <1>6 DEF AllRight

(* The master has the values of every row when it publishes.               *)
ValuesRight(w) ==
  \A i \in 1..Len(w.batch) :
    /\ values[i].row = i /\ values[i].weights = 0
    /\ values[i].order = [t \in 1..w.batch[i].len |-> t]

LEMMA CollectIsRight ==
  ASSUME NEW w \in Windows, w.critic # NoCritic, ~CriticRefuses(w),
         batch = w.batch, ccfg = w.critic, cplan = CriticPlan(w),
         NEW D, D = CriticRanks(w), MadeIs(cmade, D), \A q \in D : CriticRank(w, q),
         C!Ranks = D, NEW r, r = <<1, 1>>, r \in D, C!Collect(r), w.critic.publish,
         ~C!Ends(r, "raised")
  PROVE  ValuesRight(w)'
<1>1. PICK m : m = cmade[r]["world"]
  OBVIOUS
<1>2. m \in Nat /\ m >= Later(w)
  <2>1. ccall[r] = "collect"
    BY DEF C!Collect
  <2>2. Whole(w, r[1], ctaken[r], m) /\ m \in Nat
    BY <1>1, <2>1 DEF CriticRank, CriticRankIs
  <2> QED BY <2>2 DEF Whole
<1>3. \A q \in D : cmade[q]["world"] >= m /\ cmade[q]["world"] \in Nat
  <2>1. ccall[r] = "collect" /\ C!Returns(r)
    BY DEF C!Collect
  <2>2. C!Group(ccall[r]) = "world"
    BY <2>1 DEF C!Group, C!OnSequence
  <2>3. C!Peers(r, "world") = D
    BY DEF C!Peers
  <2>4. \A q \in D : cmade[q]["world"] > m \/ cmade[q]["world"] = m
    BY <1>1, <2>1, <2>2, <2>3 DEF C!Returns
  <2>5. \A q \in D : cmade[q]["world"] \in Nat
    BY DEF MadeIs
  <2> QED BY <2>4, <2>5, <1>2
<1>4. ASSUME NEW d \in 1..w.critic.dp
      PROVE  Keeps(w, d, ctaken[<<d, 1>>], CriticMicros(w)) /\ RowsFitIn(w, d)
  <2>1. PICK q : q = <<d, 1>>
    OBVIOUS
  <2>2. q \in D /\ q[1] = d
    <3>1. 1 \in 1..w.critic.cp
      BY WindowAssumption
    <3> QED BY <2>1, <3>1 DEF CriticRanks
  <2>3. PICK n : n = cmade[q]["world"]
    OBVIOUS
  <2>4. CriticRankIs(w, d, ccall[q], n, cepoch[q], cmicro[q], cweights[q], ctaken[q],
                     cgrad[q], capplied[q])
    BY <2>2, <2>3 DEF CriticRank
  <2>5. n >= Later(w)
    <3>1. Later(w) \in Nat
      BY CriticPlanIs DEF Later
    <3> QED BY <3>1, <2>2, <2>3, <1>2, <1>3
  <2> QED BY <2>1, <2>4, <2>5, AllKept
<1>5. PICK all : all = Sent
  OBVIOUS
<1>6. AllRight(w, all)
  BY <1>4, <1>5, SentIsRight
<1>7. DOMAIN batch = 1..Len(w.batch) /\ UNCHANGED batch
  BY LensAre DEF C!Collect
<1>8. values' = [i \in 1..Len(w.batch) |-> CHOOSE v \in all : v.at = i]
  <2>1. r = C!MasterRank /\ ccfg.publish
    BY DEF C!MasterRank
  <2>2. values' = [i \in DOMAIN batch |->
          CHOOSE v \in UNION {C!Published(<<d, 1>>) : d \in 1..C!Dp} : v.at = i]
    BY <2>1 DEF C!Collect
  <2>3. values' = [i \in DOMAIN batch |-> CHOOSE v \in all : v.at = i]
    BY <2>2, <1>5 DEF Sent
  <2> QED BY <2>3, <1>7
<1>9. ASSUME NEW i \in 1..Len(w.batch) PROVE values'[i] = Right(w, i)
  <2>1. PICK v : v = CHOOSE u \in all : u.at = i
    OBVIOUS
  <2>2. \E u \in all : u.at = i
    BY <1>6 DEF AllRight, Right
  <2>3. v \in all /\ v.at = i
    BY <2>1, <2>2
  <2>4. PICK j \in 1..Len(w.batch) : v = Right(w, j)
    BY <2>3, <1>6 DEF AllRight
  <2>5. j = i
    BY <2>3, <2>4 DEF Right
  <2> QED BY <1>8, <2>1, <2>4, <2>5
<1>10. \A i \in 1..Len(w.batch) :
         /\ values'[i].row = i /\ values'[i].weights = 0
         /\ values'[i].order = [t \in 1..w.batch[i].len |-> t]
  <2>1. ASSUME NEW i \in 1..Len(w.batch)
        PROVE  /\ values'[i].row = i /\ values'[i].weights = 0
               /\ values'[i].order = [t \in 1..w.batch[i].len |-> t]
    <3>1. PICK o : o = [t \in 1..w.batch[i].len |-> t]
      OBVIOUS
    <3>2. values'[i] = [at |-> i, row |-> i, order |-> o, weights |-> 0]
      BY <3>1, <1>9 DEF Right
    <3> QED BY <3>1, <3>2
  <2> QED BY <2>1
<1> QED BY <1>10 DEF ValuesRight

(* What the critic is at every moment.                                     *)
CriticInv ==
  \E w \in Windows :
    /\ batch = w.batch /\ ccfg = w.critic /\ tcfg = w.trainer
    /\ w.critic # NoCritic =>
         /\ CriticMaps(CriticRanks(w))
         /\ CriticRefuses(w) => \A r \in CriticRanks(w) : ccall[r] \in {"broadcast", "raised"}
         /\ ~CriticRefuses(w) =>
              /\ cplan = CriticPlan(w) /\ \A r \in CriticRanks(w) : CriticRank(w, r)
              /\ w.critic.publish /\ ccall[<<1, 1>>] = "done" => ValuesRight(w)

LEMMA CriticOf ==
  ASSUME NEW w \in Windows, w.critic # NoCritic, batch = w.batch, ccfg = w.critic
  PROVE  /\ C!Ranks = CriticRanks(w) /\ C!Lengths = Lens(w)
         /\ C!Refused(C!Lengths, C!Dp) <=> CriticRefuses(w)
         /\ C!BuildPlan(C!Lengths, C!Dp, C!WindowConfig) = CriticPlan(w)
         /\ <<1, 1>> \in CriticRanks(w)
<1>1. C!Ranks = CriticRanks(w)
  BY DEF C!Ranks, C!Dp, C!Cp, CriticRanks
<1>2. C!Lengths = Lens(w)
  BY DEF C!Lengths, Lens
<1>3. C!Refused(C!Lengths, C!Dp) <=> CriticRefuses(w)
  <2>1. C!Refused(C!Lengths, C!Dp) <=> (Lens(w) = << >> \/ Len(Lens(w)) % w.critic.dp # 0)
    BY <1>2 DEF C!Refused, C!Dp
  <2>2. Len(Lens(w)) = Len(w.batch) /\ (Lens(w) = << >> <=> w.batch = << >>)
    BY LensAre
  <2> QED BY <2>1, <2>2 DEF CriticRefuses
<1>4. C!WindowConfig = CriticConfig(w)
  <2>1. \A S : C!Max(S) = Max(S)
    BY DEF C!Max, Max
  <2>2. C!Max({1, Len(batch) \div C!Dp}) = Max({1, Len(w.batch) \div w.critic.dp})
    BY <2>1 DEF C!Dp
  <2> QED BY <2>2 DEF C!WindowConfig, CriticConfig
<1>5. C!BuildPlan(C!Lengths, C!Dp, C!WindowConfig) = CriticPlan(w)
  BY <1>2, <1>4, SamePlanC DEF CriticPlan, C!Dp
<1>6. <<1, 1>> \in CriticRanks(w)
  <2>1. 1 \in 1..w.critic.dp /\ 1 \in 1..w.critic.cp
    BY WindowAssumption
  <2> QED BY <2>1 DEF CriticRanks
<1> QED BY <1>1, <1>2, <1>3, <1>5, <1>6

LEMMA CriticStarts ==
  Init => CriticInv
<1> SUFFICES ASSUME Init PROVE CriticInv
  OBVIOUS
<1>1. PICK w \in Windows : batch = w.batch /\ ccfg = w.critic /\ tcfg = w.trainer
  BY DEF Init
<1>2. CASE w.critic = NoCritic
  BY <1>1, <1>2 DEF CriticInv
<1>3. CASE w.critic # NoCritic
  <2>1. C!CriticInit
    BY <1>1, <1>3 DEF Init, HasCritic
  <2>2. PICK D : D = CriticRanks(w)
    OBVIOUS
  <2>3. C!Ranks = D /\ (C!Refused(C!Lengths, C!Dp) <=> CriticRefuses(w))
        /\ C!BuildPlan(C!Lengths, C!Dp, C!WindowConfig) = CriticPlan(w)
        /\ <<1, 1>> \in D
    BY <1>1, <1>3, <2>2, CriticOf
  <2>4. /\ ccall = [r \in D |-> "broadcast"]
        /\ cepoch = [r \in D |-> 1] /\ cmicro = [r \in D |-> 1]
        /\ cweights = [r \in D |-> 0] /\ ctaken = [r \in D |-> << >>]
        /\ cgrad = [r \in D |-> << >>] /\ capplied = [r \in D |-> << >>]
    BY <2>1, <2>3 DEF C!CriticInit, C!AllIn
  <2>5. MadeIs(cmade, D) /\ \A q \in D : cmade[q]["world"] = 1
    <3>1. PICK f : f = [x \in Groups |-> IF x = C!Group("broadcast") THEN 1 ELSE 0]
      OBVIOUS
    <3>2. cmade = [q \in D |-> f]
      BY <2>1, <2>3, <3>1 DEF C!CriticInit, C!AllIn, Groups
    <3>3. C!Group("broadcast") = "world"
      BY DEF C!Group, C!OnSequence
    <3>4. IsMap(f, Groups) /\ f["world"] = 1
      BY <3>1, <3>3 DEF IsMap, Groups
    <3>5. IsMap(cmade, D) /\ \A q \in D : cmade[q] = f
      BY <3>2 DEF IsMap
    <3> QED BY <3>4, <3>5 DEF MadeIs
  <2>6. CriticMaps(D)
    BY <2>4, <2>5 DEF CriticMaps, IsMap
  <2>7. ~CriticRefuses(w) => cplan = CriticPlan(w)
    BY <2>1, <2>3 DEF C!CriticInit
  <2>8. \A q \in D : ccall[q] = "broadcast" /\ CriticRank(w, q)
    BY <2>4, <2>5 DEF CriticRank, CriticRankIs, CriticCalls
  <2>9. ccall[<<1, 1>>] # "done"
    BY <2>3, <2>8
  <2> QED BY <1>1, <1>3, <2>2, <2>6, <2>7, <2>8, <2>9 DEF CriticInv
<1> QED BY <1>2, <1>3

(* Only the master's collect publishes, and it makes no call after it.     *)
LEMMA ValuesStay ==
  ASSUME NEW r, C!CriticRank(r), NEW D, MadeIs(cmade, D), IsMap(ccall, D), r \in D,
         <<1, 1>> \in D
  PROVE  /\ UNCHANGED cplan
         /\ ccall[<<1, 1>>] = "done" => UNCHANGED values /\ ccall'[<<1, 1>>] = "done"
         /\ ccall'[<<1, 1>>] = "done" /\ ccall[<<1, 1>>] # "done" =>
              r = <<1, 1>> /\ C!Collect(r) /\ ~C!Ends(r, "raised")
<1>1. UNCHANGED cplan
  BY DEF C!CriticRank, C!PlanWindow, C!CountTokens, C!Forward, C!Backward, C!GatherSeq,
         C!OptimizerStep, C!EndEpoch, C!Save, C!SaveBarrier, C!Collect
<1>2. PICK c : ccall' = [ccall EXCEPT ![r] = c] /\ (c = "done" => C!Collect(r))
  BY DEF C!CriticRank, C!PlanWindow, C!CountTokens, C!Forward, C!Backward, C!GatherSeq,
         C!OptimizerStep, C!EndEpoch, C!Save, C!SaveBarrier, C!Collect, C!NextMicro,
         C!GoesTo, C!Ends
<1>3. ccall[r] # "done" /\ (values' # values => C!Collect(r) /\ r = <<1, 1>>)
  BY DEF C!CriticRank, C!PlanWindow, C!CountTokens, C!Forward, C!Backward, C!GatherSeq,
         C!OptimizerStep, C!EndEpoch, C!Save, C!SaveBarrier, C!Collect, C!MasterRank
<1>4. Changed(ccall, ccall', D, r, c)
  <2>1. Excepts(ccall, ccall', r, c)
    BY <1>2 DEF Excepts
  <2> QED BY <2>1, ExceptIs
<1>5. ASSUME ccall[<<1, 1>>] = "done"
      PROVE  UNCHANGED values /\ ccall'[<<1, 1>>] = "done"
  BY <1>3, <1>4, <1>5 DEF Changed
<1>6. ASSUME ccall'[<<1, 1>>] = "done", ccall[<<1, 1>>] # "done"
      PROVE  r = <<1, 1>> /\ C!Collect(r) /\ ~C!Ends(r, "raised")
  <2>1. r = <<1, 1>> /\ c = "done"
    BY <1>4, <1>6 DEF Changed
  <2>2. ~C!Ends(r, "raised")
    <3>1. ASSUME C!Ends(r, "raised") PROVE FALSE
      <4>1. ccall' = [ccall EXCEPT ![r] = "raised"]
        BY <3>1 DEF C!Ends
      <4>2. Excepts(ccall, ccall', r, "raised")
        BY <4>1 DEF Excepts
      <4>3. Changed(ccall, ccall', D, r, "raised")
        BY <4>2, ExceptIs
      <4> QED BY <4>3, <1>4, <2>1 DEF Changed
    <3> QED BY <3>1
  <2> QED BY <1>2, <2>1, <2>2
<1> QED BY <1>1, <1>5, <1>6

LEMMA CriticRefusing ==
  ASSUME NEW w \in Windows, w.critic # NoCritic, batch = w.batch, ccfg = w.critic, CriticRefuses(w),
         NEW D, D = CriticRanks(w), CriticMaps(D),
         \A q \in D : ccall[q] \in {"broadcast", "raised"},
         NEW r \in D, C!CriticRank(r)
  PROVE  CriticMaps(D)' /\ \A q \in D : ccall'[q] \in {"broadcast", "raised"}
<1>1. ccall[r] \in {"broadcast", "raised"}
  OBVIOUS
<1>2. C!PlanWindow(r)
  BY <1>1 DEF C!CriticRank, C!CountTokens, C!Forward, C!Backward, C!GatherSeq,
       C!OptimizerStep, C!EndEpoch, C!Save, C!SaveBarrier, C!Collect
<1>3. C!Refused(C!Lengths, C!Dp)
  BY CriticOf
<1>4. C!Ends(r, "raised")
  BY <1>2, <1>3 DEF C!PlanWindow
<1>5. Called(D, r, "raised", cmade[r]["world"] + 1)
  BY <1>4, GoesOn DEF CriticMaps
<1>6. Changed(ccall, ccall', D, r, "raised") /\ MadeIs(cmade', D)
  <2>1. IsMap(ccall, D) /\ Excepts(ccall, ccall', r, "raised")
    BY <1>5 DEF CriticMaps, Excepts, Called
  <2> QED BY <2>1, <1>5, ExceptIs DEF Called, MovesTo
<1>7. UNCHANGED <<cepoch, cmicro, cweights, ctaken, cgrad, capplied>>
  BY <1>2 DEF C!PlanWindow
<1>8. MadeIs(cmade, D)'
  BY <1>6 DEF MadeIs, IsMap
<1>9. CriticMaps(D)'
  BY <1>6, <1>7, <1>8 DEF CriticMaps, Changed, IsMap
<1>10. ASSUME NEW q \in D PROVE ccall'[q] \in {"broadcast", "raised"}
  BY <1>6 DEF Changed
<1> QED BY <1>9, <1>10

LEMMA CriticKept ==
  CriticInv /\ [Next]_vars => CriticInv'
<1> SUFFICES ASSUME CriticInv, [Next]_vars PROVE CriticInv'
  OBVIOUS
<1>1. PICK w \in Windows :
        /\ batch = w.batch /\ ccfg = w.critic /\ tcfg = w.trainer
        /\ w.critic # NoCritic =>
             /\ CriticMaps(CriticRanks(w))
             /\ CriticRefuses(w) =>
                  \A r \in CriticRanks(w) : ccall[r] \in {"broadcast", "raised"}
             /\ ~CriticRefuses(w) =>
                  /\ cplan = CriticPlan(w) /\ \A r \in CriticRanks(w) : CriticRank(w, r)
                  /\ w.critic.publish /\ ccall[<<1, 1>>] = "done" => ValuesRight(w)
  BY DEF CriticInv
<1>2. PICK D : D = CriticRanks(w)
  OBVIOUS
<1>3. CASE UNCHANGED <<batch, values, tcfg, cvars>>
  <2>1. UNCHANGED <<batch, values, tcfg, ccfg, ccall, cmade, cplan, cepoch, cmicro, cweights,
                    ctaken, cgrad, capplied>>
    BY <1>3 DEF cvars
  <2>2. CriticMaps(D) => CriticMaps(D)'
    <3>1. MadeIs(cmade, D) => MadeIs(cmade, D)'
      BY <2>1 DEF MadeIs, IsMap
    <3> QED BY <2>1, <3>1 DEF CriticMaps, IsMap
  <2>3. \A r \in D : CriticRank(w, r) => CriticRank(w, r)'
    BY <2>1 DEF CriticRank
  <2>4. ValuesRight(w) => ValuesRight(w)'
    BY <2>1 DEF ValuesRight
  <2> QED BY <1>1, <1>2, <2>1, <2>2, <2>3, <2>4 DEF CriticInv
<1>4. CASE \E r \in AllRanks : TrainerRuns(r)
  <2>1. PICK r \in AllRanks : TrainerRuns(r)
    BY <1>4
  <2>2. T!TrainRank(r) /\ UNCHANGED <<cvars, values>>
    BY <2>1 DEF TrainerRuns
  <2>3. UNCHANGED <<batch, tcfg>>
    BY <2>2, TrainerLeaves
  <2> QED BY <1>3, <2>2, <2>3
<1>5. CASE \E r \in AllRanks : CriticRuns(r)
  <2>1. PICK r \in AllRanks : CriticRuns(r)
    BY <1>5
  <2>2. w.critic # NoCritic /\ r \in C!Ranks /\ C!CriticRank(r) /\ UNCHANGED tcfg
    BY <1>1, <2>1 DEF CriticRuns, HasCritic, tvars
  <2>3. C!Ranks = D /\ r \in D /\ <<1, 1>> \in D
    BY <1>1, <1>2, <2>2, CriticOf
  <2>4. UNCHANGED <<batch, ccfg>>
    BY <2>2, CriticLeaves
  <2>5. CriticMaps(D) /\ MadeIs(cmade, D) /\ IsMap(ccall, D)
    BY <1>1, <1>2, <2>2 DEF CriticMaps
  <2>6. CASE CriticRefuses(w)
    <3>1. CriticMaps(D)' /\ \A q \in D : ccall'[q] \in {"broadcast", "raised"}
      BY <1>1, <1>2, <2>2, <2>3, <2>5, <2>6, CriticRefusing
    <3> QED BY <1>1, <1>2, <2>2, <2>4, <2>6, <3>1 DEF CriticInv
  <2>7. CASE ~CriticRefuses(w)
    <3>1. /\ cplan = CriticPlan(w) /\ \A q \in D : CriticRank(w, q)
          /\ w.critic.publish /\ ccall[<<1, 1>>] = "done" => ValuesRight(w)
      BY <1>1, <1>2, <2>2, <2>7
    <3>2. CriticMaps(D)' /\ \A q \in D : CriticRank(w, q)'
      BY <1>1, <1>2, <2>2, <2>3, <2>5, <2>7, <3>1, CriticStep
    <3>3. /\ UNCHANGED cplan
          /\ ccall[<<1, 1>>] = "done" => UNCHANGED values /\ ccall'[<<1, 1>>] = "done"
          /\ ccall'[<<1, 1>>] = "done" /\ ccall[<<1, 1>>] # "done" =>
               r = <<1, 1>> /\ C!Collect(r) /\ ~C!Ends(r, "raised")
      BY <2>2, <2>3, <2>5, ValuesStay
    <3>4. ASSUME w.critic.publish, ccall'[<<1, 1>>] = "done" PROVE ValuesRight(w)'
      <4>1. CASE ccall[<<1, 1>>] = "done"
        <5>1. ValuesRight(w) /\ UNCHANGED values
          BY <3>1, <3>3, <3>4, <4>1
        <5> QED BY <5>1 DEF ValuesRight
      <4>2. CASE ccall[<<1, 1>>] # "done"
        <5>1. r = <<1, 1>> /\ C!Collect(r) /\ ~C!Ends(r, "raised")
          BY <3>3, <3>4, <4>2
        <5> QED BY <5>1, <1>1, <1>2, <2>2, <2>3, <2>5, <2>7, <3>1, <3>4, CollectIsRight
      <4> QED BY <4>1, <4>2
    <3>5. cplan' = CriticPlan(w)
      BY <3>1, <3>3
    <3> QED BY <1>1, <1>2, <2>2, <2>4, <2>7, <3>2, <3>4, <3>5 DEF CriticInv
  <2> QED BY <2>6, <2>7
<1>6. CASE UNCHANGED vars
  BY <1>3, <1>6 DEF vars, cvars, tvars
<1> QED BY <1>4, <1>5, <1>6 DEF Next

(* The end of a window.  What rank <<d, c>> had contributed to epoch k.    *)
FitBy(d, c, k) == capplied[<<d, c>>][k]
FittedAt(w) ==
  \A d \in 1..w.critic.dp, c \in 1..w.critic.cp, k \in 1..w.critic.epochs :
    Enters(FitBy(d, c, k), CriticShare(w, d), CriticTerms(w, k))

LEMMA CriticDone ==
  ASSUME CriticInv, HasCritic, C!Done
  PROVE  \E w \in Windows :
           /\ w.critic # NoCritic /\ batch = w.batch /\ ccfg = w.critic
           /\ ~CriticRefuses(w) /\ FittedAt(w)
           /\ w.critic.publish => ValuesRight(w)
<1>1. PICK w \in Windows :
        /\ batch = w.batch /\ ccfg = w.critic /\ w.critic # NoCritic
        /\ CriticRefuses(w) => \A r \in CriticRanks(w) : ccall[r] \in {"broadcast", "raised"}
        /\ ~CriticRefuses(w) =>
             /\ cplan = CriticPlan(w) /\ \A r \in CriticRanks(w) : CriticRank(w, r)
             /\ w.critic.publish /\ ccall[<<1, 1>>] = "done" => ValuesRight(w)
  BY DEF CriticInv, HasCritic
<1>2. (\A r \in CriticRanks(w) : ccall[r] = "done") /\ <<1, 1>> \in CriticRanks(w)
  BY <1>1, CriticOf DEF C!Done
<1>3. ~CriticRefuses(w)
  <2>1. ccall[<<1, 1>>] = "done"
    BY <1>2
  <2> QED BY <1>1, <1>2, <2>1
<1>4. ASSUME NEW d \in 1..w.critic.dp, NEW c \in 1..w.critic.cp, NEW k \in 1..w.critic.epochs
      PROVE  Enters(FitBy(d, c, k), CriticShare(w, d), CriticTerms(w, k))
  <2>1. PICK r : r = <<d, c>>
    OBVIOUS
  <2>2. r \in CriticRanks(w) /\ r[1] = d
    BY <2>1 DEF CriticRanks
  <2>3. Fitted(w, d, capplied[r], w.critic.epochs)
    BY <1>1, <1>2, <1>3, <2>2 DEF CriticRank, CriticRankIs
  <2> QED BY <2>1, <2>3 DEF Fitted, FitBy
<1> QED BY <1>1, <1>2, <1>3, <1>4 DEF FittedAt

LEMMA EntriesAre ==
  ASSUME NEW w \in Windows, ccfg = w.critic, FittedAt(w),
         NEW c \in 1..w.critic.cp, NEW k \in 1..w.critic.epochs
  PROVE  /\ \A e \in C!Entries(k, c) :
              /\ e = <<e[1], e[2]>> /\ e[1] \in 1..w.critic.dp
              /\ e[2] \in 1..Len(FitBy(e[1], c, k))
         /\ \A d \in 1..w.critic.dp : \A p \in 1..Len(FitBy(d, c, k)) :
              <<d, p>> \in C!Entries(k, c)
<1>1. ASSUME NEW d \in 1..w.critic.dp
      PROVE  DOMAIN FitBy(d, c, k) = 1..Len(FitBy(d, c, k))
  <2>1. PICK g, X, V : g = FitBy(d, c, k) /\ Enters(g, X, V)
    BY DEF FittedAt
  <2>2. g \in [1..Len(g) -> V]
    BY <2>1 DEF Enters
  <2> QED BY <2>1, <2>2
<1>2. \A e : e \in C!Entries(k, c) <=>
               \E d \in 1..w.critic.dp : e \in {<<d, p>> : p \in DOMAIN FitBy(d, c, k)}
  BY DEF C!Entries, C!Dp, FitBy
<1>3. ASSUME NEW e \in C!Entries(k, c)
      PROVE  /\ e = <<e[1], e[2]>> /\ e[1] \in 1..w.critic.dp
             /\ e[2] \in 1..Len(FitBy(e[1], c, k))
  <2>1. PICK d \in 1..w.critic.dp : e \in {<<d, p>> : p \in DOMAIN FitBy(d, c, k)}
    BY <1>2
  <2>2. PICK p \in DOMAIN FitBy(d, c, k) : e = <<d, p>>
    BY <2>1
  <2>3. e[1] = d /\ e[2] = p
    BY <2>2
  <2> QED BY <2>2, <2>3, <1>1
<1>4. ASSUME NEW d \in 1..w.critic.dp, NEW p \in 1..Len(FitBy(d, c, k))
      PROVE  <<d, p>> \in C!Entries(k, c)
  <2>1. p \in DOMAIN FitBy(d, c, k)
    BY <1>1
  <2>2. <<d, p>> \in {<<d, x>> : x \in DOMAIN FitBy(d, c, k)}
    BY <2>1
  <2> QED BY <2>2, <1>2
<1> QED BY <1>3, <1>4

(* A term of an epoch: its target is the return of the row's own turns.    *)
LEMMA TargetIs ==
  ASSUME NEW w \in Windows, batch = w.batch, NEW k, NEW term \in CriticTerms(w, k),
         NEW row, row = batch[term.row], NEW S, S = term.width
  PROVE  C!Target(term) = C!ByTurn(C!Rewards(row, row.len, S), 1, C!Mask(row, row.len), S)
<1>1. term.row \in 1..Len(w.batch) /\ S \in Nat /\ row.len <= S
  BY DEF CriticTerms
<1>2. row.reward \in Int
  BY <1>1, LensAre
<1>3. PICK L \in Nat : L = row.len
  BY <1>1, LensAre
<1>4. L <= S
  BY <1>1, <1>3
<1>5. TurnReturns(row, L, S) = ByTurn(Rewards(row, L, S), 1, Mask(row, L), S)
  BY <1>1, <1>2, <1>4, TurnReturnsByTurn
<1>6. C!Target(term) = TurnReturns(row, L, S)
  BY <1>3, SameReturnsC DEF C!Target
<1>7. C!ByTurn(C!Rewards(row, L, S), 1, C!Mask(row, L), S) =
        ByTurn(Rewards(row, L, S), 1, Mask(row, L), S)
  BY SameByTurnC, SameRewardsC, SameMaskC
<1> QED BY <1>3, <1>5, <1>6, <1>7

(* The entries of an epoch are the rows of the window, one for one.        *)
EntryRow(k, c) == [e \in C!Entries(k, c) |-> FitBy(e[1], c, k)[e[2]].row]

LEMMA EntryRowIs ==
  ASSUME NEW w \in Windows, w.critic # NoCritic, ~CriticRefuses(w), ccfg = w.critic, FittedAt(w),
         NEW c \in 1..w.critic.cp, NEW k \in 1..w.critic.epochs,
         NEW E, E = C!Entries(k, c), NEW f, f = EntryRow(k, c),
         NEW n \in Nat, n = Len(w.batch)
  PROVE  /\ f \in [E -> 1..n]
         /\ \A e, x \in E : f[e] = f[x] => e = x
         /\ \A i \in 1..n : \E e \in E : f[e] = i
<1>1. /\ \A e \in E : /\ e = <<e[1], e[2]>> /\ e[1] \in 1..w.critic.dp
                      /\ e[2] \in 1..Len(FitBy(e[1], c, k))
      /\ \A d \in 1..w.critic.dp : \A p \in 1..Len(FitBy(d, c, k)) : <<d, p>> \in E
  BY EntriesAre
<1>2. ASSUME NEW d \in 1..w.critic.dp, NEW g, g = FitBy(d, c, k)
      PROVE  /\ \A p, q \in 1..Len(g) : g[p].row = g[q].row => p = q
             /\ \A p \in 1..Len(g) : g[p].row \in CriticShare(w, d)
             /\ \A x \in CriticShare(w, d) : \E p \in 1..Len(g) : g[p].row = x
  BY <1>2 DEF FittedAt, Enters
<1>3. \A d \in 1..w.critic.dp : CriticShare(w, d) \subseteq 1..n
  BY CriticPlanIs DEF CriticShard
<1>4. ASSUME NEW e \in E
      PROVE  f[e] = FitBy(e[1], c, k)[e[2]].row /\ f[e] \in CriticShare(w, e[1]) /\ f[e] \in 1..n
  <2>1. f[e] = FitBy(e[1], c, k)[e[2]].row
    BY DEF EntryRow
  <2>2. PICK g : g = FitBy(e[1], c, k)
    OBVIOUS
  <2>3. g[e[2]].row \in CriticShare(w, e[1])
    BY <1>1, <1>2, <2>2
  <2> QED BY <2>1, <2>2, <2>3, <1>1, <1>3
<1>5. f \in [E -> 1..n]
  <2>1. f = [e \in E |-> f[e]]
    BY DEF EntryRow
  <2> QED BY <2>1, <1>4
<1>6. ASSUME NEW e \in E, NEW x \in E, f[e] = f[x] PROVE e = x
  <2>1. e[1] = x[1]
    BY <1>1, <1>4, <1>6, SharesCover
  <2>2. PICK d \in 1..w.critic.dp : d = e[1]
    BY <1>1
  <2>3. PICK g : g = FitBy(d, c, k)
    OBVIOUS
  <2>4. e[2] \in 1..Len(g) /\ x[2] \in 1..Len(g) /\ g[e[2]].row = g[x[2]].row
    BY <1>1, <1>4, <1>6, <2>1, <2>2, <2>3
  <2>5. e[2] = x[2]
    BY <1>2, <2>3, <2>4
  <2> QED BY <1>1, <2>1, <2>5
<1>7. ASSUME NEW i \in 1..n PROVE \E e \in E : f[e] = i
  <2>1. PICK d \in 1..w.critic.dp : i \in CriticShare(w, d)
    BY SharesCover
  <2>2. PICK g : g = FitBy(d, c, k)
    OBVIOUS
  <2>3. PICK p \in 1..Len(g) : g[p].row = i
    BY <1>2, <2>1, <2>2
  <2>4. PICK e : e = <<d, p>>
    OBVIOUS
  <2>5. e \in E /\ e[1] = d /\ e[2] = p
    BY <1>1, <2>2, <2>4
  <2> QED BY <1>4, <2>2, <2>3, <2>5
<1> QED BY <1>5, <1>6, <1>7

TermFits(k, term) ==
  /\ term.weights = k - 1
  /\ C!Target(term) =
       C!ByTurn(C!Rewards(batch[term.row], batch[term.row].len, term.width), 1,
                C!Mask(batch[term.row], batch[term.row].len), term.width)

LEMMA FitsEveryEpoch ==
  ASSUME NEW w \in Windows, w.critic # NoCritic, ~CriticRefuses(w),
         batch = w.batch, ccfg = w.critic, FittedAt(w)
  PROVE  C!FittedEveryEpoch
<1>1. PICK n \in Nat : n = Len(w.batch)
  BY LensAre
<1>2. DOMAIN batch = 1..n /\ Len(batch) = n
  BY <1>1, LensAre
<1>3. ASSUME NEW c \in 1..w.critic.cp, NEW k \in 1..w.critic.epochs
      PROVE  /\ \A e \in C!Entries(k, c) : capplied[<<e[1], c>>][k][e[2]] \in CriticTerms(w, k)
             /\ Cardinality(C!Entries(k, c)) = n
             /\ {capplied[<<e[1], c>>][k][e[2]].row : e \in C!Entries(k, c)} = 1..n
  <2>1. PICK E : E = C!Entries(k, c)
    OBVIOUS
  <2>2. PICK f : f = EntryRow(k, c)
    OBVIOUS
  <2>3. /\ f \in [E -> 1..n]
        /\ \A e, x \in E : f[e] = f[x] => e = x
        /\ \A i \in 1..n : \E e \in E : f[e] = i
    BY <1>1, <2>1, <2>2, EntryRowIs
  <2>4. ASSUME NEW e \in E PROVE capplied[<<e[1], c>>][k][e[2]] \in CriticTerms(w, k)
    <3>1. e[1] \in 1..w.critic.dp /\ e[2] \in 1..Len(FitBy(e[1], c, k))
      BY <2>1, EntriesAre
    <3>2. PICK g : g = FitBy(e[1], c, k)
      OBVIOUS
    <3>3. g \in [1..Len(g) -> CriticTerms(w, k)]
      BY <3>1, <3>2 DEF FittedAt, Enters
    <3>4. g[e[2]] \in CriticTerms(w, k)
      BY <3>1, <3>2, <3>3
    <3> QED BY <3>2, <3>4 DEF FitBy
  <2>5. Cardinality(E) = n
    <3>1. IsFiniteSet(1..n) /\ Cardinality(1..n) = n
      BY CountTo
    <3>2. f \in Injection(E, 1..n) /\ f \in Surjection(E, 1..n)
      BY <2>3 DEF Injection, Surjection, IsInjective
    <3> QED BY <3>1, <3>2, FS_Injection
  <2>6. {capplied[<<e[1], c>>][k][e[2]].row : e \in E} = 1..n
    <3>1. \A e \in E : f[e] = capplied[<<e[1], c>>][k][e[2]].row
      BY <2>1, <2>2 DEF EntryRow, FitBy
    <3>2. {f[e] : e \in E} = 1..n
      BY <2>3
    <3> QED BY <3>1, <3>2
  <2> QED BY <2>1, <2>4, <2>5, <2>6
<1>4. ASSUME NEW c \in 1..C!Cp, NEW k \in 1..ccfg.epochs
      PROVE  /\ \A e \in C!Entries(k, c) :
                  LET term == capplied[<<e[1], c>>][k][e[2]]
                      row == batch[term.row]
                      S == term.width
                  IN  /\ term.weights = k - 1
                      /\ C!Target(term) =
                           C!ByTurn(C!Rewards(row, row.len, S), 1, C!Mask(row, row.len), S)
             /\ C!Cardinality(C!Entries(k, c)) = Len(batch)
             /\ {capplied[<<e[1], c>>][k][e[2]].row : e \in C!Entries(k, c)} = DOMAIN batch
  <2>1. c \in 1..w.critic.cp /\ k \in 1..w.critic.epochs
    BY DEF C!Cp
  <2>2. ASSUME NEW e \in C!Entries(k, c) PROVE TermFits(k, capplied[<<e[1], c>>][k][e[2]])
    <3>1. PICK term \in CriticTerms(w, k) : term = capplied[<<e[1], c>>][k][e[2]]
      BY <1>3, <2>1
    <3>2. term.weights = k - 1
      BY <3>1 DEF CriticTerms
    <3>3. PICK row, S : row = batch[term.row] /\ S = term.width
      OBVIOUS
    <3>4. C!Target(term) =
            C!ByTurn(C!Rewards(row, row.len, S), 1, C!Mask(row, row.len), S)
      BY <3>3, TargetIs
    <3> QED BY <3>1, <3>2, <3>3, <3>4 DEF TermFits
  <2>3. C!Cardinality(C!Entries(k, c)) = Len(batch)
    BY <1>2, <1>3, <2>1, SameCardinalityC
  <2>4. {capplied[<<e[1], c>>][k][e[2]].row : e \in C!Entries(k, c)} = DOMAIN batch
    BY <1>2, <1>3, <2>1
  <2>5. \A e \in C!Entries(k, c) : TermFits(k, capplied[<<e[1], c>>][k][e[2]])
    BY <2>2
  <2> QED BY <2>3, <2>4, <2>5 DEF TermFits
<1> QED BY <1>4 DEF C!FittedEveryEpoch

(* ValuesInPlace: whatever the rows, the critic's settings and the number  *)
(* of ranks, a window that is through has fitted every row once in every   *)
(* epoch, against the return of its own turns, and what the master         *)
(* publishes for a row is that row's values, of every position and in the  *)
(* order of time, by the weights from before the window.                   *)
THEOREM ValuesComeBack == FairSpec => []ValuesInPlace
<1>1. CriticInv => ValuesInPlace
  <2> SUFFICES ASSUME CriticInv, HasCritic, C!Done
               PROVE  /\ C!FittedEveryEpoch
                      /\ ccfg.publish => \A i \in DOMAIN batch :
                           /\ values[i].row = i /\ values[i].weights = 0
                           /\ values[i].order = [t \in 1..batch[i].len |-> t]
    BY DEF ValuesInPlace, C!ValuesInPlace
  <2>1. PICK w \in Windows :
          /\ w.critic # NoCritic /\ batch = w.batch /\ ccfg = w.critic
          /\ ~CriticRefuses(w) /\ FittedAt(w)
          /\ w.critic.publish => ValuesRight(w)
    BY CriticDone
  <2>2. C!FittedEveryEpoch
    BY <2>1, FitsEveryEpoch
  <2>3. DOMAIN batch = 1..Len(w.batch)
    BY <2>1, LensAre
  <2> QED BY <2>1, <2>2, <2>3 DEF ValuesRight
<1> QED BY <1>1, CriticStarts, CriticKept, PTL DEF FairSpec
=============================================================================
