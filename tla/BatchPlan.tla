----------------------------- MODULE BatchPlan -----------------------------
(***************************************************************************)
(* build_plan: which rows of a batch each data-parallel rank trains on, in *)
(* which mini-batch (one optimizer step each) and in which micro-batch (one*)
(* forward and backward each).  A pure function of the rows' lengths that  *)
(* every rank computes for itself on the broadcast batch.                  *)
(*                                                                         *)
(* cfg is a PlannerConfig: layout, mini (mini_batch_size), seqLen, align,  *)
(* budget (max_tokens_per_micro, 0 for None), rows (micro_batch_size).     *)
(* Rows, ranks, bins and positions count from 1.                           *)
(***************************************************************************)
EXTENDS Integers, Sequences, FiniteSets, FiniteSetsExt, Sums

RoundUp(x, align) == ((x + align - 1) \div align) * align
Smaller(x, y) == IF x < y THEN x ELSE y

(* What build_plan refuses.                                                *)
Refused(lengths, dp) == lengths = << >> \/ Len(lengths) % dp # 0

(* Indices of len, longest first, the lower index first among equals.      *)
Longest(items, len) == Min({p \in items : \A q \in items : len[q] <= len[p]})
Descending(items, len) ==
  LET order[n \in 0..Cardinality(items)] ==
        IF n = 0 THEN << >>
        ELSE LET sofar == order[n - 1]
             IN  Append(sofar, Longest(items \ Range(sofar), len))
  IN  order[Cardinality(items)]

(* Deal the items to bins back and forth: in round r bin b is served       *)
(* forwards when r is odd and backwards when it is even.                   *)
Dealt(r, b, bins) == (r - 1) * bins + IF r % 2 = 1 THEN b ELSE bins + 1 - b
Snake(order, bins) ==
  [b \in 1..bins |->
     LET rounds == {r \in 1..Len(order) : Dealt(r, b, bins) <= Len(order)}
     IN [r \in 1..Cardinality(rounds) |-> order[Dealt(r, b, bins)]]]

(* An open micro-batch: its rows and the width of a row (padded) or the    *)
(* tokens so far (packed).  A token budget makes the row cap moot.         *)
Width(L, cfg) == IF cfg.layout = "padded" THEN RoundUp(L, cfg.align) ELSE L
Cost(m, L, cfg) ==
  IF cfg.layout = "padded" THEN (Len(m.rows) + 1) * m.width
                           ELSE RoundUp(m.width + L, cfg.align)
Takes(m, L, cfg) ==
  IF cfg.budget = 0 THEN Len(m.rows) < cfg.rows ELSE Cost(m, L, cfg) <= cfg.budget

(* The first open micro-batch that takes row p, or a new one: a row that   *)
(* exceeds the budget alone gets one to itself.                            *)
Place(micros, p, len, cfg) ==
  LET open == {i \in DOMAIN micros : Takes(micros[i], len[p], cfg)}
      grown(m) == [rows |-> Append(m.rows, p),
                   width |-> IF cfg.layout = "padded" THEN m.width
                                                      ELSE m.width + len[p]]
  IN IF open = {}
     THEN Append(micros, [rows |-> <<p>>, width |-> Width(len[p], cfg)])
     ELSE [micros EXCEPT ![Min(open)] = grown(@)]

(* The micro-batches after each row of the order.                          *)
Packed(order, len, cfg) ==
  LET packed[n \in 0..Len(order)] ==
        IF n = 0 THEN << >> ELSE Place(packed[n - 1], order[n], len, cfg)
  IN  packed
PackMicros(members, len, cfg) ==
  LET order == Descending(Range(members), len)
      packed == Packed(order, len, cfg)[Len(order)]
  IN [i \in DOMAIN packed |->
        [packed[i] EXCEPT !.width = RoundUp(@, cfg.align)]]

Filler(cfg) == [rows |-> << >>, width |-> cfg.align]
IsFiller(m) == m.rows = << >>

(* The members of every mini-batch of every rank, as positions in the      *)
(* rank's own list, and that list as rows of the batch.                    *)
LocalRows(lengths, dp, cfg) ==
  Snake(Descending(DOMAIN lengths,
                   [i \in DOMAIN lengths |-> Smaller(lengths[i], cfg.seqLen)]), dp)
Members(lengths, dp, cfg) ==
  LET local == Len(lengths) \div dp
      minis == (local + cfg.mini - 1) \div cfg.mini
      rows == LocalRows(lengths, dp, cfg)
  IN [d \in 1..dp |->
        Snake(Descending(1..local,
                [p \in 1..local |-> Smaller(lengths[rows[d][p]], cfg.seqLen)]), minis)]

UnequalMicros(minis, d, i, cfg) == minis[d][i]  \* (mutant) no filler
(* Every rank runs as many micro-batches of mini-batch i as the rank with  *)
(* the most.                                                               *)
EqualMicros(minis, d, i, cfg) ==
  LET most == Max({Len(minis[q][i]) : q \in DOMAIN minis})
  IN minis[d][i] \o [k \in 1..(most - Len(minis[d][i])) |-> Filler(cfg)]

LocalDocs(members, i, d) == Len(members[d][i])  \* (mutant) this rank's rows only
(* The denominator of a mini-batch's loss: its rows over every rank.       *)
GlobalDocs(members, i, d) ==
  Total([q \in DOMAIN members |-> Len(members[q][i])])

(* What rank d runs: its rows of the batch and its mini-batches.           *)
BuildPlan(lengths, dp, cfg) ==
  LET rows == LocalRows(lengths, dp, cfg)
      members == Members(lengths, dp, cfg)
      len(d) == [p \in DOMAIN rows[d] |-> Smaller(lengths[rows[d][p]], cfg.seqLen)]
      minis == [d \in 1..dp |->
                  [i \in DOMAIN members[d] |-> PackMicros(members[d][i], len(d), cfg)]]
  IN [d \in 1..dp |->
        [rows |-> rows[d],
         minis |-> [i \in DOMAIN minis[d] |->
                      [micros |-> EqualMicros(minis, d, i, cfg),
                       docs |-> GlobalDocs(members, i, d)]]]]
=============================================================================
