------------------------------- MODULE Credit -------------------------------
(***************************************************************************)
(* Returns and advantages of one row, as gae.py computes them: a backward  *)
(* recursion over the row in closed form, with two sums and no loop.       *)
(*                                                                         *)
(* A row is [len, response, reward]: response is the set of its assistant  *)
(* tokens.  Everything is on the next-token grid, where position t is the  *)
(* state that emits token t + 1.  A decay is 1 / Den; amounts are in units *)
(* of Den^(-S) over S positions, so that every sum here is a sum of        *)
(* integers.  The value that the critic gives position t of row i stands   *)
(* for its number in Value.                                                *)
(***************************************************************************)
EXTENDS Integers, Sequences, FiniteSets, FiniteSetsExt, Sums

Value(i, t) == (3 * i + t * t) % 5

(* The mask of the first L tokens, shifted, and the position of the reward:*)
(* the state before the last response token.  One that starts a row has no *)
(* state before it.                                                        *)
Mask(row, L) == {t \in 1..(L - 1) : t + 1 \in row.response}
Rewarded(row, L) ==
  IF Mask(row, L) = {} THEN {} ELSE {Max(Mask(row, L))}
Rewards(row, L, S) ==
  [t \in 1..S |-> IF t \in Rewarded(row, L) THEN row.reward ELSE 0]

(* Position t + 1 continues the episode that t is in.                      *)
Continues(mask, t) == t \in mask /\ t + 1 \in mask

(* The run of linked positions around t: where it starts and ends.         *)
RunStart(mask, t) ==
  Max({0} \cup {s \in 1..t : s \in mask /\ ~(s > 1 /\ Continues(mask, s - 1))})
RunEnd(mask, t, S) ==
  Min({S + 1} \cup {e \in t..S : e \in mask /\ ~Continues(mask, e)})

(* The closed form: weights Den^-(t - start), sums of the weighted terms to*)
(* the end of the row, and the difference of two of them over the weight.  *)
ReverseScan(x, Den, mask, S) ==
  LET j(t) == IF t > RunStart(mask, t) THEN t - RunStart(mask, t) ELSE 0
      term(t) == IF t \in mask THEN x[t] * Power(Den, S - j(t)) ELSE 0
      suffix(t) == Total([k \in 1..(S + 1 - t) |-> term(S + 1 - k)])
      after(t) == Min({RunEnd(mask, t, S) + 1, S + 1})
  IN [t \in 1..S |->
        IF t \in mask THEN (suffix(t) - suffix(after(t))) * Power(Den, j(t)) ELSE 0]

(* compute_returns without discount: the target of the value net.          *)
TurnReturns(row, L, S) == ReverseScan(Rewards(row, L, S), 1, Mask(row, L), S)

(* compute_vapo_gae for row i: the residual r + V' - V, V' zero where the  *)
(* episode ends, accumulated with the decay 1 / Den.                       *)
Residual(i, row, L, S) ==
  LET V(t) == IF t <= L THEN Value(i, t) ELSE 0
      next(t) == IF Continues(Mask(row, L), t) THEN V(t + 1) ELSE 0
  IN [t \in 1..S |-> Rewards(row, L, S)[t] + next(t) - V(t)]
Advantage(i, row, L, S, Den) ==
  ReverseScan(Residual(i, row, L, S), Den, Mask(row, L), S)

-----------------------------------------------------------------------------
(* What it stands for, turn by turn: what a position gains is the decayed  *)
(* sum over what is left of its own turn, and nothing outside a response.  *)
TurnAfter(mask, t, S) == {k \in t..S : t..k \subseteq mask}
ByTurn(x, Den, mask, S) ==
  [t \in 1..S |->
     Total([k \in 1..Cardinality(TurnAfter(mask, t, S)) |->
              x[t + k - 1] * Power(Den, S - (k - 1))])]
=============================================================================
