----------------------------- MODULE CriticStep -----------------------------
(***************************************************************************)
(* One window of the critic, on all of its ranks: score_and_train plans the*)
(* broadcast rows with the trainer's planner (one mini-batch, the whole of *)
(* a shard), fits the value net in one optimizer step an epoch, keeps the  *)
(* values of the first epoch's forwards and brings them to the master under*)
(* the rows' places in the window.                                         *)
(*                                                                         *)
(* cfg is the critic's configuration, besides dp and cp:                   *)
(*   seqLen, align, budget, rows   of the planner                          *)
(*   epochs   value_epochs      publish   the window is not of the cold    *)
(*   due      it ends on a checkpoint     start                            *)
(***************************************************************************)
EXTENDS Collectives, BatchPlan, Credit

CONSTANT NoValues

VARIABLES
  batch,
  plan,      \* the plan, by shard: what each rank computes for itself
  epoch, micro,
  weights,   \* the optimizer steps a rank has taken
  taken,     \* the values it has kept, by micro-batch
  grad,      \* what it has contributed to the gradient since zero_grad
  applied,   \* what it had contributed to each optimizer step
  values     \* what the master returns for the rows

criticvars == <<batch, cfg, plan, epoch, micro, weights, taken, grad, applied,
                values, call, made>>

Lengths == [i \in DOMAIN batch |-> batch[i].len]
WindowConfig ==
  [layout |-> "padded", mini |-> Max({1, Len(batch) \div Dp}),
   seqLen |-> cfg.seqLen, align |-> cfg.align, budget |-> cfg.budget,
   rows |-> IF cfg.budget = 0 THEN cfg.rows ELSE 0]

(* The rows have been broadcast.  The plan depends on nothing else, and is *)
(* the same on every rank.                                                 *)
CriticInit ==
  /\ plan = IF Refused(Lengths, Dp) THEN << >> ELSE BuildPlan(Lengths, Dp, WindowConfig)
  /\ epoch = [r \in Ranks |-> 1] /\ micro = [r \in Ranks |-> 1]
  /\ weights = [r \in Ranks |-> 0] /\ taken = [r \in Ranks |-> << >>]
  /\ grad = [r \in Ranks |-> << >>] /\ applied = [r \in Ranks |-> << >>]
  /\ values = NoValues
  /\ AllIn("broadcast")

Rows(r) == plan[r[1]].rows
Micros(r) == plan[r[1]].minis[1].micros
Current(r) == Micros(r)[micro[r]]
RowAt(r, m, p) == Rows(r)[m.rows[p]]

(* make_batch cannot lay out a row that is longer than the model's         *)
(* sequence, or one without a response.                                    *)
Fits(i) == batch[i].len <= cfg.seqLen /\ batch[i].response # {}

(* The rows have come: plan them and lay them out.                         *)
PlanWindow(r) ==
  /\ call[r] = "broadcast" /\ Returns(r)
  /\ IF Refused(Lengths, Dp) \/ (\E p \in DOMAIN Rows(r) : ~Fits(Rows(r)[p]))
     THEN Ends(r, "raised") ELSE GoesTo(r, "count")
  /\ UNCHANGED <<batch, cfg, plan, epoch, micro, weights, taken, grad, applied, values>>

(* The tokens that carry loss, over all ranks.                             *)
CountTokens(r) ==
  /\ call[r] = "count" /\ Returns(r)
  /\ GoesTo(r, "forward")
  /\ UNCHANGED <<batch, cfg, plan, epoch, micro, weights, taken, grad, applied, values>>

Forward(r) ==
  /\ call[r] = "forward" /\ Returns(r)
  /\ GoesTo(r, "backward")
  /\ UNCHANGED <<batch, cfg, plan, epoch, micro, weights, taken, grad, applied, values>>

NextMicro(r) ==
  IF micro[r] < Len(Micros(r))
  THEN micro' = [micro EXCEPT ![r] = @ + 1] /\ GoesTo(r, "forward")
  ELSE micro' = [micro EXCEPT ![r] = 1] /\ GoesTo(r, "clip")

(* What each row of the micro-batch adds to the gradient: the distance of  *)
(* its values to its target, in the micro-batch's width.                   *)
Target(term) == TurnReturns(batch[term.row], batch[term.row].len, term.width)
Contribution(r) ==
  LET m == Current(r)
  IN  [p \in DOMAIN m.rows |->
         [row |-> RowAt(r, m, p), weights |-> weights[r], width |-> m.width]]

Backward(r) ==
  /\ call[r] = "backward" /\ Returns(r)
  /\ grad' = [grad EXCEPT ![r] = @ \o Contribution(r)]
  /\ IF epoch[r] = 1 /\ Cp > 1
     THEN GoesTo(r, "gather") /\ UNCHANGED <<micro, taken>>
     ELSE /\ NextMicro(r)
          /\ taken' = IF epoch[r] = 1
                      THEN [taken EXCEPT ![r] = Append(@,
                              [order |-> [t \in 1..Current(r).width |-> t],
                               weights |-> weights[r]])]
                      ELSE taken
  /\ UNCHANGED <<batch, cfg, plan, epoch, weights, applied, values>>

(* Context parallelism cuts a row into twice as many chunks as ranks and   *)
(* gives rank c the c-th from either end.                                  *)
Shard(c, width) ==
  LET chunk == width \div (2 * Cp)
      From(k) == [j \in 1..chunk |-> (k - 1) * chunk + j]
  IN  From(c) \o From(2 * Cp + 1 - c)
Rearranged(width) ==
  LET joined[c \in 0..Cp] == IF c = 0 THEN << >> ELSE joined[c - 1] \o Shard(c, width)
  IN  joined[Cp]

(* The way back: where each position of the row is in the rearranged one.  *)
RestoreForward(order, t) == order[t]  \* (mutant) the wrong way round
Restore(order, t) == CHOOSE j \in DOMAIN order : order[j] = t

GatherSeq(r) ==
  /\ call[r] = "gather" /\ Returns(r)
  /\ LET order == Rearranged(Current(r).width)
     IN  taken' = [taken EXCEPT ![r] = Append(@,
           [order |-> [t \in DOMAIN order |-> order[Restore(order, t)]],
            weights |-> weights[r]])]
  /\ NextMicro(r)
  /\ UNCHANGED <<batch, cfg, plan, epoch, weights, grad, applied, values>>

OptimizerStep(r) ==
  /\ call[r] = "clip" /\ Returns(r)
  /\ weights' = [weights EXCEPT ![r] = @ + 1]
  /\ applied' = [applied EXCEPT ![r] = Append(@, grad[r])]
  /\ GoesTo(r, "loss")
  /\ UNCHANGED <<batch, cfg, plan, epoch, micro, taken, grad, values>>

(* The loss is summed: the next epoch, or the checkpoint if it is due.     *)
EndEpoch(r) ==
  /\ call[r] = "loss" /\ Returns(r)
  /\ \/ /\ epoch[r] < cfg.epochs
        /\ epoch' = [epoch EXCEPT ![r] = @ + 1] /\ GoesTo(r, "count")
        /\ grad' = [grad EXCEPT ![r] = << >>]
     \/ /\ epoch[r] = cfg.epochs
        /\ UNCHANGED <<epoch, grad>>
        /\ GoesTo(r, IF cfg.due THEN "save" ELSE "collect")
  /\ UNCHANGED <<batch, cfg, plan, micro, weights, taken, applied, values>>

(* The collective save is through.                                         *)
Save(r) ==
  /\ call[r] = "save" /\ Returns(r)
  /\ GoesTo(r, "saved")
  /\ UNCHANGED <<batch, cfg, plan, epoch, micro, weights, taken, grad, applied, values>>

SaveBarrier(r) ==
  /\ call[r] = "saved" /\ Returns(r)
  /\ GoesTo(r, "collect")
  /\ UNCHANGED <<batch, cfg, plan, epoch, micro, weights, taken, grad, applied, values>>

(* The place in the window of the p-th row of a micro-batch.               *)
PlaceInWindow(r, m, p) == RowAt(r, m, p)

(* The values of a rank's rows, each cut to its row's length.              *)
ValueOf(r, k, p) ==
  LET m == Micros(r)[k]
  IN  [at |-> PlaceInWindow(r, m, p), row |-> RowAt(r, m, p),
       order |-> SubSeq(taken[r][k].order, 1, batch[RowAt(r, m, p)].len),
       weights |-> taken[r][k].weights]
Published(r) ==
  UNION {{ValueOf(r, k, p) : p \in DOMAIN Micros(r)[k].rows} : k \in 1..Len(Micros(r))}

(* One rank of each shard has sent its values to the master, who refuses   *)
(* to go on when rows are missing.                                         *)
Collect(r) ==
  /\ call[r] = "collect" /\ Returns(r)
  /\ LET all == UNION {Published(<<d, 1>>) : d \in 1..Dp}
         at == {v.at : v \in all}
     IN  IF r # MasterRank \/ ~cfg.publish THEN Ends(r, "done") /\ UNCHANGED values
         ELSE IF Cardinality(at) # Len(batch) THEN Ends(r, "raised") /\ UNCHANGED values
         ELSE /\ Ends(r, "done")
              /\ values' = [i \in DOMAIN batch |-> CHOOSE v \in all : v.at = i]
  /\ UNCHANGED <<batch, cfg, plan, epoch, micro, weights, taken, grad, applied>>

CriticRank(r) ==
  \/ PlanWindow(r) \/ CountTokens(r) \/ Forward(r) \/ Backward(r) \/ GatherSeq(r)
  \/ OptimizerStep(r) \/ EndEpoch(r) \/ Save(r) \/ SaveBarrier(r) \/ Collect(r)

-----------------------------------------------------------------------------
(* The properties.                                                         *)

Done == \A r \in Ranks : call[r] = "done"
Entries(k, c) == UNION {{<<d, p>> : p \in DOMAIN applied[<<d, c>>][k]} : d \in 1..Dp}

FittedEveryEpoch ==
  \A c \in 1..Cp, k \in 1..cfg.epochs :
    /\ \A e \in Entries(k, c) :
         LET term == applied[<<e[1], c>>][k][e[2]]
             row == batch[term.row]
             S == term.width
         IN  /\ term.weights = k - 1
             /\ Target(term) = ByTurn(Rewards(row, row.len, S), 1, Mask(row, row.len), S)
    /\ Cardinality(Entries(k, c)) = Len(batch)
    /\ {applied[<<e[1], c>>][k][e[2]].row : e \in Entries(k, c)} = DOMAIN batch

(* When a window is through, every epoch has fitted every row once, against*)
(* the return of its own turns, and what is published for a row is that    *)
(* row's values: of every one of its positions, in the order of time, and  *)
(* of the weights before the window's own update.                          *)
ValuesInPlace ==
  Done => /\ FittedEveryEpoch
          /\ cfg.publish => \A i \in DOMAIN batch :
               /\ values[i].row = i /\ values[i].weights = 0
               /\ values[i].order = [t \in 1..batch[i].len |-> t]
=============================================================================
