----------------------------- MODULE TrainStep -----------------------------
(***************************************************************************)
(* One step of the actor's trainer, on all of its ranks: the engine's step *)
(* and the train_step of TitanTrainer.  Every rank plans the broadcast     *)
(* batch for itself and then runs through its mini- and micro-batches; only*)
(* the order of its collective calls ties it to the others.                *)
(*                                                                         *)
(* An action is what a rank does between the return of one call and the    *)
(* next call.  batch is the sequence of rows, values what the critic has   *)
(* written for each row (the version of V and the positions, in order), cfg*)
(* the trainer's configuration, besides dp and cp:                         *)
(*   plan    the PlannerConfig     old    old_logprobs_source              *)
(*   gae     enable_gae            whiten normalize_advantages             *)
(*   den     1 / (1 - gae_lambda)  sync   the chunk ends a batch           *)
(* den is 2 or 1: lambda is 1/2, or the decay is left out.                 *)
(***************************************************************************)
EXTENDS Collectives, BatchPlan, Credit

CONSTANT NoValues

VARIABLES
  batch, values,
  plan,     \* the plan, by shard: what each rank computes for itself
  mini,     \* its current mini-batch
  micro,    \* and micro-batch
  old,      \* the weights behind each old log-prob it has computed
  weights,  \* the optimizer steps it has taken
  grad,     \* what it has contributed to the gradient since zero_grad
  applied,  \* what it had contributed to each optimizer step
  step      \* its own step counter, and its learning rate's

trainvars == <<batch, cfg, values, plan, mini, micro, old, weights, grad,
               applied, step, call, made>>

Rollout == -1   \* the rollout's log-probs, for the version of the weights

Lengths == [i \in DOMAIN batch |-> batch[i].len]
Truncated(i) == Smaller(batch[i].len, cfg.plan.seqLen)

(* The rows have been broadcast.  The plan depends on nothing else, and is *)
(* the same on every rank.                                                 *)
TrainInit ==
  /\ plan = IF Refused(Lengths, Dp) THEN << >> ELSE BuildPlan(Lengths, Dp, cfg.plan)
  /\ mini = [r \in Ranks |-> 1] /\ micro = [r \in Ranks |-> 1]
  /\ old = [r \in Ranks |-> << >>]
  /\ weights = [r \in Ranks |-> 0] /\ step = [r \in Ranks |-> 0]
  /\ grad = [r \in Ranks |-> << >>] /\ applied = [r \in Ranks |-> << >>]
  /\ AllIn("broadcast")

Rows(r) == plan[r[1]].rows
Minis(r) == plan[r[1]].minis
Micros(r, i) == Minis(r)[i].micros
Current(r) == Micros(r, mini[r])[micro[r]]
MoreMicros(r) == micro[r] < Len(Micros(r, mini[r]))
MoreMinis(r) == mini[r] < Len(Minis(r))
At(r, i, k) ==
  mini' = [mini EXCEPT ![r] = i] /\ micro' = [micro EXCEPT ![r] = k]

FirstPass == IF cfg.old = "train" THEN "logprobs" ELSE "forward"

(* The advantages need a value for every position that is trained.         *)
ValuesFit(rows) ==
  \A p \in DOMAIN rows :
    LET i == rows[p] IN
    /\ values # NoValues
    /\ Len(values[i].order) >= Truncated(i)

(* The widest row of a shard is the width of its block of values; the      *)
(* advantages of a row are taken in it.                                    *)
Block(r) == Max({Truncated(Rows(r)[p]) : p \in DOMAIN Rows(r)})
AdvantageOf(r, i) == Advantage(i, batch[i], Truncated(i), Block(r), cfg.den)

(* The batch has come: plan it, and turn values into advantages.           *)
PlanBatch(r) ==
  /\ call[r] = "broadcast" /\ Returns(r)
  /\ IF Refused(Lengths, Dp) \/ (cfg.gae /\ ~ValuesFit(Rows(r))) THEN Ends(r, "raised")
     ELSE GoesTo(r, IF cfg.gae /\ cfg.whiten THEN "whiten" ELSE FirstPass)
  /\ UNCHANGED <<batch, cfg, values, plan, mini, micro, old, weights, grad,
                 applied, step>>

(* The sums over all the advantages of the batch are there.                *)
Whiten(r) ==
  /\ call[r] = "whiten" /\ Returns(r)
  /\ GoesTo(r, FirstPass)
  /\ UNCHANGED <<batch, cfg, values, plan, mini, micro, old, weights, grad,
                 applied, step>>

(* One forward of the pass without gradients, over every micro-batch of    *)
(* every mini-batch before the first optimizer step.                       *)
OldLogprobs(r) ==
  /\ call[r] = "logprobs" /\ Returns(r)
  /\ old' = [old EXCEPT ![r] = Append(@, weights[r])]
  /\ \/ MoreMicros(r) /\ At(r, mini[r], micro[r] + 1) /\ GoesTo(r, "logprobs")
     \/ ~MoreMicros(r) /\ MoreMinis(r) /\ At(r, mini[r] + 1, 1)
          /\ GoesTo(r, "logprobs")
     \/ ~MoreMicros(r) /\ ~MoreMinis(r) /\ At(r, 1, 1) /\ GoesTo(r, "forward")
  /\ UNCHANGED <<batch, cfg, values, plan, weights, grad, applied, step>>

(* The loss counts the tokens of each row over the ranks that share it.    *)
Forward(r) ==
  /\ call[r] = "forward" /\ Returns(r)
  /\ GoesTo(r, IF Cp > 1 THEN "segments" ELSE "backward")
  /\ UNCHANGED <<batch, cfg, values, plan, mini, micro, old, weights, grad,
                 applied, step>>

Segments(r) ==
  /\ call[r] = "segments" /\ Returns(r)
  /\ GoesTo(r, "backward")
  /\ UNCHANGED <<batch, cfg, values, plan, mini, micro, old, weights, grad,
                 applied, step>>

(* How many micro-batches precede the current one in the plan.             *)
Preceding(r) ==
  Total([i \in 1..(mini[r] - 1) |-> Len(Micros(r, i))]) + micro[r]

(* What each row of the micro-batch adds to the gradient: its loss, over   *)
(* the rows of the mini-batch, against the old policy.                     *)
Contribution(r) ==
  LET m == Current(r)
  IN  [p \in DOMAIN m.rows |->
         [row |-> Rows(r)[m.rows[p]],
          docs |-> Minis(r)[mini[r]].docs,
          old |-> IF cfg.old = "train" THEN old[r][Preceding(r)] ELSE Rollout,
          weights |-> weights[r]]]

Backward(r) ==
  /\ call[r] = "backward" /\ Returns(r)
  /\ grad' = [grad EXCEPT ![r] = @ \o Contribution(r)]
  /\ \/ MoreMicros(r) /\ At(r, mini[r], micro[r] + 1) /\ GoesTo(r, "forward")
     \/ ~MoreMicros(r) /\ GoesTo(r, "clip") /\ UNCHANGED <<mini, micro>>
  /\ UNCHANGED <<batch, cfg, values, plan, old, weights, applied, step>>

(* The gradients of all ranks are summed and clipped: step the optimizer.  *)
OptimizerStep(r) ==
  /\ call[r] = "clip" /\ Returns(r)
  /\ weights' = [weights EXCEPT ![r] = @ + 1]
  /\ applied' = [applied EXCEPT ![r] = Append(@, grad[r])]
  /\ GoesTo(r, "metrics")
  /\ UNCHANGED <<batch, cfg, values, plan, mini, micro, old, grad, step>>

(* To the next mini-batch, or out of the step: a chunk that does not close *)
(* its batch leaves the counter and the learning rate alone.               *)
ReduceMetrics(r) ==
  /\ call[r] = "metrics" /\ Returns(r)
  /\ \/ /\ MoreMinis(r)
        /\ At(r, mini[r] + 1, 1)
        /\ grad' = [grad EXCEPT ![r] = << >>]
        /\ GoesTo(r, "forward") /\ UNCHANGED step
     \/ /\ ~MoreMinis(r)
        /\ step' = [step EXCEPT ![r] = IF cfg.sync THEN @ + 1 ELSE @]
        /\ GoesTo(r, "barrier") /\ UNCHANGED <<mini, micro, grad>>
  /\ UNCHANGED <<batch, cfg, values, plan, old, weights, applied>>

(* A chunk ends here; a batch goes on to export the weights.               *)
Barrier(r) ==
  /\ call[r] = "barrier" /\ Returns(r)
  /\ IF cfg.sync THEN GoesTo(r, "export") ELSE Ends(r, "done")
  /\ UNCHANGED <<batch, cfg, values, plan, mini, micro, old, weights, grad,
                 applied, step>>

Export(r) ==
  /\ call[r] = "export" /\ Returns(r)
  /\ Ends(r, "done")
  /\ UNCHANGED <<batch, cfg, values, plan, mini, micro, old, weights, grad,
                 applied, step>>

TrainRank(r) ==
  \/ PlanBatch(r) \/ Whiten(r) \/ OldLogprobs(r) \/ Forward(r) \/ Segments(r)
  \/ Backward(r) \/ OptimizerStep(r) \/ ReduceMetrics(r) \/ Barrier(r) \/ Export(r)

-----------------------------------------------------------------------------
(* The properties.                                                         *)

Done == \A r \in Ranks : call[r] = "done"
StepsTaken == 1..Len(applied[MasterRank])

(* What the k-th optimizer step sums, along context-parallel rank c.       *)
Summed(k, c) ==
  {<<d, p>> : d \in 1..Dp, p \in 1..Len(batch)} \cap
  UNION {{<<d, p>> : p \in DOMAIN applied[<<d, c>>][k]} : d \in 1..Dp}
Term(k, c, e) == applied[<<e[1], c>>][k][e[2]]

OncePerRow ==
  \A c \in 1..Cp, i \in DOMAIN batch :
    Cardinality({u \in StepsTaken \X ((1..Dp) \X (1..Len(batch))) :
                   u[2] \in Summed(u[1], c) /\ Term(u[1], c, u[2]).row = i}) = 1
TrueMean ==
  \A c \in 1..Cp, k \in StepsTaken :
    \A e \in Summed(k, c) : Term(k, c, e).docs = Cardinality(Summed(k, c))
OldPolicyIsOld ==
  \A c \in 1..Cp, k \in StepsTaken :
    \A e \in Summed(k, c) :
      /\ Term(k, c, e).weights = k - 1
      /\ Term(k, c, e).old \in {0, Rollout}
CreditStaysInTurn ==
  cfg.gae => \A r \in Ranks : \A p \in DOMAIN Rows(r) :
    LET i == Rows(r)[p]
    IN  AdvantageOf(r, i) =
          ByTurn(Residual(i, batch[i], Truncated(i), Block(r)), cfg.den,
                 Mask(batch[i], Truncated(i)), Block(r))

(* When a step is through, every row of the batch has entered one optimizer*)
(* step, once; the step was the mean over exactly the rows it summed on all*)
(* ranks; the old policy is that of before the first step; and the         *)
(* advantages credit each position for the rest of its own turn.           *)
EveryRowTrainedOnce ==
  Done => OncePerRow /\ TrueMean /\ OldPolicyIsOld /\ CreditStaysInTurn
=============================================================================
