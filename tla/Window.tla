------------------------------- MODULE Window -------------------------------
(***************************************************************************)
(* A window of rows on the cards: the critic's ranks score and fit it, and *)
(* when the values have been written to its rows the trainer's ranks take a*)
(* step on them.  Without a critic the trainer's step is all there is; a   *)
(* window of the critic's cold start publishes nothing and reaches no      *)
(* trainer.                                                                *)
(***************************************************************************)
EXTENDS Integers, Sequences, FiniteSets

CONSTANTS
  Windows,    \* what is tried: the rows, and the critic's and trainer's settings
  NoCritic,   \* a critic's settings when there is none
  NoValues,   \* nothing has been published for the rows
  AllRanks    \* as many ranks as any of them needs

(* Rows as the worker sends them, and settings as the services take them:  *)
(* a trainer's and a critic's planner are positive, a widths' multiple is  *)
(* one of what context parallelism cuts a row into, and a window is fitted *)
(* for one epoch at least.                                                 *)
ASSUME WindowAssumption ==
  \A w \in Windows :
    /\ w.batch \in Seq([len : Nat, response : SUBSET Nat, reward : Int])
    /\ w.trainer.dp \in Nat \ {0} /\ w.trainer.cp \in Nat \ {0}
    /\ w.trainer.plan.mini \in Nat \ {0} /\ w.trainer.plan.align \in Nat \ {0}
    /\ w.trainer.plan.seqLen \in Nat /\ w.trainer.den \in Nat \ {0}
    /\ w.critic # NoCritic =>
         /\ w.critic.dp \in Nat \ {0} /\ w.critic.cp \in Nat \ {0}
         /\ w.critic.align \in Nat \ {0} /\ w.critic.seqLen \in Nat
         /\ w.critic.cp > 1 => w.critic.align % (2 * w.critic.cp) = 0
         /\ w.critic.epochs \in Nat \ {0}

VARIABLES
  batch,      \* the rows of the window
  values,     \* what the critic has published for them
  ccfg, ccall, cmade, cplan, cepoch, cmicro, cweights, ctaken, cgrad, capplied,
  tcfg, tcall, tmade, tplan, tmini, tmicro, told, tweights, tgrad, tapplied, tstep

C == INSTANCE CriticStep WITH
       cfg <- ccfg, call <- ccall, made <- cmade, plan <- cplan, epoch <- cepoch,
       micro <- cmicro, weights <- cweights, taken <- ctaken, grad <- cgrad,
       applied <- capplied
T == INSTANCE TrainStep WITH
       cfg <- tcfg, call <- tcall, made <- tmade, plan <- tplan, mini <- tmini,
       micro <- tmicro, old <- told, weights <- tweights, grad <- tgrad,
       applied <- tapplied, step <- tstep

cvars == <<ccfg, ccall, cmade, cplan, cepoch, cmicro, cweights, ctaken, cgrad, capplied>>
tvars == <<tcfg, tcall, tmade, tplan, tmini, tmicro, told, tweights, tgrad, tapplied, tstep>>
vars == <<batch, values, cvars, tvars>>

HasCritic == ccfg # NoCritic

NoCriticRuns ==
  /\ ccall = << >> /\ cmade = << >> /\ cplan = << >> /\ cepoch = << >>
  /\ cmicro = << >> /\ cweights = << >> /\ ctaken = << >> /\ cgrad = << >>
  /\ capplied = << >> /\ values = NoValues

Init ==
  /\ \E w \in Windows : batch = w.batch /\ ccfg = w.critic /\ tcfg = w.trainer
  /\ IF HasCritic THEN C!CriticInit ELSE NoCriticRuns
  /\ T!TrainInit

(* The trainer's worker gets the rows when what it fetches is written.     *)
RowsReady == ~HasCritic \/ values # NoValues

CriticRuns(r) == HasCritic /\ r \in C!Ranks /\ C!CriticRank(r) /\ UNCHANGED tvars
TrainerRuns(r) ==
  RowsReady /\ r \in T!Ranks /\ T!TrainRank(r) /\ UNCHANGED <<cvars, values>>

Next == \E r \in AllRanks : CriticRuns(r) \/ TrainerRuns(r)

(* Every rank is a process of its own.                                     *)
Fairness == \A r \in AllRanks : WF_vars(CriticRuns(r)) /\ WF_vars(TrainerRuns(r))

FairSpec == Init /\ [][Next]_vars /\ Fairness

-----------------------------------------------------------------------------
(* The properties.                                                         *)

EveryRowTrainedOnce == T!EveryRowTrainedOnce
ValuesInPlace == HasCritic => C!ValuesInPlace

(* How a group of ranks ends: all refuse a batch that does not divide, or  *)
(* all are through.  A row that only its own rank cannot lay out raises    *)
(* there and leaves the others in their calls.                             *)
CriticEnds ==
  IF C!Refused(C!Lengths, C!Dp) THEN \A r \in C!Ranks : ccall[r] = "raised"
  ELSE (\A i \in DOMAIN batch : C!Fits(i)) => C!Done
TrainerEnds ==
  IF T!Refused(T!Lengths, T!Dp) THEN \A r \in T!Ranks : tcall[r] = "raised"
  ELSE T!Done

(* No rank waits for ever in a call that others do not make: whatever the  *)
(* lengths of the rows, all ranks of a service run the same calls, and a   *)
(* window that is published gets its optimizer step.                       *)
StepCompletes ==
  <>(/\ HasCritic => CriticEnds
     /\ (~HasCritic \/ (C!Done /\ ccfg.publish)) => TrainerEnds)
=============================================================================
