------------------------------ MODULE Pipeline ------------------------------
(***************************************************************************)
(* The data path of a run: meshy.worker.rollout starts response groups as  *)
(* the generation gates allow, the inference server generates them, an     *)
(* optional scorer (meshy.worker.opd's teacher or meshy.worker.critic) adds*)
(* its column, and meshy.worker.titan trains on batches of them, exports   *)
(* the weights and raises the next gate.                                   *)
(*                                                                         *)
(* When the engines share a card it is handed around by the token of       *)
(* GpuToken, which the ring of Colocation implements; here a grant also    *)
(* carries the weights the inference server is to load.  The unit of data  *)
(* is the response group: its rows are written in one call, and batch sizes*)
(* are counted in groups.  TransferQueue, which is external, serves ready  *)
(* rows in any order and pulses, one row each, in order of production.     *)
(***************************************************************************)
EXTENDS Integers, Sequences, FiniteSets

CONSTANTS
  Colocated,    \* the engines share one card, handed around by a ring
  Scorer,       \* "none", "teacher" or "critic"
  Window,       \* pacing_window; 0 stands for None, an ungated rollout
  Batch,        \* groups the trainer takes to a synchronised step
  Chunk,        \* groups it takes to a fetch: Batch unless stream_minibatch
  ScoreBatch,   \* groups the scorer takes to a window
  ColdWindows,  \* cold_start_windows of a critic
  Running,      \* groups generating at once; 0 stands for no limit
  KeepWeights,  \* weights_keep_latest_k; 0 keeps every export
  Prompts,      \* bound: prompts in the dataset
  Drops         \* bound: groups lost to the zero-variance filter or an error

Infer == "infer"
Train == "train"
Score == "score"
Members == {Infer, Train, Score}
Nobody == "nobody"
NoWeights == -1   \* payload_ref of a grant that names none

ASSUME ModeAssumption ==
  /\ Colocated \in BOOLEAN
  /\ Scorer \in {"none", "teacher", "critic"}
  /\ Scorer # "critic" => ColdWindows = 0
ASSUME SizeAssumption ==
  /\ {Window, Running, ColdWindows, KeepWeights, Prompts, Drops} \subseteq Nat
  /\ {Batch, Chunk, ScoreBatch} \subseteq Nat \ {0}
(* One window is one number for trainer, critic and rollout: the recipes   *)
(* keep to it (recipe/justrl_ii_minicpm5_2b_128k.py:66), no code asks.     *)
ASSUME CriticAssumption == Scorer = "critic" => ScoreBatch = Batch

VARIABLES
  gates,      \* the pulses in partition gen_gate, unread: [step, version]
  gatesSeen,  \* rollout: the pulses it has read
  label,      \* rollout: weight_version, that of the last pulse
  groups,     \* the groups started: their label, where they are, the weights
              \* that generated them, whether a request of theirs was aborted
  trainer,    \* where the trainer's worker stands
  sinceSync,  \* trained_since_sync, in groups
  version,    \* weight_version of the trainer
  disk,       \* the exported versions in the trainer's weights directory
  scorer,     \* where the scorer's worker stands
  windows,    \* windows the scorer has begun
  serving,    \* the version the inference server has loaded
  payload,    \* the version named by the newest grant
  owner, onCard, left, asking   \* the token

token == <<owner, onCard, left, asking>>
rolloutVars == <<gatesSeen, label>>
trainerVars == <<trainer, sinceSync, version, disk>>
scorerVars == <<scorer, windows>>
vars == <<gates, rolloutVars, groups, trainerVars, scorerVars, serving, payload, token>>

Token == INSTANCE GpuToken WITH Services <- Members, Fallback <- {Infer}

Places == {"held", "running", "done", "row", "scoring", "scored",
           "training", "trained", "cleared", "dropped"}
Version == Nat \cup {NoWeights}
Gate == [step : Nat, version : Nat]
Group == [label : Nat, weights : SUBSET Version, aborted : BOOLEAN, at : Places]

At(place) == {g \in DOMAIN groups : groups[g].at = place}
InFlight == At("running") \cup At("done")
Move(G, place) ==
  [g \in DOMAIN groups |-> IF g \in G THEN [groups[g] EXCEPT !.at = place] ELSE groups[g]]

Labels(G) == {groups[g].label : g \in G}

TypeOK ==
  /\ gates \in Seq(Gate)
  /\ gatesSeen \in Nat /\ label \in Nat
  /\ groups \in Seq(Group)
  /\ trainer \in {"start", "fetch", "batch", "stepped", "gate"}
  /\ sinceSync \in Nat /\ version \in Nat
  /\ disk \subseteq Nat
  /\ scorer \in {"fetch", "batch", "scored", "write"}
  /\ windows \in Nat
  /\ serving \in Version /\ payload \in Version
  /\ owner \in Members \cup {Nobody} /\ onCard \subseteq Members
  /\ left \in BOOLEAN /\ asking \subseteq Members

(* The genesis grant names no weights: the server falls back to the model  *)
(* it was booted from, version 0.                                          *)
Init ==
  /\ gates = <<>> /\ gatesSeen = 0 /\ label = 0
  /\ groups = <<>>
  /\ trainer = "start" /\ sinceSync = 0 /\ version = 0 /\ disk = {}
  /\ scorer = "fetch" /\ windows = 0
  /\ serving = 0 /\ payload = 0
  /\ Token!Init

-----------------------------------------------------------------------------
(* The rollout worker: one loop reads gates and starts groups, a task per  *)
(* group generates it and writes its rows.                                 *)

(* Fault: the genesis pulse is worth a batch too.                          *)
BudgetCountsGenesis == (gatesSeen + Window) * Batch

(* Fault: nothing may start until a batch has come back.                   *)
BudgetWithoutWindow == (gatesSeen - 1) * Batch

(* Samples the gates read so far allow, in groups.                         *)
GenerationBudget == IF gatesSeen = 0 THEN 0 ELSE (gatesSeen - 1 + Window) * Batch

WithinBudget == Len(groups) + 1 <= GenerationBudget

(* The loop is at acquire_generation_slot: it has a prompt, and the group  *)
(* before it has passed the semaphore.                                     *)
AtSlot == Len(groups) < Prompts /\ At("held") = {}

(* A gated rollout reads a pulse only when its budget is used up.          *)
TryAdvanceGate ==
  /\ AtSlot
  /\ gates # <<>>
  /\ gatesSeen = 0 \/ Window = 0 \/ ~WithinBudget
  /\ gatesSeen' = gatesSeen + 1
  /\ label' = Head(gates).version
  /\ gates' = Tail(gates)
  /\ UNCHANGED <<groups, trainerVars, scorerVars, serving, payload, token>>

(* The label of a group is fixed here, before it waits for the semaphore.  *)
AcquireGenerationSlot ==
  /\ AtSlot
  /\ gatesSeen > 0
  /\ IF Window = 0 THEN gates = <<>> ELSE WithinBudget
  /\ groups' = Append(groups, [label |-> label, weights |-> {},
                               aborted |-> FALSE, at |-> "held"])
  /\ UNCHANGED <<gates, rolloutVars, trainerVars, scorerVars, serving, payload, token>>

Execute(g) ==
  /\ groups[g].at = "held"
  /\ Running > 0 => Cardinality(InFlight) < Running
  /\ groups' = Move({g}, "running")
  /\ UNCHANGED <<gates, rolloutVars, trainerVars, scorerVars, serving, payload, token>>

Serving == Colocated => onCard = {Infer}

(* The server adds tokens to a response with the weights it has loaded ... *)
Generate(g) ==
  /\ groups[g].at = "running"
  /\ Serving
  /\ serving \notin groups[g].weights
  /\ groups' = [groups EXCEPT ![g].weights = @ \cup {serving}]
  /\ UNCHANGED <<gates, rolloutVars, trainerVars, scorerVars, serving, payload, token>>

(* ... and finishes it, unless an abort fell on the end of its budget.      *)
FinishGroup(g) ==
  /\ groups[g].at = "running"
  /\ Serving \/ groups[g].aborted
  /\ groups[g].weights # {}
  /\ groups' = Move({g}, "done")
  /\ UNCHANGED <<gates, rolloutVars, trainerVars, scorerVars, serving, payload, token>>

WriteRolloutGroup(g) ==
  /\ groups[g].at = "done"
  /\ groups' = Move({g}, "row")
  /\ UNCHANGED <<gates, rolloutVars, trainerVars, scorerVars, serving, payload, token>>

(* A filtered or failed group writes no rows and keeps its budget.         *)
DropGroup(g) ==
  /\ groups[g].at \in {"running", "done"}
  /\ Cardinality(At("dropped")) < Drops
  /\ groups' = Move({g}, "dropped")
  /\ UNCHANGED <<gates, rolloutVars, trainerVars, scorerVars, serving, payload, token>>

-----------------------------------------------------------------------------
(* The trainer's worker: fetch, request the card, step, release, gate.     *)

Loadable == disk \cup {0}   \* version 0 is the base model, which stays

RaiseGenesisGate ==
  /\ trainer = "start"
  /\ gates' = Append(gates, [step |-> version, version |-> version])
  /\ trainer' = "fetch"
  /\ UNCHANGED <<rolloutVars, groups, sinceSync, version, disk, scorerVars,
                 serving, payload, token>>

(* Fault: the trainer's fields lack the scorer's column.                   *)
ReadyUnscored == At("row")

(* The AND-filter: with a scorer only rows that have its column are ready. *)
Ready == At(IF Scorer = "none" THEN "row" ELSE "scored")

(* process_tq_batch asks for the card unless an earlier chunk still has it.*)
TrainerFetches ==
  /\ trainer = "fetch"
  /\ \E G \in SUBSET Ready : Cardinality(G) = Chunk /\ groups' = Move(G, "training")
  /\ IF Colocated /\ owner # Train THEN Token!Ask(Train) ELSE UNCHANGED token
  /\ trainer' = "batch"
  /\ UNCHANGED <<gates, rolloutVars, sinceSync, version, disk, scorerVars,
                 serving, payload>>

MayTrain == trainer = "batch" /\ (Colocated => onCard = {Train})
SyncLate == sinceSync + Chunk > Batch   \* fault: off by one
Sync == sinceSync + Chunk >= Batch

(* A streamed chunk below the batch: no sync, no release, rows cleared.    *)
StepChunk ==
  /\ MayTrain
  /\ ~Sync
  /\ sinceSync' = sinceSync + Chunk
  /\ groups' = Move(At("training"), "trained")
  /\ trainer' = "fetch"
  /\ UNCHANGED <<gates, rolloutVars, version, disk, scorerVars, serving, payload, token>>

(* Fault: the wrong end of the sorted versions.                             *)
PruneNewest(exports) ==
  {v \in exports : KeepWeights = 0 \/ Cardinality({w \in exports : w < v}) < KeepWeights}

(* _prune_weights keeps the newest exports.                                *)
PruneWeights(exports) ==
  {v \in exports : KeepWeights = 0 \/ Cardinality({w \in exports : w > v}) < KeepWeights}

(* Fault: the servers are left as they are, card or no card.               *)
StepWithoutPublish ==
  /\ MayTrain
  /\ Sync
  /\ sinceSync' = 0
  /\ version' = version + 1
  /\ disk' = PruneWeights(disk \cup {version'})
  /\ trainer' = IF Colocated THEN "stepped" ELSE "gate"
  /\ UNCHANGED <<gates, rolloutVars, groups, scorerVars, serving, payload, token>>

(* Fault: trained_since_sync is not zeroed.                                *)
StepWithoutReset ==
  /\ MayTrain
  /\ Sync
  /\ version' = version + 1
  /\ disk' = PruneWeights(disk \cup {version'})
  /\ trainer' = IF Colocated THEN "stepped" ELSE "gate"
  /\ serving' = IF Colocated THEN serving ELSE version'
  /\ UNCHANGED <<gates, rolloutVars, groups, sinceSync, scorerVars, payload, token>>

(* Step, export, prune; servers with a card of their own are updated here. *)
StepSync ==
  /\ MayTrain
  /\ Sync
  /\ sinceSync' = 0
  /\ version' = version + 1
  /\ disk' = PruneWeights(disk \cup {version'})
  /\ trainer' = IF Colocated THEN "stepped" ELSE "gate"
  /\ serving' = IF Colocated THEN serving ELSE version'
  /\ UNCHANGED <<gates, rolloutVars, groups, scorerVars, payload, token>>

TrainerLeaves ==
  /\ trainer = "stepped"
  /\ owner = Train
  /\ Token!Leave
  /\ UNCHANGED <<gates, rolloutVars, groups, trainerVars, scorerVars, serving, payload>>

(* Fault: the path is that of the weights before the step.                 *)
TrainerReleasesOld ==
  /\ trainer = "stepped"
  /\ owner = Train
  /\ \E t \in Members : Token!Pass(t)
  /\ payload' = version - 1
  /\ trainer' = "gate"
  /\ UNCHANGED <<gates, rolloutVars, groups, sinceSync, version, disk, scorerVars, serving>>

(* release returns when the grant that names the new weights is published. *)
TrainerReleases ==
  /\ trainer = "stepped"
  /\ owner = Train
  /\ \E t \in Members : Token!Pass(t)
  /\ payload' = version
  /\ trainer' = "gate"
  /\ UNCHANGED <<gates, rolloutVars, groups, sinceSync, version, disk, scorerVars, serving>>

(* Fault: the gates of the critic's cold start are forgotten.              *)
RaiseGateUnshifted ==
  /\ trainer = "gate"
  /\ gates' = Append(gates, [step |-> version, version |-> version])
  /\ groups' = Move(At("training"), "trained")
  /\ trainer' = "fetch"
  /\ UNCHANGED <<rolloutVars, sinceSync, version, disk, scorerVars, serving, payload, token>>

RaiseGate ==
  /\ trainer = "gate"
  /\ gates' = Append(gates, [step |-> version + ColdWindows, version |-> version])
  /\ groups' = Move(At("training"), "trained")
  /\ trainer' = "fetch"
  /\ UNCHANGED <<rolloutVars, sinceSync, version, disk, scorerVars, serving, payload, token>>

-----------------------------------------------------------------------------
(* The scorer's worker: a teacher, or a critic with its cold start.        *)

ScorerFetches ==
  /\ Scorer # "none"
  /\ scorer = "fetch"
  /\ \E G \in SUBSET At("row") : Cardinality(G) = ScoreBatch /\ groups' = Move(G, "scoring")
  /\ windows' = windows + 1
  /\ IF Colocated THEN Token!Ask(Score) ELSE UNCHANGED token
  /\ scorer' = "batch"
  /\ UNCHANGED <<gates, rolloutVars, trainerVars, serving, payload>>

ScoreWindow ==
  /\ scorer = "batch"
  /\ Colocated => onCard = {Score}
  /\ scorer' = IF Colocated THEN "scored" ELSE "write"
  /\ UNCHANGED <<gates, rolloutVars, groups, trainerVars, windows, serving, payload, token>>

ScorerLeaves ==
  /\ scorer = "scored"
  /\ owner = Score
  /\ Token!Leave
  /\ UNCHANGED <<gates, rolloutVars, groups, trainerVars, scorerVars, serving, payload>>

(* The scorer trained nothing the server serves: its grant names the newest*)
(* weights its rows are labelled with.                                     *)
ScorerReleases ==
  /\ scorer = "scored"
  /\ owner = Score
  /\ \E t \in Members : Token!Pass(t)
  /\ \E newest \in Labels(At("scoring")) :
       /\ \A v \in Labels(At("scoring")) : v <= newest
       /\ payload' = newest
  /\ scorer' = "write"
  /\ UNCHANGED <<gates, rolloutVars, groups, trainerVars, windows, serving>>

ColdOneMore == windows <= ColdWindows + 1   \* fault: off by one
Cold == windows <= ColdWindows

(* Fault: a cold window is cleared and no gate raised.                     *)
WriteScoresNoGate ==
  /\ scorer = "write"
  /\ groups' = Move(At("scoring"), IF Cold THEN "cleared" ELSE "scored")
  /\ scorer' = "fetch"
  /\ UNCHANGED <<gates, rolloutVars, trainerVars, windows, serving, payload, token>>

(* In its cold start a critic raises the gate itself and clears the rows;  *)
(* later it publishes its column.                                          *)
WriteScores ==
  /\ scorer = "write"
  /\ IF Cold
     THEN /\ gates' = Append(gates, [step |-> windows, version |-> 0])
          /\ groups' = Move(At("scoring"), "cleared")
     ELSE /\ groups' = Move(At("scoring"), "scored")
          /\ UNCHANGED gates
  /\ scorer' = "fetch"
  /\ UNCHANGED <<rolloutVars, trainerVars, windows, serving, payload, token>>

-----------------------------------------------------------------------------
(* The card.                                                               *)

Genesis ==
  /\ Colocated
  /\ Token!Genesis(Infer)
  /\ UNCHANGED <<gates, rolloutVars, groups, trainerVars, scorerVars, serving, payload>>

(* restore_for_colocate: loading weights that are not there is fatal.      *)
InferEnters ==
  /\ owner = Infer
  /\ Token!Enter
  /\ payload \in Loadable
  /\ serving' = payload
  /\ UNCHANGED <<gates, rolloutVars, groups, trainerVars, scorerVars, payload>>

(* release_for_colocate: every request in the server is aborted.           *)
InferLeaves ==
  /\ owner = Infer
  /\ asking # {}
  /\ Token!Leave
  /\ groups' = [g \in DOMAIN groups |->
                  IF g \in At("running") THEN [groups[g] EXCEPT !.aborted = TRUE]
                  ELSE groups[g]]
  /\ UNCHANGED <<gates, rolloutVars, trainerVars, scorerVars, serving, payload>>

InferPasses ==
  /\ owner = Infer
  /\ \E t \in asking : Token!Pass(t)
  /\ payload' = NoWeights
  /\ UNCHANGED <<gates, rolloutVars, groups, trainerVars, scorerVars, serving>>

WorkerEnters ==
  /\ owner \in {Train, Score}
  /\ Token!Enter
  /\ UNCHANGED <<gates, rolloutVars, groups, trainerVars, scorerVars, serving, payload>>

-----------------------------------------------------------------------------
RolloutLoop == TryAdvanceGate \/ AcquireGenerationSlot
GroupTask(g) ==
  Execute(g) \/ Generate(g) \/ FinishGroup(g) \/ WriteRolloutGroup(g) \/ DropGroup(g)
TrainerWorker ==
  \/ RaiseGenesisGate \/ TrainerFetches \/ StepChunk \/ StepSync
  \/ TrainerLeaves \/ TrainerReleases \/ RaiseGate
ScorerWorker ==
  \/ ScorerFetches \/ ScoreWindow \/ ScorerLeaves \/ ScorerReleases \/ WriteScores
Card == Genesis \/ InferEnters \/ InferLeaves \/ InferPasses \/ WorkerEnters

Next ==
  \/ RolloutLoop
  \/ \E g \in DOMAIN groups : GroupTask(g)
  \/ TrainerWorker
  \/ ScorerWorker
  \/ Card

Spec == Init /\ [][Next]_vars

(* Every process goes on while it can, and generation ends.  Nothing makes *)
(* TransferQueue serve the rows in any order.                              *)
Fairness ==
  /\ WF_vars(RolloutLoop)
  /\ \A g \in 1..Prompts : WF_vars(g \in DOMAIN groups /\ GroupTask(g))
  /\ WF_vars(TrainerWorker)
  /\ WF_vars(ScorerWorker)
  /\ WF_vars(Card)

FairSpec == Spec /\ Fairness

-----------------------------------------------------------------------------
(* The version stamped on a group is a lower bound of the weights that     *)
(* generated it (docs/architecture_services.md, section 5).                *)
LabelIsLowerBound ==
  \A g \in DOMAIN groups : \A v \in groups[g].weights : groups[g].label <= v

(* In lock step (W = 1) the trainer steps only on groups that the weights  *)
(* it is about to replace generated from end to end, whoever had the card  *)
(* in between.                                                             *)
LockStepOnPolicy ==
  Window = 1 /\ trainer = "batch" =>
    \A g \in At("training") : groups[g].weights = {version}

(* A gated rollout has at most W batches under way, lost groups included.  *)
OverlapBounded ==
  Window > 0 =>
    Cardinality(DOMAIN groups \ (At("trained") \cup At("cleared"))) <= Window * Batch

(* Two processes number one gate stream, the critic its cold start and the *)
(* trainer the rest, and the rollout always reads the step it expects.     *)
GateStreamInOrder == \A i \in DOMAIN gates : gates[i].step = gatesSeen + i - 1

(* A gate is raised only once the inference server has the weights it      *)
(* names (meshy/transferqueue/control.py:13).                              *)
RestoredBeforeGate == \A i \in DOMAIN gates : gates[i].version <= serving

(* The weights a grant names to the inference server are still on disk.    *)
PayloadOnDisk ==
  owner = Infer /\ onCard = {} /\ ~left => payload \in Loadable

(* A shared card serves the newest weights whenever it serves.             *)
ServesNewest == Colocated /\ onCard = {Infer} => serving = version

(* The trainer never waits for rows with the card in its hands.            *)
NeverIdleOnCard == ~(Colocated /\ trainer = "fetch" /\ owner = Train)

(* One clock: a window counts for the trainer only after the critic.       *)
TrainerBehindCritic ==
  Scorer = "critic" /\ version > 0 => version + ColdWindows <= windows

(* The run trains on everything the dataset has for it.                    *)
TrainsToTheEnd == <>(version = (Prompts - ColdWindows * ScoreBatch) \div Batch)

-----------------------------------------------------------------------------
(* The inductive invariant behind OverlapBounded and GateStreamInOrder.    *)

Pulses == gatesSeen + Len(gates)
Finished == At("trained") \cup At("cleared")
Stepping == trainer \in {"stepped", "gate"}
Due == IF Chunk < Batch THEN Batch - Chunk ELSE 0   \* before a batch's last chunk
WindowsDone == IF scorer = "fetch" THEN windows ELSE windows - 1

(* Nothing happens before the genesis pulse, and no group starts before the*)
(* rollout has read it.                                                    *)
GenesisFirst ==
  /\ trainer = "start" =>
       /\ Pulses = 0 /\ version = 0 /\ sinceSync = 0
       /\ windows = 0 /\ scorer = "fetch"
  /\ gatesSeen = 0 => groups = <<>>

(* What the trainer and the scorer hold is one fetch of theirs.            *)
BatchesHeld ==
  /\ IF trainer \in {"start", "fetch"} THEN At("training") = {}
     ELSE Cardinality(At("training")) = Chunk
  /\ IF scorer = "fetch" THEN At("scoring") = {}
     ELSE Cardinality(At("scoring")) = ScoreBatch /\ windows > 0 /\ Scorer # "none"
  /\ Scorer = "none" => windows = 0

(* Every pulse after genesis stands for a batch that is finished, or is    *)
(* about to be; what the rollout starts is a window ahead of its pulses.   *)
PulsesPaid ==
  /\ trainer # "start" =>
       (Pulses - 1) * Batch + sinceSync + (IF Stepping THEN Due ELSE 0)
         <= Cardinality(Finished)
  /\ Window > 0 => Len(groups) <= GenerationBudget

(* The pulses number the critic's cold windows and then the trainer's      *)
(* steps: the trainer holds no row before the cold start is over.          *)
PulsesNumbered ==
  /\ trainer # "start" =>
       Pulses + (IF Stepping THEN 1 ELSE 0) =
         1 + version + (IF WindowsDone <= ColdWindows THEN WindowsDone ELSE ColdWindows)
  /\ version > 0 \/ At("scored") \cup At("training") \cup At("trained") # {} =>
       WindowsDone >= ColdWindows

IInv ==
  /\ TypeOK
  /\ GenesisFirst
  /\ BatchesHeld
  /\ PulsesPaid
  /\ GateStreamInOrder
  /\ PulsesNumbered
=============================================================================
