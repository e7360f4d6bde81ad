------------------------------ MODULE Recovery ------------------------------
(***************************************************************************)
(* A run that checkpoints, crashes and is launched again with --resume.    *)
(*                                                                         *)
(* Rollout, critic and trainer go through the windows of the pipeline, each*)
(* saving its shard at the same windows but at a time of its own; a crash  *)
(* of the launcher takes every process and all of TransferQueue with it.   *)
(* At the next launch every rank derives the step to resume from, rank 0   *)
(* removes what is newer, and every service restores its own shard.        *)
(*                                                                         *)
(* A prompt stands for its response group.  Generation is left out: a      *)
(* started group is a row at once, as nothing here depends on the order in *)
(* which rows become ready.  DCP and torchtitan's CheckpointManager, which *)
(* loads the newest directory it finds unless it is given a step, are      *)
(* external.                                                               *)
(***************************************************************************)
EXTENDS Checkpoint, Sequences

CONSTANTS
  Critic,       \* a critic scores the rows and counts the windows
  Cold,         \* cold_start_windows of the critic, 0 without one
  Window,       \* pacing_window; 0 stands for None, an ungated rollout
  Batch,        \* groups to a window
  PullSize,     \* prompts the dataset hands out at a time
  KeepWeights,  \* weights_keep_latest_k; 0 keeps every export
  Ranks,        \* the ranks of the launcher, 0 among them
  Lives         \* bound: launches of the run

Train == "train"
Score == "score"
Roll == "roll"

(* Bound: as many prompts as windows.                                      *)
Prompts == 1..(MaxStep * Batch)

ASSUME RunAssumption ==
  /\ Critic \in BOOLEAN
  /\ Services = {Train, Roll} \cup (IF Critic THEN {Score} ELSE {})
  /\ Heavy = Services \ {Roll}
  /\ {Cold, Window, KeepWeights, Lives} \subseteq Nat
  /\ ~Critic => Cold = 0
  /\ {Batch, PullSize} \subseteq Nat \ {0}
  /\ 0 \in Ranks

VARIABLES
  life,      \* launches so far
  up,        \* the services of this launch have started
  rankAt,    \* where each rank stands in its _check_resume
  cand,      \* the steps a rank has yet to look at
  resume,    \* the step a rank has published
  loaded,    \* the step the trainer's DCP load came from, 0 for the base model
  booted,    \* the weights the inference server was booted from
  weights,   \* the exported versions: absent, torn or whole
  steps,     \* trainer: step_index, its weight version
  windows,   \* critic: the windows it has begun
  held,      \* critic: the rows of the window it is at
  gatesSeen, started,   \* rollout: pulses read, groups started
  pulled,    \* rollout: the dataset cursor
  next,      \* rollout: the next prompt it has to start
  pulses,    \* partition gen_gate
  rolled,    \* rows nobody has fetched
  scored,    \* rows with the critic's column
  learned    \* the prompts the trainer's and the critic's state comes from

launch == <<rankAt, cand, resume>>
trainerVars == <<loaded, weights, steps>>
criticVars == <<windows, held>>
rolloutVars == <<gatesSeen, started, pulled, next>>
rows == <<rolled, scored>>
vars == <<store, doing, life, up, launch, booted, trainerVars, criticVars,
          rolloutVars, pulses, rows, learned>>

Versions == 1..MaxStep

(* The clock of a service: the window whose shard it would write.          *)
Clock(s) == CASE s = Train -> steps + Cold
              [] s = Score -> windows
              [] s = Roll  -> gatesSeen - 1

(* Fault: the rollout's cursor is that of the windows trained, so that no  *)
(* group in flight is skipped.                                             *)
SnapshotReplays(s) ==
  [life    |-> life,
   steps   |-> IF s = Train THEN steps ELSE 0,
   started |-> IF s = Roll THEN started ELSE 0,
   prompts |-> IF s = Roll THEN 1..Clock(Roll) * Batch ELSE learned[s]]

(* What a shard of the service holds.                                      *)
Snapshot(s) ==
  [life    |-> life,
   steps   |-> IF s = Train THEN steps ELSE 0,
   started |-> IF s = Roll THEN started ELSE 0,
   prompts |-> IF s = Roll THEN 1..pulled ELSE learned[s]]

TypeOK ==
  /\ life \in 1..Lives /\ up \in BOOLEAN
  /\ rankAt \in [Ranks -> {"list", "check", "drop", "ready", "refused"}]
  /\ cand \in [Ranks -> SUBSET Steps] /\ resume \in [Ranks -> Steps \cup {0}]
  /\ weights \in [Versions -> {"absent", "torn", "whole"}]
  /\ {loaded, steps, windows, gatesSeen, started, pulled} \subseteq Nat /\ next \in Nat \ {0}
  /\ booted \in Versions \cup {0, -1}
  /\ held \subseteq Prompts /\ rolled \subseteq Prompts /\ scored \subseteq Prompts
  /\ pulses \in Seq(Nat)
  /\ learned \in [{Train, Score} -> SUBSET Prompts]
  /\ folders \subseteq Services /\ victim \in [Services -> Steps \cup {0}]
  /\ doing \in [Services -> {"off", "idle", "export", "data", "meta", "mark",
                             "prune", "rotate", "publish"}]

-----------------------------------------------------------------------------
(* The launch.                                                             *)

Init ==
  /\ EmptyStore /\ life = 1
  /\ weights = [v \in Versions |-> "absent"]
  /\ up = FALSE /\ loaded = 0 /\ booted = 0
  /\ rankAt = [r \in Ranks |-> "list"]
  /\ cand = [r \in Ranks |-> {}] /\ resume = [r \in Ranks |-> 0]
  /\ doing = [s \in Services |-> "off"]
  /\ steps = 0 /\ windows = 0 /\ held = {}
  /\ gatesSeen = 0 /\ started = 0 /\ pulled = 0 /\ next = 1
  /\ pulses = <<>> /\ rolled = {} /\ scored = {}
  /\ learned = [s \in {Train, Score} |-> {}]

(* The trainer writes no shard during the critic's cold start.             *)
CheckpointParticipants(n) == {s \in Services : s = Train => n > Cold}

AllComplete(n) == \A s \in CheckpointParticipants(n) : IsComplete(s, n)

Resumable == {n \in Steps : AllComplete(n)}

ResumePoint == Max(Resumable \cup {0})

(* A rank lists the directory ...                                          *)
ListShards(r) ==
  /\ rankAt[r] = "list"
  /\ cand' = [cand EXCEPT ![r] = UNION {CompleteSteps(s) : s \in Services}]
  /\ rankAt' = [rankAt EXCEPT ![r] = IF HasAnyShard THEN "check" ELSE "ready"]
  /\ UNCHANGED <<resume, up, life, store, doing, booted, trainerVars, criticVars,
                 rolloutVars, pulses, rows, learned>>

(* ... and goes down the steps until every participant's marker is there.  *)
ResolveResumeStep(r) ==
  /\ rankAt[r] = "check"
  /\ IF cand[r] = {}
     THEN rankAt' = [rankAt EXCEPT ![r] = "refused"] /\ UNCHANGED <<cand, resume>>
     ELSE LET n == Max(cand[r]) IN
          IF AllComplete(n)
          THEN /\ resume' = [resume EXCEPT ![r] = n]
               /\ rankAt' = [rankAt EXCEPT ![r] = IF r = 0 THEN "drop" ELSE "ready"]
               /\ UNCHANGED cand
          ELSE cand' = [cand EXCEPT ![r] = @ \ {n}] /\ UNCHANGED <<resume, rankAt>>
  /\ UNCHANGED <<up, life, store, doing, booted, trainerVars, criticVars,
                 rolloutVars, pulses, rows, learned>>

(* Fault: what is newer than the resume point stays.                       *)
NothingIsNewer(s) == {}

(* Fault: the resume point itself goes too.                                *)
NewerOrEqual(s) == {n \in CompleteSteps(s) : n >= resume[0]}

Newer(s) == {n \in CompleteSteps(s) : n > resume[0]}

(* Rank 0 removes the shards past the resume point while other ranks may   *)
(* still be looking.                                                       *)
DropNewerThan ==
  /\ rankAt[0] = "drop"
  /\ \/ /\ \A s \in Services : victim[s] = 0
        /\ \E s \in Services : Newer(s) # {} /\ DropMarker(s, Min(Newer(s)))
        /\ UNCHANGED launch
     \/ /\ \E s \in Services : DropFiles(s)
        /\ UNCHANGED launch
     \/ /\ \A s \in Services : Newer(s) = {} /\ victim[s] = 0
        /\ rankAt' = [rankAt EXCEPT ![0] = "ready"]
        /\ UNCHANGED <<cand, resume, store, doing>>
  /\ UNCHANGED <<up, life, booted, trainerVars, criticVars, rolloutVars, pulses, rows, learned>>

Content(file) == CHOOSE c \in file : TRUE

(* The steps torchtitan finds in the trainer's folder.                     *)
TrainerDirs == {n \in Steps : disk[Train][n].data # {}}

(* Fault: the trainer takes its newest directory whatever was agreed.      *)
DcpLoadLatest(n) == {Max(TrainerDirs \cup {0})}

(* load_step is the resume step, or "latest" when there is none; both are  *)
(* moot when the folder does not exist.  {} is a load that fails.          *)
DcpLoad(n) ==
  IF Train \notin folders THEN {0}
  ELSE IF n > 0 THEN {n} \cap TrainerDirs
  ELSE IF TrainerDirs = {} THEN {} ELSE {Max(TrainerDirs)}

(* Fault: the server boots from the newest export on disk.                 *)
BootNewestExport(n) == Max({v \in Versions : weights[v] # "absent"} \cup {0})

(* The weights a resumed server boots from: those the trainer's shard      *)
(* names, the base model (0) if it names none or they are gone.            *)
BootModel(n) ==
  IF n > 0 /\ disk[Train][n].meta # {}
  THEN LET v == Content(disk[Train][n].meta).steps IN
       IF v > 0 /\ weights[v] # "absent" THEN v ELSE 0
  ELSE 0

(* One below what the snapshot recorded: the trainer repeats pulse n.      *)
RestoredGates(n) == n

RestoredCursor(n) ==
  IF n = 0 THEN 0 ELSE Cardinality(Content(disk[Roll][n].meta).prompts)

(* Fault: skipped prompts count as started.                                *)
RestoredStartedCursor(n) == RestoredCursor(n)

(* Groups lost in the crash stay counted: no more than one window of the   *)
(* budget is free again.                                                   *)
RestoredStarted(n) == IF n > 0 THEN Content(disk[Roll][n].meta).started ELSE 0

(* All ranks build their services, and every service restores its shard.   *)
(* The trainer's first pulse establishes the stream at the resume step.    *)
Start ==
  LET n == resume[0] IN
  /\ ~up
  /\ \A r \in Ranks : rankAt[r] = "ready"
  /\ \E from \in DcpLoad(n) :
       /\ loaded' = from
       /\ learned' = [s \in {Train, Score} |->
            IF s = Train /\ from > 0 THEN Content(disk[Train][from].data).prompts
            ELSE IF s = Score /\ Critic /\ n > 0 THEN Content(disk[Score][n].data).prompts
            ELSE {}]
  /\ up' = TRUE
  /\ steps' = IF n > Cold THEN Content(disk[Train][n].meta).steps ELSE 0
  /\ booted' = IF BootModel(n) > 0 /\ weights[BootModel(n)] = "torn" THEN -1 ELSE BootModel(n)
  /\ windows' = IF Critic THEN n ELSE 0
  /\ gatesSeen' = RestoredGates(n)
  /\ started' = RestoredStarted(n)
  /\ pulled' = RestoredCursor(n) /\ next' = pulled' + 1
  /\ pulses' = <<n>>
  /\ doing' = [s \in Services |-> "idle"]
  /\ UNCHANGED <<store, life, launch, weights, held, rows>>

(* The launcher dies, and every process with it; TransferQueue is in RAM.  *)
Crash ==
  /\ life < Lives
  /\ life' = life + 1
  /\ victim' = [s \in Services |-> 0] /\ doing' = [s \in Services |-> "off"]
  /\ up' = FALSE /\ loaded' = 0 /\ booted' = 0
  /\ rankAt' = [r \in Ranks |-> "list"]
  /\ cand' = [r \in Ranks |-> {}] /\ resume' = [r \in Ranks |-> 0]
  /\ steps' = 0 /\ windows' = 0 /\ held' = {}
  /\ gatesSeen' = 0 /\ started' = 0 /\ pulled' = 0 /\ next' = 1
  /\ pulses' = <<>> /\ rolled' = {} /\ scored' = {}
  /\ learned' = [s \in {Train, Score} |-> {}]
  /\ UNCHANGED <<disk, folders, weights>>

-----------------------------------------------------------------------------
(* The rollout.                                                            *)

(* Samples the pulses read so far allow, in groups.                        *)
GenerationBudget == IF gatesSeen = 0 THEN 0 ELSE (gatesSeen - 1 + Window) * Batch

AtSlot == up /\ doing[Roll] = "idle" /\ next <= pulled

Gated == gatesSeen = 0 \/ (Window > 0 /\ started + 1 > GenerationBudget)

NextBatch ==
  /\ up /\ doing[Roll] = "idle"
  /\ next > pulled /\ pulled < Cardinality(Prompts)
  /\ pulled' = Min({pulled + PullSize, Cardinality(Prompts)})
  /\ UNCHANGED <<gatesSeen, started, next, store, doing, life, up, launch, booted,
                 trainerVars, criticVars, pulses, rows, learned>>

(* Fault: the pulse it resumed at makes the rollout save again.            *)
SnapshotDueAtResume(n) == Due(n)

SnapshotDue(n) == Due(n) /\ n > resume[0]

(* The pulse of a window tells the rollout that a boundary has passed; an  *)
(* ungated rollout reads pulses whenever it has a prompt to start.         *)
TryAdvanceGate ==
  /\ AtSlot
  /\ Gated \/ Window = 0
  /\ pulses # <<>>
  /\ gatesSeen' = gatesSeen + 1
  /\ pulses' = Tail(pulses)
  /\ doing' = [doing EXCEPT ![Roll] = IF SnapshotDue(gatesSeen) THEN "meta" ELSE "idle"]
  /\ UNCHANGED <<started, pulled, next, store, life, up, launch, booted, trainerVars,
                 criticVars, rows, learned>>

AcquireGenerationSlot ==
  /\ AtSlot
  /\ ~Gated
  /\ started' = started + 1
  /\ next' = next + 1
  /\ rolled' = rolled \cup {next}
  /\ UNCHANGED <<gatesSeen, pulled, store, doing, life, up, launch, booted, trainerVars,
                 criticVars, pulses, scored, learned>>

RolloutSave ==
  /\ \/ WriteMeta(Roll, Clock(Roll), Snapshot(Roll))
     \/ MarkComplete(Roll, Clock(Roll))
     \/ Prune(Roll)
     \/ Saved(Roll, "idle")
  /\ UNCHANGED <<life, up, launch, booted, trainerVars, criticVars, rolloutVars, pulses,
                 rows, learned>>

-----------------------------------------------------------------------------
(* The critic.                                                             *)

(* It takes a window of rows, in any order, and trains on them.            *)
ScoreWindow ==
  /\ Critic /\ up /\ doing[Score] = "idle"
  /\ \E S \in kSubset(Batch, rolled) :
       /\ held' = S
       /\ rolled' = rolled \ S
       /\ learned' = [learned EXCEPT ![Score] = @ \cup S]
  /\ windows' = windows + 1
  /\ doing' = [doing EXCEPT ![Score] = IF Due(windows + 1) THEN "data" ELSE "publish"]
  /\ UNCHANGED <<store, life, up, launch, booted, trainerVars, rolloutVars, pulses, scored>>

CriticSave ==
  /\ Critic
  /\ \/ WriteShardDir(Score, Clock(Score), Snapshot(Score))
     \/ WriteMeta(Score, Clock(Score), Snapshot(Score))
     \/ MarkComplete(Score, Clock(Score))
     \/ Prune(Score)
     \/ Saved(Score, "publish")
  /\ UNCHANGED <<life, up, launch, booted, trainerVars, criticVars, rolloutVars, pulses,
                 rows, learned>>

(* In the cold start a pulse takes the place of the scored rows.           *)
PublishScores ==
  /\ Critic /\ doing[Score] = "publish"
  /\ IF windows <= Cold
     THEN pulses' = Append(pulses, windows) /\ UNCHANGED scored
     ELSE scored' = scored \cup held /\ UNCHANGED pulses
  /\ held' = {}
  /\ doing' = [doing EXCEPT ![Score] = "idle"]
  /\ UNCHANGED <<store, life, up, launch, booted, trainerVars, windows, rolloutVars, rolled,
                 learned>>

-----------------------------------------------------------------------------
(* The trainer.                                                            *)

Ready == IF Critic THEN scored ELSE rolled

(* A step: it fetches a window, trains and begins to export the weights.   *)
TrainStep ==
  /\ up /\ doing[Train] = "idle"
  /\ \E S \in kSubset(Batch, Ready) :
       /\ rolled' = IF Critic THEN rolled ELSE rolled \ S
       /\ scored' = scored \ S
       /\ learned' = [learned EXCEPT ![Train] = @ \cup S]
  /\ weights' = [weights EXCEPT ![steps + 1] = "torn"]
  /\ doing' = [doing EXCEPT ![Train] = "export"]
  /\ UNCHANGED <<steps, loaded, store, life, up, launch, booted, criticVars, rolloutVars, pulses>>

ExportWeights ==
  /\ doing[Train] = "export"
  /\ steps' = steps + 1
  /\ weights' = [weights EXCEPT ![steps'] = "whole"]
  /\ doing' = [doing EXCEPT ![Train] = IF Due(steps' + Cold) THEN "data" ELSE "rotate"]
  /\ UNCHANGED <<loaded, store, life, up, launch, booted, criticVars, rolloutVars, pulses,
                 rows, learned>>

TrainerSave ==
  /\ \/ WriteShardDir(Train, Clock(Train), Snapshot(Train))
     \/ WriteMeta(Train, Clock(Train), Snapshot(Train))
     \/ MarkComplete(Train, Clock(Train))
     \/ Prune(Train)
     \/ Saved(Train, "rotate")
  /\ UNCHANGED <<life, up, launch, booted, trainerVars, criticVars, rolloutVars, pulses,
                 rows, learned>>

(* Fault: the rotation does not look at the shards.                        *)
NothingProtected == {}

(* The versions the trainer's retained shards name.                        *)
ProtectedWeightVersions ==
  {Content(disk[Train][n].meta).steps : n \in CompleteSteps(Train)}

PruneWeights ==
  /\ doing[Train] = "rotate"
  /\ LET onDisk == {v \in Versions : weights[v] # "absent"}
         kept == Newest(KeepWeights, onDisk) \cup ProtectedWeightVersions \cup {steps}
     IN weights' = IF KeepWeights = 0 THEN weights
                   ELSE [v \in Versions |-> IF v \in kept THEN weights[v] ELSE "absent"]
  /\ doing' = [doing EXCEPT ![Train] = "publish"]
  /\ UNCHANGED <<loaded, steps, store, life, up, launch, booted, criticVars, rolloutVars,
                 pulses, rows, learned>>

(* Fault: the pulse is numbered by the trainer's own steps.                *)
OwnNumber == steps

GateNumber == steps + Cold

RaiseGate ==
  /\ doing[Train] = "publish"
  /\ pulses' = Append(pulses, GateNumber)
  /\ doing' = [doing EXCEPT ![Train] = "idle"]
  /\ UNCHANGED <<store, life, up, launch, booted, trainerVars, criticVars, rolloutVars, rows,
                 learned>>

-----------------------------------------------------------------------------
RankStep(r) == ListShards(r) \/ ResolveResumeStep(r) \/ (r = 0 /\ DropNewerThan)

RolloutStep == NextBatch \/ TryAdvanceGate \/ AcquireGenerationSlot \/ RolloutSave

CriticStep == ScoreWindow \/ CriticSave \/ PublishScores

TrainerStep == TrainStep \/ ExportWeights \/ TrainerSave \/ PruneWeights \/ RaiseGate

Next ==
  \/ \E r \in Ranks : RankStep(r)
  \/ Start \/ Crash
  \/ RolloutStep \/ CriticStep \/ TrainerStep

Spec == Init /\ [][Next]_vars

(* Processes and ranks run; nothing is assumed of crashes.                 *)
FairSpec ==
  /\ Spec
  /\ \A r \in Ranks : WF_vars(RankStep(r))
  /\ WF_vars(Start)
  /\ WF_vars(RolloutStep) /\ WF_vars(CriticStep) /\ WF_vars(TrainerStep)

-----------------------------------------------------------------------------
(* A shard with a marker has all its files, written in the same launch:    *)
(* a save or a deletion that a crash cut short is never adopted.           *)
CommittedWhole ==
  \A s \in Services : \A n \in CompleteSteps(s) :
    /\ disk[s][n].meta # {}
    /\ s \in Heavy => disk[s][n].data = disk[s][n].meta

(* No service writes on top of a committed shard, not even one that a      *)
(* launch before it left behind.                                           *)
CommittedNeverRewritten ==
  \A s \in Services :
    doing[s] \in {"data", "meta", "mark"} => ~IsComplete(s, Clock(s))

(* The shards that can be resumed from together come from one launch, and  *)
(* what trainer and critic learned from is behind the dataset cursor.      *)
OneHistory ==
  \A n \in Resumable : \A s, t \in CheckpointParticipants(n) :
    LET c == Content(disk[s][n].meta)
        d == Content(disk[t][n].meta)
    IN c.life = d.life /\ (t = Roll => c.prompts \subseteq d.prompts)

(* A resumed run does not train twice on a prompt: those in the state of   *)
(* trainer and critic are neither waiting for them nor still to be pulled. *)
NoPromptTwice ==
  /\ \A s \in {Train, Score} : learned[s] \cap (next..(MaxStep * Batch)) = {}
  /\ learned[Train] \cap (scored \cup rolled) = {}
  /\ learned[Score] \cap rolled = {}

(* Every rank comes to the same resume step, although rank 0 is deleting   *)
(* shards while the others look, and none refuses what another accepts.    *)
RanksAgree ==
  \A q, r \in Ranks :
    rankAt[q] \in {"ready", "drop"} =>
      /\ rankAt[r] # "refused"
      /\ rankAt[r] \in {"ready", "drop"} => resume[q] = resume[r]

(* The unread pulses are the ones the rollout expects, also after a resume *)
(* into an empty TransferQueue, and whoever raised them.                   *)
GateStreamInOrder ==
  up => \A i \in 1..Len(pulses) : pulses[i] = gatesSeen + i - 1

(* A launch serves the weights of the step it resumes from, all of them.   *)
BootsCurrentPolicy ==
  up => booted = IF resume[0] > Cold THEN resume[0] - Cold ELSE 0

(* The trainer's state is that of the resume step: the base model before   *)
(* its first step, never a directory no marker vouches for.                *)
TrainerAdoptsResumePoint ==
  up => loaded = IF resume[0] > Cold THEN resume[0] ELSE 0

(* A launch that has agreed on a step to resume from finds a trainer it can*)
(* start.                                                                  *)
TrainerCanStart ==
  (\A r \in Ranks : rankAt[r] = "ready") /\ ~up => DcpLoad(resume[0]) # {}

(* Nothing outstanding: no service is at work and the dataset is through.  *)
AllIdle == \A s \in Services : doing[s] = "idle"

(* However the groups in flight were lost, the pulses raised leave a batch *)
(* to be made of what waits and what may still be started.                 *)
WindowAlwaysPossible ==
  up /\ AllIdle /\ Window > 0 /\ pulses = <<>> /\ gatesSeen > 0 =>
    (GenerationBudget - started) + Cardinality(rolled \cup scored) >= Batch

(* Once a step can be resumed from, that one or a later one always can: no *)
(* rotation, crash or deletion takes the last common step away.            *)
ResumePointKept == [][ResumePoint' >= ResumePoint]_vars

Finished ==
  /\ up /\ AllIdle
  /\ next > MaxStep * Batch
  /\ Cardinality(Ready) < Batch /\ Cardinality(rolled) < Batch

Refused == \E r \in Ranks : rankAt[r] = "refused"

(* When the crashes are over the run reaches the end of its data, or has   *)
(* refused to start because no step was ever saved by everyone.            *)
RunsToTheEnd == <>[](Finished \/ Refused)
=============================================================================
