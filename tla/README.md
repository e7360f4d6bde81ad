# Meshy in TLA+

Meshy trains language models with reinforcement learning on few GPUs.  The
work is split into *services* (inference, rollout, training, critic, teacher),
each a process group with a worker and an engine.  They exchange data and
control signals only through TransferQueue (TQ) partitions, and services that
share a card pass it around with a token.  This directory models the parts
whose correctness lies in the order of events; paths below are relative to
`src/`.

## The system's parts

| part | source | state | operations | talks to |
|---|---|---|---|---|
| GPU token ring | `meshy/service/colocation.py` | per member: remembered request rows, last grant, lease events, acquired sequences | `request_gpu`, `wait_for_grant`, `release`; the manager thread's scan, replay, preempt and three-phase transfer | request ledger, engine callbacks, worker |
| request ledger | `meshy/transferqueue/colocation.py` | one TQ partition per ring: a row per request, the grant written in place | create, scan, grant, close, purge | TQ |
| engines | `meshy/engine/*.py` | residency, loaded weights, step counters, exported weights | acquire and release callbacks, generate, step, score, export, prune | SPMD ranks, checkpoint store |
| rollout worker | `meshy/worker/rollout.py` | pulses read, label, data position, groups started, semaphore | read a gate, start a group, generate, filter, write; snapshot, restore | inference, TQ |
| trainer's worker | `meshy/worker/titan.py` | request held, `trained_since_sync` | fetch, step, release, gate | TQ, manager, engine |
| critic and teacher workers | `meshy/worker/critic.py`, `opd.py` | windows, gates raised | fetch, score, release, write a column or a gate | TQ, manager, engine |
| TQ worker loop | `meshy/worker/tq.py` | statistics, retry counts | get_meta, read, process, write, clear, each with retries | TQ |
| control plane | `meshy/transferqueue/control.py` | partition `gen_gate` | make and decode a gate | trainer, critic, rollout |
| checkpoint store | `meshy/service/checkpoint.py` | shards, sidecars, completion markers on disk | write, mark, prune, drop, resolve the resume step | every stateful service |
| ignition | `meshy/service/ignite.py`, `bootstrap.py`, `runtime.py` | processes, endpoints, barriers | start, wait until ready, issue genesis, check a resume, stop | all |
| SPMD loop | `meshy/service/spmd.py`, `meshy/engine/spmd.py` | rank-0 command stream | broadcast, execute on every rank, stop | engines |
| topology | `meshy/service/topology.py`, `meshy/config.py` | none (pure) | validate a recipe, place ranks on GPUs | ignition |
| TransferQueue launch | `meshy/transferqueue/launch.py`, `cli.py`, `client.py` | endpoint keys or file, child processes | clear, spawn, publish, connect | launcher, every client |
| batch planning | `meshy/backend/titan/plan.py` | none (pure) | split samples into mini and micro batches | trainer, critic |
| a trainer's step, a critic's window | `meshy/backend/titan/trainer.py`, `meshy/engine/critic.py`, `meshy/backend/titan/critic` | plan, gradients, weights on every rank | forward, backward, optimizer step, publish values | ranks, through collectives |
| rewards, data | `advantage.py`, `reward.py`, `dataset` | tensors, texts | arithmetic | trainer, rollout |

Interaction in one round, when inference and trainer share a card:

1. the trainer raises *gate* `i`: a row `(step, weight_version)` in `gen_gate`;
2. the rollout reads it, which adds a batch to its budget, and starts groups
   labelled with that version; each is a request to the inference server;
3. finished groups are written as rows; a critic or teacher adds its column;
4. when a batch is ready, the trainer fetches it, asks for the card and waits;
   the inference manager aborts what is running and passes the token;
5. the trainer steps, exports the weights, prunes old exports, releases the
   card with the path of the new ones, and raises the next gate;
6. the inference manager acquires the card and loads the path the grant names.

## What is hard here

* Several managers replay one ledger from scans of different age, and the owner
  writes a grant on a row it selected before it slept and ran callbacks.
* The phase-1 wait of a transfer races the registration of the member that
  should be next.
* Weights travel in two ways at once: as the version on a gate (TQ) and as the
  path on a grant (ring).  Nothing orders the two but the programs.
* The rollout runs ahead of training by `pacing_window` batches, so rows of
  several versions are under way; a pause cuts a response in two and the rest
  comes from other weights.
* Two processes number one gate stream, the critic in its cold start and the
  trainer afterwards.
* Services checkpoint on one clock but not at one time, and prune on their own.
* A call to TransferQueue that fails may have taken effect, and is repeated.
* The ranks of a service must make the same collective calls, although each has
  other rows; one rank fewer in a call and the others wait for ever.
* Start-up waits of one rank depend on services another rank starts later.
* Everything waits for everything: rollout for gates, scorer for rows, trainer
  for columns, all of them for the card.

`PROJECT.json` lists each hazard at its line with the properties that cover it.

## Modules

| module | what it is |
|---|---|
| `GpuToken` | what a ring promises: one token, one engine on the card, left before it is passed, passed to a member that asks or a FALLBACK one |
| `Colocation` | the ring as the code runs it: managers, workers, ledger. Implements `GpuToken` |
| `Pipeline` | rollout, scorer, trainer, inference server, gates and rows; with a shared card it moves by the actions of `GpuToken` |
| `WorkerLoop` | the loops of critic and trainer with every retry, lost reply and step that raises |
| `Checkpoint` | the state directory: shards, sidecars, markers, rotation |
| `Recovery` | `Checkpoint` with the services that write to it, crashes, and the launch that resumes |
| `TQCluster` | TransferQueue's processes, the endpoints they publish, what a client finds |
| `Ignition` | `TQCluster` with the ignitors of all ranks, the engines they start and the first hand-overs of the card |
| `Topology`, `Recipes` | `build_topology` and the recipes of the repository, as operators |
| `BatchPlan` | `build_plan` as operators |
| `Credit` | returns and advantages of a row as `gae.py` computes them, and the sum over its own turn they are to equal |
| `Sums` | the sum of a sequence and the power of a number, as recursive functions |
| `Collectives` | the calls ranks meet in, shared by the next two |
| `TrainStep`, `CriticStep` | a trainer's step and a critic's window on every rank |
| `Window` | the two composed: values published by the critic are what the trainer steps on |
| `Colocation_proofs` | theorems of the ring: its invariants, then its refinement of `GpuToken` |
| `Pipeline_proofs` | theorems of the pipeline: counts and gates, then weights and the common clock |
| `WorkerLoop_proofs`, `Recovery_proofs`, `Ignition_proofs` | theorems of the module each is named for; the last has those of `TQCluster` |
| `Plan_proofs` | theorems of `BatchPlan` and `Credit`, for every batch and configuration |
| `Window_proofs` | theorems of `Window`, and so of `TrainStep` and `CriticStep` |
| `FiniteSetFacts` | extremes of finite sets of naturals, and how to go up from 0 through a recursion; the other proof modules cite it |
| `MCColocation`, `MCPipeline`, `MCRecovery`, `MCWorkerLoop`, `MCIgnition`, `MCWindow` | the instances TLC runs |

They compose by replacing a neighbour with what it promises.  `Colocation`
shows that the ring implements `GpuToken`; `Pipeline` moves the card by the
actions of `GpuToken`; `WorkerLoop` keeps of both only that the card is free or
held and that rows come window by window; `Recovery` keeps of the pipeline its
counters.  `Ignition` and `Window` are the system before and below all this.

Operators whose comment begins with "Fault" or says "(mutant)" are plausible
bugs.  No specification uses them; each replaces one definition to show that a
property can fail.

### Colocation and the code

| model | code |
|---|---|
| `ledger` | the request partition; a row's state, and the grant written on it |
| `view[m]`, `granted[m]` | `_records`; `_grant`, `_owner_service` and `_last_sequence` |
| `phase[m]`, `chosen[m]` | where the manager thread stands between two points at which others can get in, and the record `_transfer` selected |
| `rest[m]` | the part of a scan that a preempting `_reconcile` still holds while `_transfer` runs, stored afterwards |
| `leases[m]`, `worker[m]`, `job[m]` | `_lease_events`, and the worker between `request_gpu`, `wait_for_grant` and `release` |
| `resident[m]` | between `on_acquire` and `on_release` |
| `Poll`, `Preempt`, `Rescan`, `Acquire` | `_run`: drain, scan, `_reconcile`, `_apply_grant`, `_ensure_fallback_request` |
| `Select`, `Vacate`, `Close`, `Publish` | `_transfer_locked`: phase 1 and `_select_next`, `on_release`, `close_request`, `grant_request` |
| `Request`, `Wake`, `Release` | the worker's three calls |
| `IssueGenesisRequest`, `IssueGenesisGrant` | `issue_genesis` |

A row is known by its position rather than by its request id;
`RequestIdsUnique` checks that the ids, by which the code keys its memory,
would tell the same rows apart.  A ledger scan is one step, and so are a poll
and the one standing request it may register.  `Patient` says whether phase 1
can time out before a FALLBACK manager has polled.  The defaults are a timeout
of 3 s and a poll of 1 s, but `ColocationRing` validates each alone
(`colocation.py:61-64`) and a timeout of 0 is accepted, so runs and proofs
cover both.  The race of a scan with a registration is *not* covered.

### Pipeline and the code

The unit is the response group: its rows are written by one call, and batch
sizes are counted in groups.

| model | code |
|---|---|
| `gates`, `gatesSeen`, `label` | partition `gen_gate`; `gates_seen`, `weight_version` of the rollout |
| `groups[g]` | one group: label, the versions that generated parts of it, whether a request was aborted, and where it is: `held` (started, waiting for the semaphore), `running`, `done`, `row`, `scoring`, `scored`, `training`, `trained`, or `cleared`, `dropped` |
| `trainer`, `sinceSync`, `version`, `disk` | where `TitanWorker` stands, `trained_since_sync`, `weight_version`, the exports in the weights directory |
| `scorer`, `windows` | where `CriticWorker` or `OPDTeacherWorker` stands, `windows` |
| `serving`, `payload` | version loaded by the inference server, `payload_ref` of the newest grant |
| `TryAdvanceGate`, `AcquireGenerationSlot`, `Execute` | the loop `_run_rollouts` with `acquire_generation_slot` |
| `Generate`, `FinishGroup`, `WriteRolloutGroup`, `DropGroup` | the task of a group, from the engine's generate to the TQ write, the zero-variance filter and a failed group |
| `TrainerFetches`, `StepChunk`, `StepSync`, `TrainerLeaves`, `TrainerReleases`, `RaiseGate` | `run_tq_once`, `process_tq_batch`, `TitanEngine._step_impl` |
| `ScorerFetches` ... `WriteScores` | the same of critic and teacher |
| `InferEnters`, `InferLeaves`, `InferPasses` | the server's residency callbacks and the manager's preemption |

Abstractions: the fetch is merged with the request it leads to, and a gate with
the clearing of its batch (nobody reads what lies in between).  TQ is external:
ready rows come in any order, each once, pulses in order of production.  To
whom a released token goes is left open within what `GpuToken` allows.
Checkpointing is off, so no export is protected from rotation.
`CriticAssumption`, that a critic's window is the trainer's batch, is what the
recipes keep to (`recipe/justrl_ii_minicpm5_2b_128k.py:66`); no code asks it.

### WorkerLoop and the code

| model | code |
|---|---|
| `pc[w]`, `tries[w]` | the phase `run_tq_once` is in, and the attempts `_retry_phase` has made of it |
| `batch[w]`, `taken[w]` | the rows in hand; the consumption status the controller keeps for the task |
| `windows`, `gatesRaised` | of `CriticWorker`; `in_cold_start` and `should_clear_batch` look at the first |
| `since`, `step`, `request` | `trained_since_sync`, the engine's step, `_colocation_request` |
| `pulses`, `scored`, `cleared` | partition `gen_gate`, the rows with the critic's column, the rows removed |
| `FetchBatch`, `ReadBatch`, `WriteBatch`, `ClearBatch` | the phases of `run_tq_once` |
| `BeginCritic`, `StepCritic`, `BeginTitan`, `Granted`, `StepTitan` | `process_tq_batch` up to and after the wait for the card |
| `CallFails`, `WriteReplyLost`, `ClearReplyLost`, `FetchReplyLost` | a call that fails before it took effect, or after |
| `StepCriticRaises`, `StepTitanRaises` | an engine that raises: the critic's `finally` gives the card back, the trainer keeps request and card and has counted the batch |
| `Stop`, `Leave`, `GiveUp` | the stop event, seen between two batches or while a retry waits |

A fetch whose reply is lost has consumed its rows: nobody fetches them again.
A pulse whose reply is lost is put a second time.  A worker that is out of
retries records the error and its thread ends; nothing reads that record
(`on_tq_fatal` sets it, `terminate_process_on_fatal` is set by no recipe), so
the others wait in silence.  A row put twice by the rollout is not modelled.

### Checkpoint, Recovery and the code

| model | code |
|---|---|
| `disk[s][n]` | the shard of a service: `data` the directory, `meta` the sidecar, `mark` the marker |
| `folders`, `victim[s]` | the directories that exist at all; the shard whose deletion has begun |
| `WriteShardDir`, `WriteMeta`, `MarkComplete`, `Prune`, `DropMarker`, `DropFiles` | `StateStore`, one file at a time |
| `rankAt`, `cand`, `resume` | each rank in `_check_resume`: list, look at each step, publish, rank 0 deletes the newer ones |
| `DcpLoad`, `BootModel`, `Start` | what torchtitan loads given `load_step`, the weights a server boots from, the counters each service restores |
| `TryAdvanceGate`, `AcquireGenerationSlot`, `NextBatch`, `RolloutSave` | the rollout, which saves when a pulse is due |
| `ScoreWindow`, `CriticSave`, `PublishScores` | the critic |
| `TrainStep`, `TrainerSave`, `ExportWeights`, `PruneWeights`, `RaiseGate` | the trainer: step, shard, export, rotation, gate |
| `Crash` | the launcher dies: every process and all of TransferQueue with it |

A prompt stands for its group, and a started group is a row at once.  A file is
whole or absent, a directory may be torn.  What torchtitan does with a folder
is external, modelled as `backend/titan/config.py:145-156` counts on it.

### TQCluster, Ignition, Topology and the code

| model | code |
|---|---|
| `launcher`, `proc`, `entry`, `copy` | `TransferQueueLauncher` in store or file mode; its processes; the keys or the file; a component's copy of the file before it replaces it |
| `client`, `Connect` | `wait_for_endpoints` |
| `turn`, `phase` | an ignitor: its place in `local_services`, and whether it waits to build, to be ready, at the barrier or in `join` |
| `child`, `event`, `marker` | engine processes, readiness events, the readiness keys of the store |
| `resident` | whose weights are on a card |
| `cmds`, `done` | the commands rank 0 of a service broadcast, and how many each rank has executed |
| `GateAndStart`, `InferenceReady`, `SpmdReady`, `Barrier`, `IssueGenesis`, `StartCpu` | `Ignitor.run` |
| `ServerUp`, `JoinGroup`, `Load`, `Offload` | the start of an inference server, and of a rank of an SPMD service |
| `HandOver`, `SubmitStep`, `SubmitRelease`, `ReturnToken`, `ExecuteMove`, `ExecuteStep` | one round of the card |
| `IgnitorRaises`, `ChildDies`, `MoveFails`, `LauncherGivesUp` | failures; `torchrun` ends all when one raises |
| `BuildTopology`, `RingsShareBlocks`, `PortsDistinct`, `CriticColumnsAgree`, `CheckpointsAgree` | what `build_topology` refuses |
| `ServicesOf`, `ReplicaCards`, `DependencyNames`, `LocalTo` | what it returns |
| `CanStart`, `ComesUp` | whether the ignitors get through their lists, computed from the waits alone |

`Recipes` holds the placement-relevant fields of every recipe under
`src/recipe`.  The order of requests in the ring is `Colocation`'s subject;
here the card goes from the servers to one SPMD service and back.

### BatchPlan, TrainStep, CriticStep, Window and the code

| model | code |
|---|---|
| `BuildPlan` and its parts | `build_plan`: snake deal, packing, fillers, global document counts |
| `call[r]`, `made[r]` | where rank `r` stands, and the collective calls it has made |
| `OnSequence`, `GatherSeq`, `Restore`, `Shard` | context parallelism: head-tail chunks and the order they come back in |
| `PlanBatch`, `Whiten`, `OldLogprobs`, `Forward`, `Segments`, `Backward`, `OptimizerStep`, `ReduceMetrics`, `Export` | `TitanTrainer.train_step` and `TitanEngine._step_impl` |
| `PlanWindow`, `CountTokens`, `Forward`, `Backward`, `GatherSeq`, `OptimizerStep`, `EndEpoch`, `Save`, `Collect` | `CriticSpmdEngine._score_and_train_impl` |
| `ReverseScan`, `TurnReturns`, `Advantage` | `critic/gae.py` in exact integers |
| `RowsReady` | the trainer's `input_tq_fields` contain the critic's column |

The plan is a function of the rows and the same on every rank, so it is
computed once.  A forward and a backward are one collective call each.  A loss
is the record of what enters it: row, weights that computed it, old policy,
divisor.  Value clipping, the loss formulas, the denominators of a token mean
and `publish_mode = "advantage"` are left out.  What `TitanEngine._step_impl`
saves and rotates after the export is in `Recovery` and `Pipeline`.

## Runs

Every run finishes within a few minutes.

| run | what it shows |
|---|---|
| `ring3` | patient ring of three, teacher one window, trainer two: type, chain of grants, one live row, workers compute only on their own lease, unique ids, refinement of `GpuToken`; every request is served and inference regains the card |
| `ring3_hasty` | phase 1 may time out at any moment, two windows each: exclusion, no grant on a row that is not open |
| `pipeline_lockstep` | one card, W = 1, batch 2, a teacher that scores single groups, a lost group: every batch is on-policy from end to end, labels are lower bounds, two exports suffice |
| `pipeline_critic` | critic with one cold window, W = 2, two running groups: the gate stream, the common clock, the overlap, no idling on the card, the run ends trained |
| `pipeline_streamed` | separate cards, no gate, half-batch chunks: weights before their gate |
| `pipeline_stale_label` (violation) | a critic hands back weights older than the newest gate |
| `recovery` | critic with a cold window, a checkpoint every other window, two crashes anywhere: adopted shards are whole, of one history and never rewritten; ranks agree; gates, boot weights and the trainer's state are those of the resume point; a resume point is never lost; the run ends |
| `recovery_cold` (violation) | a crash during the trainer's first save leaves a run that agrees to resume and cannot start its trainer |
| `recovery_torn` (violation) | without a critic, a crash during the trainer's first save leaves a directory a fresh launch trains on from |
| `worker` | two loops, three faults anywhere and a stop at any time: batches add up to steps, no row is cleared early, the pulses are in order, and every row is trained on unless a thread ended or a fetch was lost |
| `ignition` | endpoints left over or not, two processes lost while five services start on three cards, two rounds of the card: clients find the whole cluster, genesis after the hand-offs, the masters' cards are exclusive, the pass comes up or says it cannot; all recipes start and fit |
| `window` | 27 windows on critics of 2 x 2 and trainers of 2 x 2 and 3 x 1 ranks: every row once, under the right divisor, old policy and credit; values at their positions; no rank left waiting |

**Bounds.**  Three members is the smallest ring in which the next member, the
first to ask and the source of the token are different ones; two windows of the
trainer let a second request meet what the first left behind.  In the pipeline
`Prompts` bounds the groups: at least two more batches than the window holds in
the live run, so that a batch is trained on, gated, and its gate is spent.
`Drops` = 1 loses half a batch of two.  Two exports
(`KeepWeights`) is the smallest rotation that lets a grant name the version
before.  `WorkerLoop` has three windows, a cold one and two of two fetches, so
that a counter carried over shows in the second, and three faults: one more
than the retries of a phase, so that a phase fails for good with one to spare.
`Recovery` has seven windows at `Interval` 2 and `Keep` 2, so that three
shards fall due and the oldest is rotated away while another service is still
to write the newest, and three launches, so that the second crash meets what a
resumed run left; two ranks are one that deletes and one that looks.
`Ignition` has three cards: two shared by four services and one with a service
nobody on the shared cards waits for.  `Window`'s rows are a short one, one of
two turns, one as long as the models take, one that is cut and one without a
response, in batches of four and six, and three or four that are refused.

**Deadlock** is checked on the ring, the worker loop and ignition.  Elsewhere
it is off: a pipeline stops when the dataset is used up, a crash may be the
last, a window ends.

**Fairness.**  A manager thread loops until it is stopped, callbacks return,
and the phase-1 wait ends; a woken worker finishes its batch; the workers' loops
poll for ever; generation ends; ranks and ignitors are processes of their own.
All of it is weak fairness, of a whole process rather than of single actions.
Nothing obliges a worker to raise another request, and nothing obliges a fault,
a stop or a crash to happen.  TQ owes no order of the rows, and no fairness
says it.  In `pipeline_critic` no group is lost: a lost group keeps its place
in the budget and can stop a run, which the documentation of recipes says too
(`docs/how_to_build_a_recipe.md:471`).

**What the liveness properties exempt.**  `EveryRowTrained` lets a run off when
a thread has ended or a fetch lost its rows: the code then stalls, by design or
not.  `RunsToTheEnd` accepts a launch that refuses because no step was ever
saved by everyone.  `StepCompletes` promises nothing for a row that only its
own rank cannot lay out: that rank raises (`critic/data.py:329-333`,
`critic/engine.py:601`) and the others wait until the process group times out.

## Findings

With a run that shows them:

* **A label is not always a lower bound** (`pipeline_stale_label`).  Critic and
  teacher name the weights of *their rows* when they release; with W = 2 the
  trainer may have raised a newer gate, whose groups are then generated by
  older weights.  With W = 1 (`LockStepOnPolicy`) it cannot happen.
* **A run that cannot resume** (`recovery_cold`).  While the trainer writes its
  first shard its folder exists and the resume point is still in the cold
  start; the next launch hands torchtitan a step the folder does not have, and
  the trainer fails at every start.  `engine/titan.py:389` and
  `topology.py:166-170` say otherwise.

* **A directory nobody vouches for is adopted** (`recovery_torn`).  Without a
  critic the trainer is the first to save; a crash between its directory and
  its marker leaves a folder and no shard.  The next launch is a fresh one and
  asks torchtitan for its latest step, which is what is in the folder: weights
  of a step the counters, the rollout and the server know nothing of, against
  `backend/titan/config.py:151-153` and `ignite.py:193-200`.

Noticed while modelling or proving, without a run of their own:

* The cause of a stale label can also leave a grant that names pruned weights:
  a teacher with W = 2 and two exports kept releases with the version of its
  rows after the trainer has gone two versions on.  `GrantsNameStoredWeights`
  is therefore proved for what `LabelsAreLowerBounds` assumes, or without
  rotation.

* With no candidate the owner makes out the return request to whoever it got
  the token from; in a ring of three, with a phase-1 timeout shorter than a
  poll, that can be an ON_DEMAND member that asked for nothing.
* `control.py:13` has the weights on the servers before the gate; on a shared
  card `release` returns when the grant is published.  What saves the rollout
  is that a paused server answers nobody.
* `control.py:17` has one pulse per weight version; the retry of a write that
  lost its reply puts a second one, and the rollout counts it as a window.
* A recipe's comment says a colocated run ignores `stream_minibatch`; nothing
  does, and a trainer that streams on a shared card keeps the card the server
  needs for its next chunk.  `NeverIdleOnCard` is about the other recipes.
* `ResumePointKept` needs a pacing window of at most `Keep - 1` intervals:
  an ungated rollout may run further ahead and prune the last step it shares
  with the trainer.  Within the bound it is proved (`ResumePointStays`).  One
  recipe checkpoints without a window (`justrl_ii_minicpm5_2b_128k`).
* `student_topk_opd` disaggregated on eight cards leaves its trainer three, and
  a batch of 16 does not divide: refused at the first step (`plan.py:232`).
  `AllRecipes` has it at the numbers of cards where it divides.
* Returns and advantages restart at every gap of the mask
  (`critic/gae.py:77-93`): of a response in turns only the last one is
  credited with the reward, although `gae.py:192-199` speaks of the response.
* On cards that are not a master's nothing orders one engine's arrival after
  another's departure (`service/spmd.py:128`): `MasterCardsExclusive` says less
  than the design wants.

## What is proved

For every value of the constants that the modules' named assumptions allow
(`ColocationAssumption` and its like, which TLC evaluates on every run), and
under what is said here besides:

| theorem | property | besides |
|---|---|---|
| `Colocation_proofs` | | |
| `TypeCorrect`, `CardIsExclusive`, `GrantsAreAChain`, `GrantsGoToOpenRows`, `OneRowIsLive`, `GrantsAreReplayedInOrder`, `WorkersKeepTheCard` | `TypeOK`, `CardExclusive`, `GrantChain`, `ChosenRowStillOpen`, `OneLiveRow`, `SequenceAdvances`, `WorkersComputeOnCard` | |
| `RequestIdsNeverCollide`, `OnDemandMembersAsk` | `RequestIdsUnique`, `OnDemandOwnersAsked` | `Patient` |
| `RingImplementsToken` | `ImplementsToken`: the refinement of `GpuToken` | `Patient` |
| `Pipeline_proofs` | | |
| `TypeCorrect`, `OverlapIsBounded`, `GatesComeInOrder` | `TypeOK`, `OverlapBounded`, `GateStreamInOrder` | |
| `CriticGoesFirst`, `LockStepTrainsOnPolicy` | `TrainerBehindCritic`, `LockStepOnPolicy` | |
| `NeverIdlesOnCard` | `NeverIdleOnCard` | `Chunk >= Batch` |
| `LabelsAreLowerBounds`, `CardServesNewest` | `LabelIsLowerBound`, `ServesNewest` | separate cards, no scorer, or W = 1 |
| `GrantsNameStoredWeights` | `PayloadOnDisk` | the same, or no rotation |
| `UpdatedBeforeGate` | `RestoredBeforeGate` | separate cards |
| `WorkerLoop_proofs` | | |
| `TypeCorrect` | `TypeOK` | |
| `ClearedAreUsed`, `StepsAreWholeWindows`, `PulsesAreAStream` | `ClearedOnlyWhenUsed`, `TrainedAddsUp`, `PulseStream` | `ProcessRetries = 0` |
| `Recovery_proofs` | | |
| `ShardsWhole`, `NeverRewritten`, `RanksComeToOneStep`, `BootsAgreedPolicy`, `PulsesInOrder` | `CommittedWhole`, `CommittedNeverRewritten`, `RanksAgree`, `BootsCurrentPolicy`, `GateStreamInOrder` | |
| `TrainerAdoptsAgreedStep`, `ShardsFitTogether`, `PromptsAreNotRepeated` | `TrainerAdoptsResumePoint`, `OneHistory`, `NoPromptTwice` | a critic |
| `ResumePointStays` | `ResumePointKept` | `Paced`: 0 < W <= (Keep - 1) * Interval |
| `ResumeLeavesABatch` | `WindowAlwaysPossible` (in no run) | |
| `Ignition_proofs` | | |
| `ClientsFindWholeCluster`, `GenesisComesLast` | `ConnectsToWholeCluster`, `GenesisAfterHandoff` | |
| `OneEngineOnMasterCards` | `MasterCardsExclusive` | `OneServer`: no two servers of the ring share a card |
| `Plan_proofs` | | |
| `BuildPlanIs`, `SharesSpread`, `ScanIsByTurn` | (of operators: what a plan promises, and that the closed form of credit is the sum over a turn) | a batch `build_plan` accepts |
| `Window_proofs` | | |
| `TrainedOnce`, `ValuesComeBack` | `EveryRowTrainedOnce`, `ValuesInPlace` | |

The hypotheses of the third column are the code's own limits, not the
prover's.  Where one is dropped the property fails and TLC or the code shows
how: labels and grants under W = 2 with a scorer (`pipeline_stale_label`), a
streamed batch that keeps the card, a trainer without a critic
(`recovery_torn`), a rollout further ahead than the rotation keeps, a retried
computation that counts twice.  `Patient` says that
`next_owner_timeout` outlasts a poll of a FALLBACK manager, as its default
does; without it an ON_DEMAND member can be handed the token back unasked,
which `GpuToken` forbids.

**The ring's argument.**  None of these is inductive alone.  `IInv` adds that a
manager's memory of a row is an older state of that row (`MemoryFaithful`: open
rows only become granted, granted only closed), that what a manager applied is
on the ledger (`GrantsOnLedger`), that only the member which applied the newest
grant can be in a transfer, with its chosen row still open and its engine where
its phase says (`TransferInOrder`), and that the live row is the newest grant's
(`LiveRowIsNewest`).  Exclusion follows: an engine is on the card only while
its manager owns the newest grant.  Workers need `WorkersInStep` on top: an
ON_DEMAND manager is in a transfer only while its worker waits in `release`.

**The refinement's argument.**  A step of the ring is a step of the token or
none; what is hard is that a grant goes to a member that asks or is FALLBACK.
The return request is made out to whoever passed the token, so the proof needs
to know who can lack a request of its own: a FALLBACK member that neither owns
the token nor was the last to pass it has one standing, so the owner, once its
patience is over, finds it, and makes out a return request only for a FALLBACK
member that has none.  Request numbers count up to the member's next grant,
which is why no two are alike.

**The pipeline's argument.**  `IInv` counts.  Each pulse after the genesis one
is paid for by a batch of finished groups, also in the middle of a streamed
batch (`PulsesPaid`), and what is started is at most a window more than the
pulses read allow; the difference is the overlap.  For the numbering, the
number of pulses is the trainer's version plus the cold windows written
(`PulsesNumbered`).  That the critic raises no cold gate after the trainer's
first, and the trainer none before the last cold one, comes from rows being
scored, and so trained on, only after the cold start.

**The weights' argument.**  `SInv` ties three clocks: the version exported, the
one a grant names and the one the server runs.  A holder that releases names
the weights it got or has just made, so without a scorer, or with one gate out
at a time, the newest grant names the newest weights, and what a server loads
is what the newest gate says.  With W = 1 a pulse that is paid for means that
nothing older is in flight, so the rows of a batch carry one version from end
to end.  The critic's clock never lags because the trainer has nothing to train
on but what a window of the critic scored.

**The worker loop's argument.**  A fetch takes rows no fetch of that worker took
before (`Taken`), so what a worker computes on is apart from its books, and
what it has computed is in them when it is written and cleared (`TitanHolds`,
`CriticHolds`); the critic's answer changes only when it begins a window, with
nothing to write.  For the counts, `trained_since_sync` is a number of whole
fetches below a window (`Count`), so that the fetch which reaches the window
fills it exactly; a step that raises ends the thread, so its false count is
never used.  For the pulses, every pulse has all smaller numbers before it
(`InOrder`), because a worker about to raise one finds the number before it
already raised (`CriticPulses`, `TitanPulses`), the trainer's first one the
critic's last; `Owing` bounds them by the gates, the steps and the replies lost.

**Recovery's argument.**  `RInv` has the disk (`StoreInv`: a marker stands only
on a whole shard, a deletion takes the marker first), and for a running service
that its clock is past every marker of its own, which is why nothing committed
is written again.  Ranks agree although one deletes while the others look: a
deletion only takes what is newer than the resume point, and nothing newer has
the markers of all.  Pulses in order need to know how many are owed by what is
saved.  With a critic, its shard is committed before the trainer has anything
to save, so that a step all have saved vouches for the trainer's folder, torn
leftovers included; the rollout's shard is of the pulse it has read, so that
prompts it starts again are ones nobody restored has learned from (`FreshInv`).

A resume point stays because the rollout has used up its budget whenever a
pulse is read (`BudgetInv`): no service gets a window further than W past a
step the rollout has still to save, so with a rotation of `Keep` shards that
step is still there when the rollout saves it, and once the rollout is through
a step the others have saved it, or all have saved a later one (`SavedInv`).
The bound is tight: with `Interval` 2 and `Keep` 2, W = 3 loses the point.

That a resumed run can always make a next batch is an account (`AccountInv`):
what the rollout has started was taken by the leading service, waits for it, or
was lost in flight, and no shard a launch resumes from has more than W - 1
batches of losses behind it, so the budget the pulses give still has a batch in
it.  What the critic has put through, the trainer has had or finds waiting
(`PlacedInv`).

**Ignition's argument.**  What is published is of this launch, and the file has
one writer at a time, so a client that connects saw every process.  For the
cards, an ignitor has brought up what it is past and not touched what comes
later in its list; until the token is handed to the servers, an engine on a
card is the one its ignitor waits for.  After that, a master that does not own
the token has executed every command broadcast to it, and the last one was a
release.

**The plan's argument.**  `BatchPlan` and `Credit` are recursive functions, and
the library's induction cannot be instantiated.  `FiniteSetFacts` has what
replaces it: a set of naturals that holds 0, and n with every n - 1, holds all
up to a bound (`Upwards`), and a function that goes from each value to the next
exists (`RecursionExists`).  With it a sum, a power, an order and a packing are
what their equations say, and one relation is carried through the planner:
`Spreads(lists, n, X)`, that the lists of n bins have each item of X in one
place of one bin and no other item.  A snake deal spreads the rows over the
shards and a shard's rows over its mini-batches, a step of `Place` keeps it for
the micro-batches (`SpreadsNew`, `SpreadsGrown`), the fillers that make all
shards equal add empty bins (`SpreadsPadded`), and `SharesSpread` composes them.
For credit, the mask is cut into runs of linked positions; the difference of two
suffix sums drops the terms one by one until those of the run are left
(`TurnSum`).

**The step's argument.**  What a rank has done is determined by where it stands
(`RankIs`): in the k-th micro-batch of the i-th mini-batch its gradient has the
rows of the k - 1 micro-batches before, with the weights of i - 1 steps, and
each optimizer step before took all of its share of a mini-batch.  Nothing is
said of the other ranks, so no order of theirs matters.  When all are done, the
terms of a row over all steps are those of the one share it is in
(`TrainsOnce`), and the terms of a step are as many as `build_plan` counted for
the mini-batch over all shards (`StepsAreMeans`).

**The critic's argument.**  `CriticRankIs` is the same for a window, with the
values a rank has kept.  It also counts the calls of all ranks each has made:
who has returned from the collect has seen every rank make as many calls, which
nobody does before keeping the values of its whole first epoch (`AllKept`).
That the master reads whole lists is therefore proved from the collectives, not
assumed.  The shards that context parallelism joins have each position of a
width that divides (`RearrangedIs`), so that looking a position up puts it back
(`RestoredIs`); the terms of an epoch are the rows of the window, one for one
(`EntryRowIs`, by counting).

`WindowAssumption` says of the settings what the code refuses or makes so:
positive sizes (`plan.py:60-80`), a width's multiple that context parallelism
can cut (`plan.py:313-325`, `critic/engine.py:89-97`), one epoch at least
(`engine/critic.py:363`).  Of the rows it says only that lengths are naturals
and rewards integers; a row with no response, or too long for the model, is
among them, and a batch that does not divide too.

**Only model-checked**: liveness (`RequestsServed`, `FallbackRegains`,
`TrainsToTheEnd`, `EveryRowTrained`, `RunsToTheEnd`, `ComesUpOrFails`,
`StepCompletes`) and ENABLED are beyond the prover.  So is `RecipesRun`, an
evaluation of the recipes one by one, which is a computation and nothing to
generalise.  The type invariants of `Recovery` and `Ignition` are in
their proofs (`RunType` and `TQType`, `IgnType`) and in no run, and so are
`OnDemandOwnersAsked`, `ServesNewest`, `NoPromptTwice` and
`SequenceAdvances`, which are proved.

## What is left

1. The failure path of a ring manager: scans read row by row while others
   write (a missed grant is fatal to the manager), the 30 s of a command while
   `_transfer` runs callbacks, waiters of a manager that has died.
2. A command that raises on a rank other than 0 while rank 0 reports success.

## Not modelled, and why

Losses, optimizers, rewards, advantages of GRPO and datasets (no order of
events in them; a state model says nothing of floats); the wiring of the
services (`training.py`, `critic.py`, `opd.py`: the constants above come from
it, and it keeps no state); process launch and the Ray replacement around
third-party code (pure I/O); the HTTP side of the inference server, signals and
the serving loop after start-up; evaluation passes, logging, metrics, scripts
and the decoding of columns.  `PROJECT.json` has one entry per component with
its status.
