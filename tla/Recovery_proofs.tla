--------------------------- MODULE Recovery_proofs ---------------------------
(***************************************************************************)
(* Proofs about crash and resume, for every number of ranks, launches and  *)
(* windows: a marker vouches for all files of its shard and is never       *)
(* written over, every rank comes to one resume point, and what a launch   *)
(* restores from it fits together.                                         *)
(***************************************************************************)
EXTENDS Recovery, FiniteSetFacts

-----------------------------------------------------------------------------
(* The invariants.                                                         *)

Snapshots == [life : Nat, steps : Nat, started : Nat, prompts : SUBSET Nat]

(* A file is absent (or torn), or there with what one snapshot said.       *)
Files == {{}} \cup {{c} : c \in Snapshots}

Shards == [data : Files, meta : Files, mark : BOOLEAN]

StoreType ==
  /\ disk \in [Services -> [Steps -> Shards]]
  /\ folders \in SUBSET Services
  /\ victim \in [Services -> Steps \cup {0}]
  /\ doing \in [Services -> {"off", "idle", "export", "data", "meta", "mark",
                             "prune", "rotate", "publish"}]

RunType ==
  /\ life \in Nat /\ up \in BOOLEAN
  /\ rankAt \in [Ranks -> {"list", "check", "drop", "ready", "refused"}]
  /\ cand \in [Ranks -> SUBSET Steps]
  /\ resume \in [Ranks -> Steps \cup {0}]
  /\ weights \in [Versions -> {"absent", "torn", "whole"}]
  /\ loaded \in Nat /\ booted \in Int
  /\ steps \in Nat /\ windows \in Nat
  /\ gatesSeen \in Nat /\ started \in Nat /\ pulled \in Nat /\ next \in Nat
  /\ held \in SUBSET Nat /\ rolled \in SUBSET Nat /\ scored \in SUBSET Nat
  /\ pulses \in Seq(Nat)
  /\ learned \in [{Train, Score} -> SUBSET Nat]

(* What the save of a service, step by step, has put down.                 *)
InProgress(s) ==
  Clock(s) \in Steps =>
    /\ doing[s] \in {"meta", "mark"} /\ s \in Heavy => disk[s][Clock(s)].data = {Snapshot(s)}
    /\ doing[s] = "mark" => disk[s][Clock(s)].meta = {Snapshot(s)}

Saving(s) == doing[s] \in {"data", "meta", "mark"}

StoreInv ==
  /\ \A s \in Services : doing[s] = "off" <=> ~up
  /\ doing[Roll] \in {"off", "idle", "meta", "mark", "prune"}
  /\ Critic => doing[Score] \notin {"export", "rotate"}
  /\ \A s \in Services : victim[s] # 0 =>
       /\ ~disk[s][victim[s]].mark
       /\ IF up THEN doing[s] = "prune" ELSE rankAt[0] = "drop"
  /\ CommittedWhole
  /\ \A s \in Services : InProgress(s)

(* The rollout's sidecar holds a dataset cursor.                           *)
CursorsStored ==
  \A n \in Steps : \A c \in disk[Roll][n].meta :
    Cardinality(c.prompts) \in Nat /\ c.prompts = 1..Cardinality(c.prompts)

(* Before the services start: a rank that has come to a step has come to   *)
(* the resume point of the store, and one that is looking will.            *)
Agreeing ==
  /\ ~up =>
       \A r \in Ranks :
         /\ rankAt[r] \in {"list", "check"} => resume[r] = 0
         /\ rankAt[r] \in {"check", "refused"} => HasAnyShard
         /\ rankAt[r] = "check" /\ ResumePoint > 0 => ResumePoint \in cand[r]
         /\ rankAt[r] = "refused" => ResumePoint = 0
         /\ rankAt[r] \in {"ready", "drop"} =>
              resume[r] = ResumePoint /\ (ResumePoint = 0 => ~HasAnyShard)
         /\ rankAt[r] = "drop" => r = 0 /\ ResumePoint > 0
  /\ ~up /\ rankAt[0] = "ready" =>
       \A s \in Services : \A n \in CompleteSteps(s) : n <= resume[0]
  /\ up => \A r \in Ranks : rankAt[r] = "ready" /\ resume[r] = resume[0]

(* The committed shards of a running service are behind its clock.         *)
Behind ==
  up =>
    /\ \A s \in Heavy : \A n \in CompleteSteps(s) :
         n <= Clock(s) /\ (Saving(s) => n < Clock(s))
    /\ \A n \in CompleteSteps(Roll) :
         (n <= resume[0] \/ n <= Clock(Roll)) /\ (Saving(Roll) => n < Clock(Roll))
    /\ \A s \in Heavy : Clock(s) >= resume[0]
    /\ \A s \in Services : Saving(s) => Clock(s) > resume[0]

(* A shard of the trainer names the weights of its step, and they are on   *)
(* the disk.                                                               *)
PolicyStored ==
  /\ \A n \in Steps : n <= Cold => disk[Train][n].data = {} /\ disk[Train][n].meta = {}
  /\ \A n \in CompleteSteps(Train) :
       /\ Content(disk[Train][n].meta).steps = n - Cold
       /\ weights[n - Cold] = "whole"
  /\ Saving(Train) => steps > 0
  /\ Saving(Train) /\ steps \in Versions => weights[steps] = "whole"

RInv ==
  /\ StoreType /\ RunType /\ StoreInv /\ CursorsStored
  /\ Agreeing /\ Behind /\ PolicyStored /\ BootsCurrentPolicy

(* The number of the last pulse raised.                                    *)
Raised == gatesSeen + Len(pulses) - 1

Past == {"data", "meta", "mark", "prune", "rotate", "publish"}

(* The pulses due by now: those of the cold start from the critic, one for *)
(* each of its windows it is through with, then one for each step of the   *)
(* trainer that it is through with.                                        *)
Owed ==
  IF Critic /\ windows <= Cold
  THEN windows - (IF doing[Score] = "idle" THEN 0 ELSE 1)
  ELSE Cold + steps - (IF doing[Train] \in Past THEN 1 ELSE 0)

InOrder == \A i \in 1..Len(pulses) : pulses[i] = gatesSeen + i - 1

StreamInv ==
  /\ ~up => rolled = {} /\ scored = {} /\ held = {}
  /\ up =>
       /\ InOrder
       /\ Raised = Owed
       /\ Critic /\ windows <= Cold => scored = {} /\ steps = 0 /\ doing[Train] = "idle"

(* The trainer is behind the critic: rows it has not trained on are those  *)
(* of whole windows.                                                       *)
Trained == steps + (IF doing[Train] = "export" THEN 1 ELSE 0)

BehindCritic ==
  /\ IsFiniteSet(rolled) /\ IsFiniteSet(scored) /\ IsFiniteSet(held)
  /\ up /\ Critic =>
       /\ Cardinality(held) = IF doing[Score] = "idle" THEN 0 ELSE Batch
       /\ windows > Cold =>
            Trained * Batch + Cardinality(scored) + Cardinality(held)
              <= (windows - Cold) * Batch

(* Where the trainer has a directory, the critic has committed a shard.    *)
ScoreCommitted ==
  /\ up => \A n \in Steps :
       n <= windows - (IF Saving(Score) THEN 1 ELSE 0) => CompleteSteps(Score) # {}
  /\ TrainerDirs # {} => Train \in folders /\ HasAnyShard

(* The rows and what was learned from are behind the dataset cursor.       *)
NextAhead ==
  up =>
    /\ 1 <= next /\ next <= pulled + 1
    /\ rolled \subseteq 1..pulled /\ scored \subseteq 1..pulled /\ held \subseteq 1..pulled

(* The shards past the resume point are those of this launch.              *)
HistoryInv ==
  /\ \A s \in Services : \A n \in CompleteSteps(s) :
       LET l == Content(disk[s][n].meta).life
       IN  IF up THEN l <= life /\ (l = life <=> n > resume[0]) ELSE l < life
  /\ up =>
       /\ \A s \in Heavy : learned[s] \subseteq 1..pulled
       /\ \A s \in Heavy : \A n \in CompleteSteps(s) :
            n > resume[0] => Content(disk[s][n].meta).prompts \subseteq 1..pulled

(* A prompt has been started once at most, and is in one place.            *)
FreshInv ==
  /\ ~up => learned[Train] = {} /\ learned[Score] = {}
  /\ up =>
       /\ \A p \in rolled \cup scored \cup held : p < next
       /\ \A s \in Heavy : \A p \in learned[s] : p < next
       /\ rolled \cap held = {} /\ rolled \cap scored = {} /\ held \cap scored = {}
       /\ learned[Score] \cap rolled = {}
       /\ learned[Train] \cap (rolled \cup held \cup scored) = {}

CInv ==
  /\ RInv /\ StreamInv /\ BehindCritic /\ ScoreCommitted /\ NextAhead /\ HistoryInv
  /\ OneHistory /\ TrainerAdoptsResumePoint /\ FreshInv

-----------------------------------------------------------------------------
(* Operators.                                                              *)

LEMMA StepsFinite ==
  ASSUME NEW S, S \subseteq Steps \cup {0}
  PROVE  IsFiniteSet(S) /\ S \subseteq Nat
<1>1. IsFiniteSet(0..MaxStep)
  BY FS_Interval, StoreAssumption
<1>2. S \in SUBSET (0..MaxStep)
  BY StoreAssumption DEF Steps
<1>3. IsFiniteSet(S)
  BY <1>1, <1>2, FS_Subset
<1> QED BY <1>2, <1>3

LEMMA ContentOf == \A c : Content({c}) = c
BY DEF Content

(* The resume point is the newest step that can be resumed from.           *)
LEMMA ResumePointIs ==
  /\ ResumePoint \in Resumable \cup {0}
  /\ \A n \in Resumable : n <= ResumePoint
<1> DEFINE S == Resumable \cup {0}
<1>1. S \subseteq Steps \cup {0} /\ S # {}
  BY DEF Resumable
<1>2. IsFiniteSet(S) /\ S \subseteq Nat
  BY <1>1, StepsFinite
<1> HIDE DEF S
<1>3. Max(S) \in S /\ \A y \in S : Max(S) >= y
  <2>1. S \subseteq Int
    BY <1>2
  <2> QED BY <1>1, <1>2, <2>1, MaxMin
<1>4. Max(S) \in Nat /\ \A y \in S : y \in Nat
  BY <1>2, <1>3
<1> QED BY <1>3, <1>4 DEF S, ResumePoint

LEMMA ServicesAre ==
  /\ Train \in Services /\ Roll \in Services /\ Train \in Heavy /\ Roll \notin Heavy
  /\ Score \in Services <=> Critic
  /\ Score \in Heavy <=> Critic
  /\ Heavy \subseteq Services
  /\ \A s \in Services : s \in {Train, Score, Roll}
  /\ Train # Score /\ Train # Roll /\ Score # Roll
BY RunAssumption DEF Train, Score, Roll

-----------------------------------------------------------------------------
(* The store.                                                              *)

(* One field of one shard is written; a step past the bound is not there.  *)
With(r, field, c) == [x \in DOMAIN r |-> IF x = field THEN c ELSE r[x]]

LEMMA FieldPut ==
  ASSUME NEW r \in Shards
  PROVE  /\ \A c \in Files : With(r, "data", c) = [r EXCEPT !.data = c]
         /\ \A c \in Files : With(r, "meta", c) = [r EXCEPT !.meta = c]
         /\ \A c \in BOOLEAN : With(r, "mark", c) = [r EXCEPT !.mark = c]
BY DEF Shards, With

LEMMA PutIs ==
  ASSUME StoreType, NEW s \in Services, NEW n \in Int, NEW field, NEW c, Put(s, n, field, c)
  PROVE  \A t \in Services, m \in Steps :
           disk'[t][m] = IF t = s /\ m = n THEN With(disk[s][n], field, c) ELSE disk[t][m]
<1> DEFINE D == [disk[s] EXCEPT ![n][field] = c]
<1>1. disk' = [disk EXCEPT ![s] = D]
  BY DEF Put
<1>2. DOMAIN disk = Services /\ disk[s] \in [Steps -> Shards]
  BY DEF StoreType
<1>3. \A t \in Services : disk'[t] = IF t = s THEN D ELSE disk[t]
  <2> HIDE DEF D
  <2> QED BY <1>1, <1>2
<1>4. \A m \in Steps : D[m] = IF m = n THEN With(disk[s][n], field, c) ELSE disk[s][m]
  BY <1>2 DEF With, Shards
<1> HIDE DEF D
<1> QED BY <1>3, <1>4

LEMMA PutShape ==
  ASSUME StoreType, NEW s \in Services, NEW n \in Int, NEW field, NEW c, Put(s, n, field, c),
         n \in Steps => With(disk[s][n], field, c) \in Shards
  PROVE  disk' \in [Services -> [Steps -> Shards]]
<1>1. /\ \A t \in Services : disk'[t] = IF t = s THEN [disk[s] EXCEPT ![n][field] = c] ELSE disk[t]
      /\ DOMAIN disk' = Services
      /\ disk' = [t \in Services |-> disk'[t]]
  BY DEF Put, StoreType
<1>2. ASSUME NEW t \in Services PROVE disk'[t] \in [Steps -> Shards]
  <2>1. CASE t = s
    <3>1. disk[s] \in [Steps -> Shards]
      BY DEF StoreType
    <3> DEFINE D == [disk[s] EXCEPT ![n][field] = c]
    <3>2. DOMAIN D = Steps /\ D = [m \in Steps |-> D[m]]
      BY <3>1
    <3>3. \A m \in Steps : D[m] = IF m = n THEN With(disk[s][n], field, c) ELSE disk[s][m]
      BY <3>1 DEF With, Shards
    <3>4. \A m \in Steps : D[m] \in Shards
      BY <3>1, <3>3
    <3>5. disk'[t] = D
      BY <1>1, <2>1
    <3> HIDE DEF D
    <3> QED BY <3>2, <3>4, <3>5
  <2>2. CASE t # s
    BY <1>1, <2>2 DEF StoreType
  <2> QED BY <2>1, <2>2
<1> QED BY <1>1, <1>2

LEMMA PutData ==
  ASSUME StoreType, NEW s \in Services, NEW n \in Int, NEW c \in Files, Put(s, n, "data", c)
  PROVE  /\ disk' \in [Services -> [Steps -> Shards]]
         /\ \A t \in Services, m \in Steps :
              /\ disk'[t][m].data = IF t = s /\ m = n THEN c ELSE disk[t][m].data
              /\ disk'[t][m].meta = disk[t][m].meta
              /\ disk'[t][m].mark <=> disk[t][m].mark
<1>1. \A t \in Services, m \in Steps :
        disk'[t][m] = IF t = s /\ m = n THEN With(disk[s][n], "data", c) ELSE disk[t][m]
  BY PutIs
<1>2. n \in Steps => disk[s][n] \in Shards
  BY DEF StoreType
<1>3. n \in Steps => With(disk[s][n], "data", c) = [disk[s][n] EXCEPT !.data = c]
  BY <1>2, FieldPut
<1>4. n \in Steps => [disk[s][n] EXCEPT !.data = c] \in Shards
  BY <1>2 DEF Shards
<1>5. disk' \in [Services -> [Steps -> Shards]]
  BY <1>3, <1>4, PutShape
<1>6. ASSUME NEW t \in Services, NEW m \in Steps
      PROVE  /\ disk'[t][m].data = IF t = s /\ m = n THEN c ELSE disk[t][m].data
             /\ disk'[t][m].meta = disk[t][m].meta
             /\ disk'[t][m].mark <=> disk[t][m].mark
  <2>1. CASE t = s /\ m = n
    <3>1. disk'[t][m] = [disk[s][n] EXCEPT !.data = c]
      BY <1>1, <1>3, <2>1
    <3> QED BY <1>2, <2>1, <3>1 DEF Shards
  <2>2. CASE ~(t = s /\ m = n)
    BY <1>1, <2>2
  <2> QED BY <2>1, <2>2
<1> QED BY <1>5, <1>6

LEMMA PutMeta ==
  ASSUME StoreType, NEW s \in Services, NEW n \in Int, NEW c \in Files, Put(s, n, "meta", c)
  PROVE  /\ disk' \in [Services -> [Steps -> Shards]]
         /\ \A t \in Services, m \in Steps :
              /\ disk'[t][m].meta = IF t = s /\ m = n THEN c ELSE disk[t][m].meta
              /\ disk'[t][m].data = disk[t][m].data
              /\ disk'[t][m].mark <=> disk[t][m].mark
<1>1. \A t \in Services, m \in Steps :
        disk'[t][m] = IF t = s /\ m = n THEN With(disk[s][n], "meta", c) ELSE disk[t][m]
  BY PutIs
<1>2. n \in Steps => disk[s][n] \in Shards
  BY DEF StoreType
<1>3. n \in Steps => With(disk[s][n], "meta", c) = [disk[s][n] EXCEPT !.meta = c]
  BY <1>2, FieldPut
<1>4. n \in Steps => [disk[s][n] EXCEPT !.meta = c] \in Shards
  BY <1>2 DEF Shards
<1>5. disk' \in [Services -> [Steps -> Shards]]
  BY <1>3, <1>4, PutShape
<1>6. ASSUME NEW t \in Services, NEW m \in Steps
      PROVE  /\ disk'[t][m].meta = IF t = s /\ m = n THEN c ELSE disk[t][m].meta
             /\ disk'[t][m].data = disk[t][m].data
             /\ disk'[t][m].mark <=> disk[t][m].mark
  <2>1. CASE t = s /\ m = n
    <3>1. disk'[t][m] = [disk[s][n] EXCEPT !.meta = c]
      BY <1>1, <1>3, <2>1
    <3> QED BY <1>2, <2>1, <3>1 DEF Shards
  <2>2. CASE ~(t = s /\ m = n)
    BY <1>1, <2>2
  <2> QED BY <2>1, <2>2
<1> QED BY <1>5, <1>6

LEMMA PutMark ==
  ASSUME StoreType, NEW s \in Services, NEW n \in Int, NEW c \in BOOLEAN, Put(s, n, "mark", c)
  PROVE  /\ disk' \in [Services -> [Steps -> Shards]]
         /\ \A t \in Services, m \in Steps :
              /\ disk'[t][m].mark <=> IF t = s /\ m = n THEN c ELSE disk[t][m].mark
              /\ disk'[t][m].data = disk[t][m].data
              /\ disk'[t][m].meta = disk[t][m].meta
<1>1. \A t \in Services, m \in Steps :
        disk'[t][m] = IF t = s /\ m = n THEN With(disk[s][n], "mark", c) ELSE disk[t][m]
  BY PutIs
<1>2. n \in Steps => disk[s][n] \in Shards
  BY DEF StoreType
<1>3. n \in Steps => With(disk[s][n], "mark", c) = [disk[s][n] EXCEPT !.mark = c]
  BY <1>2, FieldPut
<1>4. n \in Steps => [disk[s][n] EXCEPT !.mark = c] \in Shards
  BY <1>2 DEF Shards
<1>5. disk' \in [Services -> [Steps -> Shards]]
  BY <1>3, <1>4, PutShape
<1>6. ASSUME NEW t \in Services, NEW m \in Steps
      PROVE  /\ disk'[t][m].mark <=> IF t = s /\ m = n THEN c ELSE disk[t][m].mark
             /\ disk'[t][m].data = disk[t][m].data
             /\ disk'[t][m].meta = disk[t][m].meta
  <2>1. CASE t = s /\ m = n
    <3>1. disk'[t][m] = [disk[s][n] EXCEPT !.mark = c]
      BY <1>1, <1>3, <2>1
    <3> QED BY <1>2, <2>1, <3>1 DEF Shards
  <2>2. CASE ~(t = s /\ m = n)
    BY <1>1, <2>2
  <2> QED BY <2>1, <2>2
<1> QED BY <1>5, <1>6

LEMMA FilesDropped ==
  ASSUME StoreType, NEW s \in Services, DropFiles(s)
  PROVE  /\ disk' \in [Services -> [Steps -> Shards]]
         /\ \A t \in Services, m \in Steps :
              disk'[t][m] = IF t = s /\ m = victim[s] THEN NoShard ELSE disk[t][m]
BY DEF StoreType, DropFiles, NoShard, Shards, Files

(* The snapshot of a service, when it is one.                              *)
LEMMA ClockIs ==
  /\ Clock(Train) = steps + Cold
  /\ Clock(Score) = windows
  /\ Clock(Roll) = gatesSeen - 1
  /\ Snapshot(Train) = [life |-> life, steps |-> steps, started |-> 0, prompts |-> learned[Train]]
  /\ Snapshot(Score) = [life |-> life, steps |-> 0, started |-> 0, prompts |-> learned[Score]]
  /\ Snapshot(Roll) = [life |-> life, steps |-> 0, started |-> started, prompts |-> 1..pulled]
BY DEF Clock, Snapshot, Train, Score, Roll

LEMMA ClockType ==
  ASSUME RunType, NEW s \in Services
  PROVE  /\ Clock(s) \in Int
         /\ Snapshot(s) \in Snapshots /\ {Snapshot(s)} \in Files
<1>1. Snapshot(s) \in Snapshots /\ Clock(s) \in Int
  <2>1. CASE s = Train
    BY <2>1, ClockIs, RunAssumption DEF RunType, Snapshots
  <2>2. CASE s = Score
    BY <2>2, ClockIs DEF RunType, Snapshots
  <2>3. CASE s = Roll
    <3>1. 1..pulled \in SUBSET Nat
      BY DEF RunType
    <3> QED BY <2>3, <3>1, ClockIs DEF RunType, Snapshots
  <2> QED BY <2>1, <2>2, <2>3, ServicesAre
<1> QED BY <1>1 DEF Files

-----------------------------------------------------------------------------
(* The steps, by what they do to the store.                                *)

After(s) == CASE s = Train -> "rotate" [] s = Score -> "publish" [] s = Roll -> "idle"

others == <<life, up, launch, booted, trainerVars, criticVars, rolloutVars, pulses, rows,
            learned>>

SaveStep(s) ==
  /\ \/ WriteShardDir(s, Clock(s), Snapshot(s))
     \/ WriteMeta(s, Clock(s), Snapshot(s))
     \/ MarkComplete(s, Clock(s))
     \/ Prune(s)
     \/ Saved(s, After(s))
  /\ UNCHANGED others

Look(r) == ListShards(r) \/ ResolveResumeStep(r)

RolloutWork == NextBatch \/ TryAdvanceGate \/ AcquireGenerationSlot
CriticWork == ScoreWindow \/ PublishScores
TrainerWork == TrainStep \/ ExportWeights \/ PruneWeights \/ RaiseGate

LEMMA StepCases ==
  ASSUME Next
  PROVE  \/ \E r \in Ranks : Look(r)
         \/ DropNewerThan \/ Start \/ Crash
         \/ \E s \in Services : SaveStep(s)
         \/ RolloutWork \/ CriticWork \/ TrainerWork
<1>1. CASE \E r \in Ranks : RankStep(r)
  BY <1>1 DEF RankStep, Look
<1>2. RolloutSave => SaveStep(Roll)
  BY ServicesAre DEF RolloutSave, SaveStep, After, others
<1>3. TrainerSave => SaveStep(Train)
  BY ServicesAre DEF TrainerSave, SaveStep, After, others
<1>4. CriticSave => Critic /\ SaveStep(Score)
  BY ServicesAre DEF CriticSave, SaveStep, After, others
<1>5. CASE RolloutStep \/ CriticStep \/ TrainerStep
  BY <1>2, <1>3, <1>4, <1>5, ServicesAre
     DEF RolloutStep, CriticStep, TrainerStep, RolloutWork, CriticWork, TrainerWork
<1> QED BY <1>1, <1>5 DEF Next

(* What a service's work leaves alone, and where it finds the service.     *)
LEMMA WorkKeeps ==
  ASSUME StoreType, RolloutWork \/ CriticWork \/ TrainerWork, StoreInv
  PROVE  /\ UNCHANGED <<store, life, up, launch, booted, loaded>>
         /\ up
<1>1. UNCHANGED <<store, life, up, launch, booted, loaded>>
  BY DEF RolloutWork, NextBatch, TryAdvanceGate, AcquireGenerationSlot,
         CriticWork, ScoreWindow, PublishScores,
         TrainerWork, TrainStep, ExportWeights, PruneWeights, RaiseGate,
         trainerVars, rolloutVars, criticVars, rows
<1>2. up \/ doing[Train] \notin {"off"} \/ (Critic /\ doing[Score] \notin {"off"})
  BY DEF RolloutWork, NextBatch, TryAdvanceGate, AcquireGenerationSlot, AtSlot,
         CriticWork, ScoreWindow, PublishScores,
         TrainerWork, TrainStep, ExportWeights, PruneWeights, RaiseGate
<1>3. up
  BY <1>2, ServicesAre DEF StoreInv, StoreType
<1> QED BY <1>1, <1>3

(* Pruning takes the marker of a committed shard away, and then its files. *)
PruneMarker(s) ==
  /\ doing[s] = "prune" /\ Stale(s) # {}
  /\ Min(Stale(s)) \in Stale(s)
  /\ DropMarker(s, Min(Stale(s)))

LEMMA PruneIs ==
  ASSUME NEW s \in Services, Prune(s)
  PROVE  PruneMarker(s) \/ (doing[s] = "prune" /\ DropFiles(s))
<1>1. Stale(s) \subseteq Steps \cup {0}
  BY DEF Stale, CompleteSteps
<1>2. IsFiniteSet(Stale(s)) /\ Stale(s) \subseteq Nat
  BY <1>1, StepsFinite
<1>3. Stale(s) \subseteq Int
  BY <1>2
<1>4. Stale(s) # {} => Min(Stale(s)) \in Stale(s)
  BY <1>2, <1>3, MaxMin
<1> QED BY <1>4 DEF Prune, PruneMarker

(* Before the launch, rank 0 takes the marker of a newer shard away.       *)
NewerMarker(s) ==
  /\ rankAt[0] = "drop"
  /\ \A t \in Services : victim[t] = 0
  /\ Min(Newer(s)) \in Newer(s)
  /\ DropMarker(s, Min(Newer(s)))

DropsDone ==
  /\ rankAt[0] = "drop"
  /\ \A s \in Services : Newer(s) = {} /\ victim[s] = 0
  /\ rankAt' = [rankAt EXCEPT ![0] = "ready"]
  /\ UNCHANGED <<cand, resume, store, doing>>

LEMMA DropIs ==
  ASSUME DropNewerThan
  PROVE  /\ \/ (\E s \in Services : NewerMarker(s)) /\ UNCHANGED launch
            \/ (\E s \in Services : DropFiles(s)) /\ UNCHANGED launch
            \/ DropsDone
         /\ rankAt[0] = "drop"
         /\ UNCHANGED <<up, life, booted, trainerVars, criticVars, rolloutVars, pulses, rows,
                        learned>>
<1>1. ASSUME NEW s \in Services, Newer(s) # {} PROVE Min(Newer(s)) \in Newer(s)
  <2>1. Newer(s) \subseteq Steps \cup {0}
    BY DEF Newer, CompleteSteps
  <2>2. IsFiniteSet(Newer(s)) /\ Newer(s) \subseteq Nat
    BY <2>1, StepsFinite
  <2>3. Newer(s) \subseteq Int
    BY <2>2
  <2> QED BY <1>1, <2>2, <2>3, MaxMin
<1> QED BY <1>1 DEF DropNewerThan, NewerMarker, DropsDone

LEMMA InitR == Init => StoreType /\ RunType /\ StoreInv /\ CursorsStored /\ Agreeing /\ Behind
                       /\ PolicyStored /\ BootsCurrentPolicy
<1> SUFFICES ASSUME Init
             PROVE  StoreType /\ RunType /\ StoreInv /\ CursorsStored /\ Agreeing /\ Behind
                    /\ PolicyStored /\ BootsCurrentPolicy
  OBVIOUS
<1> USE ServicesAre
<1>1. NoShard \in Shards
  BY DEF NoShard, Shards, Files
<1>2. \A s \in Services : \A n \in Steps : disk[s][n] = NoShard
  BY DEF Init, EmptyStore
<1>3. StoreType
  BY <1>1 DEF Init, EmptyStore, StoreType
<1>4. RunType
  <2>1. <<>> \in Seq(Nat)
    OBVIOUS
  <2> QED BY <2>1, RunAssumption DEF Init, RunType
<1>5. \A s \in Services : CompleteSteps(s) = {}
  BY <1>2 DEF CompleteSteps, NoShard
<1>6. StoreInv
  <2>1. \A s \in Services : victim[s] = 0 /\ doing[s] = "off"
    BY DEF Init, EmptyStore
  <2> QED BY <1>5, <2>1 DEF Init, StoreInv, CommittedWhole, InProgress
<1>7. CursorsStored
  BY <1>2 DEF CursorsStored, NoShard
<1>8. Agreeing
  BY <1>5, RunAssumption DEF Agreeing, Init
<1>9. PolicyStored
  BY <1>2, <1>5 DEF PolicyStored, Saving, Init, NoShard
<1> QED BY <1>3, <1>4, <1>6, <1>7, <1>8, <1>9 DEF Init, Behind, BootsCurrentPolicy

-----------------------------------------------------------------------------
(* What each step of a save, and of a deletion, does to the shards.        *)

OthersStand(s) ==
  \A t \in Services \ {s} : doing'[t] = doing[t] /\ victim'[t] = victim[t]

DirWritten(s) ==
  /\ doing[s] = "data" /\ doing'[s] = "meta" /\ victim'[s] = victim[s]
  /\ folders' = folders \cup {s}
  /\ \A t \in Services, m \in Steps :
       /\ disk'[t][m].data = IF t = s /\ m = Clock(s) THEN {Snapshot(s)} ELSE disk[t][m].data
       /\ disk'[t][m].meta = disk[t][m].meta
       /\ disk'[t][m].mark <=> disk[t][m].mark

MetaWritten(s) ==
  /\ doing[s] = "meta" /\ doing'[s] = "mark" /\ victim'[s] = victim[s]
  /\ folders' = folders \cup {s}
  /\ \A t \in Services, m \in Steps :
       /\ disk'[t][m].meta = IF t = s /\ m = Clock(s) THEN {Snapshot(s)} ELSE disk[t][m].meta
       /\ disk'[t][m].data = disk[t][m].data
       /\ disk'[t][m].mark <=> disk[t][m].mark

Marked(s) ==
  /\ doing[s] = "mark" /\ doing'[s] = "prune" /\ victim'[s] = victim[s]
  /\ folders' = folders
  /\ \A t \in Services, m \in Steps :
       /\ disk'[t][m].mark <=> disk[t][m].mark \/ (t = s /\ m = Clock(s))
       /\ disk'[t][m].data = disk[t][m].data
       /\ disk'[t][m].meta = disk[t][m].meta

MarkerTaken(s, n) ==
  /\ victim[s] = 0 /\ victim'[s] = n /\ n \in CompleteSteps(s)
  /\ doing' = doing /\ folders' = folders
  /\ \A t \in Services, m \in Steps :
       /\ disk'[t][m].mark <=> disk[t][m].mark /\ ~(t = s /\ m = n)
       /\ disk'[t][m].data = disk[t][m].data
       /\ disk'[t][m].meta = disk[t][m].meta

FilesTaken(s) ==
  /\ victim[s] # 0 /\ victim'[s] = 0
  /\ doing' = doing /\ folders' = folders
  /\ \A t \in Services, m \in Steps :
       disk'[t][m] = IF t = s /\ m = victim[s] THEN NoShard ELSE disk[t][m]

SaveOver(s) ==
  /\ doing[s] = "prune" /\ victim[s] = 0 /\ doing'[s] = After(s)
  /\ UNCHANGED store

LEMMA MarkerIs ==
  ASSUME StoreType, NEW s \in Services, NEW n \in CompleteSteps(s), DropMarker(s, n)
  PROVE  StoreType' /\ OthersStand(s) /\ MarkerTaken(s, n)
<1>a. n \in Steps /\ n \in Int
  BY DEF CompleteSteps, Steps
<1>b. Put(s, n, "mark", FALSE)
  BY DEF DropMarker, Put
<1>1. n \in Steps /\ n \in Int /\ Put(s, n, "mark", FALSE)
  BY <1>a, <1>b
<1>2. /\ disk' \in [Services -> [Steps -> Shards]]
      /\ \A t \in Services, m \in Steps :
           /\ disk'[t][m].mark <=> disk[t][m].mark /\ ~(t = s /\ m = n)
           /\ disk'[t][m].data = disk[t][m].data
           /\ disk'[t][m].meta = disk[t][m].meta
  <2>1. /\ disk' \in [Services -> [Steps -> Shards]]
        /\ \A t \in Services, m \in Steps :
             /\ disk'[t][m].mark <=> IF t = s /\ m = n THEN FALSE ELSE disk[t][m].mark
             /\ disk'[t][m].data = disk[t][m].data
             /\ disk'[t][m].meta = disk[t][m].meta
    BY <1>1, PutMark
  <2> QED BY <2>1
<1>3. victim' = [victim EXCEPT ![s] = n] /\ UNCHANGED <<folders, doing>> /\ victim[s] = 0
  BY DEF DropMarker
<1>4. StoreType'
  BY <1>1, <1>2, <1>3 DEF StoreType
<1>5. OthersStand(s) /\ victim'[s] = n
  BY <1>3 DEF StoreType, OthersStand
<1> QED BY <1>2, <1>3, <1>4, <1>5 DEF MarkerTaken

LEMMA FilesAre ==
  ASSUME StoreType, NEW s \in Services, DropFiles(s)
  PROVE  StoreType' /\ OthersStand(s) /\ FilesTaken(s)
<1>1. /\ disk' \in [Services -> [Steps -> Shards]]
      /\ \A t \in Services, m \in Steps :
           disk'[t][m] = IF t = s /\ m = victim[s] THEN NoShard ELSE disk[t][m]
  BY FilesDropped
<1>2. victim' = [victim EXCEPT ![s] = 0] /\ UNCHANGED <<folders, doing>> /\ victim[s] # 0
  BY DEF DropFiles
<1>3. StoreType'
  BY <1>1, <1>2 DEF StoreType
<1>4. OthersStand(s) /\ victim'[s] = 0
  BY <1>2 DEF StoreType, OthersStand
<1> QED BY <1>1, <1>2, <1>3, <1>4 DEF FilesTaken

LEMMA SaveIs ==
  ASSUME StoreType, RunType, NEW s \in Services, SaveStep(s)
  PROVE  /\ StoreType' /\ RunType' /\ UNCHANGED others /\ OthersStand(s)
         /\ \/ DirWritten(s) \/ MetaWritten(s) \/ Marked(s)
            \/ doing[s] = "prune" /\ \E n \in Stale(s) : MarkerTaken(s, n)
            \/ doing[s] = "prune" /\ FilesTaken(s)
            \/ SaveOver(s)
<1>1. UNCHANGED others
  BY DEF SaveStep
<1>2. RunType'
  BY <1>1 DEF RunType, others, launch, trainerVars, criticVars, rolloutVars, rows
<1>3. Clock(s) \in Int /\ {Snapshot(s)} \in Files
  BY ClockType
<1>4. CASE WriteShardDir(s, Clock(s), Snapshot(s))
  <2>1. Put(s, Clock(s), "data", {Snapshot(s)})
    BY <1>4 DEF WriteShardDir
  <2>2. /\ disk' \in [Services -> [Steps -> Shards]]
        /\ \A t \in Services, m \in Steps :
             /\ disk'[t][m].data = IF t = s /\ m = Clock(s) THEN {Snapshot(s)} ELSE disk[t][m].data
             /\ disk'[t][m].meta = disk[t][m].meta
             /\ disk'[t][m].mark <=> disk[t][m].mark
    BY <1>3, <2>1, PutData
  <2>3. /\ doing[s] = "data" /\ doing' = [doing EXCEPT ![s] = "meta"]
        /\ UNCHANGED victim /\ folders' = folders \cup {s}
    BY <1>4 DEF WriteShardDir
  <2>4. StoreType' /\ OthersStand(s) /\ doing'[s] = "meta"
    BY <2>2, <2>3 DEF StoreType, OthersStand
  <2> QED BY <1>1, <1>2, <2>2, <2>3, <2>4 DEF DirWritten
<1>5. CASE WriteMeta(s, Clock(s), Snapshot(s))
  <2>1. Put(s, Clock(s), "meta", {Snapshot(s)})
    BY <1>5 DEF WriteMeta
  <2>2. /\ disk' \in [Services -> [Steps -> Shards]]
        /\ \A t \in Services, m \in Steps :
             /\ disk'[t][m].meta = IF t = s /\ m = Clock(s) THEN {Snapshot(s)} ELSE disk[t][m].meta
             /\ disk'[t][m].data = disk[t][m].data
             /\ disk'[t][m].mark <=> disk[t][m].mark
    BY <1>3, <2>1, PutMeta
  <2>3. /\ doing[s] = "meta" /\ doing' = [doing EXCEPT ![s] = "mark"]
        /\ UNCHANGED victim /\ folders' = folders \cup {s}
    BY <1>5 DEF WriteMeta
  <2>4. StoreType' /\ OthersStand(s) /\ doing'[s] = "mark"
    BY <2>2, <2>3 DEF StoreType, OthersStand
  <2> QED BY <1>1, <1>2, <2>2, <2>3, <2>4 DEF MetaWritten
<1>6. CASE MarkComplete(s, Clock(s))
  <2>1. Put(s, Clock(s), "mark", TRUE)
    BY <1>6 DEF MarkComplete
  <2>2. /\ disk' \in [Services -> [Steps -> Shards]]
        /\ \A t \in Services, m \in Steps :
             /\ disk'[t][m].mark <=> disk[t][m].mark \/ (t = s /\ m = Clock(s))
             /\ disk'[t][m].data = disk[t][m].data
             /\ disk'[t][m].meta = disk[t][m].meta
    <3>1. /\ disk' \in [Services -> [Steps -> Shards]]
          /\ \A t \in Services, m \in Steps :
               /\ disk'[t][m].mark <=> IF t = s /\ m = Clock(s) THEN TRUE ELSE disk[t][m].mark
               /\ disk'[t][m].data = disk[t][m].data
               /\ disk'[t][m].meta = disk[t][m].meta
      BY <1>3, <2>1, PutMark
    <3> QED BY <3>1
  <2>3. /\ doing[s] = "mark" /\ doing' = [doing EXCEPT ![s] = "prune"]
        /\ UNCHANGED <<victim, folders>>
    BY <1>6 DEF MarkComplete
  <2>4. StoreType' /\ OthersStand(s) /\ doing'[s] = "prune"
    BY <2>2, <2>3 DEF StoreType, OthersStand
  <2> QED BY <1>1, <1>2, <2>2, <2>3, <2>4 DEF Marked
<1>7. CASE PruneMarker(s)
  <2>1. Min(Stale(s)) \in CompleteSteps(s) /\ DropMarker(s, Min(Stale(s)))
    BY <1>7 DEF PruneMarker, Stale
  <2>2. StoreType' /\ OthersStand(s) /\ MarkerTaken(s, Min(Stale(s)))
    BY <2>1, MarkerIs
  <2> QED BY <1>1, <1>2, <1>7, <2>2 DEF PruneMarker
<1>8. CASE doing[s] = "prune" /\ DropFiles(s)
  BY <1>1, <1>2, <1>8, FilesAre
<1>9. CASE Saved(s, After(s))
  <2>1. /\ doing[s] = "prune" /\ victim[s] = 0
        /\ doing' = [doing EXCEPT ![s] = After(s)] /\ UNCHANGED store
    BY <1>9 DEF Saved
  <2>2. After(s) \in {"rotate", "publish", "idle"}
    BY ServicesAre DEF After
  <2>3. StoreType' /\ OthersStand(s) /\ doing'[s] = After(s)
    BY <2>1, <2>2 DEF StoreType, OthersStand, store
  <2> QED BY <1>1, <1>2, <2>1, <2>3 DEF SaveOver
<1> QED BY <1>4, <1>5, <1>6, <1>7, <1>8, <1>9, PruneIs DEF SaveStep

(* A drop of rank 0, likewise.                                             *)
LEMMA DropStepIs ==
  ASSUME StoreType, RunType, DropNewerThan
  PROVE  /\ StoreType' /\ RunType' /\ rankAt[0] = "drop"
         /\ UNCHANGED <<up, life, booted, trainerVars, criticVars, rolloutVars, pulses, rows,
                        learned, cand, resume>>
         /\ \/ /\ UNCHANGED rankAt
               /\ \E s \in Services : OthersStand(s) /\ FilesTaken(s)
            \/ /\ UNCHANGED rankAt
               /\ \A t \in Services : victim[t] = 0
               /\ \E s \in Services : \E n \in Newer(s) : OthersStand(s) /\ MarkerTaken(s, n)
            \/ DropsDone
<1>1. /\ \/ (\E s \in Services : NewerMarker(s)) /\ UNCHANGED launch
         \/ (\E s \in Services : DropFiles(s)) /\ UNCHANGED launch
         \/ DropsDone
      /\ rankAt[0] = "drop"
      /\ UNCHANGED <<up, life, booted, trainerVars, criticVars, rolloutVars, pulses, rows,
                     learned>>
  BY DropIs
<1>2. RunType' /\ UNCHANGED <<cand, resume>>
  BY <1>1, RunAssumption
     DEF RunType, launch, trainerVars, criticVars, rolloutVars, rows, DropsDone
<1>3. CASE UNCHANGED launch /\ \E s \in Services : NewerMarker(s)
  <2>1. PICK s \in Services : NewerMarker(s)
    BY <1>3
  <2>2. Min(Newer(s)) \in CompleteSteps(s) /\ DropMarker(s, Min(Newer(s)))
    BY <2>1 DEF NewerMarker, Newer
  <2>3. StoreType' /\ OthersStand(s) /\ MarkerTaken(s, Min(Newer(s)))
    BY <2>2, MarkerIs
  <2> QED BY <1>1, <1>2, <1>3, <2>1, <2>3 DEF NewerMarker, launch
<1>4. CASE UNCHANGED launch /\ \E s \in Services : DropFiles(s)
  <2>1. PICK s \in Services : DropFiles(s)
    BY <1>4
  <2>2. StoreType' /\ OthersStand(s) /\ FilesTaken(s)
    BY <2>1, FilesAre
  <2> QED BY <1>1, <1>2, <1>4, <2>2 DEF launch
<1>5. CASE DropsDone
  BY <1>1, <1>2, <1>5 DEF DropsDone, StoreType, store
<1> QED BY <1>1, <1>3, <1>4, <1>5

-----------------------------------------------------------------------------
(* Types.                                                                  *)

(* A rank that looks: what it is at and what it has come to.               *)
LEMMA LookIs ==
  ASSUME RunType, NEW r \in Ranks, Look(r)
  PROVE  /\ RunType'
         /\ UNCHANGED <<up, life, store, doing, booted, trainerVars, criticVars, rolloutVars,
                        pulses, rows, learned>>
         /\ \A q \in Ranks \ {r} :
              rankAt'[q] = rankAt[q] /\ resume'[q] = resume[q] /\ cand'[q] = cand[q]
         /\ \/ /\ rankAt[r] = "list" /\ resume'[r] = resume[r]
               /\ cand'[r] = UNION {CompleteSteps(s) : s \in Services}
               /\ rankAt'[r] = IF HasAnyShard THEN "check" ELSE "ready"
            \/ /\ rankAt[r] = "check" /\ cand[r] = {} /\ rankAt'[r] = "refused"
               /\ resume'[r] = resume[r]
            \/ /\ rankAt[r] = "check"
               /\ \E n \in cand[r] :
                    \/ /\ AllComplete(n) /\ resume'[r] = n /\ cand'[r] = cand[r]
                       /\ \A m \in cand[r] : n >= m
                       /\ rankAt'[r] = IF r = 0 THEN "drop" ELSE "ready"
                    \/ /\ ~AllComplete(n) /\ resume'[r] = resume[r]
                       /\ cand'[r] = cand[r] \ {n} /\ rankAt'[r] = "check"
<1>0. UNCHANGED <<up, life, store, doing, booted, trainerVars, criticVars, rolloutVars,
                  pulses, rows, learned>>
  BY DEF Look, ListShards, ResolveResumeStep
<1>1. CASE ListShards(r)
  <2>1. UNION {CompleteSteps(s) : s \in Services} \subseteq Steps
    BY DEF CompleteSteps
  <2> DEFINE all == UNION {CompleteSteps(s) : s \in Services}
  <2>2. /\ rankAt[r] = "list" /\ cand' = [cand EXCEPT ![r] = all] /\ resume' = resume
        /\ rankAt' = [rankAt EXCEPT ![r] = IF HasAnyShard THEN "check" ELSE "ready"]
    BY <1>1 DEF ListShards
  <2> HIDE DEF all
  <2>3. all \subseteq Steps
    BY <2>1 DEF all
  <2>4. /\ rankAt' \in [Ranks -> {"list", "check", "drop", "ready", "refused"}]
        /\ cand' \in [Ranks -> SUBSET Steps]
    BY <2>2, <2>3 DEF RunType
  <2>5. RunType'
    BY <1>0, <2>2, <2>4 DEF RunType, trainerVars, criticVars, rolloutVars, rows
  <2>6. cand'[r] = all /\ rankAt'[r] = IF HasAnyShard THEN "check" ELSE "ready"
    BY <2>2 DEF RunType
  <2>7. \A q \in Ranks \ {r} :
          rankAt'[q] = rankAt[q] /\ resume'[q] = resume[q] /\ cand'[q] = cand[q]
    BY <2>2 DEF RunType
  <2> QED BY <1>0, <2>2, <2>5, <2>6, <2>7 DEF all
<1>2. CASE ResolveResumeStep(r) /\ cand[r] = {}
  <2>1. /\ rankAt[r] = "check" /\ rankAt' = [rankAt EXCEPT ![r] = "refused"]
        /\ cand' = cand /\ resume' = resume
    BY <1>2 DEF ResolveResumeStep
  <2>2. RunType'
    BY <1>0, <2>1 DEF RunType, trainerVars, criticVars, rolloutVars, rows
  <2> QED BY <1>0, <1>2, <2>1, <2>2 DEF RunType
<1>3. CASE ResolveResumeStep(r) /\ cand[r] # {}
  <2>1. cand[r] \subseteq Steps \cup {0}
    BY DEF RunType
  <2>2. IsFiniteSet(cand[r]) /\ cand[r] \subseteq Int
    BY <2>1, StepsFinite
  <2>3. PICK n \in cand[r] : n = Max(cand[r]) /\ \A m \in cand[r] : n >= m
    BY <1>3, <2>2, MaxMin
  <2>4. /\ rankAt[r] = "check"
        /\ IF AllComplete(n)
           THEN /\ resume' = [resume EXCEPT ![r] = n]
                /\ rankAt' = [rankAt EXCEPT ![r] = IF r = 0 THEN "drop" ELSE "ready"]
                /\ UNCHANGED cand
           ELSE cand' = [cand EXCEPT ![r] = @ \ {n}] /\ UNCHANGED <<resume, rankAt>>
    BY <1>3, <2>3 DEF ResolveResumeStep
  <2>5. n \in Steps
    BY DEF RunType
  <2>6. CASE AllComplete(n)
    <3>1. RunType'
      BY <1>0, <2>4, <2>5, <2>6 DEF RunType, trainerVars, criticVars, rolloutVars, rows
    <3> QED BY <1>0, <2>3, <2>4, <2>6, <3>1 DEF RunType
  <2>7. CASE ~AllComplete(n)
    <3>1. cand' = [cand EXCEPT ![r] = cand[r] \ {n}] /\ resume' = resume /\ rankAt' = rankAt
      BY <2>4, <2>7
    <3>2. cand[r] \ {n} \in SUBSET Steps
      BY DEF RunType
    <3>3. RunType'
      BY <1>0, <3>1, <3>2 DEF RunType, trainerVars, criticVars, rolloutVars, rows
    <3>4. cand'[r] = cand[r] \ {n}
      BY <3>1 DEF RunType
    <3>5. \A q \in Ranks \ {r} :
            rankAt'[q] = rankAt[q] /\ resume'[q] = resume[q] /\ cand'[q] = cand[q]
      BY <3>1 DEF RunType
    <3> QED BY <1>0, <2>4, <2>7, <3>1, <3>3, <3>4, <3>5
  <2> QED BY <2>6, <2>7
<1> QED BY <1>1, <1>2, <1>3 DEF Look

LEMMA RolloutType ==
  ASSUME StoreType, RunType, RolloutWork
  PROVE  StoreType' /\ RunType'
<1>1. Cardinality(Prompts) \in Nat
  <2> DEFINE k == MaxStep * Batch
  <2>1. k \in Nat
    BY StoreAssumption, RunAssumption
  <2> HIDE DEF k
  <2>2. Cardinality(1..k) = IF 1 > k THEN 0 ELSE k - 1 + 1
    BY <2>1, FS_Interval
  <2> QED BY <2>1, <2>2 DEF Prompts, k
<1>2. CASE NextBatch
  <2>1. pulled + PullSize \in Nat /\ pulled \in Nat
    BY RunAssumption DEF RunType
  <2>2. IsFiniteSet({pulled + PullSize, Cardinality(Prompts)})
    <3>1. IsFiniteSet({pulled + PullSize})
      BY FS_Singleton
    <3>2. IsFiniteSet({pulled + PullSize} \cup {Cardinality(Prompts)})
      BY <3>1, FS_AddElement
    <3>3. {pulled + PullSize} \cup {Cardinality(Prompts)} = {pulled + PullSize, Cardinality(Prompts)}
      OBVIOUS
    <3> QED BY <3>2, <3>3
  <2>3. {pulled + PullSize, Cardinality(Prompts)} \subseteq Int
    BY <1>1, <2>1
  <2>4. Min({pulled + PullSize, Cardinality(Prompts)})
          \in {pulled + PullSize, Cardinality(Prompts)}
    BY <2>2, <2>3, MaxMin
  <2>5. pulled' \in Nat
    BY <1>1, <1>2, <2>1, <2>4 DEF NextBatch
  <2> QED BY <1>2, <2>5
          DEF NextBatch, StoreType, RunType, store, launch, trainerVars, criticVars, rows
<1>3. CASE TryAdvanceGate
  <2>1. pulses' \in Seq(Nat)
    BY <1>3 DEF TryAdvanceGate, RunType
  <2>2. gatesSeen' \in Nat /\ UNCHANGED <<started, pulled, next>>
    BY <1>3 DEF TryAdvanceGate, RunType
  <2>3. /\ UNCHANGED <<store, life, up, launch, booted, trainerVars, criticVars, rows, learned>>
        /\ doing' = [doing EXCEPT ![Roll] = IF SnapshotDue(gatesSeen) THEN "meta" ELSE "idle"]
    BY <1>3 DEF TryAdvanceGate
  <2>4. StoreType'
    BY <2>3 DEF StoreType, store
  <2>5. RunType'
    BY <2>1, <2>2, <2>3 DEF RunType, launch, trainerVars, criticVars, rows
  <2> QED BY <2>4, <2>5
<1>4. CASE AcquireGenerationSlot
  BY <1>4 DEF AcquireGenerationSlot, StoreType, RunType, store, launch, trainerVars,
              criticVars, rows
<1> QED BY <1>2, <1>3, <1>4 DEF RolloutWork

LEMMA CriticType ==
  ASSUME StoreType, RunType, CriticWork
  PROVE  StoreType' /\ RunType'
<1>1. CASE ScoreWindow
  <2>1. PICK S \in kSubset(Batch, rolled) :
          /\ held' = S /\ rolled' = rolled \ S
          /\ learned' = [learned EXCEPT ![Score] = @ \cup S]
    BY <1>1 DEF ScoreWindow
  <2>2. S \subseteq rolled
    BY DEF kSubset
  <2>3. held' \in SUBSET Nat /\ rolled' \in SUBSET Nat
        /\ learned' \in [{Train, Score} -> SUBSET Nat]
    BY <2>1, <2>2 DEF RunType
  <2>4. /\ windows' = windows + 1 /\ UNCHANGED <<store, life, up, launch, booted, scored>>
        /\ UNCHANGED <<trainerVars, rolloutVars, pulses>>
        /\ doing' = [doing EXCEPT ![Score] = IF Due(windows + 1) THEN "data" ELSE "publish"]
    BY <1>1 DEF ScoreWindow
  <2>5. StoreType'
    BY <2>4 DEF StoreType, store
  <2>6. RunType'
    BY <2>3, <2>4 DEF RunType, launch, trainerVars, rolloutVars
  <2> QED BY <2>5, <2>6
<1>2. CASE PublishScores
  <2>1. Append(pulses, windows) \in Seq(Nat)
    BY DEF RunType
  <2>2. pulses' \in Seq(Nat) /\ scored' \in SUBSET Nat /\ held' \in SUBSET Nat
    BY <1>2, <2>1 DEF PublishScores, RunType
  <2> QED BY <1>2, <2>2
          DEF PublishScores, StoreType, RunType, store, launch, trainerVars, rolloutVars
<1> QED BY <1>1, <1>2 DEF CriticWork

LEMMA TrainerType ==
  ASSUME StoreType, RunType, TrainerWork
  PROVE  StoreType' /\ RunType'
<1>1. CASE TrainStep
  <2>1. PICK S \in kSubset(Batch, Ready) :
          /\ rolled' = IF Critic THEN rolled ELSE rolled \ S
          /\ scored' = scored \ S
          /\ learned' = [learned EXCEPT ![Train] = @ \cup S]
    BY <1>1 DEF TrainStep
  <2>2. S \subseteq scored \cup rolled
    BY DEF kSubset, Ready
  <2>3. rolled' \in SUBSET Nat /\ scored' \in SUBSET Nat
        /\ learned' \in [{Train, Score} -> SUBSET Nat]
    BY <2>1, <2>2 DEF RunType
  <2>4. weights' = [weights EXCEPT ![steps + 1] = "torn"]
    BY <1>1 DEF TrainStep
  <2>5. weights' \in [Versions -> {"absent", "torn", "whole"}]
    BY <2>4 DEF RunType
  <2> QED BY <1>1, <2>3, <2>5
          DEF TrainStep, StoreType, RunType, store, launch, criticVars, rolloutVars
<1>2. CASE ExportWeights
  <2>1. weights' = [weights EXCEPT ![steps'] = "whole"] /\ steps' = steps + 1
    BY <1>2 DEF ExportWeights
  <2>2. steps' \in Nat
    BY <2>1 DEF RunType
  <2>3. weights' \in [Versions -> {"absent", "torn", "whole"}]
    <3> DEFINE v == steps'
    <3>1. weights' = [weights EXCEPT ![v] = "whole"]
      BY <2>1
    <3> HIDE DEF v
    <3> QED BY <3>1 DEF RunType
  <2> QED BY <1>2, <2>2, <2>3
          DEF ExportWeights, StoreType, RunType, store, launch, criticVars, rolloutVars, rows
<1>3. CASE PruneWeights
  <2>1. weights' \in [Versions -> {"absent", "torn", "whole"}]
    BY <1>3 DEF PruneWeights, RunType
  <2> QED BY <1>3, <2>1
          DEF PruneWeights, StoreType, RunType, store, launch, criticVars, rolloutVars, rows
<1>4. CASE RaiseGate
  <2>1. GateNumber \in Nat
    BY RunAssumption DEF GateNumber, RunType
  <2>2. pulses' \in Seq(Nat)
    BY <1>4, <2>1 DEF RaiseGate, RunType
  <2> QED BY <1>4, <2>2
          DEF RaiseGate, StoreType, RunType, store, launch, criticVars, rolloutVars, rows,
              trainerVars
<1> QED BY <1>1, <1>2, <1>3, <1>4 DEF TrainerWork

LEMMA CrashIs ==
  ASSUME StoreType, RunType, Crash
  PROVE  /\ StoreType' /\ RunType'
         /\ \A s \in Services : victim'[s] = 0 /\ doing'[s] = "off"
         /\ \A r \in Ranks : rankAt'[r] = "list" /\ resume'[r] = 0
         /\ UNCHANGED <<disk, folders, weights>> /\ ~up' /\ life' = life + 1
<1>1. <<>> \in Seq(Nat)
  OBVIOUS
<1>2. StoreType'
  BY DEF Crash, StoreType
<1>3. RunType'
  <2>1. /\ life' \in Nat /\ up' \in BOOLEAN
        /\ rankAt' \in [Ranks -> {"list", "check", "drop", "ready", "refused"}]
        /\ cand' \in [Ranks -> SUBSET Steps] /\ resume' \in [Ranks -> Steps \cup {0}]
    <3>1. life' \in Nat /\ up' \in BOOLEAN
      <4>1. life' = life + 1 /\ life \in Nat
        BY DEF Crash, RunType
      <4>2. life' \in Nat
        BY <4>1
      <4>3. up' \in BOOLEAN
        BY DEF Crash
      <4> QED BY <4>2, <4>3
    <3>2. rankAt' \in [Ranks -> {"list", "check", "drop", "ready", "refused"}]
      BY DEF Crash
    <3>3. cand' \in [Ranks -> SUBSET Steps] /\ resume' \in [Ranks -> Steps \cup {0}]
      BY DEF Crash
    <3> QED BY <3>1, <3>2, <3>3
  <2>2. /\ weights' \in [Versions -> {"absent", "torn", "whole"}]
        /\ loaded' \in Nat /\ booted' \in Int /\ steps' \in Nat /\ windows' \in Nat
        /\ gatesSeen' \in Nat /\ started' \in Nat /\ pulled' \in Nat /\ next' \in Nat
    BY DEF Crash, RunType
  <2>3. /\ held' \in SUBSET Nat /\ rolled' \in SUBSET Nat /\ scored' \in SUBSET Nat
        /\ pulses' \in Seq(Nat) /\ learned' \in [{Train, Score} -> SUBSET Nat]
    BY <1>1 DEF Crash, RunType
  <2> QED BY <2>1, <2>2, <2>3 DEF RunType
<1> QED BY <1>2, <1>3 DEF Crash

-----------------------------------------------------------------------------
(* Clocks and snapshots.                                                   *)

LEMMA Shifted ==
  \A a, b, c \in Int : (a >= b => a + c >= b + c) /\ (a > b => a + c > b + c)
OBVIOUS

LEMMA SameClocks ==
  ASSUME UNCHANGED <<life, steps, windows, gatesSeen, started, pulled, learned>>
  PROVE  \A t : Clock(t)' = Clock(t) /\ Snapshot(t)' = Snapshot(t)
BY DEF Clock, Snapshot

(* Work is that of one service, which is not in a save.  It never moves its*)
(* clock back, and moves it on as it begins a save.                        *)
Moves(s) ==
  /\ doing[s] \notin {"off", "data", "meta", "mark", "prune"}
  /\ doing'[s] \notin {"off", "mark", "prune"}
  /\ s = Roll => doing'[s] \in {"idle", "meta"}
  /\ s # Roll => doing'[s] # "meta"
  /\ s = Score => doing'[s] \notin {"export", "rotate"}
  /\ \A t \in Services \ {s} :
       doing'[t] = doing[t] /\ Clock(t)' = Clock(t) /\ Snapshot(t)' = Snapshot(t)
  /\ Clock(s)' >= Clock(s)
  /\ doing'[s] \in {"data", "meta"} => Clock(s)' > Clock(s)
  /\ doing'[s] = "meta" => Clock(s)' > resume[0]

LEMMA RolloutMoves ==
  ASSUME StoreType, RunType, RolloutWork
  PROVE  Moves(Roll)
<1> USE ServicesAre
<1>1. /\ doing[Roll] = "idle"
      /\ UNCHANGED <<steps, windows, learned, life>>
      /\ gatesSeen' \in Nat /\ gatesSeen' >= gatesSeen
      /\ \A t \in Services \ {Roll} : doing'[t] = doing[t]
      /\ doing'[Roll] \in {"idle", "meta"}
      /\ doing'[Roll] = "meta" => gatesSeen' = gatesSeen + 1 /\ gatesSeen > resume[0]
  <2>1. CASE NextBatch
    BY <2>1 DEF NextBatch, StoreType, RunType, trainerVars, criticVars
  <2>2. CASE TryAdvanceGate
    <3>1. /\ doing[Roll] = "idle" /\ UNCHANGED <<steps, windows, learned, life>>
          /\ gatesSeen' = gatesSeen + 1
          /\ doing' = [doing EXCEPT ![Roll] = IF SnapshotDue(gatesSeen) THEN "meta" ELSE "idle"]
      BY <2>2 DEF TryAdvanceGate, AtSlot, trainerVars, criticVars
    <3>2. /\ doing'[Roll] = IF SnapshotDue(gatesSeen) THEN "meta" ELSE "idle"
          /\ \A t \in Services \ {Roll} : doing'[t] = doing[t]
      BY <3>1 DEF StoreType
    <3>3. doing'[Roll] = "meta" => gatesSeen > resume[0]
      BY <3>2 DEF SnapshotDue
    <3> QED BY <3>1, <3>2, <3>3 DEF RunType
  <2>3. CASE AcquireGenerationSlot
    BY <2>3 DEF AcquireGenerationSlot, AtSlot, StoreType, RunType, trainerVars, criticVars
  <2> QED BY <2>1, <2>2, <2>3 DEF RolloutWork
<1>2. \A t \in Services \ {Roll} : t \in {Train, Score}
  OBVIOUS
<1>3. \A t \in Services \ {Roll} : Clock(t)' = Clock(t) /\ Snapshot(t)' = Snapshot(t)
  BY <1>1, <1>2 DEF Clock, Snapshot, Train, Score, Roll
<1>5. Clock(Roll) = gatesSeen - 1 /\ Clock(Roll)' = gatesSeen' - 1
  BY DEF Clock, Train, Score, Roll
<1>6. gatesSeen \in Nat /\ resume[0] \in Int
  BY RunAssumption DEF RunType, Steps
<1>7. /\ Clock(Roll)' >= Clock(Roll)
      /\ doing'[Roll] = "meta" => Clock(Roll)' > Clock(Roll) /\ Clock(Roll)' > resume[0]
  <2>1. /\ gatesSeen' \in Int /\ gatesSeen' >= gatesSeen
        /\ doing'[Roll] = "meta" => gatesSeen' = gatesSeen + 1 /\ gatesSeen > resume[0]
    BY <1>1
  <2>2. \A g, h, n \in Int :
          /\ h >= g => h - 1 >= g - 1
          /\ h = g + 1 /\ g > n => h - 1 > g - 1 /\ h - 1 > n
    OBVIOUS
  <2>3. gatesSeen \in Int
    BY <1>6
  <2> QED BY <1>5, <1>6, <2>1, <2>2, <2>3
<1> QED BY <1>1, <1>3, <1>7 DEF Moves

LEMMA CriticMoves ==
  ASSUME StoreType, RunType, CriticWork
  PROVE  Critic /\ Moves(Score)
<1> USE ServicesAre
<1>0. Critic
  BY DEF CriticWork, ScoreWindow, PublishScores
<1>1. /\ doing[Score] \in {"idle", "publish"}
      /\ UNCHANGED <<steps, life, gatesSeen, started, pulled>>
      /\ learned'[Train] = learned[Train]
      /\ windows' \in Nat /\ windows' >= windows
      /\ \A t \in Services \ {Score} : doing'[t] = doing[t]
      /\ doing'[Score] \in {"idle", "publish", "data"}
      /\ doing'[Score] = "data" => windows' > windows
  <2>1. CASE ScoreWindow
    <3>1. /\ doing[Score] = "idle" /\ UNCHANGED <<steps, life, gatesSeen, started, pulled>>
          /\ windows' = windows + 1
          /\ doing' = [doing EXCEPT ![Score] = IF Due(windows + 1) THEN "data" ELSE "publish"]
          /\ \E S \in kSubset(Batch, rolled) : learned' = [learned EXCEPT ![Score] = @ \cup S]
      BY <2>1 DEF ScoreWindow, trainerVars, rolloutVars
    <3>2. /\ doing'[Score] = IF Due(windows + 1) THEN "data" ELSE "publish"
          /\ \A t \in Services \ {Score} : doing'[t] = doing[t]
      BY <3>1, <1>0 DEF StoreType
    <3>3. learned'[Train] = learned[Train]
      BY <3>1 DEF RunType
    <3> QED BY <3>1, <3>2, <3>3 DEF RunType
  <2>2. CASE PublishScores
    <3>1. /\ doing[Score] = "publish" /\ UNCHANGED <<steps, life, gatesSeen, started, pulled>>
          /\ windows' = windows /\ learned' = learned
          /\ doing' = [doing EXCEPT ![Score] = "idle"]
      BY <2>2 DEF PublishScores, trainerVars, rolloutVars
    <3>2. /\ doing'[Score] = "idle"
          /\ \A t \in Services \ {Score} : doing'[t] = doing[t]
      BY <3>1, <1>0 DEF StoreType
    <3> QED BY <3>1, <3>2 DEF RunType
  <2> QED BY <2>1, <2>2 DEF CriticWork
<1>2. \A t \in Services \ {Score} : t \in {Train, Roll}
  OBVIOUS
<1>3. \A t \in Services \ {Score} : Clock(t)' = Clock(t) /\ Snapshot(t)' = Snapshot(t)
  BY <1>1, <1>2 DEF Clock, Snapshot, Train, Score, Roll
<1>5. Clock(Score) = windows /\ Clock(Score)' = windows'
  BY DEF Clock, Train, Score, Roll
<1>6. windows \in Nat
  BY DEF RunType
<1>7. /\ Clock(Score)' >= Clock(Score)
      /\ doing'[Score] = "data" => Clock(Score)' > Clock(Score)
  BY <1>1, <1>5, <1>6
<1> QED BY <1>0, <1>1, <1>3, <1>7 DEF Moves

LEMMA TrainerMoves ==
  ASSUME StoreType, RunType, TrainerWork
  PROVE  Moves(Train)
<1> USE ServicesAre
<1>1. /\ doing[Train] \in {"idle", "export", "rotate", "publish"}
      /\ UNCHANGED <<windows, life, gatesSeen, started, pulled>>
      /\ learned'[Score] = learned[Score]
      /\ steps' \in Nat /\ steps' >= steps
      /\ \A t \in Services \ {Train} : doing'[t] = doing[t]
      /\ doing'[Train] \in {"idle", "export", "rotate", "publish", "data"}
      /\ doing'[Train] = "data" => steps' > steps
  <2>1. CASE TrainStep
    <3>1. /\ doing[Train] = "idle" /\ UNCHANGED <<windows, life, gatesSeen, started, pulled, steps>>
          /\ doing' = [doing EXCEPT ![Train] = "export"]
          /\ \E S \in kSubset(Batch, Ready) : learned' = [learned EXCEPT ![Train] = @ \cup S]
      BY <2>1 DEF TrainStep, criticVars, rolloutVars
    <3>2. /\ doing'[Train] = "export"
          /\ \A t \in Services \ {Train} : doing'[t] = doing[t]
      BY <3>1 DEF StoreType
    <3>3. learned'[Score] = learned[Score]
      BY <3>1 DEF RunType
    <3> QED BY <3>1, <3>2, <3>3 DEF RunType
  <2>2. CASE ExportWeights
    <3>1. /\ doing[Train] = "export" /\ UNCHANGED <<windows, life, gatesSeen, started, pulled, learned>>
          /\ steps' = steps + 1
          /\ doing' = [doing EXCEPT ![Train] = IF Due(steps' + Cold) THEN "data" ELSE "rotate"]
      BY <2>2 DEF ExportWeights, criticVars, rolloutVars
    <3>2. /\ doing'[Train] = IF Due(steps' + Cold) THEN "data" ELSE "rotate"
          /\ \A t \in Services \ {Train} : doing'[t] = doing[t]
      BY <3>1 DEF StoreType
    <3> QED BY <3>1, <3>2 DEF RunType
  <2>3. CASE PruneWeights
    <3>1. /\ doing[Train] = "rotate" /\ UNCHANGED <<windows, life, gatesSeen, started, pulled, learned, steps>>
          /\ doing' = [doing EXCEPT ![Train] = "publish"]
      BY <2>3 DEF PruneWeights, criticVars, rolloutVars
    <3>2. /\ doing'[Train] = "publish"
          /\ \A t \in Services \ {Train} : doing'[t] = doing[t]
      BY <3>1 DEF StoreType
    <3> QED BY <3>1, <3>2 DEF RunType
  <2>4. CASE RaiseGate
    <3>1. /\ doing[Train] = "publish" /\ UNCHANGED <<windows, life, gatesSeen, started, pulled, learned, steps>>
          /\ doing' = [doing EXCEPT ![Train] = "idle"]
      BY <2>4 DEF RaiseGate, criticVars, rolloutVars, trainerVars
    <3>2. /\ doing'[Train] = "idle"
          /\ \A t \in Services \ {Train} : doing'[t] = doing[t]
      BY <3>1 DEF StoreType
    <3> QED BY <3>1, <3>2 DEF RunType
  <2> QED BY <2>1, <2>2, <2>3, <2>4 DEF TrainerWork
<1>2. \A t \in Services \ {Train} : t \in {Score, Roll}
  OBVIOUS
<1>3. \A t \in Services \ {Train} : Clock(t)' = Clock(t) /\ Snapshot(t)' = Snapshot(t)
  BY <1>1, <1>2 DEF Clock, Snapshot, Train, Score, Roll
<1>5. Clock(Train) = steps + Cold /\ Clock(Train)' = steps' + Cold
  BY DEF Clock, Train, Score, Roll
<1>6. steps \in Nat /\ Cold \in Nat
  BY RunAssumption DEF RunType
<1>7. /\ Clock(Train)' >= Clock(Train)
      /\ doing'[Train] = "data" => Clock(Train)' > Clock(Train)
  <2>1. /\ steps' \in Int /\ steps \in Int /\ Cold \in Int /\ steps' >= steps
        /\ doing'[Train] = "data" => steps' > steps
    BY <1>1, <1>6
  <2>2. steps' + Cold >= steps + Cold /\ (steps' > steps => steps' + Cold > steps + Cold)
    BY <2>1, Shifted
  <2> QED BY <1>5, <2>1, <2>2
<1> QED BY <1>1, <1>3, <1>7 DEF Moves

LEMMA WorkMoves ==
  ASSUME StoreType, RunType, RolloutWork \/ CriticWork \/ TrainerWork
  PROVE  \E s \in Services : Moves(s)
BY RolloutMoves, CriticMoves, TrainerMoves, ServicesAre

-----------------------------------------------------------------------------
(* The start of a launch.                                                  *)

(* What the ranks have agreed on, and what the shards there hold.          *)
LEMMA Agreed ==
  ASSUME RInv, Start
  PROVE  LET n == resume[0]
         IN  /\ n \in Steps \cup {0} /\ n \in Nat /\ n = ResumePoint
             /\ n = 0 => ~HasAnyShard
             /\ n > 0 => n \in Steps /\ \A s \in Services : (s = Train => n > Cold) => IsComplete(s, n)
             /\ \A s \in Services : \A m \in CompleteSteps(s) : m <= n
             /\ \A r \in Ranks : rankAt[r] = "ready" /\ resume[r] = n
             /\ ~up /\ \A s \in Services : victim[s] = 0
<1> DEFINE n == resume[0]
<1>1. ~up /\ \A r \in Ranks : rankAt[r] = "ready"
  BY DEF Start
<1>2. 0 \in Ranks
  BY RunAssumption
<1>3. n \in Steps \cup {0}
  BY <1>2 DEF RInv, RunType
<1>4. n \in Nat
  BY <1>3 DEF Steps
<1>5. \A r \in Ranks : resume[r] = ResumePoint /\ (ResumePoint = 0 => ~HasAnyShard)
  BY <1>1 DEF RInv, Agreeing
<1>6. n = ResumePoint
  BY <1>2, <1>5
<1>7. n > 0 => n \in Resumable
  BY <1>3, <1>4, <1>6, ResumePointIs
<1>8. n > 0 => n \in Steps /\ \A s \in Services : (s = Train => n > Cold) => IsComplete(s, n)
  BY <1>7 DEF Resumable, AllComplete, CheckpointParticipants
<1>9. \A s \in Services : \A m \in CompleteSteps(s) : m <= n
  BY <1>1, <1>2 DEF RInv, Agreeing
<1>10. \A s \in Services : victim[s] = 0
  BY <1>1, <1>2 DEF RInv, StoreInv
<1> QED BY <1>1, <1>2, <1>3, <1>4, <1>5, <1>6, <1>8, <1>9, <1>10

(* A committed shard has its sidecar, and a heavy one its directory.       *)
LEMMA Committed ==
  ASSUME StoreType, CommittedWhole, NEW s \in Services, NEW n \in Steps, IsComplete(s, n)
  PROVE  /\ Content(disk[s][n].meta) \in Snapshots
         /\ disk[s][n].meta = {Content(disk[s][n].meta)}
         /\ s \in Heavy => disk[s][n].data = {Content(disk[s][n].meta)}
<1>1. disk[s][n] \in Shards
  BY DEF StoreType
<1>2. disk[s][n].meta \in Files /\ disk[s][n].meta # {}
      /\ (s \in Heavy => disk[s][n].data = disk[s][n].meta)
  BY <1>1 DEF Shards, CommittedWhole, IsComplete, CompleteSteps
<1>3. PICK c \in Snapshots : disk[s][n].meta = {c}
  BY <1>2 DEF Files
<1>4. Content(disk[s][n].meta) = c
  BY <1>3, ContentOf
<1> QED BY <1>2, <1>3, <1>4

(* What the trainer's load comes from, if it comes from a directory.       *)
LEMMA LoadedFrom ==
  ASSUME StoreType, NEW n, NEW from \in DcpLoad(n), from # 0
  PROVE  /\ from \in Steps /\ from \in TrainerDirs
         /\ Content(disk[Train][from].data) \in Snapshots
<1>1. TrainerDirs \subseteq Steps \cup {0}
  BY DEF TrainerDirs
<1>2. IsFiniteSet(TrainerDirs) /\ TrainerDirs \subseteq Int
  BY <1>1, StepsFinite
<1>3. TrainerDirs # {} => Max(TrainerDirs) \in TrainerDirs
  BY <1>2, MaxMin
<1>4. from \in TrainerDirs
  BY <1>3 DEF DcpLoad
<1>5. from \in Steps /\ disk[Train][from].data # {}
  BY <1>4 DEF TrainerDirs
<1>6. disk[Train][from].data \in Files
  <2>1. disk[Train][from] \in Shards
    BY <1>5, ServicesAre DEF StoreType
  <2> QED BY <2>1 DEF Shards
<1>7. PICK c \in Snapshots : disk[Train][from].data = {c}
  BY <1>5, <1>6 DEF Files
<1> QED BY <1>4, <1>5, <1>7, ContentOf

(* The snapshots a launch restores.                                        *)
LEMMA Restored ==
  ASSUME RInv, Start
  PROVE  LET n == resume[0]
         IN  /\ n > Cold => /\ Content(disk[Train][n].meta).steps = n - Cold
                            /\ weights[n - Cold] = "whole" /\ n - Cold \in Versions
                            /\ disk[Train][n].meta # {}
                            /\ disk[Train][n].data = {Content(disk[Train][n].meta)}
             /\ n > 0 => /\ Content(disk[Roll][n].meta) \in Snapshots
                         /\ disk[Roll][n].meta = {Content(disk[Roll][n].meta)}
             /\ n > 0 /\ Critic => Content(disk[Score][n].data) \in Snapshots
<1> DEFINE n == resume[0]
<1>1. /\ n \in Nat
      /\ n > 0 => n \in Steps /\ \A s \in Services : (s = Train => n > Cold) => IsComplete(s, n)
  BY Agreed
<1>2. StoreType /\ CommittedWhole
  BY DEF RInv, StoreInv
<1>3. Cold \in Nat
  BY RunAssumption
<1>4. ASSUME n > Cold
      PROVE  /\ Content(disk[Train][n].meta).steps = n - Cold
             /\ weights[n - Cold] = "whole" /\ n - Cold \in Versions
             /\ disk[Train][n].meta # {}
             /\ disk[Train][n].data = {Content(disk[Train][n].meta)}
  <2>0. n > 0
    BY <1>1, <1>3, <1>4
  <2>1. n \in Steps /\ IsComplete(Train, n)
    BY <1>1, <1>4, <2>0, ServicesAre
  <2>2. disk[Train][n].data = {Content(disk[Train][n].meta)} /\ disk[Train][n].meta # {}
    BY <1>2, <2>1, Committed, ServicesAre
  <2>3. n \in CompleteSteps(Train)
    BY <2>1 DEF IsComplete, CompleteSteps
  <2>4. Content(disk[Train][n].meta).steps = n - Cold /\ weights[n - Cold] = "whole"
    BY <2>3 DEF RInv, PolicyStored
  <2>5. n - Cold \in Versions
    BY <1>1, <1>3, <1>4, <2>1, StoreAssumption DEF Versions, Steps
  <2> QED BY <2>2, <2>4, <2>5
<1>5. ASSUME n > 0
      PROVE  /\ Content(disk[Roll][n].meta) \in Snapshots
             /\ disk[Roll][n].meta = {Content(disk[Roll][n].meta)}
  BY <1>1, <1>2, <1>5, Committed, ServicesAre
<1>6. ASSUME n > 0, Critic
      PROVE  Content(disk[Score][n].data) \in Snapshots
  <2>1. n \in Steps /\ IsComplete(Score, n) /\ Score \in Services /\ Score \in Heavy
    BY <1>1, <1>6, ServicesAre
  <2> QED BY <1>2, <2>1, Committed, ContentOf
<1> QED BY <1>4, <1>5, <1>6

LEMMA StartCursor ==
  ASSUME RInv, Start
  PROVE  RestoredCursor(resume[0]) \in Nat /\ RestoredStarted(resume[0]) \in Nat
<1> DEFINE n == resume[0]
           c == Content(disk[Roll][n].meta)
<1>1. n \in Nat /\ (n > 0 => n \in Steps)
  BY Agreed
<1>2. n > 0 => c \in Snapshots /\ disk[Roll][n].meta = {c}
  BY Restored
<1>3. ASSUME n > 0 PROVE Cardinality(c.prompts) \in Nat /\ c.started \in Nat
  <2>1. c \in disk[Roll][n].meta /\ c \in Snapshots
    BY <1>2, <1>3
  <2>2. \A d \in disk[Roll][n].meta : Cardinality(d.prompts) \in Nat
    BY <1>1, <1>3 DEF RInv, CursorsStored
  <2>3. Cardinality(c.prompts) \in Nat
    <3> HIDE DEF c
    <3> QED BY <2>1, <2>2
  <2>4. c.started \in Nat
    <3> HIDE DEF c
    <3> QED BY <2>1 DEF Snapshots
  <2> QED BY <2>3, <2>4
<1> QED BY <1>1, <1>3 DEF RestoredCursor, RestoredStarted

LEMMA StartType ==
  ASSUME RInv, Start
  PROVE  StoreType' /\ RunType'
<1> DEFINE n == resume[0]
<1>0. StoreType /\ RunType
  BY DEF RInv
<1>1. StoreType'
  BY <1>0 DEF Start, StoreType, store
<1>2. n \in Nat /\ Cold \in Nat
  BY Agreed, RunAssumption
<1>3. PICK from \in DcpLoad(n) :
        /\ loaded' = from
        /\ learned' = [s \in {Train, Score} |->
             IF s = Train /\ from > 0 THEN Content(disk[Train][from].data).prompts
             ELSE IF s = Score /\ Critic /\ n > 0 THEN Content(disk[Score][n].data).prompts
             ELSE {}]
  BY DEF Start
<1>4. from # 0 => from \in Steps /\ Content(disk[Train][from].data) \in Snapshots
  BY <1>0, LoadedFrom
<1>5. loaded' \in Nat
  BY <1>3, <1>4 DEF Steps
<1>6. learned' \in [{Train, Score} -> SUBSET Nat]
  <2>1. from > 0 => Content(disk[Train][from].data).prompts \in SUBSET Nat
    <3>1. from > 0 => from # 0
      OBVIOUS
    <3> QED BY <1>4, <3>1 DEF Snapshots
  <2>2. n > 0 /\ Critic => Content(disk[Score][n].data).prompts \in SUBSET Nat
    BY Restored DEF Snapshots
  <2> QED BY <1>3, <2>1, <2>2
<1>7. steps' \in Nat
  <2>1. n > Cold => Content(disk[Train][n].meta).steps = n - Cold
    BY Restored
  <2>2. steps' = IF n > Cold THEN Content(disk[Train][n].meta).steps ELSE 0
    BY DEF Start
  <2> QED BY <1>2, <2>1, <2>2
<1>8. booted' \in Int
  <2>1. n > Cold => Content(disk[Train][n].meta).steps \in Int
    BY <1>2, Restored
  <2>2. BootModel(n) \in Int
    <3>1. CASE n > 0 /\ disk[Train][n].meta # {}
      <4>1. disk[Train][n].meta \in Files
        <5>1. n \in Steps
          BY <3>1, Agreed
        <5>2. disk[Train][n] \in Shards
          BY <1>0, <5>1, ServicesAre DEF StoreType
        <5> QED BY <5>2 DEF Shards
      <4>2. Content(disk[Train][n].meta) \in Snapshots
        BY <3>1, <4>1, ContentOf DEF Files
      <4>3. Content(disk[Train][n].meta).steps \in Int
        BY <4>2 DEF Snapshots
      <4> QED BY <3>1, <4>3 DEF BootModel
    <3>2. CASE ~(n > 0 /\ disk[Train][n].meta # {})
      BY <3>2 DEF BootModel
    <3> QED BY <3>1, <3>2
  <2> QED BY <2>2 DEF Start
<1>9. windows' \in Nat /\ gatesSeen' \in Nat
  BY <1>2 DEF Start, RestoredGates
<1>10. pulled' \in Nat /\ next' \in Nat /\ started' \in Nat
  <2>1. pulled' = RestoredCursor(n) /\ next' = pulled' + 1 /\ started' = RestoredStarted(n)
    BY DEF Start
  <2> QED BY <2>1, StartCursor
<1>11. pulses' \in Seq(Nat)
  BY <1>2 DEF Start
<1>12. UNCHANGED <<life, rankAt, cand, resume, weights, held, rolled, scored>>
  BY DEF Start, launch, rows
<1>13. up' \in BOOLEAN
  BY DEF Start
<1> QED BY <1>0, <1>1, <1>5, <1>6, <1>7, <1>8, <1>9, <1>10, <1>11, <1>12, <1>13 DEF RunType

LEMMA TypeNext ==
  ASSUME RInv, Next
  PROVE  StoreType' /\ RunType'
<1>0. StoreType /\ RunType
  BY DEF RInv
<1>1. CASE \E r \in Ranks : Look(r)
  <2>1. RunType' /\ UNCHANGED <<store, doing>>
    BY <1>0, <1>1, LookIs
  <2> QED BY <1>0, <2>1 DEF StoreType, store
<1>2. CASE DropNewerThan
  BY <1>0, <1>2, DropStepIs
<1>3. CASE \E s \in Services : SaveStep(s)
  BY <1>0, <1>3, SaveIs
<1>4. CASE Start
  BY <1>4, StartType
<1>5. CASE Crash
  BY <1>0, <1>5, CrashIs
<1>6. CASE RolloutWork \/ CriticWork \/ TrainerWork
  BY <1>0, <1>6, RolloutType, CriticType, TrainerType
<1> QED BY <1>1, <1>2, <1>3, <1>4, <1>5, <1>6, StepCases

LEMMA BootsNext ==
  ASSUME RInv, Next
  PROVE  BootsCurrentPolicy'
<1>0. StoreType /\ RunType /\ BootsCurrentPolicy
  BY DEF RInv
<1>1. CASE Start
  <2> DEFINE n == resume[0]
  <2>1. n \in Nat /\ Cold \in Nat /\ (n > 0 => n \in Steps)
    BY <1>1, Agreed, RunAssumption
  <2>2. /\ booted' = IF BootModel(n) > 0 /\ weights[BootModel(n)] = "torn" THEN -1
                     ELSE BootModel(n)
        /\ resume' = resume
    BY <1>1 DEF Start, launch
  <2>3. CASE n > Cold
    <3>1. /\ Content(disk[Train][n].meta).steps = n - Cold
          /\ weights[n - Cold] = "whole" /\ disk[Train][n].meta # {}
      BY <1>1, <2>3, Restored
    <3>2. n > 0 /\ n - Cold > 0
      BY <2>1, <2>3
    <3>3. BootModel(n) = n - Cold
      BY <3>1, <3>2 DEF BootModel
    <3> QED BY <2>2, <2>3, <3>1, <3>3 DEF BootsCurrentPolicy
  <2>4. CASE ~(n > Cold)
    <3>1. n > 0 => disk[Train][n].meta = {}
      BY <2>1, <2>4 DEF RInv, PolicyStored
    <3>2. BootModel(n) = 0
      BY <3>1 DEF BootModel
    <3> QED BY <2>2, <2>4, <3>2 DEF BootsCurrentPolicy
  <2> QED BY <2>3, <2>4
<1>2. CASE Crash
  BY <1>2 DEF Crash, BootsCurrentPolicy
<1>3. ASSUME UNCHANGED <<up, booted, resume>>
      PROVE  BootsCurrentPolicy'
  BY <1>0, <1>3 DEF BootsCurrentPolicy
<1>4. CASE \E r \in Ranks : Look(r)
  <2>1. PICK r \in Ranks : Look(r)
    BY <1>4
  <2>2. up' = up /\ booted' = booted
    BY <1>0, <2>1, LookIs
  <2>3. up => rankAt[r] = "ready"
    BY DEF RInv, Agreeing
  <2>4. ~up
    BY <1>0, <2>1, <2>3, LookIs
  <2> QED BY <2>2, <2>4 DEF BootsCurrentPolicy
<1>5. CASE DropNewerThan
  <2>1. UNCHANGED <<up, booted, resume>>
    BY <1>0, <1>5, DropStepIs
  <2> QED BY <1>3, <2>1
<1>6. CASE \E s \in Services : SaveStep(s)
  <2>1. UNCHANGED <<up, booted, resume>>
    BY <1>6 DEF SaveStep, others, launch
  <2> QED BY <1>3, <2>1
<1>7. CASE RolloutWork \/ CriticWork \/ TrainerWork
  <2>1. UNCHANGED <<up, booted, resume>>
    BY <1>0, <1>7, WorkKeeps DEF RInv, launch
  <2> QED BY <1>3, <2>1
<1> QED BY <1>1, <1>2, <1>4, <1>5, <1>6, <1>7, StepCases

(* Only a rank that has not come to a step looks.                          *)
LEMMA LooksBefore ==
  ASSUME RInv, NEW r \in Ranks, Look(r)
  PROVE  ~up
<1>1. rankAt[r] # "ready"
  BY LookIs DEF RInv
<1> QED BY <1>1 DEF RInv, Agreeing

LEMMA DropsBefore ==
  ASSUME RInv, DropNewerThan
  PROVE  ~up
<1>1. rankAt[0] = "drop" /\ 0 \in Ranks
  BY RunAssumption DEF DropNewerThan
<1> QED BY <1>1 DEF RInv, Agreeing

LEMMA SavesWhenUp ==
  ASSUME RInv, NEW s \in Services, SaveStep(s)
  PROVE  up
<1>1. doing[s] # "off"
  BY SaveIs DEF RInv, DirWritten, MetaWritten, Marked, SaveOver
<1> QED BY <1>1 DEF RInv, StoreInv

-----------------------------------------------------------------------------
(* The store.                                                              *)

(* No service is about to write on a committed shard.                      *)
LEMMA NotRewritten == ASSUME RInv PROVE CommittedNeverRewritten
<1> SUFFICES ASSUME NEW s \in Services, Saving(s), IsComplete(s, Clock(s)) PROVE FALSE
  BY DEF CommittedNeverRewritten, Saving
<1>1. Clock(s) \in CompleteSteps(s) /\ Clock(s) \in Int
  BY ClockType DEF IsComplete, CompleteSteps, RInv
<1>2. up
  BY DEF RInv, StoreInv, Saving
<1>3. s \in Heavy \/ s = Roll
  BY RunAssumption
<1>4. Clock(s) < Clock(s)
  BY <1>1, <1>2, <1>3 DEF RInv, Behind
<1> QED BY <1>1, <1>4

LEMMA StandsOn ==
  ASSUME NEW s \in Services, OthersStand(s), NEW t \in Services, t # s
  PROVE  doing'[t] = doing[t] /\ victim'[t] = victim[t]
BY DEF OthersStand

LEMMA StoreSave ==
  ASSUME RInv, NEW s \in Services, SaveStep(s)
  PROVE  StoreInv'
<1>0. StoreType /\ RunType /\ StoreInv /\ up
  BY SavesWhenUp DEF RInv
<1>1. StoreType' /\ RunType' /\ UNCHANGED others /\ OthersStand(s)
  BY <1>0, SaveIs
<1>2. up' = up /\ \A t : Clock(t)' = Clock(t) /\ Snapshot(t)' = Snapshot(t)
  BY <1>1, SameClocks DEF others, trainerVars, criticVars, rolloutVars
<1>3. \A t \in Services : Clock(t) \in Int /\ {Snapshot(t)} # {}
  BY <1>0, ClockType
<1>4. Saving(s) => ~IsComplete(s, Clock(s)) /\ victim[s] = 0
  <2>1. Saving(s) => ~IsComplete(s, Clock(s))
    BY NotRewritten DEF CommittedNeverRewritten, Saving
  <2>2. Saving(s) => victim[s] = 0
    BY <1>0 DEF StoreInv, Saving
  <2> QED BY <2>1, <2>2
<1>5. /\ doing'[s] \in {"meta", "mark", "prune", "rotate", "publish", "idle"}
      /\ s = Roll => doing'[s] \in {"meta", "mark", "prune", "idle"}
      /\ s = Score => doing'[s] \in {"meta", "mark", "prune", "publish"}
  <2>1. CASE DirWritten(s) \/ MetaWritten(s) \/ Marked(s)
    BY <2>1 DEF DirWritten, MetaWritten, Marked
  <2>2. CASE doing[s] = "prune" /\ doing' = doing
    BY <2>2
  <2>3. CASE SaveOver(s)
    BY <2>3, ServicesAre DEF SaveOver, After
  <2> QED BY <1>0, <2>1, <2>2, <2>3, SaveIs DEF MarkerTaken, FilesTaken
<1>6. \A t \in Services : doing'[t] = "off" <=> ~up'
  <2> SUFFICES ASSUME NEW t \in Services PROVE doing'[t] # "off"
    BY <1>0, <1>2
  <2>1. t # s => doing[t] # "off" /\ doing'[t] = doing[t]
    BY <1>0, <1>1, StandsOn DEF StoreInv
  <2> QED BY <1>5, <2>1
<1>7. doing'[Roll] \in {"off", "idle", "meta", "mark", "prune"}
  <2>1. CASE s = Roll
    BY <1>5, <2>1
  <2>2. CASE s # Roll
    BY <1>0, <1>1, <2>2, StandsOn, ServicesAre DEF StoreInv
  <2> QED BY <2>1, <2>2
<1>8. Critic => doing'[Score] \notin {"export", "rotate"}
  <2>1. CASE s = Score
    BY <1>5, <2>1
  <2>2. CASE s # Score
    BY <1>0, <1>1, <2>2, StandsOn, ServicesAre DEF StoreInv
  <2> QED BY <2>1, <2>2
<1>9. ASSUME NEW t \in Services
      PROVE  victim'[t] # 0 => ~disk'[t][victim'[t]].mark /\ doing'[t] = "prune"
  <2>0. victim[t] # 0 =>
          victim[t] \in Steps /\ ~disk[t][victim[t]].mark /\ doing[t] = "prune"
    BY <1>0 DEF StoreInv, StoreType
  <2>1. CASE DirWritten(s) \/ MetaWritten(s) \/ Marked(s)
    <3>1. Saving(s) /\ victim'[s] = 0
      BY <1>4, <2>1 DEF DirWritten, MetaWritten, Marked, Saving
    <3>2. ASSUME t # s, victim'[t] # 0
          PROVE  ~disk'[t][victim'[t]].mark /\ doing'[t] = "prune"
      <4>1. victim'[t] = victim[t] /\ doing'[t] = doing[t]
        BY <1>1, <3>2, StandsOn
      <4>2. disk'[t][victim[t]].mark <=> disk[t][victim[t]].mark
        BY <2>0, <2>1, <3>2, <4>1 DEF DirWritten, MetaWritten, Marked
      <4> QED BY <2>0, <3>2, <4>1, <4>2
    <3> QED BY <3>1, <3>2
  <2>2. CASE doing[s] = "prune" /\ \E n \in Stale(s) : MarkerTaken(s, n)
    <3>1. PICK n \in Stale(s) : MarkerTaken(s, n)
      BY <2>2
    <3>2. n \in Steps
      BY DEF Stale, CompleteSteps
    <3>3. CASE t = s
      BY <2>2, <3>1, <3>2, <3>3 DEF MarkerTaken
    <3>4. CASE t # s
      <4>1. victim'[t] = victim[t] /\ doing'[t] = doing[t]
        BY <1>1, <3>4, StandsOn
      <4> QED BY <2>0, <3>1, <3>4, <4>1 DEF MarkerTaken
    <3> QED BY <3>3, <3>4
  <2>3. CASE doing[s] = "prune" /\ FilesTaken(s)
    <3>1. CASE t = s
      BY <2>3, <3>1 DEF FilesTaken
    <3>2. CASE t # s
      <4>1. victim'[t] = victim[t] /\ doing'[t] = doing[t]
        BY <1>1, <3>2, StandsOn
      <4>2. victim[t] # 0 => disk'[t][victim[t]] = disk[t][victim[t]]
        BY <2>0, <2>3, <3>2 DEF FilesTaken
      <4> QED BY <2>0, <4>1, <4>2
    <3> QED BY <3>1, <3>2
  <2>4. CASE SaveOver(s)
    <3>1. CASE t = s
      BY <2>4, <3>1 DEF SaveOver, store
    <3>2. CASE t # s
      <4>1. victim'[t] = victim[t] /\ doing'[t] = doing[t] /\ disk' = disk
        BY <1>1, <2>4, <3>2, StandsOn DEF SaveOver, store
      <4>2. disk'[t][victim'[t]].mark = disk[t][victim[t]].mark
        BY <4>1
      <4>3. ASSUME victim'[t] # 0 PROVE ~disk'[t][victim'[t]].mark
        BY <2>0, <4>1, <4>2, <4>3
      <4>4. victim'[t] # 0 => doing'[t] = "prune"
        BY <2>0, <4>1
      <4> QED BY <4>3, <4>4
    <3> QED BY <3>1, <3>2
  <2> QED BY <1>0, <2>1, <2>2, <2>3, <2>4, SaveIs
<1>10. ASSUME NEW t \in Services, NEW m \in Steps, disk'[t][m].mark
       PROVE  disk'[t][m].meta # {} /\ (t \in Heavy => disk'[t][m].data = disk'[t][m].meta)
  <2>0. disk[t][m].mark => disk[t][m].meta # {} /\ (t \in Heavy => disk[t][m].data = disk[t][m].meta)
    BY <1>0 DEF StoreInv, CommittedWhole, CompleteSteps
  <2>1. CASE DirWritten(s) \/ MetaWritten(s)
    <3>1. ~(t = s /\ m = Clock(s))
      BY <1>4, <1>10, <2>1 DEF DirWritten, MetaWritten, Saving, IsComplete
    <3> QED BY <1>10, <2>0, <2>1, <3>1 DEF DirWritten, MetaWritten
  <2>2. CASE Marked(s)
    <3>1. CASE t = s /\ m = Clock(s)
      <4>1. disk[s][m].meta = {Snapshot(s)} /\ (s \in Heavy => disk[s][m].data = {Snapshot(s)})
        BY <1>0, <2>2, <3>1 DEF StoreInv, InProgress, Marked
      <4> QED BY <1>3, <2>2, <3>1, <4>1 DEF Marked
    <3>2. CASE ~(t = s /\ m = Clock(s))
      BY <1>10, <2>0, <2>2, <3>2 DEF Marked
    <3> QED BY <3>1, <3>2
  <2>3. CASE \E n \in Stale(s) : MarkerTaken(s, n)
    BY <1>10, <2>0, <2>3 DEF MarkerTaken
  <2>4. CASE FilesTaken(s)
    BY <1>10, <2>0, <2>4 DEF FilesTaken, NoShard
  <2>5. CASE SaveOver(s)
    BY <1>10, <2>0, <2>5 DEF SaveOver, store
  <2> QED BY <1>0, <2>1, <2>2, <2>3, <2>4, <2>5, SaveIs
<1>11. ASSUME NEW t \in Services, Clock(t) \in Steps
       PROVE  /\ doing'[t] \in {"meta", "mark"} /\ t \in Heavy => disk'[t][Clock(t)].data = {Snapshot(t)}
              /\ doing'[t] = "mark" => disk'[t][Clock(t)].meta = {Snapshot(t)}
  <2>0. /\ doing[t] \in {"meta", "mark"} /\ t \in Heavy => disk[t][Clock(t)].data = {Snapshot(t)}
        /\ doing[t] = "mark" => disk[t][Clock(t)].meta = {Snapshot(t)}
    BY <1>0, <1>11 DEF StoreInv, InProgress
  <2>1. CASE t # s
    <3>1. doing'[t] = doing[t]
      BY <1>1, <2>1, StandsOn
    <3>2. /\ disk'[t][Clock(t)].data = disk[t][Clock(t)].data
          /\ disk'[t][Clock(t)].meta = disk[t][Clock(t)].meta
      <4>1. CASE DirWritten(s) \/ MetaWritten(s) \/ Marked(s)
        BY <1>11, <2>1, <4>1 DEF DirWritten, MetaWritten, Marked
      <4>2. CASE \E n \in Stale(s) : MarkerTaken(s, n)
        BY <1>11, <2>1, <4>2 DEF MarkerTaken
      <4>3. CASE FilesTaken(s)
        BY <1>11, <2>1, <4>3 DEF FilesTaken
      <4>4. CASE SaveOver(s)
        BY <4>4 DEF SaveOver, store
      <4> QED BY <1>0, <4>1, <4>2, <4>3, <4>4, SaveIs
    <3> QED BY <2>0, <3>1, <3>2
  <2>2. CASE t = s
    <3>1. CASE DirWritten(s)
      BY <1>11, <2>2, <3>1 DEF DirWritten
    <3>2. CASE MetaWritten(s)
      BY <1>11, <2>0, <2>2, <3>2 DEF MetaWritten
    <3>3. CASE doing'[s] \notin {"meta", "mark"}
      BY <2>2, <3>3
    <3> QED BY <1>0, <2>2, <3>1, <3>2, <3>3, SaveIs, ServicesAre
            DEF Marked, MarkerTaken, FilesTaken, SaveOver, After
  <2> QED BY <2>1, <2>2
<1>12. CommittedWhole'
  BY <1>10 DEF CommittedWhole, CompleteSteps
<1>13. \A t \in Services : InProgress(t)'
  BY <1>2, <1>11 DEF InProgress
<1> QED BY <1>0, <1>2, <1>6, <1>7, <1>8, <1>9, <1>12, <1>13 DEF StoreInv

LEMMA StoreDrop ==
  ASSUME RInv, DropNewerThan
  PROVE  StoreInv'
<1>0. StoreType /\ RunType /\ StoreInv /\ ~up
  BY DropsBefore DEF RInv
<1>1. /\ rankAt[0] = "drop" /\ up' = up
      /\ UNCHANGED <<life, steps, windows, gatesSeen, started, pulled, learned>>
  BY <1>0, DropStepIs DEF trainerVars, criticVars, rolloutVars
<1>2. \A t : Clock(t)' = Clock(t) /\ Snapshot(t)' = Snapshot(t)
  BY <1>1, SameClocks
<1>3. \A t \in Services : doing[t] = "off"
  BY <1>0 DEF StoreInv
<1>4. \A t \in Services : victim[t] # 0 => victim[t] \in Steps /\ ~disk[t][victim[t]].mark
  BY <1>0 DEF StoreInv, StoreType
<1>5. doing' = doing
  BY <1>0, DropStepIs DEF MarkerTaken, FilesTaken, DropsDone
<1>6. \A t \in Services : InProgress(t)'
  BY <1>3, <1>5 DEF InProgress
<1>7. \A t \in Services, m \in Steps : disk[t][m].mark =>
         disk[t][m].meta # {} /\ (t \in Heavy => disk[t][m].data = disk[t][m].meta)
  BY <1>0 DEF StoreInv, CommittedWhole, CompleteSteps
<1>8. CASE UNCHANGED rankAt /\ \E s \in Services : OthersStand(s) /\ FilesTaken(s)
  <2>1. PICK s \in Services : OthersStand(s) /\ FilesTaken(s)
    BY <1>8
  <2>2. CommittedWhole'
    BY <1>7, <2>1 DEF CommittedWhole, CompleteSteps, FilesTaken, NoShard
  <2>3. ASSUME NEW t \in Services, victim'[t] # 0 PROVE ~disk'[t][victim'[t]].mark
    <3>1. t # s
      BY <2>1, <2>3 DEF FilesTaken
    <3>2. victim'[t] = victim[t]
      BY <2>1, <3>1, StandsOn
    <3>3. disk'[t][victim[t]] = disk[t][victim[t]]
      BY <1>4, <2>1, <2>3, <3>1, <3>2 DEF FilesTaken
    <3> QED BY <1>4, <2>3, <3>2, <3>3
  <2> QED BY <1>0, <1>1, <1>3, <1>5, <1>6, <1>8, <2>2, <2>3 DEF StoreInv
<1>9. CASE /\ UNCHANGED rankAt
           /\ \A t \in Services : victim[t] = 0
           /\ \E s \in Services : \E n \in Newer(s) : OthersStand(s) /\ MarkerTaken(s, n)
  <2>1. PICK s \in Services : \E n \in Newer(s) : OthersStand(s) /\ MarkerTaken(s, n)
    BY <1>9
  <2>2. PICK n \in Newer(s) : OthersStand(s) /\ MarkerTaken(s, n)
    BY <2>1
  <2>3. n \in Steps
    BY DEF Newer, CompleteSteps
  <2>4. CommittedWhole'
    <3>1. ASSUME NEW t \in Services, NEW m \in Steps, disk'[t][m].mark
          PROVE  disk'[t][m].meta # {} /\ (t \in Heavy => disk'[t][m].data = disk'[t][m].meta)
      BY <1>7, <2>2, <3>1 DEF MarkerTaken
    <3> QED BY <3>1 DEF CommittedWhole, CompleteSteps
  <2>5. ASSUME NEW t \in Services, victim'[t] # 0 PROVE ~disk'[t][victim'[t]].mark
    <3>1. t = s
      BY <1>9, <2>2, <2>5, StandsOn
    <3> QED BY <2>2, <2>3, <3>1 DEF MarkerTaken
  <2> QED BY <1>0, <1>1, <1>3, <1>5, <1>6, <1>9, <2>4, <2>5 DEF StoreInv
<1>10. CASE DropsDone
  <2>1. disk' = disk /\ victim' = victim /\ \A t \in Services : victim[t] = 0
    BY <1>10 DEF DropsDone, store
  <2>2. CommittedWhole'
    BY <1>0, <2>1 DEF StoreInv, CommittedWhole, CompleteSteps
  <2> QED BY <1>0, <1>1, <1>3, <1>5, <1>6, <2>1, <2>2 DEF StoreInv
<1> QED BY <1>0, <1>8, <1>9, <1>10, DropStepIs

LEMMA StoreWork ==
  ASSUME RInv, RolloutWork \/ CriticWork \/ TrainerWork
  PROVE  StoreInv'
<1>0. StoreType /\ RunType /\ StoreInv
  BY DEF RInv
<1>1. PICK s \in Services : Moves(s)
  BY <1>0, WorkMoves
<1>2. UNCHANGED store /\ up /\ up' = up
  BY <1>0, WorkKeeps
<1>3. \A t \in Services \ {s} :
        doing'[t] = doing[t] /\ Clock(t)' = Clock(t) /\ Snapshot(t)' = Snapshot(t)
  BY <1>1 DEF Moves
<1>4. \A t \in Services : doing'[t] # "off"
  BY <1>0, <1>1, <1>2, <1>3 DEF StoreInv, Moves
<1>5. doing'[Roll] \in {"off", "idle", "meta", "mark", "prune"}
  BY <1>0, <1>1, <1>3, ServicesAre DEF StoreInv, Moves
<1>6. Critic => doing'[Score] \notin {"export", "rotate"}
  BY <1>0, <1>1, <1>3, ServicesAre DEF StoreInv, Moves
<1>7. \A t \in Services : victim[t] # 0 => ~disk[t][victim[t]].mark /\ doing'[t] = "prune"
  BY <1>0, <1>1, <1>2, <1>3 DEF StoreInv, Moves
<1>8. disk' = disk /\ victim' = victim
  BY <1>2 DEF store
<1>9. CommittedWhole'
  BY <1>0, <1>8 DEF StoreInv, CommittedWhole, CompleteSteps
<1>10. ASSUME NEW t \in Services PROVE InProgress(t)'
  <2>1. CASE t = s
    BY <1>1, <2>1, ServicesAre DEF Moves, InProgress
  <2>2. CASE t # s
    <3>1. doing'[t] = doing[t] /\ Clock(t)' = Clock(t) /\ Snapshot(t)' = Snapshot(t)
      BY <1>3, <2>2
    <3>2. InProgress(t)
      BY <1>0 DEF StoreInv
    <3> QED BY <1>8, <3>1, <3>2 DEF InProgress
  <2> QED BY <2>1, <2>2
<1>11. \A t \in Services : victim'[t] # 0 => ~disk'[t][victim'[t]].mark /\ doing'[t] = "prune"
  BY <1>7, <1>8
<1> QED BY <1>2, <1>4, <1>5, <1>6, <1>9, <1>10, <1>11 DEF StoreInv

LEMMA StoreNext ==
  ASSUME RInv, Next
  PROVE  StoreInv'
<1>0. StoreType /\ RunType /\ StoreInv
  BY DEF RInv
<1>1. CASE \E r \in Ranks : Look(r)
  <2>1. PICK r \in Ranks : Look(r)
    BY <1>1
  <2>2. /\ UNCHANGED <<up, life, store, doing, steps, windows, gatesSeen, started, pulled, learned>>
        /\ ~up
        /\ rankAt[0] = "drop" => rankAt'[0] = "drop"
    <3>1. UNCHANGED <<up, life, store, doing, trainerVars, criticVars, rolloutVars, learned>>
      BY <1>0, <2>1, LookIs
    <3>2. rankAt[0] = "drop" => rankAt'[0] = "drop"
      BY <1>0, <2>1, LookIs, RunAssumption
    <3> QED BY <2>1, <3>1, <3>2, LooksBefore DEF trainerVars, criticVars, rolloutVars
  <2>3. \A t : Clock(t)' = Clock(t) /\ Snapshot(t)' = Snapshot(t)
    BY <2>2, SameClocks
  <2>4. disk' = disk /\ victim' = victim /\ doing' = doing /\ up' = up
    BY <2>2 DEF store
  <2>5. CommittedWhole'
    BY <1>0, <2>4 DEF StoreInv, CommittedWhole, CompleteSteps
  <2>6. \A t \in Services : InProgress(t)'
    BY <1>0, <2>3, <2>4 DEF StoreInv, InProgress
  <2>7. \A t \in Services : victim'[t] # 0 => ~disk'[t][victim'[t]].mark /\ rankAt'[0] = "drop"
    BY <1>0, <2>2, <2>4 DEF StoreInv
  <2> QED BY <1>0, <2>2, <2>4, <2>5, <2>6, <2>7 DEF StoreInv
<1>2. CASE Start
  <2>1. /\ up' /\ disk' = disk /\ victim' = victim
        /\ doing' = [s \in Services |-> "idle"]
    BY <1>2 DEF Start, store
  <2>2. \A s \in Services : victim[s] = 0
    BY <1>2, Agreed
  <2>3. CommittedWhole'
    BY <1>0, <2>1 DEF StoreInv, CommittedWhole, CompleteSteps
  <2>4. \A t \in Services : doing'[t] = "idle"
    BY <2>1
  <2>5. \A t \in Services : InProgress(t)'
    BY <2>4 DEF InProgress
  <2> QED BY <2>1, <2>2, <2>3, <2>4, <2>5, ServicesAre DEF StoreInv
<1>3. CASE Crash
  <2>1. /\ ~up' /\ disk' = disk
        /\ \A s \in Services : victim'[s] = 0 /\ doing'[s] = "off"
    BY <1>0, <1>3, CrashIs
  <2>2. CommittedWhole'
    BY <1>0, <2>1 DEF StoreInv, CommittedWhole, CompleteSteps
  <2>3. \A t \in Services : InProgress(t)'
    BY <2>1 DEF InProgress
  <2> QED BY <2>1, <2>2, <2>3, ServicesAre DEF StoreInv
<1> QED BY <1>1, <1>2, <1>3, StoreDrop, StoreSave, StoreWork, StepCases

LEMMA CursorsNext ==
  ASSUME RInv, Next
  PROVE  CursorsStored'
<1>0. StoreType /\ RunType /\ CursorsStored
  BY DEF RInv
<1>1. ASSUME disk' = disk PROVE CursorsStored'
  BY <1>0, <1>1 DEF CursorsStored
<1>2. ASSUME NEW s \in Services, FilesTaken(s) PROVE CursorsStored'
  BY <1>0, <1>2, ServicesAre DEF CursorsStored, FilesTaken, NoShard
<1>3. ASSUME \A n \in Steps : disk'[Roll][n].meta = disk[Roll][n].meta PROVE CursorsStored'
  BY <1>0, <1>3 DEF CursorsStored
<1>4. ASSUME NEW s \in Services, MetaWritten(s) PROVE CursorsStored'
  <2>1. CASE s = Roll
    <3>1. \A n \in Steps : disk'[Roll][n].meta =
            IF n = Clock(Roll) THEN {Snapshot(Roll)} ELSE disk[Roll][n].meta
      BY <1>4, <2>1 DEF MetaWritten
    <3>2. Snapshot(Roll).prompts = 1..pulled
      BY ClockIs
    <3>3. Cardinality(1..pulled) = pulled /\ pulled \in Nat
      <4>1. pulled \in Nat
        BY <1>0 DEF RunType
      <4>2. Cardinality(1..pulled) = IF 1 > pulled THEN 0 ELSE pulled - 1 + 1
        BY <4>1, FS_Interval
      <4> QED BY <4>1, <4>2
    <3>4. ASSUME NEW n \in Steps, NEW c \in disk'[Roll][n].meta
          PROVE  Cardinality(c.prompts) \in Nat /\ c.prompts = 1..Cardinality(c.prompts)
      <4>1. CASE n = Clock(Roll)
        <5>1. c = Snapshot(Roll)
          BY <3>1, <3>4, <4>1
        <5>2. c.prompts = 1..pulled
          BY <3>2, <5>1
        <5> QED BY <3>3, <5>2
      <4>2. CASE n # Clock(Roll)
        BY <1>0, <3>1, <3>4, <4>2 DEF CursorsStored
      <4> QED BY <4>1, <4>2
    <3> QED BY <3>4 DEF CursorsStored
  <2>2. CASE s # Roll
    BY <1>3, <1>4, <2>2, ServicesAre DEF MetaWritten
  <2> QED BY <2>1, <2>2
<1>5. CASE \E s \in Services : SaveStep(s)
  <2>1. PICK s \in Services : SaveStep(s)
    BY <1>5
  <2>2. CASE DirWritten(s) \/ Marked(s) \/ \E n \in Stale(s) : MarkerTaken(s, n)
    BY <1>3, <2>2, ServicesAre DEF DirWritten, Marked, MarkerTaken
  <2>3. CASE SaveOver(s)
    BY <1>1, <2>3 DEF SaveOver, store
  <2> QED BY <1>0, <1>2, <1>4, <2>1, <2>2, <2>3, SaveIs
<1>6. CASE DropNewerThan
  <2>1. CASE \E s \in Services : \E n \in Newer(s) : MarkerTaken(s, n)
    BY <1>3, <2>1, ServicesAre DEF MarkerTaken
  <2>2. CASE DropsDone
    BY <1>1, <2>2 DEF DropsDone, store
  <2> QED BY <1>0, <1>2, <1>6, <2>1, <2>2, DropStepIs
<1>7. CASE \E r \in Ranks : Look(r)
  <2>1. UNCHANGED store
    BY <1>0, <1>7, LookIs
  <2> QED BY <1>1, <2>1 DEF store
<1>8. CASE Start
  BY <1>1, <1>8 DEF Start, store
<1>9. CASE Crash
  BY <1>1, <1>9 DEF Crash
<1>10. CASE RolloutWork \/ CriticWork \/ TrainerWork
  <2>1. UNCHANGED store
    BY <1>0, <1>10, WorkKeeps DEF RInv
  <2> QED BY <1>1, <2>1 DEF store
<1> QED BY <1>5, <1>6, <1>7, <1>8, <1>9, <1>10, StepCases

-----------------------------------------------------------------------------
(* The committed shards through a save and through a drop.                 *)

SameContent(t, m) ==
  disk'[t][m].meta = disk[t][m].meta /\ disk'[t][m].data = disk[t][m].data

LEMMA SaveKeeps ==
  ASSUME RInv, NEW s \in Services, SaveStep(s)
  PROVE  /\ \A t \in Services, m \in Steps :
              disk[t][m].mark /\ disk'[t][m].mark => SameContent(t, m)
         /\ \A t \in Services, m \in Steps :
              disk'[t][m].mark /\ ~disk[t][m].mark =>
                /\ t = s /\ m = Clock(s) /\ doing[s] = "mark" /\ doing'[s] = "prune"
                /\ disk'[t][m].meta = {Snapshot(s)}
                /\ s \in Heavy => disk'[t][m].data = {Snapshot(s)}
         /\ \A t \in Services, m \in Steps :
              disk'[t][m].data # {} => \/ disk[t][m].data # {}
                                       \/ t = s /\ m = Clock(s) /\ doing[s] = "data" /\ s \in folders'
         /\ \A t \in Services, m \in Steps :
              disk'[t][m].meta # {} => \/ disk[t][m].meta # {}
                                       \/ t = s /\ m = Clock(s) /\ doing[s] = "meta"
         /\ folders \subseteq folders'
         /\ Saving(s)' => Saving(s)
         /\ \A t \in Services \ {s} : doing'[t] = doing[t]
<1>0. StoreType /\ RunType /\ StoreInv /\ OthersStand(s)
  BY SaveIs DEF RInv
<1>1. Saving(s) => ~IsComplete(s, Clock(s))
  BY NotRewritten DEF CommittedNeverRewritten, Saving
<1>2. \A t \in Services \ {s} : doing'[t] = doing[t]
  BY <1>0 DEF OthersStand
<1>3. CASE DirWritten(s)
  <2>1. \A m \in Steps : disk[s][m].mark => m # Clock(s)
    BY <1>1, <1>3 DEF DirWritten, Saving, IsComplete
  <2> QED BY <1>2, <1>3, <2>1 DEF DirWritten, SameContent, Saving
<1>4. CASE MetaWritten(s)
  <2>1. \A m \in Steps : disk[s][m].mark => m # Clock(s)
    BY <1>1, <1>4 DEF MetaWritten, Saving, IsComplete
  <2> QED BY <1>2, <1>4, <2>1 DEF MetaWritten, SameContent, Saving
<1>5. CASE Marked(s)
  <2>1. Clock(s) \in Steps => /\ disk[s][Clock(s)].meta = {Snapshot(s)}
                              /\ s \in Heavy => disk[s][Clock(s)].data = {Snapshot(s)}
    BY <1>0, <1>5 DEF StoreInv, InProgress, Marked
  <2> QED BY <1>2, <1>5, <2>1 DEF Marked, SameContent, Saving
<1>6. CASE doing[s] = "prune" /\ \E n \in Stale(s) : MarkerTaken(s, n)
  BY <1>2, <1>6 DEF MarkerTaken, SameContent, Saving
<1>7. CASE doing[s] = "prune" /\ FilesTaken(s)
  BY <1>2, <1>7 DEF FilesTaken, SameContent, Saving, NoShard
<1>8. CASE SaveOver(s)
  BY <1>2, <1>8, ServicesAre DEF SaveOver, SameContent, Saving, After, store
<1> QED BY <1>0, <1>3, <1>4, <1>5, <1>6, <1>7, <1>8, SaveIs

LEMMA DropKeeps ==
  ASSUME RInv, DropNewerThan
  PROVE  /\ \A t \in Services, m \in Steps : SameContent(t, m) \/ ~disk[t][m].mark
         /\ \A t \in Services, m \in Steps : disk'[t][m].mark => disk[t][m].mark
         /\ \A t \in Services, m \in Steps :
              disk[t][m].mark /\ m <= resume[0] => disk'[t][m].mark
         /\ \A t \in Services, m \in Steps : disk'[t][m].data # {} => disk[t][m].data # {}
         /\ \A t \in Services, m \in Steps : disk'[t][m].meta # {} => disk[t][m].meta # {}
         /\ folders' = folders
<1>0. StoreType /\ RunType /\ StoreInv
  BY DEF RInv
<1>1. CASE \E s \in Services : FilesTaken(s)
  <2>1. PICK s \in Services : FilesTaken(s)
    BY <1>1
  <2>2. ~disk[s][victim[s]].mark
    BY <1>0, <2>1 DEF StoreInv, FilesTaken
  <2> QED BY <2>1, <2>2 DEF FilesTaken, SameContent, NoShard
<1>2. CASE \E s \in Services : \E n \in Newer(s) : MarkerTaken(s, n)
  <2>1. PICK s \in Services : \E n \in Newer(s) : MarkerTaken(s, n)
    BY <1>2
  <2>2. PICK n \in Newer(s) : MarkerTaken(s, n)
    BY <2>1
  <2>3. n > resume[0] /\ n \in Steps
    BY DEF Newer, CompleteSteps
  <2>4. \A m \in Steps : m <= resume[0] => m # n
    <3>1. resume[0] \in Int
      BY <1>0, RunAssumption DEF RunType, Steps
    <3> QED BY <2>3, <3>1 DEF Steps
  <2> QED BY <2>2, <2>4 DEF MarkerTaken, SameContent
<1>3. CASE DropsDone
  BY <1>3 DEF DropsDone, store, SameContent
<1> QED BY <1>0, <1>1, <1>2, <1>3, DropStepIs

(* Rank 0 removes only what is newer: the resume point stands.             *)
LEMMA DropAgrees ==
  ASSUME RInv, DropNewerThan
  PROVE  /\ ResumePoint' = ResumePoint /\ ResumePoint > 0 /\ resume[0] = ResumePoint
         /\ HasAnyShard'
<1>0. StoreType /\ RunType /\ Agreeing /\ 0 \in Ranks /\ ~up /\ rankAt[0] = "drop"
  BY RunAssumption, DropsBefore DEF RInv, DropNewerThan
<1>1. resume[0] = ResumePoint /\ ResumePoint > 0
  BY <1>0 DEF Agreeing
<1>2. /\ ResumePoint \in Resumable \cup {0}
      /\ \A n \in Resumable : n <= ResumePoint
  BY ResumePointIs
<1>3. (/\ ResumePoint \in Resumable \cup {0}
       /\ \A n \in Resumable : n <= ResumePoint)'
  BY ResumePointIs, PTL
<1>4. /\ \A s \in Services, m \in Steps : disk'[s][m].mark => disk[s][m].mark
      /\ \A s \in Services, m \in Steps : disk[s][m].mark /\ m <= ResumePoint => disk'[s][m].mark
  BY <1>1, DropKeeps
<1>5. ResumePoint \in Resumable /\ ResumePoint \in Steps /\ ResumePoint \in Int
  BY <1>1, <1>2 DEF Resumable, Steps
<1>6. \A n \in Steps : AllComplete(n)' => AllComplete(n)
  BY <1>4 DEF AllComplete, IsComplete, CheckpointParticipants
<1>7. AllComplete(ResumePoint)
  BY <1>5 DEF Resumable
<1> DEFINE n == ResumePoint
<1>8. n \in Resumable'
  <2>1. ASSUME NEW s \in CheckpointParticipants(n) PROVE disk'[s][n].mark
    <3>1. s \in Services
      BY DEF CheckpointParticipants
    <3>2. disk[s][n].mark /\ n \in Steps /\ n <= ResumePoint
      BY <1>5, <1>7 DEF AllComplete, IsComplete
    <3> HIDE DEF n
    <3> QED BY <1>4, <3>1, <3>2
  <2> QED BY <1>5, <2>1 DEF Resumable, AllComplete, IsComplete, CheckpointParticipants
<1>9. Resumable' \subseteq Resumable
  BY <1>6 DEF Resumable
<1>10. ResumePoint' = n
  <2>1. n <= ResumePoint' /\ n > 0
    BY <1>1, <1>3, <1>8
  <2>2. ResumePoint' \in Resumable' \cup {0}
    BY <1>3
  <2>3. ResumePoint' \in Steps \cup {0}
    BY <1>9, <2>2 DEF Resumable
  <2>4. ResumePoint' \in Int /\ n \in Int
    BY <1>5, <2>3 DEF Steps
  <2>5. ResumePoint' \in Resumable
    BY <1>9, <2>1, <2>2, <2>4
  <2>6. ResumePoint' <= n
    BY <1>2, <2>5
  <2> HIDE DEF n
  <2> QED BY <2>1, <2>4, <2>6
<1>11. HasAnyShard'
  <2>1. disk'[Roll][n].mark /\ n \in Steps
    BY <1>8, ServicesAre DEF Resumable, AllComplete, IsComplete, CheckpointParticipants
  <2> QED BY <2>1, ServicesAre DEF HasAnyShard, CompleteSteps
<1> QED BY <1>1, <1>10, <1>11

(* A rank that looks comes to the resume point, or to none if there is     *)
(* nothing to resume from.                                                 *)
LEMMA LookAgrees ==
  ASSUME RInv, NEW r \in Ranks, Look(r)
  PROVE  /\ rankAt'[r] \in {"list", "check"} => resume'[r] = 0
         /\ rankAt'[r] \in {"check", "refused"} => HasAnyShard
         /\ rankAt'[r] = "check" /\ ResumePoint > 0 => ResumePoint \in cand'[r]
         /\ rankAt'[r] = "refused" => ResumePoint = 0
         /\ rankAt'[r] \in {"ready", "drop"} =>
              resume'[r] = ResumePoint /\ (ResumePoint = 0 => ~HasAnyShard)
         /\ rankAt'[r] = "drop" => r = 0 /\ ResumePoint > 0
<1>0. StoreType /\ RunType /\ Agreeing /\ ~up
  BY LooksBefore DEF RInv
<1>1. /\ ResumePoint \in Nat
      /\ ResumePoint > 0 => ResumePoint \in Steps /\ AllComplete(ResumePoint)
      /\ \A n \in Steps : AllComplete(n) => n <= ResumePoint
  BY ResumePointIs DEF Resumable, Steps
<1>2. ResumePoint > 0 => ResumePoint \in CompleteSteps(Roll)
  BY <1>1, ServicesAre DEF AllComplete, CheckpointParticipants, IsComplete, CompleteSteps
<1>3. ~HasAnyShard => ResumePoint = 0
  BY <1>1, <1>2, ServicesAre DEF HasAnyShard
<1>4. /\ rankAt[r] \in {"list", "check"} => resume[r] = 0
      /\ rankAt[r] = "check" => HasAnyShard
      /\ rankAt[r] = "check" /\ ResumePoint > 0 => ResumePoint \in cand[r]
  BY <1>0 DEF Agreeing
<1>5. CASE /\ rankAt[r] = "list" /\ resume'[r] = resume[r]
           /\ cand'[r] = UNION {CompleteSteps(s) : s \in Services}
           /\ rankAt'[r] = IF HasAnyShard THEN "check" ELSE "ready"
  <2>1. ResumePoint > 0 => ResumePoint \in cand'[r]
    BY <1>2, <1>5, ServicesAre
  <2>2. CASE HasAnyShard
    BY <1>4, <1>5, <2>1, <2>2
  <2>3. CASE ~HasAnyShard
    BY <1>3, <1>4, <1>5, <2>3
  <2> QED BY <2>2, <2>3
<1>6. CASE /\ rankAt[r] = "check" /\ cand[r] = {} /\ rankAt'[r] = "refused"
           /\ resume'[r] = resume[r]
  <2>1. ResumePoint = 0
    BY <1>1, <1>4, <1>6
  <2> QED BY <1>4, <1>6, <2>1
<1>7. ASSUME rankAt[r] = "check", NEW n \in cand[r], AllComplete(n), resume'[r] = n,
             \A m \in cand[r] : n >= m, rankAt'[r] = IF r = 0 THEN "drop" ELSE "ready"
      PROVE  n = ResumePoint /\ ResumePoint > 0
  <2>1. n \in Steps /\ n \in Int /\ n > 0
    BY <1>0 DEF RunType, Steps
  <2>2. n <= ResumePoint
    BY <1>1, <1>7, <2>1
  <2>3. ResumePoint > 0
    BY <1>1, <2>1, <2>2
  <2>4. n >= ResumePoint
    BY <1>4, <1>7, <2>3
  <2> QED BY <1>1, <2>1, <2>2, <2>3, <2>4
<1>8. ASSUME rankAt[r] = "check", NEW n \in cand[r], ~AllComplete(n), resume'[r] = resume[r],
             cand'[r] = cand[r] \ {n}, rankAt'[r] = "check"
      PROVE  ResumePoint > 0 => ResumePoint \in cand'[r]
  BY <1>1, <1>4, <1>8
<1>9. CASE /\ rankAt[r] = "check"
           /\ \E n \in cand[r] :
                \/ /\ AllComplete(n) /\ resume'[r] = n /\ cand'[r] = cand[r]
                   /\ \A m \in cand[r] : n >= m
                   /\ rankAt'[r] = IF r = 0 THEN "drop" ELSE "ready"
                \/ /\ ~AllComplete(n) /\ resume'[r] = resume[r]
                   /\ cand'[r] = cand[r] \ {n} /\ rankAt'[r] = "check"
  <2>1. PICK n \in cand[r] :
          \/ /\ AllComplete(n) /\ resume'[r] = n /\ cand'[r] = cand[r]
             /\ \A m \in cand[r] : n >= m
             /\ rankAt'[r] = IF r = 0 THEN "drop" ELSE "ready"
          \/ /\ ~AllComplete(n) /\ resume'[r] = resume[r]
             /\ cand'[r] = cand[r] \ {n} /\ rankAt'[r] = "check"
    BY <1>9
  <2>2. CASE AllComplete(n)
    <3>1. n = ResumePoint /\ ResumePoint > 0
      BY <1>7, <1>9, <2>1, <2>2
    <3>2. rankAt'[r] \in {"ready", "drop"} /\ (rankAt'[r] = "drop" => r = 0)
      BY <2>1, <2>2
    <3> QED BY <1>1, <2>1, <2>2, <3>1, <3>2
  <2>3. CASE ~AllComplete(n)
    <3>1. ResumePoint > 0 => ResumePoint \in cand'[r]
      BY <1>8, <1>9, <2>1, <2>3
    <3> QED BY <1>4, <1>9, <2>1, <2>3, <3>1
  <2> QED BY <2>2, <2>3
<1> QED BY <1>0, <1>5, <1>6, <1>9, LookIs

LEMMA AgreeingNext ==
  ASSUME RInv, Next
  PROVE  Agreeing'
<1>0. StoreType /\ RunType /\ StoreInv /\ Agreeing /\ 0 \in Ranks
  BY RunAssumption DEF RInv
<1>1. ASSUME up, UNCHANGED <<up, rankAt, resume>>
      PROVE  Agreeing'
  BY <1>0, <1>1 DEF Agreeing
<1>2. CASE \E s \in Services : SaveStep(s)
  <2>1. up /\ UNCHANGED <<up, rankAt, resume>>
    BY <1>2, SavesWhenUp DEF SaveStep, others, launch
  <2> QED BY <1>1, <2>1
<1>3. CASE RolloutWork \/ CriticWork \/ TrainerWork
  <2>1. up /\ UNCHANGED <<up, rankAt, resume>>
    BY <1>0, <1>3, WorkKeeps DEF launch
  <2> QED BY <1>1, <2>1
<1>4. CASE Crash
  <2>1. ~up' /\ \A r \in Ranks : rankAt'[r] = "list" /\ resume'[r] = 0
    BY <1>0, <1>4, CrashIs
  <2> QED BY <1>0, <2>1 DEF Agreeing
<1>5. CASE Start
  <2>1. up' /\ rankAt' = rankAt /\ resume' = resume
    BY <1>5 DEF Start, launch
  <2>2. \A r \in Ranks : rankAt[r] = "ready" /\ resume[r] = resume[0]
    BY <1>5, Agreed
  <2> QED BY <2>1, <2>2 DEF Agreeing
<1>6. CASE \E r \in Ranks : Look(r)
  <2>1. PICK r \in Ranks : Look(r)
    BY <1>6
  <2>2. ~up /\ ~up' /\ disk' = disk
    BY <1>0, <2>1, LooksBefore, LookIs DEF store
  <2>3. /\ ResumePoint' = ResumePoint /\ (HasAnyShard' <=> HasAnyShard)
        /\ \A s \in Services : CompleteSteps(s)' = CompleteSteps(s)
    BY <2>2 DEF ResumePoint, Resumable, AllComplete, CheckpointParticipants, IsComplete,
                HasAnyShard, CompleteSteps
  <2>4. ASSUME NEW q \in Ranks
        PROVE  /\ rankAt'[q] \in {"list", "check"} => resume'[q] = 0
               /\ rankAt'[q] \in {"check", "refused"} => HasAnyShard
               /\ rankAt'[q] = "check" /\ ResumePoint > 0 => ResumePoint \in cand'[q]
               /\ rankAt'[q] = "refused" => ResumePoint = 0
               /\ rankAt'[q] \in {"ready", "drop"} =>
                    resume'[q] = ResumePoint /\ (ResumePoint = 0 => ~HasAnyShard)
               /\ rankAt'[q] = "drop" => q = 0 /\ ResumePoint > 0
    <3>1. CASE q = r
      BY <2>1, <3>1, LookAgrees
    <3>2. CASE q # r
      <4>1. rankAt'[q] = rankAt[q] /\ resume'[q] = resume[q] /\ cand'[q] = cand[q]
        BY <1>0, <2>1, <3>2, LookIs
      <4> QED BY <1>0, <2>2, <4>1 DEF Agreeing
    <3> QED BY <3>1, <3>2
  <2>5. ASSUME rankAt'[0] = "ready", NEW s \in Services, NEW n \in CompleteSteps(s)
        PROVE  n <= resume'[0]
    <3>1. CASE r = 0
      <4>1. rankAt'[0] = "ready" => ~HasAnyShard
        BY <1>0, <2>1, <3>1, LookIs
      <4> QED BY <2>5, <4>1 DEF HasAnyShard
    <3>2. CASE r # 0
      <4>1. rankAt'[0] = rankAt[0] /\ resume'[0] = resume[0]
        BY <1>0, <2>1, <3>2, LookIs
      <4> QED BY <1>0, <2>2, <2>5, <4>1 DEF Agreeing
    <3> QED BY <3>1, <3>2
  <2> QED BY <2>2, <2>3, <2>4, <2>5 DEF Agreeing
<1>7. CASE DropNewerThan
  <2>1. /\ ResumePoint' = ResumePoint /\ ResumePoint > 0 /\ resume[0] = ResumePoint
        /\ HasAnyShard'
    BY <1>7, DropAgrees
  <2>2. ~up /\ ~up' /\ resume' = resume /\ cand' = cand /\ rankAt[0] = "drop"
    BY <1>0, <1>7, DropsBefore, DropStepIs
  <2>3. CASE UNCHANGED rankAt
    BY <1>0, <2>1, <2>2, <2>3 DEF Agreeing
  <2>4. CASE DropsDone
    <3>1. /\ rankAt' = [rankAt EXCEPT ![0] = "ready"] /\ disk' = disk
          /\ \A s \in Services : Newer(s) = {}
      BY <2>4 DEF DropsDone, store
    <3>2. rankAt'[0] = "ready" /\ \A q \in Ranks \ {0} : rankAt'[q] = rankAt[q]
      BY <1>0, <3>1 DEF RunType
    <3>3. \A s \in Services : \A n \in CompleteSteps(s)' : n <= resume[0]
      <4>1. ASSUME NEW s \in Services, NEW n \in CompleteSteps(s) PROVE n <= resume[0]
        <5>1. ~(n > resume[0])
          BY <3>1 DEF Newer
        <5>2. n \in Int /\ resume[0] \in Int
          BY <1>0 DEF CompleteSteps, RunType, Steps
        <5> QED BY <5>1, <5>2
      <4> QED BY <3>1, <4>1 DEF CompleteSteps
    <3>4. \A q \in Ranks :
            /\ rankAt'[q] \in {"list", "check"} => resume'[q] = 0
            /\ rankAt'[q] = "check" /\ ResumePoint > 0 => ResumePoint \in cand'[q]
            /\ rankAt'[q] # "refused"
            /\ rankAt'[q] \in {"ready", "drop"} => resume'[q] = ResumePoint
            /\ rankAt'[q] # "drop"
      <4> SUFFICES ASSUME NEW q \in Ranks
                   PROVE  /\ rankAt'[q] \in {"list", "check"} => resume'[q] = 0
                          /\ rankAt'[q] = "check" /\ ResumePoint > 0 => ResumePoint \in cand'[q]
                          /\ rankAt'[q] # "refused"
                          /\ rankAt'[q] \in {"ready", "drop"} => resume'[q] = ResumePoint
                          /\ rankAt'[q] # "drop"
        OBVIOUS
      <4>1. CASE q = 0
        BY <2>1, <2>2, <3>2, <4>1
      <4>2. CASE q # 0
        BY <1>0, <2>1, <2>2, <3>2, <4>2 DEF Agreeing
      <4> QED BY <4>1, <4>2
    <3> QED BY <2>1, <2>2, <3>3, <3>4 DEF Agreeing
  <2> QED BY <1>0, <1>7, <2>3, <2>4, DropStepIs
<1> QED BY <1>2, <1>3, <1>4, <1>5, <1>6, <1>7, StepCases

(* The clocks a launch starts with.                                        *)
LEMMA StartClocks ==
  ASSUME RInv, Start
  PROVE  /\ Clock(Train)' = IF resume[0] > Cold THEN resume[0] ELSE Cold
         /\ Critic => Clock(Score)' = resume[0]
         /\ Clock(Roll)' = resume[0] - 1
         /\ steps' = IF resume[0] > Cold THEN resume[0] - Cold ELSE 0
         /\ steps' \in Nat
<1> DEFINE n == resume[0]
<1>1. n \in Nat /\ Cold \in Nat
  BY Agreed, RunAssumption
<1>2. /\ steps' = IF n > Cold THEN Content(disk[Train][n].meta).steps ELSE 0
      /\ windows' = IF Critic THEN n ELSE 0
      /\ gatesSeen' = n
  BY DEF Start, RestoredGates
<1>3. n > Cold => Content(disk[Train][n].meta).steps = n - Cold
  BY Restored
<1>4. steps' = IF n > Cold THEN n - Cold ELSE 0
  BY <1>2, <1>3
<1>5. Clock(Train)' = steps' + Cold /\ Clock(Score)' = windows' /\ Clock(Roll)' = gatesSeen' - 1
  BY DEF Clock, Train, Score, Roll
<1>6. steps' \in Nat /\ steps' + Cold = IF n > Cold THEN n ELSE Cold
  <2>1. CASE n > Cold
    BY <1>1, <1>4, <2>1
  <2>2. CASE ~(n > Cold)
    BY <1>1, <1>4, <2>2
  <2> QED BY <2>1, <2>2
<1> QED BY <1>2, <1>4, <1>5, <1>6

LEMMA BehindNext ==
  ASSUME RInv, Next
  PROVE  Behind'
<1>0. StoreType /\ RunType /\ StoreInv /\ Behind
  BY DEF RInv
<1>a. resume[0] \in Int /\ \A s \in Services : Clock(s) \in Int
  <2>1. resume[0] \in Int
    BY <1>0, RunAssumption DEF RunType, Steps
  <2> QED BY <1>0, <2>1, ClockType
<1>1. CASE Crash \/ DropNewerThan \/ \E r \in Ranks : Look(r)
  <2>1. ~up'
    BY <1>0, <1>1, LooksBefore, LookIs, DropsBefore, DropStepIs DEF Crash
  <2> QED BY <2>1 DEF Behind
<1>2. CASE Start
  <2>1. /\ \A s \in Services : doing'[s] = "idle"
        /\ disk' = disk /\ resume' = resume
    BY <1>2 DEF Start, store, launch
  <2>2. \A s \in Services : ~Saving(s)'
    BY <2>1 DEF Saving
  <2>3. \A s \in Services : \A m \in CompleteSteps(s) : m <= resume[0] /\ m \in Int
    BY <1>2, Agreed DEF CompleteSteps, Steps
  <2>4. \A s \in Heavy : Clock(s)' \in Int /\ Clock(s)' >= resume[0]
    <3>1. Clock(Train)' = IF resume[0] > Cold THEN resume[0] ELSE Cold
      BY <1>2, StartClocks
    <3>2. Critic => Clock(Score)' = resume[0]
      BY <1>2, StartClocks
    <3>3. Cold \in Int
      BY RunAssumption
    <3>4. Clock(Train)' \in Int /\ Clock(Train)' >= resume[0]
      BY <1>a, <3>1, <3>3
    <3>5. \A s \in Heavy : s = Train \/ (s = Score /\ Critic)
      BY ServicesAre
    <3> QED BY <1>a, <3>2, <3>4, <3>5
  <2>5. \A s \in Services : CompleteSteps(s)' = CompleteSteps(s)
    BY <2>1 DEF CompleteSteps
  <2>6. \A s \in Heavy : \A m \in CompleteSteps(s)' : m <= Clock(s)'
    <3> SUFFICES ASSUME NEW s \in Heavy, NEW m \in CompleteSteps(s) PROVE m <= Clock(s)'
      BY <2>5, ServicesAre
    <3>1. m <= resume[0] /\ m \in Int /\ Clock(s)' \in Int /\ Clock(s)' >= resume[0]
      BY <2>3, <2>4, ServicesAre
    <3> QED BY <1>a, <3>1
  <2>7. \A m \in CompleteSteps(Roll)' : m <= resume'[0]
    BY <2>1, <2>3, <2>5, ServicesAre
  <2>8. \A s \in Heavy : Clock(s)' >= resume'[0]
    BY <2>1, <2>4
  <2> QED BY <2>2, <2>6, <2>7, <2>8, ServicesAre DEF Behind
<1>3. CASE \E s \in Services : SaveStep(s)
  <2>1. PICK s \in Services : SaveStep(s)
    BY <1>3
  <2>2. up /\ UNCHANGED others
    BY <1>0, <2>1, SavesWhenUp DEF SaveStep
  <2>3. \A t : Clock(t)' = Clock(t)
    BY <2>2, SameClocks DEF others, trainerVars, criticVars, rolloutVars
  <2>4. /\ \A t \in Services : Saving(t)' => Saving(t)
        /\ \A t \in Services, m \in Steps : disk'[t][m].mark /\ ~disk[t][m].mark =>
             t = s /\ m = Clock(s) /\ doing'[s] = "prune"
    <3>1. /\ Saving(s)' => Saving(s)
          /\ \A t \in Services \ {s} : doing'[t] = doing[t]
          /\ \A t \in Services, m \in Steps : disk'[t][m].mark /\ ~disk[t][m].mark =>
               t = s /\ m = Clock(s) /\ doing'[s] = "prune"
      BY <2>1, SaveKeeps
    <3> QED BY <3>1 DEF Saving
  <2>5. \A t \in Services : \A m \in CompleteSteps(t)' :
          m \in CompleteSteps(t) \/ (m = Clock(t) /\ ~Saving(t)')
    BY <2>4 DEF CompleteSteps, Saving
  <2>6. \A t \in Heavy : \A m \in CompleteSteps(t)' :
          m <= Clock(t) /\ (Saving(t)' => m < Clock(t))
    <3> SUFFICES ASSUME NEW t \in Heavy, NEW m \in CompleteSteps(t)'
                 PROVE  m <= Clock(t) /\ (Saving(t)' => m < Clock(t))
      OBVIOUS
    <3>1. t \in Services
      BY ServicesAre
    <3>2. CASE m \in CompleteSteps(t)
      BY <1>0, <2>2, <2>4, <3>1, <3>2 DEF Behind
    <3>3. CASE m = Clock(t) /\ ~Saving(t)'
      BY <1>a, <3>1, <3>3
    <3> QED BY <2>5, <3>1, <3>2, <3>3
  <2>7. \A m \in CompleteSteps(Roll)' :
          (m <= resume[0] \/ m <= Clock(Roll)) /\ (Saving(Roll)' => m < Clock(Roll))
    <3> SUFFICES ASSUME NEW m \in CompleteSteps(Roll)'
                 PROVE  (m <= resume[0] \/ m <= Clock(Roll)) /\ (Saving(Roll)' => m < Clock(Roll))
      OBVIOUS
    <3>1. CASE m \in CompleteSteps(Roll)
      BY <1>0, <2>2, <2>4, <3>1, ServicesAre DEF Behind
    <3>2. CASE m = Clock(Roll) /\ ~Saving(Roll)'
      BY <1>a, <3>2, ServicesAre
    <3> QED BY <2>5, <3>1, <3>2, ServicesAre
  <2>8. up' = up /\ resume' = resume
    BY <2>2 DEF others, launch
  <2>9. \A t \in Heavy : Clock(t)' >= resume'[0]
    BY <1>0, <2>2, <2>3, <2>8 DEF Behind
  <2>10. \A t \in Services : Saving(t)' => Clock(t)' > resume'[0]
    BY <1>0, <2>2, <2>3, <2>4, <2>8 DEF Behind
  <2> QED BY <2>3, <2>6, <2>7, <2>8, <2>9, <2>10 DEF Behind
<1>4. CASE RolloutWork \/ CriticWork \/ TrainerWork
  <2>1. PICK s \in Services : Moves(s)
    BY <1>0, <1>4, WorkMoves
  <2>2. up /\ up' /\ disk' = disk /\ resume' = resume /\ StoreType' /\ RunType'
    BY <1>0, <1>4, WorkKeeps, RolloutType, CriticType, TrainerType DEF store, launch
  <2>3. \A t \in Services : CompleteSteps(t)' = CompleteSteps(t)
    BY <2>2 DEF CompleteSteps
  <2>4. \A t \in Services : \A m \in CompleteSteps(t) : m \in Int
    BY DEF CompleteSteps, Steps
  <2>5. \A t \in Services : Clock(t)' \in Int
    <3>1. Clock(s)' \in Int
      BY <2>2, ServicesAre, RunAssumption DEF RunType, Clock, Train, Score, Roll
    <3>2. \A t \in Services \ {s} : Clock(t)' = Clock(t)
      BY <2>1 DEF Moves
    <3> QED BY <1>a, <3>1, <3>2
  <2>6. ASSUME NEW t \in Services
        PROVE  /\ Clock(t)' >= Clock(t)
               /\ ~Saving(t) /\ Saving(t)' => /\ Clock(t)' > Clock(t)
                                              /\ t = Roll => Clock(t)' > resume[0]
               /\ Saving(t) => Clock(t)' = Clock(t)
    <3>1. CASE t = s
      BY <2>1, <3>1 DEF Moves, Saving
    <3>2. CASE t # s
      BY <1>a, <2>1, <3>2 DEF Moves, Saving
    <3> QED BY <3>1, <3>2
  <2>7. ASSUME NEW t \in Heavy
        PROVE  /\ \A m \in CompleteSteps(t) : m <= Clock(t)' /\ (Saving(t)' => m < Clock(t)')
               /\ Clock(t)' >= resume[0] /\ (Saving(t)' => Clock(t)' > resume[0])
    <3>1. /\ \A m \in CompleteSteps(t) : m <= Clock(t) /\ (Saving(t) => m < Clock(t))
          /\ Clock(t) >= resume[0] /\ (Saving(t) => Clock(t) > resume[0])
      BY <1>0, <2>2, ServicesAre DEF Behind
    <3>2. t \in Services /\ Clock(t) \in Int /\ Clock(t)' \in Int
      BY <1>a, <2>5, ServicesAre
    <3>3. \A m \in CompleteSteps(t) : m <= Clock(t)' /\ (Saving(t)' => m < Clock(t)')
      BY <2>4, <2>6, <3>1, <3>2
    <3>4. Clock(t)' >= resume[0] /\ (Saving(t)' => Clock(t)' > resume[0])
      BY <1>a, <2>6, <3>1, <3>2
    <3> QED BY <3>3, <3>4
  <2>8. /\ \A m \in CompleteSteps(Roll) :
             (m <= resume[0] \/ m <= Clock(Roll)') /\ (Saving(Roll)' => m < Clock(Roll)')
        /\ Saving(Roll)' => Clock(Roll)' > resume[0]
    <3>1. /\ \A m \in CompleteSteps(Roll) :
               (m <= resume[0] \/ m <= Clock(Roll)) /\ (Saving(Roll) => m < Clock(Roll))
          /\ Saving(Roll) => Clock(Roll) > resume[0]
      BY <1>0, <2>2, ServicesAre DEF Behind
    <3>2. Roll \in Services /\ Clock(Roll) \in Int /\ Clock(Roll)' \in Int
      BY <1>a, <2>5, ServicesAre
    <3>3. \A m \in CompleteSteps(Roll) :
            (m <= resume[0] \/ m <= Clock(Roll)') /\ (Saving(Roll)' => m < Clock(Roll)')
      BY <1>a, <2>4, <2>6, <3>1, <3>2
    <3>4. Saving(Roll)' => Clock(Roll)' > resume[0]
      BY <1>a, <2>6, <3>1, <3>2
    <3> QED BY <3>3, <3>4
  <2>9. \A t \in Services : t \in Heavy \/ t = Roll
    BY RunAssumption
  <2> QED BY <2>2, <2>3, <2>7, <2>8, <2>9, ServicesAre DEF Behind
<1> QED BY <1>1, <1>2, <1>3, <1>4, StepCases

(* A committed shard of the trainer is past the cold start.                *)
LEMMA TrainerShard ==
  ASSUME RInv, NEW n \in CompleteSteps(Train)
  PROVE  /\ n \in Steps /\ n - Cold \in Versions /\ n \in Int
         /\ disk[Train][n].meta # {}
         /\ Content(disk[Train][n].meta).steps = n - Cold
         /\ weights[n - Cold] = "whole"
         /\ up => n <= steps + Cold
<1>1. n \in Steps /\ n \in Int /\ Cold \in Nat
  BY RunAssumption DEF CompleteSteps, Steps
<1>2. disk[Train][n].meta # {}
  BY ServicesAre DEF RInv, StoreInv, CommittedWhole
<1>3. ~(n <= Cold)
  BY <1>1, <1>2 DEF RInv, PolicyStored
<1>4. n - Cold \in Versions
  BY <1>1, <1>3, StoreAssumption DEF Versions, Steps
<1>5. Content(disk[Train][n].meta).steps = n - Cold /\ weights[n - Cold] = "whole"
  BY DEF RInv, PolicyStored
<1>6. up => n <= steps + Cold
  BY ClockIs, ServicesAre DEF RInv, Behind
<1> QED BY <1>1, <1>2, <1>4, <1>5, <1>6

LEMMA PolicySave ==
  ASSUME RInv, NEW s \in Services, SaveStep(s)
  PROVE  PolicyStored'
<1>0. StoreType /\ RunType /\ PolicyStored
  BY DEF RInv
<1>1. weights' = weights /\ steps' = steps
  BY DEF SaveStep, others, trainerVars
<1>2. /\ Cold \in Nat /\ steps \in Nat /\ Clock(Train) = steps + Cold
      /\ Snapshot(Train).steps = steps
  BY <1>0, RunAssumption, ClockIs DEF RunType
<1>3. Saving(Train)' => Saving(Train)
  <2>1. s = Train \/ doing'[Train] = doing[Train]
    BY SaveKeeps, ServicesAre
  <2> QED BY <2>1, SaveKeeps DEF Saving
<1>4. ASSUME NEW n \in Steps, n <= Cold
      PROVE  disk'[Train][n].data = {} /\ disk'[Train][n].meta = {}
  <2>1. disk[Train][n].data = {} /\ disk[Train][n].meta = {}
    BY <1>0, <1>4 DEF PolicyStored
  <2>2. ASSUME Train = s, n = Clock(s), Saving(Train) PROVE FALSE
    <3>1. steps > 0 /\ n = steps + Cold
      BY <1>0, <1>2, <2>2 DEF PolicyStored
    <3> QED BY <1>2, <1>4, <3>1
  <2>3. disk'[Train][n].data # {} => Train = s /\ n = Clock(s) /\ Saving(Train)
    BY <2>1, SaveKeeps, ServicesAre DEF Saving
  <2>4. disk'[Train][n].meta # {} => Train = s /\ n = Clock(s) /\ Saving(Train)
    BY <2>1, SaveKeeps, ServicesAre DEF Saving
  <2> QED BY <2>2, <2>3, <2>4
<1>5. ASSUME NEW n \in CompleteSteps(Train)'
      PROVE  Content(disk'[Train][n].meta).steps = n - Cold /\ weights'[n - Cold] = "whole"
  <2>0. n \in Steps /\ disk'[Train][n].mark
    BY DEF CompleteSteps
  <2>1. CASE disk[Train][n].mark
    <3>1. disk'[Train][n].meta = disk[Train][n].meta
      BY <2>0, <2>1, SaveKeeps, ServicesAre DEF SameContent
    <3>2. n \in CompleteSteps(Train)
      BY <2>0, <2>1 DEF CompleteSteps
    <3> QED BY <1>1, <3>1, <3>2, TrainerShard
  <2>2. CASE ~disk[Train][n].mark
    <3>1. /\ Train = s /\ n = Clock(s) /\ doing[s] = "mark"
          /\ disk'[Train][n].meta = {Snapshot(s)}
      BY <2>0, <2>2, SaveKeeps, ServicesAre
    <3>2. Content(disk'[Train][n].meta).steps = steps
      BY <1>2, <3>1, ContentOf
    <3>3. steps > 0
      BY <1>0, <3>1 DEF PolicyStored, Saving
    <3>4. n = steps + Cold /\ n \in 1..MaxStep
      BY <1>2, <2>0, <3>1 DEF Steps
    <3>5. n - Cold = steps /\ steps \in Versions
      BY <1>2, <3>3, <3>4, StoreAssumption DEF Versions
    <3>6. weights[steps] = "whole"
      BY <1>0, <3>1, <3>5 DEF PolicyStored, Saving
    <3> QED BY <1>1, <3>2, <3>5, <3>6
  <2> QED BY <2>1, <2>2
<1> QED BY <1>0, <1>1, <1>3, <1>4, <1>5 DEF PolicyStored

LEMMA PolicyTrain ==
  ASSUME RInv, TrainerWork
  PROVE  PolicyStored'
<1>0. StoreType /\ RunType /\ PolicyStored /\ up /\ disk' = disk
  BY WorkKeeps DEF RInv, store
<1>1. \A n \in Steps : n <= Cold => disk'[Train][n].data = {} /\ disk'[Train][n].meta = {}
  BY <1>0 DEF PolicyStored
<1>2. CompleteSteps(Train)' = CompleteSteps(Train)
  BY <1>0 DEF CompleteSteps
<1>3. steps \in Nat /\ Cold \in Nat
  BY <1>0, RunAssumption DEF RunType
<1>4. ASSUME \A n \in CompleteSteps(Train) : weights'[n - Cold] = "whole",
             Saving(Train)' => steps' > 0 /\ (steps' \in Versions => weights'[steps'] = "whole")
      PROVE  PolicyStored'
  <2>1. \A n \in CompleteSteps(Train) : Content(disk'[Train][n].meta).steps = n - Cold
    BY <1>0, TrainerShard
  <2> QED BY <1>1, <1>2, <1>4, <2>1 DEF PolicyStored
<1>5. CASE TrainStep
  <2>1. weights' = [weights EXCEPT ![steps + 1] = "torn"] /\ doing'[Train] = "export"
    BY <1>0, <1>5, ServicesAre DEF TrainStep, StoreType
  <2>2. ASSUME NEW n \in CompleteSteps(Train) PROVE weights'[n - Cold] = "whole"
    <3>1. n \in Int /\ n <= steps + Cold /\ n - Cold \in Versions /\ weights[n - Cold] = "whole"
      BY <1>0, TrainerShard
    <3>2. n - Cold # steps + 1
      BY <1>3, <3>1
    <3> QED BY <1>0, <2>1, <3>1, <3>2 DEF RunType
  <2> QED BY <1>4, <2>1, <2>2 DEF Saving
<1>6. CASE ExportWeights
  <2>1. weights' = [weights EXCEPT ![steps'] = "whole"] /\ steps' = steps + 1
    BY <1>6 DEF ExportWeights
  <2>2. \A v \in Versions : v = steps' \/ weights[v] = "whole" => weights'[v] = "whole"
    <3> DEFINE w == steps'
    <3>1. weights' = [weights EXCEPT ![w] = "whole"]
      BY <2>1
    <3> HIDE DEF w
    <3>2. \A v \in Versions : v = w \/ weights[v] = "whole" => weights'[v] = "whole"
      BY <1>0, <3>1 DEF RunType
    <3> QED BY <3>2 DEF w
  <2>3. \A n \in CompleteSteps(Train) : weights'[n - Cold] = "whole"
    BY <2>2, TrainerShard
  <2>4. steps' > 0
    BY <1>3, <2>1
  <2> QED BY <1>4, <2>2, <2>3, <2>4
<1>7. CASE PruneWeights
  <2>1. doing'[Train] = "publish"
    BY <1>0, <1>7, ServicesAre DEF PruneWeights, StoreType
  <2>2. ASSUME NEW n \in CompleteSteps(Train) PROVE weights'[n - Cold] = "whole"
    <3>1. n - Cold \in Versions /\ weights[n - Cold] = "whole"
      BY TrainerShard
    <3>2. n - Cold \in ProtectedWeightVersions
      <4>1. Content(disk[Train][n].meta).steps = n - Cold
        BY TrainerShard
      <4> QED BY <4>1 DEF ProtectedWeightVersions
    <3> QED BY <1>7, <3>1, <3>2 DEF PruneWeights
  <2> QED BY <1>4, <2>1, <2>2 DEF Saving
<1>8. CASE RaiseGate
  <2>1. doing'[Train] = "idle" /\ weights' = weights
    BY <1>0, <1>8, ServicesAre DEF RaiseGate, StoreType, trainerVars
  <2> QED BY <1>4, <2>1, TrainerShard DEF Saving
<1> QED BY <1>5, <1>6, <1>7, <1>8 DEF TrainerWork

LEMMA PolicyNext ==
  ASSUME RInv, Next
  PROVE  PolicyStored'
<1>0. StoreType /\ RunType /\ StoreInv /\ PolicyStored
  BY DEF RInv
<1>1. ASSUME disk' = disk, weights' = weights, ~Saving(Train)' PROVE PolicyStored'
  BY <1>0, <1>1 DEF PolicyStored, CompleteSteps
<1>2. CASE Start
  <2>1. disk' = disk /\ weights' = weights /\ doing'[Train] = "idle"
    BY <1>2, ServicesAre DEF Start, store
  <2> QED BY <1>1, <2>1 DEF Saving
<1>3. CASE Crash
  <2>1. disk' = disk /\ weights' = weights /\ doing'[Train] = "off"
    BY <1>0, <1>3, CrashIs, ServicesAre
  <2> QED BY <1>1, <2>1 DEF Saving
<1>4. CASE \E r \in Ranks : Look(r)
  <2>1. UNCHANGED <<disk, weights, doing>> /\ ~up
    BY <1>0, <1>4, LooksBefore, LookIs DEF store, trainerVars
  <2>2. doing[Train] = "off"
    BY <1>0, <2>1, ServicesAre DEF StoreInv
  <2> QED BY <1>1, <2>1, <2>2 DEF Saving
<1>5. CASE DropNewerThan
  <2>1. weights' = weights /\ ~up /\ doing' = doing
    BY <1>0, <1>5, DropsBefore, DropIs DEF trainerVars, NewerMarker, DropMarker, DropFiles, DropsDone
  <2>2. ~Saving(Train)'
    BY <1>0, <2>1, ServicesAre DEF StoreInv, Saving
  <2>3. \A n \in Steps : n <= Cold => disk'[Train][n].data = {} /\ disk'[Train][n].meta = {}
    BY <1>0, <1>5, DropKeeps, ServicesAre DEF PolicyStored
  <2>4. ASSUME NEW n \in CompleteSteps(Train)'
        PROVE  Content(disk'[Train][n].meta).steps = n - Cold /\ weights'[n - Cold] = "whole"
    <3>1. n \in Steps /\ disk'[Train][n].mark
      BY DEF CompleteSteps
    <3>2. disk[Train][n].mark /\ disk'[Train][n].meta = disk[Train][n].meta
      BY <1>5, <3>1, DropKeeps, ServicesAre DEF SameContent
    <3>3. n \in CompleteSteps(Train)
      BY <3>1, <3>2 DEF CompleteSteps
    <3> QED BY <2>1, <3>2, <3>3, TrainerShard
  <2> QED BY <2>2, <2>3, <2>4 DEF PolicyStored
<1>6. CASE RolloutWork \/ CriticWork
  <2>1. UNCHANGED <<steps, weights, disk>>
    BY <1>0, <1>6, WorkKeeps
       DEF store, RolloutWork, NextBatch, TryAdvanceGate, AcquireGenerationSlot,
           CriticWork, ScoreWindow, PublishScores, trainerVars
  <2>2. doing'[Train] = doing[Train]
    BY <1>0, <1>6, RolloutMoves, CriticMoves, ServicesAre DEF Moves
  <2> QED BY <1>0, <2>1, <2>2 DEF PolicyStored, CompleteSteps, Saving
<1> QED BY <1>2, <1>3, <1>4, <1>5, <1>6, PolicySave, PolicyTrain, StepCases

-----------------------------------------------------------------------------
(* The results.                                                            *)

LEMMA RInvStep ==
  ASSUME RInv, [Next]_vars
  PROVE  RInv'
<1>1. CASE Next
  BY <1>1, TypeNext, StoreNext, CursorsNext, AgreeingNext, BehindNext, PolicyNext, BootsNext
     DEF RInv
<1>2. CASE UNCHANGED vars
  <2>0. UNCHANGED <<disk, folders, victim, doing, life, up, rankAt, cand, resume, loaded, weights,
                    steps, booted, windows, held, gatesSeen, started, pulled, next, pulses,
                    rolled, scored, learned>>
    BY <1>2 DEF vars, store, launch, trainerVars, criticVars, rolloutVars, rows
  <2>1. StoreType' /\ RunType'
    <3>1. StoreType'
      BY <2>0 DEF RInv, StoreType
    <3>2. RunType'
      BY <2>0 DEF RInv, RunType
    <3> QED BY <3>1, <3>2
  <2>2. /\ \A s : Clock(s)' = Clock(s) /\ Snapshot(s)' = Snapshot(s)
        /\ \A s : CompleteSteps(s)' = CompleteSteps(s)
        /\ \A s : Saving(s)' <=> Saving(s)
    BY <2>0, SameClocks DEF CompleteSteps, Saving
  <2>3. StoreInv'
    BY <2>0, <2>2 DEF RInv, StoreInv, CommittedWhole, InProgress
  <2>4. CursorsStored'
    BY <2>0 DEF RInv, CursorsStored
  <2>5. Agreeing'
    <3>1. HasAnyShard' <=> HasAnyShard
      BY <2>2 DEF HasAnyShard
    <3>2. ResumePoint' = ResumePoint
      BY <2>0 DEF ResumePoint, Resumable, AllComplete, CheckpointParticipants, IsComplete
    <3> QED BY <2>0, <2>2, <3>1, <3>2 DEF RInv, Agreeing
  <2>6. Behind'
    BY <2>0, <2>2 DEF RInv, Behind
  <2>7. PolicyStored'
    BY <2>0, <2>2 DEF RInv, PolicyStored
  <2>8. BootsCurrentPolicy'
    BY <2>0 DEF RInv, BootsCurrentPolicy
  <2> QED BY <2>1, <2>3, <2>4, <2>5, <2>6, <2>7, <2>8 DEF RInv
<1> QED BY <1>1, <1>2

LEMMA RInvAlways == Spec => []RInv
<1>1. Init => RInv
  BY InitR DEF RInv
<1>2. RInv /\ [Next]_vars => RInv'
  BY RInvStep
<1> QED BY <1>1, <1>2, PTL DEF Spec

(* A marker vouches for its shard: a committed shard has its sidecar, and  *)
(* the directory of the same save when it has one, whatever save, rotation *)
(* or deletion a crash cut short (StateStore.mark_complete, drop).         *)
THEOREM ShardsWhole == Spec => []CommittedWhole
<1>1. RInv => CommittedWhole
  BY DEF RInv, StoreInv
<1> QED BY <1>1, RInvAlways, PTL

(* No service ever saves on top of a committed shard: its clock is past    *)
(* every marker of its own (the snapshot guard of the rollout, and rank 0's*)
(* removal of what is newer than the resume step).                         *)
THEOREM NeverRewritten == Spec => []CommittedNeverRewritten
<1>1. RInv => CommittedNeverRewritten
  BY NotRewritten
<1> QED BY <1>1, RInvAlways, PTL

(* However many ranks look at the directory while rank 0 is deleting in it,*)
(* all come to one resume step, or all refuse (_check_resume).             *)
THEOREM RanksComeToOneStep == Spec => []RanksAgree
<1>1. ASSUME RInv PROVE RanksAgree
  <2> SUFFICES ASSUME NEW q \in Ranks, NEW r \in Ranks, rankAt[q] \in {"ready", "drop"}
               PROVE  /\ rankAt[r] # "refused"
                      /\ rankAt[r] \in {"ready", "drop"} => resume[q] = resume[r]
    BY DEF RanksAgree
  <2>1. CASE up
    BY <1>1, <2>1 DEF RInv, Agreeing
  <2>2. CASE ~up
    BY <1>1, <2>2 DEF RInv, Agreeing
  <2> QED BY <2>1, <2>2
<1>2. RInv => RanksAgree
  BY <1>1
<1> QED BY <1>2, RInvAlways, PTL

(* The inference server of a launch boots from the whole export of the     *)
(* version the resume step was trained to, and from the base model when    *)
(* there is none: the rotation of exports keeps what the shards name.      *)
THEOREM BootsAgreedPolicy == Spec => []BootsCurrentPolicy
<1>1. RInv => BootsCurrentPolicy
  BY DEF RInv
<1> QED BY <1>1, RInvAlways, PTL

-----------------------------------------------------------------------------
(* The stream of pulses.                                                   *)

LEMMA PulseRead ==
  ASSUME RunType, InOrder, pulses # <<>>, pulses' = Tail(pulses), gatesSeen' = gatesSeen + 1
  PROVE  InOrder' /\ Raised' = Raised
<1>1. pulses \in Seq(Nat) /\ gatesSeen \in Nat
  BY DEF RunType
<1>2. /\ Len(pulses) \in Nat /\ Len(pulses) > 0 /\ Len(pulses') = Len(pulses) - 1
      /\ \A i \in 1..Len(pulses') : pulses'[i] = pulses[i + 1]
  BY <1>1
<1>3. Raised' = Raised
  BY <1>1, <1>2 DEF Raised
<1>4. ASSUME NEW i \in 1..Len(pulses') PROVE pulses'[i] = gatesSeen' + i - 1
  <2>1. i + 1 \in 1..Len(pulses) /\ i \in Int
    BY <1>2
  <2>2. pulses[i + 1] = gatesSeen + (i + 1) - 1
    BY <2>1 DEF InOrder
  <2> QED BY <1>1, <1>2, <2>1, <2>2
<1> QED BY <1>3, <1>4 DEF InOrder

LEMMA PulseRaised ==
  ASSUME RunType, InOrder, NEW v \in Nat, v = Raised + 1, pulses' = Append(pulses, v),
         gatesSeen' = gatesSeen
  PROVE  InOrder' /\ Raised' = Raised + 1
<1>1. pulses \in Seq(Nat) /\ gatesSeen \in Nat
  BY DEF RunType
<1>2. /\ Len(pulses) \in Nat /\ Len(pulses') = Len(pulses) + 1
      /\ \A i \in 1..Len(pulses) : pulses'[i] = pulses[i]
      /\ pulses'[Len(pulses) + 1] = v
  BY <1>1
<1>3. Raised' = Raised + 1
  BY <1>1, <1>2 DEF Raised
<1>4. ASSUME NEW i \in 1..Len(pulses') PROVE pulses'[i] = gatesSeen' + i - 1
  <2>1. CASE i \in 1..Len(pulses)
    <3>1. pulses'[i] = pulses[i]
      BY <1>2, <2>1
    <3> QED BY <2>1, <3>1 DEF InOrder
  <2>2. CASE i = Len(pulses) + 1
    BY <1>1, <1>2, <2>2 DEF Raised
  <2> QED BY <1>2, <2>1, <2>2
<1> QED BY <1>3, <1>4 DEF InOrder

(* Nothing that a group or a batch can be taken from is empty.             *)
LEMMA Drawn ==
  ASSUME NEW R, NEW S \in kSubset(Batch, R)
  PROVE  S \subseteq R /\ Cardinality(S) = Batch /\ R # {}
<1>1. S \subseteq R /\ Cardinality(S) = Batch
  BY DEF kSubset
<1>2. ASSUME R = {} PROVE FALSE
  <2>1. S = {}
    BY <1>1, <1>2
  <2>2. Cardinality(S) = 0
    BY <2>1, FS_EmptySet
  <2> QED BY <1>1, <2>2, RunAssumption
<1> QED BY <1>1, <1>2

LEMMA StreamSave ==
  ASSUME RInv, StreamInv, NEW s \in Services, SaveStep(s)
  PROVE  StreamInv'
<1>0. StoreType /\ RunType /\ StoreInv /\ up
  BY SavesWhenUp DEF RInv
<1>1. UNCHANGED <<up, windows, steps, pulses, gatesSeen, rolled, scored, held>>
  BY DEF SaveStep, others, trainerVars, criticVars, rolloutVars, rows
<1>2. /\ doing[s] \in {"data", "meta", "mark", "prune"}
      /\ doing'[s] \in {"data", "meta", "mark", "prune", After(s)}
      /\ \A t \in Services \ {s} : doing'[t] = doing[t]
  <2>1. \A t \in Services \ {s} : doing'[t] = doing[t]
    BY SaveKeeps
  <2>2. /\ doing[s] \in {"data", "meta", "mark", "prune"}
        /\ doing'[s] \in {"data", "meta", "mark", "prune", After(s)}
    BY <1>0, SaveIs DEF DirWritten, MetaWritten, Marked, MarkerTaken, FilesTaken, SaveOver
  <2> QED BY <2>1, <2>2
<1>3. /\ doing'[Train] \in Past <=> doing[Train] \in Past
      /\ doing'[Train] = "idle" <=> doing[Train] = "idle"
  <2>1. CASE s = Train
    <3>1. After(s) = "rotate"
      BY <2>1, ServicesAre DEF After
    <3> QED BY <1>2, <2>1, <3>1 DEF Past
  <2>2. CASE s # Train
    BY <1>2, <2>2, ServicesAre
  <2> QED BY <2>1, <2>2
<1>4. Critic => (doing'[Score] = "idle" <=> doing[Score] = "idle")
  <2>1. CASE s = Score
    <3>1. After(s) = "publish"
      BY <2>1, ServicesAre DEF After
    <3> QED BY <1>2, <2>1, <3>1
  <2>2. CASE s # Score
    BY <1>2, <2>2, ServicesAre
  <2> QED BY <2>1, <2>2
<1>5. Owed' = Owed
  BY <1>1, <1>3, <1>4 DEF Owed
<1>6. Raised' = Raised /\ (InOrder' <=> InOrder)
  BY <1>1 DEF Raised, InOrder
<1> QED BY <1>0, <1>1, <1>3, <1>5, <1>6 DEF StreamInv

LEMMA StreamRollout ==
  ASSUME RInv, StreamInv, RolloutWork
  PROVE  StreamInv'
<1>0. StoreType /\ RunType /\ StoreInv /\ up /\ up' = up
  BY WorkKeeps DEF RInv
<1>1. UNCHANGED <<windows, steps, scored>>
  BY DEF RolloutWork, NextBatch, TryAdvanceGate, AcquireGenerationSlot, trainerVars, criticVars,
         rows
<1>2. doing'[Train] = doing[Train] /\ (Critic => doing'[Score] = doing[Score])
  BY <1>0, RolloutMoves, ServicesAre DEF Moves
<1>3. Owed' = Owed
  BY <1>1, <1>2 DEF Owed
<1>4. InOrder' /\ Raised' = Raised
  <2>1. CASE TryAdvanceGate
    BY <1>0, <2>1, PulseRead DEF TryAdvanceGate, StreamInv
  <2>2. CASE NextBatch \/ AcquireGenerationSlot
    <3>1. UNCHANGED <<gatesSeen, pulses>>
      BY <2>2 DEF NextBatch, AcquireGenerationSlot
    <3> QED BY <1>0, <3>1 DEF StreamInv, InOrder, Raised
  <2> QED BY <2>1, <2>2 DEF RolloutWork
<1> QED BY <1>0, <1>1, <1>2, <1>3, <1>4 DEF StreamInv

LEMMA StreamCritic ==
  ASSUME RInv, StreamInv, CriticWork
  PROVE  StreamInv'
<1>0. StoreType /\ RunType /\ StoreInv /\ up /\ up' = up /\ Critic
  BY WorkKeeps, CriticMoves DEF RInv
<1>1. UNCHANGED <<steps, gatesSeen>>
  BY DEF CriticWork, ScoreWindow, PublishScores, trainerVars, rolloutVars
<1>2. doing'[Train] = doing[Train]
  BY <1>0, CriticMoves, ServicesAre DEF Moves
<1>3. windows \in Nat /\ Cold \in Nat /\ steps \in Nat
  BY <1>0, RunAssumption DEF RunType
<1>4. /\ InOrder /\ Raised = Owed
      /\ windows <= Cold => scored = {} /\ steps = 0 /\ doing[Train] = "idle"
  BY <1>0 DEF StreamInv
<1>5. CASE ScoreWindow
  <2>1. /\ doing[Score] = "idle" /\ windows' = windows + 1
        /\ UNCHANGED <<pulses, scored>>
        /\ doing' = [doing EXCEPT ![Score] = IF Due(windows + 1) THEN "data" ELSE "publish"]
    BY <1>5 DEF ScoreWindow
  <2>2. doing'[Score] # "idle"
    BY <1>0, <2>1, ServicesAre DEF StoreType
  <2>3. Raised' = Raised /\ InOrder'
    BY <1>1, <1>4, <2>1 DEF Raised, InOrder
  <2>4. Owed' = Owed
    <3>1. CASE windows < Cold
      BY <1>0, <1>3, <2>1, <2>2, <3>1 DEF Owed
    <3>2. CASE windows = Cold
      BY <1>0, <1>1, <1>2, <1>3, <1>4, <2>1, <2>2, <3>2 DEF Owed, Past
    <3>3. CASE windows > Cold
      BY <1>0, <1>1, <1>2, <1>3, <2>1, <3>3 DEF Owed
    <3> QED BY <1>3, <3>1, <3>2, <3>3
  <2>5. windows' <= Cold => scored' = {} /\ steps' = 0 /\ doing'[Train] = "idle"
    BY <1>1, <1>2, <1>3, <1>4, <2>1
  <2> QED BY <1>0, <1>4, <2>3, <2>4, <2>5 DEF StreamInv
<1>6. CASE PublishScores
  <2>1. /\ doing[Score] = "publish" /\ windows' = windows
        /\ IF windows <= Cold
           THEN pulses' = Append(pulses, windows) /\ UNCHANGED scored
           ELSE scored' = scored \cup held /\ UNCHANGED pulses
        /\ doing' = [doing EXCEPT ![Score] = "idle"]
    BY <1>6 DEF PublishScores
  <2>2. doing'[Score] = "idle"
    BY <1>0, <2>1, ServicesAre DEF StoreType
  <2>3. CASE windows <= Cold
    <3>1. Owed = windows - 1 /\ Owed' = windows
      BY <1>0, <1>3, <2>1, <2>2, <2>3 DEF Owed
    <3>2. windows = Raised + 1
      BY <1>3, <1>4, <3>1
    <3>3. InOrder' /\ Raised' = Raised + 1
      BY <1>0, <1>1, <1>3, <1>4, <2>1, <2>3, <3>2, PulseRaised
    <3>4. Raised' = Owed'
      BY <3>1, <3>2, <3>3
    <3> QED BY <1>0, <1>1, <1>2, <1>4, <2>1, <2>3, <3>3, <3>4 DEF StreamInv
  <2>4. CASE ~(windows <= Cold)
    <3>1. Owed' = Owed
      BY <1>1, <1>2, <2>1, <2>4 DEF Owed
    <3>2. Raised' = Raised /\ InOrder'
      BY <1>1, <1>4, <2>1, <2>4 DEF Raised, InOrder
    <3> QED BY <1>0, <1>4, <2>1, <2>4, <3>1, <3>2 DEF StreamInv
  <2> QED BY <2>3, <2>4
<1> QED BY <1>5, <1>6 DEF CriticWork

LEMMA StreamTrainer ==
  ASSUME RInv, StreamInv, TrainerWork
  PROVE  StreamInv'
<1>0. StoreType /\ RunType /\ StoreInv /\ up /\ up' = up
  BY WorkKeeps DEF RInv
<1>1. UNCHANGED <<windows, gatesSeen>>
  BY DEF TrainerWork, TrainStep, ExportWeights, PruneWeights, RaiseGate, criticVars, rolloutVars
<1>2. Critic => doing'[Score] = doing[Score]
  BY <1>0, TrainerMoves, ServicesAre DEF Moves
<1>3. Cold \in Nat /\ steps \in Nat
  BY <1>0, RunAssumption DEF RunType
<1>4. /\ InOrder /\ Raised = Owed
      /\ Critic /\ windows <= Cold => scored = {} /\ doing[Train] = "idle"
  BY <1>0 DEF StreamInv
<1>5. ~(Critic /\ windows <= Cold)
  <2>1. TrainStep => \E S \in kSubset(Batch, Ready) : TRUE
    BY DEF TrainStep
  <2>2. TrainStep => Ready # {}
    BY <2>1, Drawn
  <2>3. TrainStep /\ Critic => scored # {}
    BY <2>2 DEF Ready
  <2>4. ExportWeights \/ PruneWeights \/ RaiseGate => doing[Train] # "idle"
    BY DEF ExportWeights, PruneWeights, RaiseGate
  <2> QED BY <1>4, <2>3, <2>4 DEF TrainerWork
<1>6. /\ Owed = Cold + steps - (IF doing[Train] \in Past THEN 1 ELSE 0)
      /\ Owed' = Cold + steps' - (IF doing'[Train] \in Past THEN 1 ELSE 0)
      /\ ~(Critic /\ windows' <= Cold)
  BY <1>1, <1>5 DEF Owed
<1>7. ASSUME UNCHANGED pulses, Owed' = Owed PROVE StreamInv'
  <2>1. Raised' = Raised /\ InOrder'
    BY <1>1, <1>4, <1>7 DEF Raised, InOrder
  <2> QED BY <1>0, <1>4, <1>6, <1>7, <2>1 DEF StreamInv
<1>8. CASE TrainStep
  <2>1. /\ UNCHANGED <<steps, pulses>> /\ doing[Train] = "idle" /\ doing'[Train] = "export"
    BY <1>0, <1>8, ServicesAre DEF TrainStep, StoreType
  <2> QED BY <1>6, <1>7, <2>1 DEF Past
<1>9. CASE ExportWeights
  <2>1. /\ steps' = steps + 1 /\ UNCHANGED pulses /\ doing[Train] = "export"
        /\ doing'[Train] \in {"data", "rotate"}
    BY <1>0, <1>9, ServicesAre DEF ExportWeights, StoreType
  <2>2. Owed' = Owed
    BY <1>3, <1>6, <2>1 DEF Past
  <2> QED BY <1>7, <2>1, <2>2
<1>10. CASE PruneWeights
  <2>1. /\ UNCHANGED <<steps, pulses>> /\ doing[Train] = "rotate" /\ doing'[Train] = "publish"
    BY <1>0, <1>10, ServicesAre DEF PruneWeights, StoreType
  <2> QED BY <1>6, <1>7, <2>1 DEF Past
<1>11. CASE RaiseGate
  <2>1. /\ UNCHANGED steps /\ doing[Train] = "publish" /\ doing'[Train] = "idle"
        /\ pulses' = Append(pulses, steps + Cold)
    BY <1>0, <1>11, ServicesAre DEF RaiseGate, StoreType, trainerVars, GateNumber
  <2>2. Owed = Cold + steps - 1 /\ Owed' = Cold + steps
    BY <1>3, <1>6, <2>1 DEF Past
  <2>3. steps + Cold \in Nat /\ steps + Cold = Raised + 1
    BY <1>3, <1>4, <2>2
  <2>4. InOrder' /\ Raised' = Raised + 1
    <3> DEFINE v == steps + Cold
    <3>1. v \in Nat /\ v = Raised + 1 /\ pulses' = Append(pulses, v)
      BY <2>1, <2>3
    <3> HIDE DEF v
    <3> QED BY <1>0, <1>1, <1>4, <3>1, PulseRaised
  <2>5. Raised' = Owed'
    BY <1>3, <1>4, <2>2, <2>4
  <2> QED BY <1>0, <1>6, <2>4, <2>5 DEF StreamInv
<1> QED BY <1>8, <1>9, <1>10, <1>11 DEF TrainerWork

LEMMA StreamStart ==
  ASSUME RInv, StreamInv, Start
  PROVE  StreamInv'
<1> DEFINE n == resume[0]
<1>1. n \in Nat /\ Cold \in Nat /\ (~Critic => Cold = 0) /\ ~up
  BY Agreed, RunAssumption
<1>2. /\ up' /\ windows' = (IF Critic THEN n ELSE 0) /\ gatesSeen' = n /\ pulses' = <<n>>
      /\ \A s \in Services : doing'[s] = "idle"
      /\ scored' = scored
  BY DEF Start, RestoredGates, rows
<1>3. steps' = IF n > Cold THEN n - Cold ELSE 0
  BY StartClocks
<1>4. Len(pulses') = 1 /\ pulses'[1] = n
  BY <1>2
<1>5. InOrder' /\ Raised' = n
  BY <1>1, <1>2, <1>4 DEF InOrder, Raised
<1>6. Owed' = n
  <2>1. doing'[Train] = "idle" /\ (Critic => doing'[Score] = "idle")
    BY <1>2, ServicesAre
  <2>2. CASE Critic /\ n <= Cold
    BY <1>1, <1>2, <2>1, <2>2 DEF Owed
  <2>3. CASE ~(Critic /\ n <= Cold)
    BY <1>1, <1>2, <1>3, <2>1, <2>3 DEF Owed, Past
  <2> QED BY <2>2, <2>3
<1>7. scored = {}
  BY <1>1 DEF StreamInv
<1>8. Critic /\ windows' <= Cold => scored' = {} /\ steps' = 0 /\ doing'[Train] = "idle"
  BY <1>1, <1>2, <1>3, <1>7, ServicesAre
<1> QED BY <1>2, <1>5, <1>6, <1>8 DEF StreamInv

LEMMA StreamStep ==
  ASSUME RInv, StreamInv, [Next]_vars
  PROVE  StreamInv'
<1>0. StoreType /\ RunType
  BY DEF RInv
<1>1. CASE Crash
  BY <1>1 DEF Crash, StreamInv
<1>2. CASE DropNewerThan \/ \E r \in Ranks : Look(r)
  <2>1. ~up /\ UNCHANGED <<up, rolled, scored, held>>
    BY <1>0, <1>2, LooksBefore, LookIs, DropsBefore, DropStepIs DEF rows, criticVars
  <2> QED BY <2>1 DEF StreamInv
<1>3. CASE UNCHANGED vars
  BY <1>3 DEF vars, trainerVars, criticVars, rolloutVars, rows, StreamInv, InOrder, Raised, Owed
<1> QED BY <1>1, <1>2, <1>3, StepCases, StreamSave, StreamRollout, StreamCritic, StreamTrainer,
           StreamStart

LEMMA StreamAlways == Spec => [](RInv /\ StreamInv)
<1>1. Init => StreamInv
  BY DEF Init, StreamInv
<1>2. RInv /\ StreamInv /\ [Next]_vars => StreamInv'
  BY StreamStep
<1> QED BY <1>1, <1>2, RInvAlways, PTL DEF Spec

(* The rollout finds the pulses without a gap or a repetition, whether the *)
(* critic raised them in its cold start or the trainer since, and also in a*)
(* launch that resumed into an empty TransferQueue (raise_gate,            *)
(* _publish_gen_gate and the resume of the rollout's counters).            *)
THEOREM PulsesInOrder == Spec => []GateStreamInOrder
<1>1. StreamInv => GateStreamInOrder
  BY DEF StreamInv, InOrder, GateStreamInOrder
<1> QED BY <1>1, StreamAlways, PTL

-----------------------------------------------------------------------------
(* Trainer and critic.                                                     *)

LEMMA Products ==
  ASSUME NEW a \in Int, NEW b \in Int, NEW k \in Nat \ {0}
  PROVE  /\ a * k \in Int /\ (a + 1) * k = a * k + k
         /\ a * k <= b * k => a <= b
<1>1. a * k \in Int /\ b * k \in Int /\ (a + 1) * k = a * k + k
  OBVIOUS
<1>2. ASSUME a > b PROVE a * k > b * k
  <2>1. a - b >= 1 /\ a - b \in Nat
    BY <1>2
  <2>2. a * k = b * k + (a - b) * k
    OBVIOUS
  <2>3. (a - b) * k = (a - b - 1) * k + k
    OBVIOUS
  <2>4. a - b - 1 \in Nat
    BY <2>1
  <2>5. (a - b - 1) * k >= 0
    <3> DEFINE c == a - b - 1
    <3>1. c \in Nat
      BY <2>4
    <3> HIDE DEF c
    <3>2. c * k >= 0
      BY <3>1
    <3> QED BY <3>2 DEF c
  <2> DEFINE p == (a - b - 1) * k
             q == (a - b) * k
             x == a * k
             y == b * k
  <2>6. p \in Int /\ q \in Int /\ x \in Int /\ y \in Int
    OBVIOUS
  <2>7. x = y + q /\ q = p + k /\ p >= 0
    BY <2>2, <2>3, <2>5
  <2> HIDE DEF p, q, x, y
  <2>8. x > y
    BY <2>6, <2>7
  <2> QED BY <2>8 DEF x, y
<1> QED BY <1>1, <1>2

LEMMA TakenFrom ==
  ASSUME NEW R, IsFiniteSet(R), NEW S \in kSubset(Batch, R)
  PROVE  /\ IsFiniteSet(S) /\ S \subseteq R
         /\ IsFiniteSet(R \ S) /\ Cardinality(R \ S) = Cardinality(R) - Batch
         /\ Cardinality(R) \in Nat
<1>1. S \subseteq R /\ Cardinality(S) = Batch
  BY DEF kSubset
<1>2. IsFiniteSet(S) /\ Cardinality(R) \in Nat
  BY <1>1, FS_Subset, FS_CardinalityType
<1>3. IsFiniteSet(R \ S) /\ Cardinality(R \ S) = Cardinality(R) - Cardinality(R \cap S)
  BY FS_Difference
<1>4. R \cap S = S
  BY <1>1
<1> QED BY <1>1, <1>2, <1>3, <1>4

LEMMA PaceCritic ==
  ASSUME RInv, StreamInv, BehindCritic, CriticWork
  PROVE  BehindCritic'
<1>0. StoreType /\ RunType /\ StoreInv /\ up /\ up' = up /\ Critic
  BY WorkKeeps, CriticMoves DEF RInv
<1>1. UNCHANGED steps /\ doing'[Train] = doing[Train]
  <2>1. UNCHANGED steps
    BY DEF CriticWork, ScoreWindow, PublishScores, trainerVars
  <2>2. doing'[Train] = doing[Train]
    BY <1>0, CriticMoves, ServicesAre DEF Moves
  <2> QED BY <2>1, <2>2
<1>2. windows \in Nat /\ Cold \in Nat /\ steps \in Nat /\ Batch \in Nat \ {0}
  BY <1>0, RunAssumption DEF RunType
<1>3. Trained' = Trained /\ Trained \in Nat
  <2>1. Trained' = Trained
    BY <1>1 DEF Trained
  <2>2. Trained \in Nat
    BY <1>2 DEF Trained
  <2> QED BY <2>1, <2>2
<1>4. /\ IsFiniteSet(rolled) /\ IsFiniteSet(scored) /\ IsFiniteSet(held)
      /\ Cardinality(held) = IF doing[Score] = "idle" THEN 0 ELSE Batch
      /\ windows > Cold => Trained * Batch + Cardinality(scored) + Cardinality(held)
                             <= (windows - Cold) * Batch
  BY <1>0 DEF BehindCritic
<1>5. CASE ScoreWindow
  <2>1. PICK S \in kSubset(Batch, rolled) : held' = S /\ rolled' = rolled \ S
    BY <1>5 DEF ScoreWindow
  <2>2. /\ doing[Score] = "idle" /\ windows' = windows + 1 /\ scored' = scored
        /\ doing' = [doing EXCEPT ![Score] = IF Due(windows + 1) THEN "data" ELSE "publish"]
    BY <1>5 DEF ScoreWindow
  <2>3. doing'[Score] # "idle"
    BY <1>0, <2>2, ServicesAre DEF StoreType
  <2>4. IsFiniteSet(rolled') /\ IsFiniteSet(held') /\ Cardinality(held') = Batch
    BY <1>4, <2>1, TakenFrom, Drawn
  <2>5. ASSUME windows + 1 > Cold
        PROVE  Trained * Batch + Cardinality(scored) + Batch <= (windows + 1 - Cold) * Batch
    <3>1. CASE windows > Cold
      <4>1. Trained * Batch + Cardinality(scored) <= (windows - Cold) * Batch
            /\ Cardinality(scored) \in Nat
        BY <1>2, <1>3, <1>4, <2>2, <3>1, FS_CardinalityType
      <4>2. (windows - Cold + 1) * Batch = (windows - Cold) * Batch + Batch
        BY <1>2, Products
      <4>3. windows - Cold + 1 = windows + 1 - Cold
        BY <1>2
      <4> DEFINE p == Trained * Batch
                 q == (windows - Cold) * Batch
                 r == Cardinality(scored)
      <4>4. p \in Int /\ q \in Int /\ r \in Int /\ p + r <= q /\ Batch \in Int
        BY <1>2, <1>3, <4>1
      <4> HIDE DEF p, q, r
      <4>5. p + r + Batch <= q + Batch
        BY <4>4
      <4> QED BY <4>2, <4>3, <4>5 DEF p, q, r
    <3>2. CASE ~(windows > Cold)
      <4>1. windows = Cold
        BY <1>2, <2>5, <3>2
      <4>2. scored = {} /\ steps = 0 /\ doing[Train] = "idle"
        BY <1>0, <1>2, <4>1 DEF StreamInv
      <4>3. Trained = 0 /\ Cardinality(scored) = 0
        BY <4>2, FS_EmptySet DEF Trained
      <4>4. windows + 1 - Cold = 1
        BY <1>2, <4>1
      <4>5. 1 * Batch = Batch /\ 0 * Batch = 0
        BY <1>2
      <4> QED BY <1>2, <4>3, <4>4, <4>5
    <3> QED BY <3>1, <3>2
  <2> QED BY <1>0, <1>2, <1>3, <1>4, <2>2, <2>3, <2>4, <2>5 DEF BehindCritic
<1>6. CASE PublishScores
  <2>1. /\ doing[Score] = "publish" /\ windows' = windows /\ held' = {} /\ rolled' = rolled
        /\ scored' = scored \/ scored' = scored \cup held
        /\ doing' = [doing EXCEPT ![Score] = "idle"]
    BY <1>6 DEF PublishScores
  <2>2. doing'[Score] = "idle"
    BY <1>0, <2>1, ServicesAre DEF StoreType
  <2>3. /\ IsFiniteSet(scored') /\ Cardinality(scored') \in Nat
        /\ Cardinality(scored') <= Cardinality(scored) + Cardinality(held)
        /\ Cardinality(scored) \in Nat /\ Cardinality(held) \in Nat
    <3>1. Cardinality(scored) \in Nat /\ Cardinality(held) \in Nat
      BY <1>4, FS_CardinalityType
    <3>2. /\ IsFiniteSet(scored \cup held)
          /\ Cardinality(scored \cup held) =
               Cardinality(scored) + Cardinality(held) - Cardinality(scored \cap held)
      BY <1>4, FS_Union
    <3>3. Cardinality(scored \cap held) \in Nat /\ Cardinality(scored \cup held) \in Nat
      BY <1>4, <3>2, FS_Intersection, FS_CardinalityType
    <3>4. Cardinality(scored \cup held) <= Cardinality(scored) + Cardinality(held)
      BY <3>1, <3>2, <3>3
    <3>5. CASE scored' = scored
      BY <1>4, <3>1, <3>5
    <3>6. CASE scored' = scored \cup held
      BY <3>1, <3>2, <3>3, <3>4, <3>6
    <3> QED BY <2>1, <3>5, <3>6
  <2>4. IsFiniteSet(held') /\ Cardinality(held') = 0
    BY <2>1, FS_EmptySet
  <2>5. windows > Cold =>
          Trained * Batch + Cardinality(scored') + 0 <= (windows - Cold) * Batch
    <3> DEFINE p == Trained * Batch
               q == (windows - Cold) * Batch
    <3>1. p \in Int /\ q \in Int
      BY <1>2, <1>3
    <3>2. windows > Cold => p + Cardinality(scored) + Cardinality(held) <= q
      BY <1>4
    <3> HIDE DEF p, q
    <3>3. windows > Cold => p + Cardinality(scored') + 0 <= q
      BY <2>3, <3>1, <3>2
    <3> QED BY <3>3 DEF p, q
  <2> QED BY <1>0, <1>3, <1>4, <2>1, <2>2, <2>3, <2>4, <2>5 DEF BehindCritic
<1> QED BY <1>5, <1>6 DEF CriticWork

LEMMA PaceTrainer ==
  ASSUME RInv, StreamInv, BehindCritic, TrainerWork
  PROVE  BehindCritic'
<1>0. StoreType /\ RunType /\ StoreInv /\ up /\ up' = up
  BY WorkKeeps DEF RInv
<1>1. UNCHANGED <<windows, held>> /\ (Critic => doing'[Score] = doing[Score])
  <2>1. UNCHANGED <<windows, held>>
    BY DEF TrainerWork, TrainStep, ExportWeights, PruneWeights, RaiseGate, criticVars
  <2>2. Critic => doing'[Score] = doing[Score]
    BY <1>0, TrainerMoves, ServicesAre DEF Moves
  <2> QED BY <2>1, <2>2
<1>2. windows \in Nat /\ Cold \in Nat /\ steps \in Nat /\ Batch \in Nat \ {0}
  BY <1>0, RunAssumption DEF RunType
<1>3. /\ IsFiniteSet(rolled) /\ IsFiniteSet(scored) /\ IsFiniteSet(held)
      /\ Critic => Cardinality(held) = IF doing[Score] = "idle" THEN 0 ELSE Batch
      /\ Critic /\ windows > Cold =>
           Trained * Batch + Cardinality(scored) + Cardinality(held) <= (windows - Cold) * Batch
  BY <1>0 DEF BehindCritic
<1>4. CASE TrainStep
  <2>1. PICK S \in kSubset(Batch, Ready) :
          rolled' = (IF Critic THEN rolled ELSE rolled \ S) /\ scored' = scored \ S
    BY <1>4 DEF TrainStep
  <2>2. steps' = steps /\ doing[Train] = "idle" /\ doing'[Train] = "export"
    BY <1>0, <1>4, ServicesAre DEF TrainStep, StoreType
  <2>3. Trained' = Trained + 1 /\ Trained \in Nat
    BY <1>2, <2>2 DEF Trained
  <2>4. IsFiniteSet(rolled') /\ IsFiniteSet(scored')
    BY <1>3, <2>1, FS_Difference
  <2>5. ASSUME Critic, windows > Cold
        PROVE  Trained' * Batch + Cardinality(scored') + Cardinality(held)
                 <= (windows - Cold) * Batch
    <3>1. /\ Cardinality(scored') = Cardinality(scored) - Batch
          /\ Cardinality(scored) \in Nat
      BY <1>3, <2>1, <2>5, TakenFrom DEF Ready
    <3>2. (Trained + 1) * Batch = Trained * Batch + Batch
      BY <1>2, <2>3, Products
    <3>3. Trained * Batch + Cardinality(scored) + Cardinality(held) <= (windows - Cold) * Batch
      BY <1>3, <2>5
    <3> DEFINE p == Trained * Batch
               q == (windows - Cold) * Batch
               r == Cardinality(scored)
               h == Cardinality(held)
    <3>4. p \in Int /\ q \in Int /\ r \in Int /\ h \in Int /\ Batch \in Int
      <4>1. h \in Nat
        BY <1>3, FS_CardinalityType
      <4> QED BY <1>2, <2>3, <3>1, <4>1
    <3>5. Cardinality(scored') = r - Batch /\ (Trained + 1) * Batch = p + Batch /\ p + r + h <= q
      BY <3>1, <3>2, <3>3
    <3> HIDE DEF p, q, r, h
    <3>6. (p + Batch) + (r - Batch) + h <= q
      BY <3>4, <3>5
    <3> QED BY <2>3, <3>5, <3>6 DEF q, h
  <2> QED BY <1>0, <1>1, <1>3, <2>4, <2>5 DEF BehindCritic
<1>5. CASE ExportWeights \/ PruneWeights \/ RaiseGate
  <2>1. UNCHANGED <<rolled, scored>>
    BY <1>5 DEF ExportWeights, PruneWeights, RaiseGate, rows
  <2>2. Trained' = Trained
    <3>1. CASE ExportWeights
      <4>1. steps' = steps + 1 /\ doing[Train] = "export" /\ doing'[Train] \in {"data", "rotate"}
        BY <1>0, <3>1, ServicesAre DEF ExportWeights, StoreType
      <4> QED BY <1>2, <4>1 DEF Trained
    <3>2. CASE PruneWeights
      <4>1. steps' = steps /\ doing[Train] = "rotate" /\ doing'[Train] = "publish"
        BY <1>0, <3>2, ServicesAre DEF PruneWeights, StoreType
      <4> QED BY <4>1 DEF Trained
    <3>3. CASE RaiseGate
      <4>1. steps' = steps /\ doing[Train] = "publish" /\ doing'[Train] = "idle"
        BY <1>0, <3>3, ServicesAre DEF RaiseGate, StoreType, trainerVars
      <4> QED BY <4>1 DEF Trained
    <3> QED BY <1>5, <3>1, <3>2, <3>3
  <2> QED BY <1>0, <1>1, <1>3, <2>1, <2>2 DEF BehindCritic
<1> QED BY <1>4, <1>5 DEF TrainerWork

LEMMA PaceSave ==
  ASSUME RInv, StreamInv, BehindCritic, NEW s \in Services, SaveStep(s)
  PROVE  BehindCritic'
<1>0. StoreType /\ RunType /\ StoreInv /\ up
  BY SavesWhenUp DEF RInv
<1>1. UNCHANGED <<up, windows, steps, rolled, scored, held>>
  BY DEF SaveStep, others, trainerVars, criticVars, rows
<1>2. /\ doing[s] \in {"data", "meta", "mark", "prune"}
      /\ doing'[s] \in {"data", "meta", "mark", "prune", After(s)}
      /\ \A t \in Services \ {s} : doing'[t] = doing[t]
  <2>1. \A t \in Services \ {s} : doing'[t] = doing[t]
    BY SaveKeeps
  <2>2. /\ doing[s] \in {"data", "meta", "mark", "prune"}
        /\ doing'[s] \in {"data", "meta", "mark", "prune", After(s)}
    BY <1>0, SaveIs DEF DirWritten, MetaWritten, Marked, MarkerTaken, FilesTaken, SaveOver
  <2> QED BY <2>1, <2>2
<1>3. /\ After(Train) = "rotate" /\ After(Score) = "publish"
  BY ServicesAre DEF After
<1>4. doing'[Train] = "export" <=> doing[Train] = "export"
  <2>1. CASE s = Train
    BY <1>2, <1>3, <2>1
  <2>2. CASE s # Train
    BY <1>2, <2>2, ServicesAre
  <2> QED BY <2>1, <2>2
<1>5. Critic => (doing'[Score] = "idle" <=> doing[Score] = "idle")
  <2>1. CASE s = Score
    BY <1>2, <1>3, <2>1
  <2>2. CASE s # Score
    BY <1>2, <2>2, ServicesAre
  <2> QED BY <2>1, <2>2
<1>6. Trained' = Trained
  BY <1>1, <1>4 DEF Trained
<1> QED BY <1>1, <1>5, <1>6 DEF BehindCritic

LEMMA PaceStart ==
  ASSUME RInv, StreamInv, BehindCritic, Start
  PROVE  BehindCritic'
<1>1. resume[0] \in Nat /\ Cold \in Nat /\ ~up /\ Batch \in Nat \ {0}
  BY Agreed, RunAssumption
<1>2. /\ up' /\ windows' = (IF Critic THEN resume[0] ELSE 0)
      /\ \A s \in Services : doing'[s] = "idle"
      /\ UNCHANGED <<rolled, scored, held>>
  BY DEF Start, rows
<1>3. held = {} /\ scored = {} /\ rolled = {}
  BY <1>1 DEF StreamInv
<1>4. steps' = IF resume[0] > Cold THEN resume[0] - Cold ELSE 0
  BY StartClocks
<1>5. Trained' = steps'
  <2>1. steps' \in Nat
    BY StartClocks
  <2>2. doing'[Train] # "export"
    BY <1>2, ServicesAre
  <2>3. Trained' = steps' + 0
    BY <2>2 DEF Trained
  <2>4. \A k \in Nat : k + 0 = k
    OBVIOUS
  <2> QED BY <2>1, <2>3, <2>4
<1>6. Cardinality(held') = 0 /\ Cardinality(scored') = 0 /\ IsFiniteSet({})
  BY <1>2, <1>3, FS_EmptySet
<1>7. ASSUME Critic, windows' > Cold
      PROVE  Trained' * Batch + Cardinality(scored') + Cardinality(held')
               <= (windows' - Cold) * Batch
  <2>1. Trained' = windows' - Cold /\ windows' - Cold \in Int
    BY <1>1, <1>2, <1>4, <1>5, <1>7
  <2>2. (windows' - Cold) * Batch \in Int
    BY <1>1, <2>1, Products
  <2> DEFINE q == (windows' - Cold) * Batch
  <2>3. Trained' * Batch = q /\ q \in Int
    BY <2>1, <2>2
  <2> HIDE DEF q
  <2>4. Trained' * Batch + 0 + 0 <= q
    BY <2>3
  <2> QED BY <1>6, <2>4 DEF q
<1> QED BY <1>2, <1>3, <1>6, <1>7, ServicesAre DEF BehindCritic

LEMMA PaceStep ==
  ASSUME RInv, StreamInv, BehindCritic, [Next]_vars
  PROVE  BehindCritic'
<1>0. StoreType /\ RunType
  BY DEF RInv
<1>1. CASE Crash
  <2>1. ~up' /\ rolled' = {} /\ scored' = {} /\ held' = {}
    BY <1>1 DEF Crash
  <2> QED BY <2>1, FS_EmptySet DEF BehindCritic
<1>2. CASE DropNewerThan \/ \E r \in Ranks : Look(r)
  <2>1. ~up /\ UNCHANGED <<up, rolled, scored, held>>
    BY <1>0, <1>2, LooksBefore, LookIs, DropsBefore, DropStepIs DEF rows, criticVars
  <2> QED BY <2>1 DEF BehindCritic
<1>3. CASE RolloutWork
  <2>1. UNCHANGED <<up, windows, steps, scored, held>>
    BY <1>3 DEF RolloutWork, NextBatch, TryAdvanceGate, AcquireGenerationSlot, trainerVars,
                criticVars, rows
  <2>2. doing'[Train] = doing[Train] /\ (Critic => doing'[Score] = doing[Score])
    BY <1>0, <1>3, RolloutMoves, ServicesAre DEF Moves
  <2>3. rolled' = rolled \/ rolled' = rolled \cup {next}
    BY <1>3 DEF RolloutWork, NextBatch, TryAdvanceGate, AcquireGenerationSlot, rows
  <2>4. IsFiniteSet(rolled')
    BY <2>3, FS_AddElement DEF BehindCritic
  <2>5. Trained' = Trained
    BY <2>1, <2>2 DEF Trained
  <2> QED BY <2>1, <2>2, <2>4, <2>5 DEF BehindCritic
<1>4. CASE UNCHANGED vars
  BY <1>4 DEF vars, trainerVars, criticVars, rolloutVars, rows, BehindCritic, Trained
<1> QED BY <1>1, <1>2, <1>3, <1>4, StepCases, PaceSave, PaceCritic, PaceTrainer, PaceStart

(* The critic has scored every window the trainer has trained on, and is   *)
(* at a later one while it is at work.                                     *)
LEMMA AheadOfTrainer ==
  ASSUME RInv, StreamInv, BehindCritic, Critic, up, windows > Cold
  PROVE  /\ steps + Cold <= windows
         /\ doing[Score] # "idle" => steps + Cold < windows
<1>1. windows \in Nat /\ Cold \in Nat /\ steps \in Nat /\ Batch \in Nat \ {0}
  BY RunAssumption DEF RInv, RunType
<1>2. Trained \in Nat /\ Trained >= steps
  BY <1>1 DEF Trained
<1>3. /\ Cardinality(scored) \in Nat
      /\ Cardinality(held) = IF doing[Score] = "idle" THEN 0 ELSE Batch
      /\ Trained * Batch + Cardinality(scored) + Cardinality(held) <= (windows - Cold) * Batch
  BY FS_CardinalityType DEF BehindCritic
<1>4. (Trained + 1) * Batch = Trained * Batch + Batch
  BY <1>1, <1>2, Products
<1> DEFINE p == Trained * Batch
           q == (windows - Cold) * Batch
           r == Cardinality(scored)
           h == Cardinality(held)
<1>5. p \in Int /\ q \in Int /\ r \in Nat /\ p + r + h <= q /\ Batch \in Int /\ h \in Nat
  BY <1>1, <1>2, <1>3
<1>6. p <= q /\ (doing[Score] # "idle" => p + Batch <= q)
  <2>1. doing[Score] # "idle" => h = Batch
    BY <1>3
  <2> HIDE DEF p, q, r, h
  <2> QED BY <1>5, <2>1
<1>7. Trained <= windows - Cold
  <2>1. Trained * Batch <= (windows - Cold) * Batch
    BY <1>6
  <2> QED BY <1>1, <1>2, <2>1, Products
<1>8. ASSUME doing[Score] # "idle" PROVE Trained + 1 <= windows - Cold
  <2>1. (Trained + 1) * Batch <= (windows - Cold) * Batch
    BY <1>4, <1>6, <1>8
  <2> QED BY <1>1, <1>2, <2>1, Products
<1> QED BY <1>1, <1>2, <1>7, <1>8

-----------------------------------------------------------------------------
(* What vouches for the trainer's directories.                             *)

(* The rotation leaves a service its newest shard.                         *)
LEMMA PruneKeeps ==
  ASSUME NEW s \in Services, NEW n \in Stale(s), MarkerTaken(s, n)
  PROVE  CompleteSteps(s)' # {}
<1>1. n \in CompleteSteps(s) /\ n \in Steps
      /\ ~(Cardinality({m \in CompleteSteps(s) : m > n}) < Keep)
  BY DEF Stale, Newest, CompleteSteps
<1>2. {m \in CompleteSteps(s) : m > n} # {}
  <2>1. 0 < Keep
    BY PolicyAssumption
  <2> QED BY <1>1, <2>1, FS_EmptySet
<1>3. PICK m \in CompleteSteps(s) : m > n
  BY <1>2
<1>4. m # n
  BY <1>1, <1>3 DEF Steps
<1>5. m \in Steps /\ disk'[s][m].mark
  BY <1>4 DEF MarkerTaken, CompleteSteps
<1> QED BY <1>5 DEF CompleteSteps

(* What a step of a save does to the markers.                              *)
LEMMA SaveMarks ==
  ASSUME RInv, NEW s \in Services, SaveStep(s)
  PROVE  /\ \A t \in Services \ {s} : CompleteSteps(t)' = CompleteSteps(t)
         /\ \/ CompleteSteps(s)' = CompleteSteps(s) /\ (Saving(s)' <=> Saving(s))
            \/ /\ CompleteSteps(s)' = CompleteSteps(s) \cup ({Clock(s)} \cap Steps)
               /\ ~Saving(s)'
            \/ CompleteSteps(s)' # {} /\ ~Saving(s) /\ ~Saving(s)'
<1>0. StoreType /\ RunType /\ StoreInv
  BY DEF RInv
<1>1. CASE DirWritten(s) \/ MetaWritten(s)
  BY <1>1, ServicesAre DEF DirWritten, MetaWritten, CompleteSteps, Saving
<1>2. CASE Marked(s)
  <2>1. \A t \in Services \ {s} : CompleteSteps(t)' = CompleteSteps(t)
    BY <1>2 DEF Marked, CompleteSteps
  <2>2. CompleteSteps(s)' = CompleteSteps(s) \cup ({Clock(s)} \cap Steps)
    BY <1>2 DEF Marked, CompleteSteps
  <2> QED BY <1>2, <2>1, <2>2 DEF Marked, Saving
<1>3. CASE doing[s] = "prune" /\ \E n \in Stale(s) : MarkerTaken(s, n)
  <2>1. CompleteSteps(s)' # {}
    BY <1>3, PruneKeeps
  <2>2. \A t \in Services \ {s} : CompleteSteps(t)' = CompleteSteps(t)
    BY <1>3 DEF MarkerTaken, CompleteSteps
  <2> QED BY <1>3, <2>1, <2>2 DEF MarkerTaken, Saving
<1>4. CASE doing[s] = "prune" /\ FilesTaken(s)
  <2>1. victim[s] \in Steps /\ ~disk[s][victim[s]].mark
    BY <1>0, <1>4 DEF StoreInv, StoreType, FilesTaken
  <2>2. \A t \in Services, m \in Steps : disk'[t][m].mark <=> disk[t][m].mark
    BY <1>4, <2>1 DEF FilesTaken, NoShard
  <2> QED BY <1>4, <2>2 DEF CompleteSteps, FilesTaken, Saving
<1>5. CASE SaveOver(s)
  <2>1. After(s) \in {"rotate", "publish", "idle"}
    BY ServicesAre DEF After
  <2> QED BY <1>5, <2>1 DEF SaveOver, store, CompleteSteps, Saving
<1> QED BY <1>0, <1>1, <1>2, <1>3, <1>4, <1>5, SaveIs

(* There is a shard ever after the first was committed.                    *)
LEMMA ShardStays ==
  ASSUME RInv, Next, HasAnyShard
  PROVE  HasAnyShard'
<1>0. StoreType /\ RunType /\ StoreInv
  BY DEF RInv
<1>1. CASE \E s \in Services : SaveStep(s)
  <2>1. PICK s \in Services : SaveStep(s)
    BY <1>1
  <2>2. PICK t \in Services : CompleteSteps(t) # {}
    BY DEF HasAnyShard
  <2>3. CompleteSteps(t)' # {}
    BY <2>1, <2>2, SaveMarks
  <2> QED BY <2>3 DEF HasAnyShard
<1>2. CASE DropNewerThan
  BY <1>2, DropAgrees
<1>3. ASSUME disk' = disk PROVE HasAnyShard'
  BY <1>3 DEF HasAnyShard, CompleteSteps
<1>4. CASE \E r \in Ranks : Look(r)
  BY <1>0, <1>3, <1>4, LookIs DEF store
<1>5. CASE Start \/ Crash
  BY <1>3, <1>5 DEF Start, Crash, store
<1>6. CASE RolloutWork \/ CriticWork \/ TrainerWork
  BY <1>0, <1>3, <1>6, WorkKeeps DEF store
<1> QED BY <1>1, <1>2, <1>4, <1>5, <1>6, StepCases

(* The critic's shards: one is there as soon as one was due.               *)
Scored ==
  up => \A n \in Steps :
    n <= windows - (IF Saving(Score) THEN 1 ELSE 0) => CompleteSteps(Score) # {}

LEMMA ScoredNext ==
  ASSUME Critic, RInv, Scored, Next
  PROVE  Scored'
<1>0. StoreType /\ RunType /\ StoreInv /\ Score \in Services
  BY ServicesAre DEF RInv
<1>1. windows \in Nat /\ \A n \in Steps : n \in Nat /\ n > 0 /\ Due(n)
  BY <1>0 DEF RunType, Steps
<1>2. CASE \E s \in Services : SaveStep(s)
  <2>1. PICK s \in Services : SaveStep(s)
    BY <1>2
  <2>2. up /\ windows' = windows
    BY <2>1, SavesWhenUp DEF SaveStep, others, criticVars
  <2>3. CASE s # Score
    <3>1. CompleteSteps(Score)' = CompleteSteps(Score) /\ doing'[Score] = doing[Score]
      BY <1>0, <2>1, <2>3, SaveMarks, SaveKeeps
    <3> QED BY <2>2, <3>1 DEF Scored, Saving
  <2>4. CASE s = Score
    <3>1. CASE CompleteSteps(Score)' = CompleteSteps(Score) /\ (Saving(Score)' <=> Saving(Score))
      BY <2>2, <3>1 DEF Scored
    <3>2. CASE /\ CompleteSteps(Score)' = CompleteSteps(Score) \cup ({Clock(Score)} \cap Steps)
               /\ ~Saving(Score)'
      <4> SUFFICES ASSUME NEW n \in Steps, n <= windows PROVE CompleteSteps(Score)' # {}
        <5>1. windows' - 0 = windows
          BY <1>1, <2>2
        <5> QED BY <3>2, <5>1 DEF Scored
      <4>1. CASE n = windows
        BY <3>2, <4>1, ClockIs
      <4>2. CASE n # windows
        <5>1. n <= windows - (IF Saving(Score) THEN 1 ELSE 0)
          BY <1>1, <4>2
        <5> QED BY <2>2, <3>2, <5>1 DEF Scored
      <4> QED BY <4>1, <4>2
    <3>3. CASE CompleteSteps(Score)' # {}
      BY <3>3 DEF Scored
    <3> QED BY <2>1, <2>4, <3>1, <3>2, <3>3, SaveMarks
  <2> QED BY <2>3, <2>4
<1>3. CASE Start
  <2>1. /\ up' /\ windows' = resume[0] /\ disk' = disk /\ doing'[Score] = "idle"
    BY <1>0, <1>3 DEF Start, store
  <2>2. /\ resume[0] \in Nat
        /\ resume[0] > 0 => resume[0] \in Steps /\ IsComplete(Score, resume[0])
    BY <1>0, <1>3, Agreed, ServicesAre
  <2>3. ASSUME NEW n \in Steps, n <= resume[0] PROVE CompleteSteps(Score)' # {}
    <3>1. resume[0] > 0
      BY <1>1, <2>2, <2>3
    <3>2. resume[0] \in CompleteSteps(Score)
      BY <2>2, <3>1 DEF IsComplete, CompleteSteps
    <3> QED BY <2>1, <3>2 DEF CompleteSteps
  <2>4. ~Saving(Score)'
    BY <2>1 DEF Saving
  <2>5. \A n \in Steps : n <= windows' - 0 => n <= resume[0]
    BY <2>1, <2>2
  <2> QED BY <2>3, <2>4, <2>5 DEF Scored
<1>4. CASE Crash \/ DropNewerThan \/ \E r \in Ranks : Look(r)
  <2>1. ~up'
    BY <1>0, <1>4, LooksBefore, LookIs, DropsBefore, DropStepIs DEF Crash
  <2> QED BY <2>1 DEF Scored
<1>5. CASE RolloutWork \/ TrainerWork
  <2>1. windows' = windows /\ up' = up /\ disk' = disk
    BY <1>0, <1>5, WorkKeeps
       DEF store, RolloutWork, NextBatch, TryAdvanceGate, AcquireGenerationSlot,
           TrainerWork, TrainStep, ExportWeights, PruneWeights, RaiseGate, criticVars
  <2>2. doing'[Score] = doing[Score]
    BY <1>0, <1>5, RolloutMoves, TrainerMoves, ServicesAre DEF Moves
  <2> QED BY <2>1, <2>2 DEF Scored, CompleteSteps, Saving
<1>6. CASE CriticWork
  <2>1. up /\ up' = up /\ CompleteSteps(Score)' = CompleteSteps(Score)
    BY <1>0, <1>6, WorkKeeps DEF store, CompleteSteps
  <2>2. CASE ScoreWindow
    <3>1. /\ doing[Score] = "idle" /\ windows' = windows + 1
          /\ doing'[Score] = IF Due(windows + 1) THEN "data" ELSE "publish"
      BY <1>0, <2>2 DEF ScoreWindow, StoreType
    <3> SUFFICES ASSUME NEW n \in Steps,
                        n <= windows' - (IF Saving(Score)' THEN 1 ELSE 0)
                 PROVE  CompleteSteps(Score) # {}
      BY <2>1 DEF Scored
    <3>2. n <= windows
      <4>1. CASE Due(windows + 1)
        <5>1. Saving(Score)'
          BY <3>1, <4>1 DEF Saving
        <5> QED BY <1>1, <3>1, <5>1
      <4>2. CASE ~Due(windows + 1)
        <5>1. n # windows + 1 /\ n <= windows + 1
          <6>1. n # windows + 1
            BY <1>1, <4>2
          <6>2. ~Saving(Score)'
            BY <3>1, <4>2 DEF Saving
          <6> QED BY <1>1, <3>1, <6>1, <6>2
        <5> QED BY <1>1, <5>1
      <4> QED BY <4>1, <4>2
    <3>3. ~Saving(Score)
      BY <3>1 DEF Saving
    <3>4. n <= windows - 0
      BY <1>1, <3>2
    <3> QED BY <2>1, <3>3, <3>4 DEF Scored
  <2>3. CASE PublishScores
    <3>1. doing[Score] = "publish" /\ windows' = windows /\ doing'[Score] = "idle"
      BY <1>0, <2>3 DEF PublishScores, StoreType
    <3> QED BY <2>1, <3>1 DEF Scored, Saving
  <2> QED BY <1>6, <2>2, <2>3 DEF CriticWork
<1> QED BY <1>2, <1>3, <1>4, <1>5, <1>6, StepCases

LEMMA VouchedNext ==
  ASSUME Critic, RInv, StreamInv, BehindCritic, ScoreCommitted, Next
  PROVE  ScoreCommitted'
<1>0. StoreType /\ RunType /\ StoreInv /\ Train \in Services /\ Score \in Services
  BY ServicesAre DEF RInv
<1>1. Scored'
  BY ScoredNext DEF ScoreCommitted, Scored
<1>2. HasAnyShard => HasAnyShard'
  BY ShardStays
<1>3. ASSUME \A n \in Steps : disk'[Train][n].data # {} => disk[Train][n].data # {},
             folders \subseteq folders'
      PROVE  TrainerDirs' # {} => Train \in folders' /\ HasAnyShard'
  <2>1. TrainerDirs' # {} => TrainerDirs # {}
    BY <1>3 DEF TrainerDirs
  <2> QED BY <1>2, <1>3, <2>1 DEF ScoreCommitted
<1>4. CASE \E s \in Services : SaveStep(s)
  <2>1. PICK s \in Services : SaveStep(s)
    BY <1>4
  <2>2. up
    BY <2>1, SavesWhenUp
  <2>3. folders \subseteq folders'
    BY <2>1, SaveKeeps
  <2>4. ASSUME NEW n \in Steps, disk'[Train][n].data # {}, disk[Train][n].data = {}
        PROVE  Train \in folders' /\ HasAnyShard
    <3>1. Train = s /\ n = Clock(s) /\ doing[s] = "data" /\ s \in folders'
      BY <1>0, <2>1, <2>4, SaveKeeps
    <3>2. windows > Cold
      <4>1. ~(Critic /\ windows <= Cold)
        BY <2>2, <3>1 DEF StreamInv
      <4> QED BY <1>0, <4>1, RunAssumption DEF RunType
    <3>3. n = steps + Cold /\ n \in Int /\ windows \in Nat
      BY <1>0, <3>1, ClockIs DEF RunType, Steps
    <3>4. n <= windows /\ (doing[Score] # "idle" => n < windows)
      BY <2>2, <3>2, <3>3, AheadOfTrainer
    <3>5. Saving(Score) => n < windows
      BY <3>4 DEF Saving
    <3>6. n <= windows - (IF Saving(Score) THEN 1 ELSE 0)
      BY <3>3, <3>4, <3>5
    <3>7. CompleteSteps(Score) # {}
      BY <2>2, <3>6 DEF ScoreCommitted
    <3> QED BY <1>0, <3>1, <3>7 DEF HasAnyShard
  <2>7. TrainerDirs' # {} => Train \in folders' /\ HasAnyShard'
    <3>1. CASE \E n \in Steps : disk'[Train][n].data # {} /\ disk[Train][n].data = {}
      BY <1>2, <2>4, <3>1
    <3>2. CASE ~ \E n \in Steps : disk'[Train][n].data # {} /\ disk[Train][n].data = {}
      BY <1>3, <2>3, <3>2
    <3> QED BY <3>1, <3>2
  <2> QED BY <1>1, <2>7 DEF ScoreCommitted, Scored
<1>5. ASSUME disk' = disk, folders' = folders PROVE ScoreCommitted'
  BY <1>1, <1>3, <1>5 DEF ScoreCommitted, Scored
<1>6. CASE DropNewerThan
  <2>1. /\ \A n \in Steps : disk'[Train][n].data # {} => disk[Train][n].data # {}
        /\ folders' = folders
    BY <1>0, <1>6, DropKeeps
  <2> QED BY <1>1, <1>3, <2>1 DEF ScoreCommitted, Scored
<1>7. CASE \E r \in Ranks : Look(r)
  BY <1>0, <1>5, <1>7, LookIs DEF store
<1>8. CASE Start \/ Crash
  BY <1>5, <1>8 DEF Start, Crash, store
<1>9. CASE RolloutWork \/ CriticWork \/ TrainerWork
  BY <1>0, <1>5, <1>9, WorkKeeps DEF store
<1> QED BY <1>4, <1>6, <1>7, <1>8, <1>9, StepCases

(* A launch adopts the trainer's directory of the resume step, or none.    *)
LEMMA Adopted ==
  ASSUME RInv, ScoreCommitted, Start
  PROVE  /\ loaded' = IF resume[0] > Cold THEN resume[0] ELSE 0
         /\ learned' = [s \in {Train, Score} |->
              IF s = Train /\ loaded' > 0 THEN Content(disk[Train][loaded'].data).prompts
              ELSE IF s = Score /\ Critic /\ resume[0] > 0
                   THEN Content(disk[Score][resume[0]].data).prompts
              ELSE {}]
<1> DEFINE n == resume[0]
<1>1. PICK from \in DcpLoad(n) :
        /\ loaded' = from
        /\ learned' = [s \in {Train, Score} |->
             IF s = Train /\ from > 0 THEN Content(disk[Train][from].data).prompts
             ELSE IF s = Score /\ Critic /\ n > 0 THEN Content(disk[Score][n].data).prompts
             ELSE {}]
  BY DEF Start
<1>2. n \in Nat /\ Cold \in Nat /\ (n > 0 => n \in Steps) /\ (n = 0 => ~HasAnyShard)
  BY Agreed, RunAssumption
<1>3. CASE n > Cold
  <2>1. n > 0 /\ n \in Steps
    BY <1>2, <1>3
  <2>2. disk[Train][n].data # {}
    BY <1>3, Restored
  <2>3. n \in TrainerDirs
    BY <2>1, <2>2 DEF TrainerDirs
  <2>4. Train \in folders
    BY <2>3 DEF ScoreCommitted
  <2>5. from = n
    BY <1>1, <2>1, <2>4 DEF DcpLoad
  <2> QED BY <1>1, <1>3, <2>5
<1>4. CASE ~(n > Cold)
  <2>1. CASE n > 0
    <3>1. n \notin TrainerDirs
      <4>1. n \in Steps /\ n <= Cold
        BY <1>2, <1>4, <2>1
      <4> QED BY <4>1 DEF TrainerDirs, RInv, PolicyStored
    <3>2. from = 0
      BY <1>1, <2>1, <3>1 DEF DcpLoad
    <3> QED BY <1>1, <1>4, <3>2
  <2>2. CASE n = 0
    <3>1. TrainerDirs = {}
      BY <1>2, <2>2 DEF ScoreCommitted
    <3>2. from = 0
      BY <1>1, <2>2, <3>1 DEF DcpLoad
    <3> QED BY <1>1, <1>4, <3>2
  <2> QED BY <1>2, <2>1, <2>2
<1> QED BY <1>3, <1>4

LEMMA AdoptedNext ==
  ASSUME RInv, ScoreCommitted, TrainerAdoptsResumePoint, [Next]_vars
  PROVE  TrainerAdoptsResumePoint'
<1>0. StoreType /\ RunType /\ StoreInv
  BY DEF RInv
<1>1. ASSUME UNCHANGED <<up, loaded, resume>> PROVE TrainerAdoptsResumePoint'
  BY <1>1 DEF TrainerAdoptsResumePoint
<1>2. CASE Start
  <2>1. resume' = resume
    BY <1>2 DEF Start, launch
  <2> QED BY <1>2, <2>1, Adopted DEF TrainerAdoptsResumePoint
<1>3. CASE Crash \/ DropNewerThan \/ \E r \in Ranks : Look(r)
  <2>1. ~up'
    BY <1>0, <1>3, LooksBefore, LookIs, DropsBefore, DropStepIs DEF Crash
  <2> QED BY <2>1 DEF TrainerAdoptsResumePoint
<1>4. CASE \E s \in Services : SaveStep(s)
  BY <1>1, <1>4 DEF SaveStep, others, trainerVars, launch
<1>5. CASE RolloutWork \/ CriticWork \/ TrainerWork
  BY <1>0, <1>1, <1>5, WorkKeeps DEF launch
<1>6. CASE UNCHANGED vars
  BY <1>1, <1>6 DEF vars, trainerVars, launch
<1> QED BY <1>2, <1>3, <1>4, <1>5, <1>6, StepCases

-----------------------------------------------------------------------------
(* One history.                                                            *)

LEMMA CursorStep ==
  ASSUME RInv, RolloutWork
  PROVE  /\ pulled' \in Nat /\ pulled' >= pulled /\ 1..pulled \subseteq 1..pulled'
         /\ NextAhead => NextAhead'
<1>0. StoreType /\ RunType /\ StoreInv /\ up /\ up' = up /\ RunType'
  BY WorkKeeps, RolloutType DEF RInv
<1>1. /\ pulled \in Nat /\ pulled' \in Nat /\ next \in Nat
  BY <1>0 DEF RunType
<1>2. CASE NextBatch
  <2> DEFINE k == Cardinality(Prompts)
             T == {pulled + PullSize, k}
  <2>1. k \in Nat
    <3> DEFINE m == MaxStep * Batch
    <3>1. m \in Nat
      BY StoreAssumption, RunAssumption
    <3> HIDE DEF m
    <3>2. Cardinality(1..m) = IF 1 > m THEN 0 ELSE m - 1 + 1
      BY <3>1, FS_Interval
    <3>3. Cardinality(1..m) \in Nat
      BY <3>1, <3>2
    <3> QED BY <3>3 DEF Prompts, m
  <2>2. pulled < k /\ pulled' = Min(T) /\ UNCHANGED <<next, rolled, scored, held>>
    BY <1>2 DEF NextBatch, rows, criticVars
  <2> HIDE DEF k
  <2>3. IsFiniteSet(T) /\ T \subseteq Int /\ T # {}
    <3>1. IsFiniteSet({pulled + PullSize} \cup {k})
      BY FS_Singleton, FS_AddElement
    <3>2. {pulled + PullSize} \cup {k} = T
      OBVIOUS
    <3>3. pulled + PullSize \in Int /\ k \in Int
      BY <1>1, <2>1, RunAssumption
    <3> QED BY <3>1, <3>2, <3>3
  <2> HIDE DEF T
  <2>4. Min(T) \in T
    BY <2>3, MaxMin
  <2>5. pulled' >= pulled
    BY <1>1, <2>1, <2>2, <2>4, RunAssumption DEF T
  <2>6. 1..pulled \subseteq 1..pulled'
    BY <1>1, <2>5
  <2>7. NextAhead => next <= pulled' + 1
    <3>1. NextAhead => next <= pulled + 1
      BY <1>0 DEF NextAhead
    <3>2. \A a, b, c \in Nat : a <= b + 1 /\ c >= b => a <= c + 1
      OBVIOUS
    <3> QED BY <1>1, <2>5, <3>1, <3>2
  <2> QED BY <1>0, <1>1, <2>2, <2>5, <2>6, <2>7 DEF NextAhead
<1>3. CASE TryAdvanceGate
  <2>1. UNCHANGED <<pulled, next, rolled, scored, held>>
    BY <1>3 DEF TryAdvanceGate, rows, criticVars
  <2> QED BY <1>0, <1>1, <2>1 DEF NextAhead
<1>4. CASE AcquireGenerationSlot
  <2>1. /\ UNCHANGED <<pulled, scored, held>> /\ next' = next + 1 /\ next <= pulled
        /\ rolled' = rolled \cup {next}
    BY <1>4 DEF AcquireGenerationSlot, AtSlot, criticVars
  <2>2. NextAhead => next \in 1..pulled
    BY <1>0, <1>1, <2>1 DEF NextAhead
  <2>3. 1 <= next' /\ next' <= pulled' + 1
    BY <1>1, <2>1
  <2> QED BY <1>0, <1>1, <2>1, <2>2, <2>3 DEF NextAhead
<1> QED BY <1>2, <1>3, <1>4 DEF RolloutWork

LEMMA AheadStep ==
  ASSUME RInv, StreamInv, NextAhead, [Next]_vars
  PROVE  NextAhead'
<1>0. StoreType /\ RunType /\ StoreInv
  BY DEF RInv
<1>1. ASSUME UNCHANGED <<up, pulled, next>>, up, rolled' \subseteq rolled,
             scored' \subseteq scored \cup held, held' \subseteq held \cup rolled
      PROVE  NextAhead'
  BY <1>1 DEF NextAhead
<1>2. CASE Start
  <2>1. next' = pulled' + 1 /\ UNCHANGED <<rolled, scored, held>>
    BY <1>2 DEF Start, rows
  <2>2. rolled = {} /\ scored = {} /\ held = {}
    BY <1>2 DEF StreamInv, Start
  <2>3. pulled' \in Nat
    BY <1>2, StartType DEF RunType
  <2>4. \A k \in Nat : 1 <= k + 1 /\ k + 1 <= k + 1
    OBVIOUS
  <2> QED BY <2>1, <2>2, <2>3, <2>4 DEF NextAhead
<1>3. CASE Crash \/ DropNewerThan \/ \E r \in Ranks : Look(r)
  <2>1. ~up'
    BY <1>0, <1>3, LooksBefore, LookIs, DropsBefore, DropStepIs DEF Crash
  <2> QED BY <2>1 DEF NextAhead
<1>4. CASE \E s \in Services : SaveStep(s)
  <2>1. up /\ UNCHANGED <<up, pulled, next, rolled, scored, held>>
    BY <1>4, SavesWhenUp DEF SaveStep, others, rolloutVars, rows, criticVars
  <2> QED BY <1>1, <2>1
<1>5. CASE RolloutWork
  BY <1>5, CursorStep
<1>6. CASE CriticWork
  <2>1. up /\ UNCHANGED <<up, pulled, next>>
    BY <1>0, <1>6, WorkKeeps DEF CriticWork, ScoreWindow, PublishScores, rolloutVars
  <2>2. /\ rolled' \subseteq rolled /\ scored' \subseteq scored \cup held
        /\ held' \subseteq held \cup rolled
    BY <1>6 DEF CriticWork, ScoreWindow, PublishScores, kSubset
  <2> QED BY <1>1, <2>1, <2>2
<1>7. CASE TrainerWork
  <2>1. up /\ UNCHANGED <<up, pulled, next, held>>
    BY <1>0, <1>7, WorkKeeps
       DEF TrainerWork, TrainStep, ExportWeights, PruneWeights, RaiseGate, rolloutVars, criticVars
  <2>2. rolled' \subseteq rolled /\ scored' \subseteq scored
    BY <1>7 DEF TrainerWork, TrainStep, ExportWeights, PruneWeights, RaiseGate, rows
  <2> QED BY <1>1, <2>1, <2>2
<1>8. CASE UNCHANGED vars
  BY <1>8 DEF vars, rolloutVars, rows, criticVars, NextAhead
<1> QED BY <1>2, <1>3, <1>4, <1>5, <1>6, <1>7, <1>8, StepCases

(* The rollout's shard of a window is the last: its pulse comes when       *)
(* trainer and critic have committed theirs.                               *)
LEMMA RollLast ==
  ASSUME Critic, RInv, StreamInv, BehindCritic, up, NEW s \in Heavy, Saving(s),
         NEW n \in CompleteSteps(Roll), n > resume[0]
  PROVE  n < Clock(s)
<1>1. /\ StoreType /\ RunType /\ s \in {Train, Score}
      /\ Cold \in Nat /\ steps \in Nat /\ windows \in Nat /\ gatesSeen \in Nat
      /\ n \in Int /\ Len(pulses) \in Nat
  <2>1. StoreType /\ RunType /\ s \in {Train, Score} /\ Cold \in Nat /\ n \in Int
    BY ServicesAre, RunAssumption DEF RInv, CompleteSteps, Steps
  <2>2. steps \in Nat /\ windows \in Nat /\ gatesSeen \in Nat /\ pulses \in Seq(Nat)
    BY <2>1 DEF RunType
  <2> QED BY <2>1, <2>2
<1>2. n <= gatesSeen - 1
  <2>1. n <= resume[0] \/ n <= Clock(Roll)
    BY DEF RInv, Behind
  <2>2. resume[0] \in Int
    BY <1>1, RunAssumption DEF RunType, Steps
  <2>3. ~(n <= resume[0])
    BY <1>1, <2>2
  <2> QED BY <2>1, <2>3, ClockIs
<1>3. n <= Raised /\ Raised \in Int
  BY <1>1, <1>2 DEF Raised
<1>4. Raised = Owed
  BY DEF StreamInv
<1>5. CASE s = Train
  <2>1. doing[Train] # "idle" /\ doing[Train] \in Past
    BY <1>5 DEF Saving, Past
  <2>2. ~(Critic /\ windows <= Cold)
    BY <2>1 DEF StreamInv
  <2>3. Owed = Cold + steps - 1
    BY <2>1, <2>2 DEF Owed
  <2>4. Clock(s) = steps + Cold
    BY <1>5, ClockIs
  <2> QED BY <1>1, <1>3, <1>4, <2>3, <2>4
<1>6. CASE s = Score
  <2>1. doing[Score] # "idle" /\ Clock(s) = windows
    BY <1>6, ClockIs DEF Saving
  <2>2. CASE windows <= Cold
    BY <1>1, <1>3, <1>4, <2>1, <2>2 DEF Owed
  <2>3. CASE ~(windows <= Cold)
    <3>1. steps + Cold < windows
      BY <1>1, <2>1, <2>3, AheadOfTrainer
    <3>2. Owed = Cold + steps - (IF doing[Train] \in Past THEN 1 ELSE 0)
      BY <2>3 DEF Owed
    <3>3. Owed <= Cold + steps
      BY <1>1, <3>2
    <3> QED BY <1>1, <1>3, <1>4, <2>1, <3>1, <3>3
  <2> QED BY <2>2, <2>3
<1> QED BY <1>1, <1>5, <1>6

LEMMA ShardOf ==
  ASSUME RInv, NEW s \in Services, NEW n \in CompleteSteps(s)
  PROVE  /\ n \in Steps /\ n \in Int
         /\ Content(disk[s][n].meta) \in Snapshots
         /\ disk[s][n].meta = {Content(disk[s][n].meta)}
         /\ s \in Heavy => disk[s][n].data = {Content(disk[s][n].meta)}
<1>1. n \in Steps /\ n \in Int /\ IsComplete(s, n)
  BY DEF CompleteSteps, IsComplete, Steps
<1> QED BY <1>1, Committed DEF RInv, StoreInv

(* A committed shard after a step of a save: an old one, or the one just   *)
(* committed.                                                              *)
LEMMA SavedShard ==
  ASSUME RInv, NEW s \in Services, SaveStep(s), NEW t \in Services,
         NEW n \in CompleteSteps(t)'
  PROVE  \/ n \in CompleteSteps(t) /\ disk'[t][n].meta = disk[t][n].meta
         \/ /\ t = s /\ n = Clock(s) /\ Saving(s) /\ n > resume[0]
            /\ Content(disk'[t][n].meta) = Snapshot(s)
<1>1. n \in Steps /\ disk'[t][n].mark
  BY DEF CompleteSteps
<1>2. CASE disk[t][n].mark
  BY <1>1, <1>2, SaveKeeps DEF CompleteSteps, SameContent
<1>3. CASE ~disk[t][n].mark
  <2>1. /\ t = s /\ n = Clock(s) /\ doing[s] = "mark" /\ disk'[t][n].meta = {Snapshot(s)}
    BY <1>1, <1>3, SaveKeeps
  <2>2. Saving(s) /\ up
    BY <2>1, SavesWhenUp DEF Saving
  <2>3. n > resume[0]
    BY <2>1, <2>2 DEF RInv, Behind
  <2> QED BY <2>1, <2>2, <2>3, ContentOf
<1> QED BY <1>2, <1>3

LEMMA HistorySave ==
  ASSUME Critic, RInv, StreamInv, BehindCritic, HistoryInv, OneHistory,
         NEW s \in Services, SaveStep(s)
  PROVE  HistoryInv' /\ OneHistory'
<1>0. StoreType /\ RunType /\ StoreInv /\ up
  BY SavesWhenUp DEF RInv
<1>1. UNCHANGED <<up, life, resume, pulled, learned>>
  BY DEF SaveStep, others, launch, rolloutVars
<1>2. /\ life \in Nat /\ pulled \in Nat /\ Cold \in Nat
  BY <1>0, RunAssumption DEF RunType
<1>3. ASSUME NEW t \in Services, NEW n \in CompleteSteps(t)'
      PROVE  LET l == Content(disk'[t][n].meta).life
             IN  l <= life /\ (l = life <=> n > resume[0])
  <2>1. CASE n \in CompleteSteps(t) /\ disk'[t][n].meta = disk[t][n].meta
    BY <1>0, <2>1 DEF HistoryInv
  <2>2. CASE /\ t = s /\ n = Clock(s) /\ Saving(s) /\ n > resume[0]
             /\ Content(disk'[t][n].meta) = Snapshot(s)
    <3>1. Snapshot(s).life = life
      BY DEF Snapshot
    <3> QED BY <1>2, <2>2, <3>1
  <2> QED BY <2>1, <2>2, SavedShard
<1>4. ASSUME NEW t \in Heavy, NEW n \in CompleteSteps(t)', n > resume[0]
      PROVE  Content(disk'[t][n].meta).prompts \subseteq 1..pulled
  <2>0. t \in Services
    BY ServicesAre
  <2>1. CASE n \in CompleteSteps(t) /\ disk'[t][n].meta = disk[t][n].meta
    BY <1>0, <1>4, <2>1 DEF HistoryInv
  <2>2. CASE t = s /\ Content(disk'[t][n].meta) = Snapshot(s)
    <3>1. Snapshot(t).prompts = learned[t]
      BY ServicesAre DEF Snapshot
    <3>2. learned[t] \subseteq 1..pulled
      BY <1>0 DEF HistoryInv
    <3> QED BY <2>2, <3>1, <3>2
  <2> QED BY <2>0, <2>1, <2>2, SavedShard
<1>5. HistoryInv'
  BY <1>0, <1>1, <1>3, <1>4 DEF HistoryInv
<1>6. ASSUME NEW n \in Resumable', NEW t \in CheckpointParticipants(n),
             NEW u \in CheckpointParticipants(n)
      PROVE  LET c == Content(disk'[t][n].meta)
                 d == Content(disk'[u][n].meta)
             IN  c.life = d.life /\ (u = Roll => c.prompts \subseteq d.prompts)
  <2>1. /\ t \in Services /\ u \in Services /\ n \in Steps
        /\ \A v \in CheckpointParticipants(n) : v \in Services /\ n \in CompleteSteps(v)'
    BY DEF CheckpointParticipants, Resumable, AllComplete, IsComplete, CompleteSteps
  <2>2. CASE \A v \in CheckpointParticipants(n) :
               n \in CompleteSteps(v) /\ disk'[v][n].meta = disk[v][n].meta
    <3>1. n \in Resumable
      BY <2>1, <2>2 DEF Resumable, AllComplete, IsComplete, CompleteSteps
    <3> QED BY <2>2, <3>1 DEF OneHistory
  <2>3. CASE ~ \A v \in CheckpointParticipants(n) :
               n \in CompleteSteps(v) /\ disk'[v][n].meta = disk[v][n].meta
    <3>1. /\ n = Clock(s) /\ Saving(s) /\ n > resume[0]
          /\ Content(disk'[s][n].meta) = Snapshot(s) /\ s \in CheckpointParticipants(n)
      BY <2>1, <2>3, SavedShard
    <3>2. Content(disk'[t][n].meta).life = life /\ Content(disk'[u][n].meta).life = life
      BY <1>3, <2>1, <3>1
    <3>3. ASSUME u = Roll, t # Roll
          PROVE  Content(disk'[t][n].meta).prompts \subseteq Content(disk'[u][n].meta).prompts
      <4>1. t \in Heavy
        BY <2>1, <3>3, RunAssumption
      <4>2. Content(disk'[t][n].meta).prompts \subseteq 1..pulled
        BY <1>4, <2>1, <3>1, <4>1
      <4>3. CASE s = Roll
        <5>1. Snapshot(Roll).prompts = 1..pulled
          BY ClockIs
        <5> QED BY <3>1, <3>3, <4>2, <4>3, <5>1
      <4>4. CASE s # Roll
        <5>1. s \in Heavy
          BY <4>4, RunAssumption
        <5>2. n \in CompleteSteps(Roll)
          BY <2>1, <3>3, <4>4, SavedShard
        <5>3. n < Clock(s)
          BY <1>0, <3>1, <5>1, <5>2, RollLast
        <5> QED BY <2>1, <3>1, <5>3 DEF Steps
      <4> QED BY <4>3, <4>4
    <3> QED BY <3>2, <3>3
  <2> QED BY <2>2, <2>3
<1>7. OneHistory'
  <2>1. \A n : CheckpointParticipants(n)' = CheckpointParticipants(n)
    BY DEF CheckpointParticipants
  <2> QED BY <1>6, <2>1 DEF OneHistory
<1> QED BY <1>5, <1>7

LEMMA SameHistory ==
  ASSUME OneHistory,
         \A t \in Services, m \in Steps :
           disk'[t][m].mark => disk[t][m].mark /\ disk'[t][m].meta = disk[t][m].meta
  PROVE  OneHistory'
<1>1. ASSUME NEW n \in Resumable', NEW t \in CheckpointParticipants(n),
             NEW u \in CheckpointParticipants(n)
      PROVE  LET c == Content(disk'[t][n].meta)
                 d == Content(disk'[u][n].meta)
             IN  c.life = d.life /\ (u = Roll => c.prompts \subseteq d.prompts)
  <2>1. /\ n \in Steps
        /\ \A v \in CheckpointParticipants(n) : v \in Services /\ disk'[v][n].mark
    BY DEF CheckpointParticipants, Resumable, AllComplete, IsComplete
  <2>2. \A v \in CheckpointParticipants(n) :
          disk[v][n].mark /\ disk'[v][n].meta = disk[v][n].meta
    BY <2>1
  <2>3. n \in Resumable
    BY <2>1, <2>2 DEF Resumable, AllComplete, IsComplete
  <2> QED BY <2>2, <2>3 DEF OneHistory
<1>2. \A n : CheckpointParticipants(n)' = CheckpointParticipants(n)
  BY DEF CheckpointParticipants
<1> QED BY <1>1, <1>2 DEF OneHistory

LEMMA LearnedStep ==
  ASSUME RInv, NextAhead, HistoryInv, RolloutWork \/ CriticWork \/ TrainerWork
  PROVE  /\ 1..pulled \subseteq 1..pulled'
         /\ \A s \in Heavy : learned'[s] \subseteq 1..pulled'
<1>0. StoreType /\ RunType /\ StoreInv /\ up
  BY WorkKeeps DEF RInv
<1>1. /\ \A s \in Heavy : s \in {Train, Score} /\ learned[s] \subseteq 1..pulled
      /\ rolled \subseteq 1..pulled /\ scored \subseteq 1..pulled
      /\ learned \in [{Train, Score} -> SUBSET Nat]
  BY <1>0, ServicesAre DEF HistoryInv, NextAhead, RunType
<1>2. ASSUME pulled' = pulled, NEW S, S \subseteq 1..pulled, NEW t \in {Train, Score},
             learned' = [learned EXCEPT ![t] = @ \cup S]
      PROVE  \A s \in Heavy : learned'[s] \subseteq 1..pulled'
  <2>1. ASSUME NEW s \in Heavy PROVE learned'[s] \subseteq learned[s] \cup S
    BY <1>1, <1>2
  <2> QED BY <1>1, <1>2, <2>1
<1>3. CASE RolloutWork
  <2>1. learned' = learned
    BY <1>3 DEF RolloutWork, NextBatch, TryAdvanceGate, AcquireGenerationSlot
  <2>2. 1..pulled \subseteq 1..pulled'
    BY <1>3, CursorStep
  <2> QED BY <1>1, <2>1, <2>2
<1>4. CASE CriticWork
  <2>1. CASE ScoreWindow
    <3>1. PICK S \in kSubset(Batch, rolled) : learned' = [learned EXCEPT ![Score] = @ \cup S]
      BY <2>1 DEF ScoreWindow
    <3>2. S \subseteq 1..pulled
      BY <1>1 DEF kSubset
    <3>3. pulled' = pulled
      BY <2>1 DEF ScoreWindow, rolloutVars
    <3> QED BY <1>2, <3>1, <3>2, <3>3
  <2>2. CASE PublishScores
    BY <1>1, <2>2 DEF PublishScores, rolloutVars
  <2> QED BY <1>4, <2>1, <2>2 DEF CriticWork
<1>5. CASE TrainerWork
  <2>1. CASE TrainStep
    <3>1. PICK S \in kSubset(Batch, Ready) : learned' = [learned EXCEPT ![Train] = @ \cup S]
      BY <2>1 DEF TrainStep
    <3>2. S \subseteq 1..pulled
      BY <1>1 DEF kSubset, Ready
    <3>3. pulled' = pulled
      BY <2>1 DEF TrainStep, rolloutVars
    <3> QED BY <1>2, <3>1, <3>2, <3>3
  <2>2. CASE ExportWeights \/ PruneWeights \/ RaiseGate
    BY <1>1, <2>2 DEF ExportWeights, PruneWeights, RaiseGate, rolloutVars
  <2> QED BY <1>5, <2>1, <2>2 DEF TrainerWork
<1> QED BY <1>3, <1>4, <1>5

(* What the launch restores: the dataset cursor is past every prompt the   *)
(* trainer's and the critic's state comes from.                            *)
LEMMA RestoredBehind ==
  ASSUME Critic, RInv, ScoreCommitted, OneHistory, Start
  PROVE  \A s \in Heavy : learned'[s] \subseteq 1..pulled'
<1> DEFINE n == resume[0]
<1>0. StoreType /\ RunType /\ StoreInv /\ CursorsStored
  BY DEF RInv
<1>1. /\ n \in Nat /\ Cold \in Nat /\ (n > 0 => n \in Steps)
      /\ n > 0 => \A s \in Services : (s = Train => n > Cold) => IsComplete(s, n)
  BY Agreed, RunAssumption
<1>2. pulled' = RestoredCursor(n)
  BY DEF Start
<1>3. ASSUME n > 0, NEW s \in Heavy, s = Train => n > Cold
      PROVE  Content(disk[s][n].data).prompts \subseteq 1..pulled'
  <2>1. /\ s \in CheckpointParticipants(n) /\ Roll \in CheckpointParticipants(n)
        /\ s \in Services /\ Roll \in Services
    BY <1>3, ServicesAre DEF CheckpointParticipants
  <2>2. n \in Steps /\ IsComplete(s, n) /\ IsComplete(Roll, n)
    BY <1>1, <1>3, <2>1, ServicesAre
  <2>3. n \in Resumable
    BY <1>1, <1>3, <2>2 DEF Resumable, AllComplete, CheckpointParticipants
  <2>4. Content(disk[s][n].meta).prompts \subseteq Content(disk[Roll][n].meta).prompts
    BY <2>1, <2>3 DEF OneHistory
  <2>5. Content(disk[s][n].data) = Content(disk[s][n].meta)
    <3>1. disk[s][n].data = {Content(disk[s][n].meta)}
      BY <1>0, <2>1, <2>2, Committed DEF StoreInv
    <3> QED BY <3>1, ContentOf
  <2>6. Content(disk[Roll][n].meta).prompts = 1..Cardinality(Content(disk[Roll][n].meta).prompts)
    <3>1. disk[Roll][n].meta = {Content(disk[Roll][n].meta)}
      BY <1>0, <2>1, <2>2, Committed DEF StoreInv
    <3> QED BY <1>0, <2>2, <3>1 DEF CursorsStored
  <2>7. RestoredCursor(n) = Cardinality(Content(disk[Roll][n].meta).prompts)
    BY <1>1, <1>3 DEF RestoredCursor
  <2> QED BY <1>2, <2>4, <2>5, <2>6, <2>7
<1>4. /\ loaded' = IF n > Cold THEN n ELSE 0
      /\ learned' = [s \in {Train, Score} |->
           IF s = Train /\ loaded' > 0 THEN Content(disk[Train][loaded'].data).prompts
           ELSE IF s = Score /\ Critic /\ n > 0 THEN Content(disk[Score][n].data).prompts
           ELSE {}]
  BY Adopted
<1>5. ASSUME NEW s \in Heavy PROVE learned'[s] \subseteq 1..pulled'
  <2>1. s \in {Train, Score} /\ Train # Score
    BY ServicesAre
  <2>2. CASE s = Train /\ n > Cold
    <3>1. n > 0 /\ loaded' = n
      BY <1>1, <1>4, <2>2
    <3>2. learned'[s] = Content(disk[s][n].data).prompts
      BY <1>4, <2>1, <2>2, <3>1
    <3> QED BY <1>3, <2>2, <3>1, <3>2
  <2>3. CASE s = Train /\ ~(n > Cold)
    <3>1. loaded' = 0 /\ ~(loaded' > 0)
      BY <1>4, <2>3
    <3>2. learned'[s] = {}
      BY <1>4, <2>1, <2>3, <3>1
    <3> QED BY <3>2
  <2>4. CASE s = Score /\ n > 0
    <3>1. learned'[s] = Content(disk[s][n].data).prompts
      BY <1>4, <2>1, <2>4
    <3> QED BY <1>3, <2>1, <2>4, <3>1
  <2>5. CASE s = Score /\ ~(n > 0)
    <3>1. learned'[s] = {}
      BY <1>4, <2>1, <2>5
    <3> QED BY <3>1
  <2> QED BY <2>1, <2>2, <2>3, <2>4, <2>5
<1> QED BY <1>5

LEMMA HistoryStart ==
  ASSUME Critic, RInv, ScoreCommitted, HistoryInv, OneHistory, Start
  PROVE  HistoryInv' /\ OneHistory'
<1>0. StoreType /\ RunType /\ StoreInv
  BY DEF RInv
<1>1. /\ ~up /\ up' /\ life' = life /\ resume' = resume /\ disk' = disk
  BY DEF Start, store, launch
<1>2. OneHistory'
  BY <1>1, SameHistory
<1>3. ASSUME NEW s \in Services, NEW n \in CompleteSteps(s)
      PROVE  LET l == Content(disk[s][n].meta).life
             IN  n <= resume[0] /\ ~(n > resume[0]) /\ l <= life /\ l # life
  <2>1. n <= resume[0] /\ resume[0] \in Nat
    BY Agreed
  <2>2. Content(disk[s][n].meta).life < life
    BY <1>1 DEF HistoryInv
  <2>3. n \in Int /\ life \in Nat /\ Content(disk[s][n].meta).life \in Nat
    BY <1>0, ShardOf DEF RunType, Snapshots
  <2> QED BY <2>1, <2>2, <2>3
<1>4. \A s : CompleteSteps(s)' = CompleteSteps(s)
  BY <1>1 DEF CompleteSteps
<1>5. \A s \in Heavy : s \in Services
  BY ServicesAre
<1> QED BY <1>1, <1>2, <1>3, <1>4, <1>5, RestoredBehind DEF HistoryInv

LEMMA HistoryWork ==
  ASSUME RInv, NextAhead, HistoryInv, OneHistory, RolloutWork \/ CriticWork \/ TrainerWork
  PROVE  HistoryInv' /\ OneHistory'
<1>0. StoreType /\ RunType /\ StoreInv
  BY DEF RInv
<1>1. up /\ up' = up /\ life' = life /\ resume' = resume /\ disk' = disk
  BY <1>0, WorkKeeps DEF store, launch
<1>2. OneHistory'
  BY <1>1, SameHistory
<1>3. \A s : CompleteSteps(s)' = CompleteSteps(s)
  BY <1>1 DEF CompleteSteps
<1>4. /\ 1..pulled \subseteq 1..pulled'
      /\ \A s \in Heavy : learned'[s] \subseteq 1..pulled'
  BY LearnedStep
<1>5. \A s \in Heavy : \A n \in CompleteSteps(s) :
        n > resume[0] => Content(disk[s][n].meta).prompts \subseteq 1..pulled'
  BY <1>1, <1>4 DEF HistoryInv
<1>6. \A s \in Services : \A n \in CompleteSteps(s) :
       LET l == Content(disk[s][n].meta).life
       IN  l <= life /\ (l = life <=> n > resume[0])
  BY <1>1 DEF HistoryInv
<1> QED BY <1>1, <1>2, <1>3, <1>4, <1>5, <1>6 DEF HistoryInv

LEMMA HistoryDown ==
  ASSUME RInv, HistoryInv, OneHistory,
         Crash \/ DropNewerThan \/ \E r \in Ranks : Look(r)
  PROVE  HistoryInv' /\ OneHistory'
<1>0. StoreType /\ RunType /\ StoreInv
  BY DEF RInv
<1>1. ~up' /\ life \in Nat
  BY <1>0, LooksBefore, LookIs, DropsBefore, DropStepIs DEF Crash, RunType
<1>2. \A t \in Services, m \in Steps :
        disk'[t][m].mark => disk[t][m].mark /\ disk'[t][m].meta = disk[t][m].meta
  <2>1. CASE Crash \/ \E r \in Ranks : Look(r)
    <3>1. disk' = disk
      BY <1>0, <2>1, LookIs DEF Crash, store
    <3> QED BY <3>1
  <2>2. CASE DropNewerThan
    BY <2>2, DropKeeps DEF SameContent
  <2> QED BY <2>1, <2>2
<1>3. OneHistory'
  BY <1>2, SameHistory
<1>4. ASSUME NEW s \in Services, NEW n \in CompleteSteps(s)'
      PROVE  Content(disk'[s][n].meta).life < life'
  <2>1. n \in CompleteSteps(s) /\ disk'[s][n].meta = disk[s][n].meta
    BY <1>2 DEF CompleteSteps
  <2>2. Content(disk[s][n].meta).life \in Nat
    BY <2>1, ShardOf DEF Snapshots
  <2>3. CASE Crash
    <3>1. Content(disk[s][n].meta).life <= life
      BY <1>0, <1>1, <2>1, <2>2 DEF HistoryInv, RunType
    <3>2. life' = life + 1
      BY <2>3 DEF Crash
    <3>3. \A a, b \in Nat : a <= b => a < b + 1
      OBVIOUS
    <3> QED BY <1>1, <2>1, <2>2, <3>1, <3>2, <3>3
  <2>4. CASE DropNewerThan \/ \E r \in Ranks : Look(r)
    <3>1. ~up /\ life' = life
      BY <1>0, <2>4, LooksBefore, LookIs, DropsBefore, DropStepIs
    <3>2. Content(disk[s][n].meta).life < life
      BY <2>1, <3>1 DEF HistoryInv
    <3> QED BY <2>1, <3>1, <3>2
  <2> QED BY <2>3, <2>4
<1> QED BY <1>1, <1>3, <1>4 DEF HistoryInv

-----------------------------------------------------------------------------
(* No prompt twice.                                                        *)

LEMMA FreshIs ==
  ASSUME Critic, RInv, FreshInv, up
  PROVE  /\ next \in Nat /\ rolled \subseteq Nat /\ scored \subseteq Nat /\ held \subseteq Nat
         /\ learned \in [{Train, Score} -> SUBSET Nat] /\ Train # Score
         /\ \A s \in Heavy : s \in {Train, Score}
         /\ Train \in Heavy /\ Score \in Heavy
         /\ \A p \in rolled \cup scored \cup held : p < next
         /\ \A p \in learned[Train] \cup learned[Score] : p \in Nat /\ p < next
BY ServicesAre DEF RInv, RunType, FreshInv

LEMMA FreshRollout ==
  ASSUME Critic, RInv, FreshInv, RolloutWork
  PROVE  FreshInv'
<1>0. StoreType /\ RunType /\ StoreInv /\ up /\ up'
  BY WorkKeeps DEF RInv
<1>1. /\ next \in Nat /\ rolled \subseteq Nat /\ scored \subseteq Nat /\ held \subseteq Nat
      /\ learned \in [{Train, Score} -> SUBSET Nat]
      /\ \A s \in Heavy : s \in {Train, Score}
      /\ \A p \in rolled \cup scored \cup held : p < next
      /\ \A p \in learned[Train] \cup learned[Score] : p \in Nat /\ p < next
  BY <1>0, FreshIs
<1>2. UNCHANGED <<learned, scored, held>>
  BY DEF RolloutWork, NextBatch, TryAdvanceGate, AcquireGenerationSlot, rows, criticVars
<1>3. CASE NextBatch \/ TryAdvanceGate
  <2>1. UNCHANGED <<next, rolled, up>>
    BY <1>3 DEF NextBatch, TryAdvanceGate, rows
  <2> QED BY <1>0, <1>2, <2>1 DEF FreshInv
<1>4. CASE AcquireGenerationSlot
  <2>1. next' = next + 1 /\ rolled' = rolled \cup {next}
    BY <1>4 DEF AcquireGenerationSlot
  <2>2. \A p \in Nat : p < next => p < next' /\ p # next
    BY <1>1, <2>1
  <2>3. next < next'
    BY <1>1, <2>1
  <2>4. \A p \in rolled' \cup scored' \cup held' : p < next'
    BY <1>1, <1>2, <2>1, <2>2, <2>3
  <2>5. \A s \in Heavy : \A p \in learned'[s] : p < next'
    BY <1>1, <1>2, <2>2
  <2>6. next \notin held /\ next \notin scored /\ next \notin learned[Train] /\ next \notin learned[Score]
    BY <1>1, <2>2
  <2> QED BY <1>0, <1>2, <2>1, <2>4, <2>5, <2>6 DEF FreshInv
<1> QED BY <1>3, <1>4 DEF RolloutWork

LEMMA FreshCritic ==
  ASSUME Critic, RInv, StreamInv, FreshInv, CriticWork
  PROVE  FreshInv'
<1>0. StoreType /\ RunType /\ StoreInv /\ up /\ up' /\ next' = next
  BY WorkKeeps DEF RInv, CriticWork, ScoreWindow, PublishScores, rolloutVars
<1>1. /\ learned \in [{Train, Score} -> SUBSET Nat] /\ Train # Score
      /\ \A s \in Heavy : s \in {Train, Score}
      /\ \A p \in rolled \cup scored \cup held : p < next
      /\ \A p \in learned[Train] \cup learned[Score] : p < next
  BY <1>0, FreshIs
<1>2. CASE ScoreWindow
  <2>1. PICK S \in kSubset(Batch, rolled) :
          /\ held' = S /\ rolled' = rolled \ S
          /\ learned' = [learned EXCEPT ![Score] = @ \cup S]
    BY <1>2 DEF ScoreWindow
  <2>2. S \subseteq rolled /\ scored' = scored
    BY <1>2, <2>1 DEF kSubset, ScoreWindow
  <2>3. learned'[Train] = learned[Train] /\ learned'[Score] = learned[Score] \cup S
    BY <1>1, <2>1
  <2>4. \A p \in rolled' \cup scored' \cup held' : p < next'
    BY <1>0, <1>1, <2>1, <2>2
  <2>5. \A s \in Heavy : \A p \in learned'[s] : p < next'
    BY <1>0, <1>1, <2>2, <2>3
  <2> QED BY <1>0, <2>1, <2>2, <2>3, <2>4, <2>5 DEF FreshInv
<1>3. CASE PublishScores
  <2>1. /\ scored' \subseteq scored \cup held /\ held' = {} /\ rolled' = rolled
        /\ learned' = learned
    BY <1>3 DEF PublishScores
  <2>2. \A p \in rolled' \cup scored' \cup held' : p < next'
    BY <1>0, <1>1, <2>1
  <2>3. \A s \in Heavy : \A p \in learned'[s] : p < next'
    BY <1>0, <1>1, <2>1
  <2> QED BY <1>0, <2>1, <2>2, <2>3 DEF FreshInv
<1> QED BY <1>2, <1>3 DEF CriticWork

LEMMA FreshTrainer ==
  ASSUME Critic, RInv, FreshInv, TrainerWork
  PROVE  FreshInv'
<1>0. /\ StoreType /\ RunType /\ StoreInv /\ up /\ up'
      /\ next' = next /\ held' = held
  BY WorkKeeps
     DEF RInv, TrainerWork, TrainStep, ExportWeights, PruneWeights, RaiseGate, rolloutVars, criticVars
<1>1. /\ learned \in [{Train, Score} -> SUBSET Nat] /\ Train # Score
      /\ \A s \in Heavy : s \in {Train, Score}
      /\ \A p \in rolled \cup scored \cup held : p < next
      /\ \A p \in learned[Train] \cup learned[Score] : p < next
  BY <1>0, FreshIs
<1>2. CASE TrainStep
  <2>1. PICK S \in kSubset(Batch, scored) :
          /\ rolled' = rolled /\ scored' = scored \ S
          /\ learned' = [learned EXCEPT ![Train] = @ \cup S]
    BY <1>2 DEF TrainStep, Ready
  <2>2. S \subseteq scored
    BY DEF kSubset
  <2>3. learned'[Score] = learned[Score] /\ learned'[Train] = learned[Train] \cup S
    BY <1>1, <2>1
  <2>4. \A p \in rolled' \cup scored' \cup held' : p < next'
    BY <1>0, <1>1, <2>1
  <2>5. \A s \in Heavy : \A p \in learned'[s] : p < next'
    BY <1>0, <1>1, <2>2, <2>3
  <2>6. up'
    BY <1>0, <1>2 DEF TrainStep
  <2> QED BY <1>0, <2>1, <2>2, <2>3, <2>4, <2>5, <2>6 DEF FreshInv
<1>3. CASE ExportWeights \/ PruneWeights \/ RaiseGate
  <2>1. UNCHANGED <<rolled, scored, learned, up>>
    BY <1>3 DEF ExportWeights, PruneWeights, RaiseGate, rows
  <2> QED BY <1>0, <2>1 DEF FreshInv
<1> QED BY <1>2, <1>3 DEF TrainerWork

LEMMA FreshStart ==
  ASSUME Critic, RInv, StreamInv, ScoreCommitted, OneHistory, Start
  PROVE  FreshInv'
<1>1. /\ \A s \in Heavy : learned'[s] \subseteq 1..pulled'
      /\ next' = pulled' + 1
      /\ rolled' = {} /\ scored' = {} /\ held' = {}
  BY RestoredBehind DEF Start, StreamInv, rows
<1>2. pulled' \in Nat
  BY StartType DEF RunType
<1>3. \A p \in 1..pulled' : p < pulled' + 1
  <2>1. \A k \in Nat : \A p \in 1..k : p < k + 1
    OBVIOUS
  <2> QED BY <1>2, <2>1
<1>4. up'
  BY DEF Start
<1> QED BY <1>1, <1>3, <1>4 DEF FreshInv

LEMMA FreshStep ==
  ASSUME Critic, RInv, StreamInv, ScoreCommitted, OneHistory, FreshInv, [Next]_vars
  PROVE  FreshInv'
<1>0. StoreType /\ RunType /\ StoreInv
  BY DEF RInv
<1>1. ASSUME UNCHANGED <<up, next, rolled, scored, held, learned>> PROVE FreshInv'
  BY <1>1 DEF FreshInv
<1>2. CASE Crash \/ DropNewerThan \/ \E r \in Ranks : Look(r)
  <2>1. ~up'
    BY <1>0, <1>2, LooksBefore, LookIs, DropsBefore, DropStepIs DEF Crash
  <2>2. learned'[Train] = {} /\ learned'[Score] = {}
    <3>1. CASE Crash
      BY <3>1 DEF Crash
    <3>2. CASE DropNewerThan \/ \E r \in Ranks : Look(r)
      <4>1. ~up /\ learned' = learned
        BY <1>0, <3>2, LooksBefore, LookIs, DropsBefore, DropStepIs
      <4> QED BY <4>1 DEF FreshInv
    <3> QED BY <1>2, <3>1, <3>2
  <2> QED BY <2>1, <2>2 DEF FreshInv
<1>3. CASE \E s \in Services : SaveStep(s)
  BY <1>1, <1>3 DEF SaveStep, others, rolloutVars, rows, criticVars
<1>4. CASE UNCHANGED vars
  BY <1>1, <1>4 DEF vars, rolloutVars, rows, criticVars
<1> QED BY <1>2, <1>3, <1>4, StepCases, FreshStart, FreshRollout, FreshCritic, FreshTrainer

LEMMA CInvStep ==
  ASSUME Critic, CInv, [Next]_vars
  PROVE  CInv'
<1>1. /\ RInv /\ StreamInv /\ BehindCritic /\ ScoreCommitted /\ NextAhead /\ HistoryInv
      /\ OneHistory /\ TrainerAdoptsResumePoint /\ FreshInv
  BY DEF CInv
<1>2. RInv' /\ StreamInv' /\ BehindCritic' /\ NextAhead'
  BY <1>1, RInvStep, StreamStep, PaceStep, AheadStep
<1>3. TrainerAdoptsResumePoint' /\ FreshInv'
  BY <1>1, AdoptedNext, FreshStep
<1>4. CASE UNCHANGED vars
  <2>1. UNCHANGED <<disk, folders, life, up, resume, pulled, learned, windows, doing>>
    BY <1>4 DEF vars, store, launch, rolloutVars, criticVars
  <2>2. \A s : CompleteSteps(s)' = CompleteSteps(s)
    BY <2>1 DEF CompleteSteps
  <2>3. ScoreCommitted'
    BY <1>1, <2>1, <2>2 DEF ScoreCommitted, Saving, TrainerDirs, HasAnyShard
  <2>4. OneHistory'
    BY <1>1, <2>1, SameHistory
  <2>5. HistoryInv'
    BY <1>1, <2>1, <2>2 DEF HistoryInv
  <2> QED BY <1>2, <1>3, <2>3, <2>4, <2>5 DEF CInv
<1>5. CASE Next
  <2>1. ScoreCommitted'
    BY <1>1, <1>5, VouchedNext
  <2>2. HistoryInv' /\ OneHistory'
    BY <1>1, <1>5, StepCases, HistorySave, HistoryStart, HistoryWork, HistoryDown
  <2> QED BY <1>2, <1>3, <2>1, <2>2 DEF CInv
<1> QED BY <1>4, <1>5

LEMMA InitC == Init => CInv
<1> SUFFICES ASSUME Init PROVE CInv
  OBVIOUS
<1>1. RInv
  BY InitR DEF RInv
<1>2. /\ ~up /\ rolled = {} /\ scored = {} /\ held = {}
      /\ \A s \in Services : \A n \in Steps : disk[s][n] = NoShard
  BY DEF Init, EmptyStore
<1>3. /\ \A s \in Services : CompleteSteps(s) = {}
      /\ TrainerDirs = {}
  BY <1>2, ServicesAre DEF CompleteSteps, TrainerDirs, NoShard
<1>4. StreamInv /\ NextAhead /\ FreshInv /\ TrainerAdoptsResumePoint
  <2>1. learned[Train] = {} /\ learned[Score] = {}
    BY DEF Init
  <2> QED BY <1>2, <2>1 DEF StreamInv, NextAhead, FreshInv, TrainerAdoptsResumePoint
<1>5. BehindCritic
  BY <1>2, FS_EmptySet DEF BehindCritic
<1>6. ScoreCommitted /\ HistoryInv
  BY <1>2, <1>3 DEF ScoreCommitted, HistoryInv
<1>7. OneHistory
  <2>1. ASSUME NEW n \in Resumable PROVE FALSE
    <3>1. Roll \in CheckpointParticipants(n)
      BY ServicesAre DEF CheckpointParticipants
    <3>2. IsComplete(Roll, n)
      BY <3>1 DEF Resumable, AllComplete
    <3> QED BY <1>3, <3>2, ServicesAre DEF IsComplete, CompleteSteps
  <2> QED BY <2>1 DEF OneHistory
<1> QED BY <1>1, <1>4, <1>5, <1>6, <1>7 DEF CInv

LEMMA CInvAlways == ASSUME Critic PROVE Spec => []CInv
<1>1. CInv /\ [Next]_vars => CInv'
  BY CInvStep
<1> QED BY <1>1, InitC, PTL DEF Spec

(* With a critic in the run, a launch gives the trainer the state of the   *)
(* step that was agreed on, or the base model before its first step, and   *)
(* never a directory whose marker is missing (build_forge_config, which    *)
(* leaves the choice to torchtitan when there is no step to resume from):  *)
(* the critic, which is ahead, has committed a shard by then, so that a    *)
(* launch without any finds no directory of the trainer either.  Without a *)
(* critic nothing vouches for the first directory, and this is false.      *)
THEOREM TrainerAdoptsAgreedStep ==
  ASSUME Critic PROVE Spec => []TrainerAdoptsResumePoint
<1>1. CInv => TrainerAdoptsResumePoint
  BY DEF CInv
<1> QED BY <1>1, CInvAlways, PTL

(* The shards of a step that can be resumed from were written by one       *)
(* launch, and the rollout's dataset cursor in them is past every prompt   *)
(* the trainer and the critic had learned from: each service saves by      *)
(* itself, at its own time, and no two of them agree on anything           *)
(* (save_checkpoint of the services and resolve_resume_step).              *)
THEOREM ShardsFitTogether == ASSUME Critic PROVE Spec => []OneHistory
<1>1. CInv => OneHistory
  BY DEF CInv
<1> QED BY <1>1, CInvAlways, PTL

(* No prompt is trained on twice, whatever crashes came between: one that  *)
(* the restored trainer or critic has learned from is neither waiting as a *)
(* row nor still to come out of the dataset (the dataset cursor the        *)
(* rollout stores and restores).                                           *)
THEOREM PromptsAreNotRepeated == ASSUME Critic PROVE Spec => []NoPromptTwice
<1>1. ASSUME CInv PROVE NoPromptTwice
  <2>1. StreamInv /\ RInv /\ FreshInv
    BY <1>1 DEF CInv
  <2>2. CASE up
    <3>1. /\ next \in Nat
          /\ \A p \in learned[Train] \cup learned[Score] : p \in Nat /\ p < next
      BY <2>1, <2>2, FreshIs
    <3>2. \A p \in next..(MaxStep * Batch) : p >= next /\ p \in Int
      <4>1. MaxStep * Batch \in Int
        BY StoreAssumption, RunAssumption
      <4> QED BY <3>1, <4>1
    <3>3. \A s \in {Train, Score} : learned[s] \cap (next..(MaxStep * Batch)) = {}
      <4>1. ASSUME NEW s \in {Train, Score}, NEW p \in learned[s],
                   p \in next..(MaxStep * Batch)
            PROVE  FALSE
        <5>1. p \in Nat /\ p < next
          BY <3>1
        <5>2. p >= next
          BY <3>2, <4>1
        <5> QED BY <3>1, <5>1, <5>2
      <4> QED BY <4>1
    <3>4. /\ learned[Train] \cap (scored \cup rolled) = {}
          /\ learned[Score] \cap rolled = {}
      BY <2>1, <2>2 DEF FreshInv
    <3> QED BY <3>3, <3>4 DEF NoPromptTwice
  <2>3. CASE ~up
    BY <2>1, <2>3 DEF FreshInv, NoPromptTwice
  <2> QED BY <2>2, <2>3
<1> QED BY <1>1, CInvAlways, PTL

-----------------------------------------------------------------------------
(* The last common step.                                                   *)

LEMMA Quotient ==
  ASSUME NEW n \in Steps
  PROVE  n \div Interval \in Nat /\ n = (n \div Interval) * Interval
<1>1. n \in Nat /\ Interval \in Nat \ {0} /\ n % Interval = 0
  BY PolicyAssumption DEF Steps, Due
<1> QED BY <1>1

LEMMA Multiples ==
  ASSUME NEW a \in Int, NEW b \in Int, NEW k \in Nat \ {0}, a <= b
  PROVE  a * k <= b * k
<1>1. CASE a = b
  BY <1>1
<1>2. CASE a < b
  <2> DEFINE x == b * k
             y == a * k
  <2>1. x \in Int /\ y \in Int
    OBVIOUS
  <2>2. ~(x <= y)
    BY <1>2, Products
  <2> HIDE DEF x, y
  <2>3. y <= x
    BY <2>1, <2>2
  <2> QED BY <2>3 DEF x, y
<1> QED BY <1>1, <1>2

(* So many steps take so many intervals.                                   *)
LEMMA Spread ==
  ASSUME NEW A, A \subseteq Steps, NEW k \in Nat \ {0}, Cardinality(A) >= k
  PROVE  \E lo, hi \in A : (\A j \in A : lo <= j) /\ hi >= lo + (k - 1) * Interval
<1>1. IsFiniteSet(A) /\ A \subseteq Int /\ Cardinality(A) \in Nat
  <2>1. IsFiniteSet(A) /\ A \subseteq Nat
    BY StepsFinite
  <2> QED BY <2>1, FS_CardinalityType
<1>2. A # {}
  BY FS_EmptySet
<1>3. PICK lo \in A : \A j \in A : lo =< j
  BY <1>1, <1>2, Extremes
<1>4. PICK hi \in A : \A j \in A : hi >= j
  BY <1>1, <1>2, Extremes
<1> DEFINE q(j) == j \div Interval
           B == q(lo)..q(hi)
           f == [j \in A |-> q(j)]
<1>5. \A j \in A : q(j) \in Nat /\ j = q(j) * Interval
  BY Quotient
<1>6. Interval \in Nat \ {0}
  BY PolicyAssumption
<1> HIDE DEF q
<1>7. \A i, j \in A : i <= j => q(i) <= q(j)
  <2> TAKE i, j \in A
  <2> HAVE i <= j
  <2>1. q(i) \in Int /\ q(j) \in Int /\ q(i) * Interval <= q(j) * Interval
    BY <1>5
  <2> QED BY <1>6, <2>1, Products
<1>8. f \in [A -> B] /\ \A i, j \in A : f[i] = f[j] => i = j
  <2>1. \A j \in A : q(j) \in B
    BY <1>3, <1>4, <1>5, <1>7
  <2>2. \A i, j \in A : q(i) = q(j) => i = j
    BY <1>5
  <2> QED BY <2>1, <2>2
<1>9. IsFiniteSet(B) /\ Cardinality(B) = q(hi) - q(lo) + 1
  <2>1. q(lo) \in Int /\ q(hi) \in Int /\ q(lo) <= q(hi)
    BY <1>3, <1>5, <1>7
  <2>2. IsFiniteSet(B) /\ Cardinality(B) = IF q(lo) > q(hi) THEN 0 ELSE q(hi) - q(lo) + 1
    BY <2>1, FS_Interval
  <2> QED BY <2>1, <2>2
<1>10. Cardinality(A) <= Cardinality(B)
  <2> HIDE DEF f, B
  <2>1. f \in Injection(A, B)
    BY <1>8 DEF Injection, IsInjective
  <2> QED BY <1>9, <2>1, FS_Injection
<1>11. k - 1 <= q(hi) - q(lo) /\ q(hi) \in Int /\ q(lo) \in Int
  BY <1>1, <1>5, <1>9, <1>10
<1>12. (k - 1) * Interval <= (q(hi) - q(lo)) * Interval
  BY <1>6, <1>11, Multiples
<1>13. (q(hi) - q(lo)) * Interval = hi - lo
  <2>1. \A a, b \in Int : (a - b) * Interval = a * Interval - b * Interval
    BY <1>6
  <2>2. hi = q(hi) * Interval /\ lo = q(lo) * Interval
    BY <1>5
  <2> QED BY <1>11, <2>1, <2>2
<1>14. hi >= lo + (k - 1) * Interval
  <2> DEFINE y == (k - 1) * Interval
  <2>1. y \in Int /\ y <= hi - lo /\ hi \in Int /\ lo \in Int
    BY <1>1, <1>6, <1>12, <1>13
  <2> HIDE DEF y
  <2>2. hi >= lo + y
    BY <2>1
  <2> QED BY <2>2 DEF y
<1> QED BY <1>3, <1>14

(* The pacing of the rollout: a window is at most what the rotation keeps. *)
Paced == Window > 0 /\ Window <= (Keep - 1) * Interval

(* The groups that n pulses allow (_generation_budget).                    *)
Allowance(n) == (n - 1 + Window) * Batch

(* The windows that have taken their rows.                                 *)
Leader == IF Critic THEN windows ELSE Trained

(* The rollout does not overdraw its budget, and has used it up whenever a *)
(* pulse is read: a snapshot says how far any service can be.              *)
BudgetInv ==
  /\ \A n \in Steps : \A c \in disk[Roll][n].meta : c.started = Allowance(n)
  /\ up =>
       /\ started <= IF gatesSeen = 0 THEN 0 ELSE Allowance(gatesSeen)
       /\ Saving(Roll) => started = Allowance(Clock(Roll))
       /\ Leader * Batch + Cardinality(rolled) <= started

(* A service that is past a step has committed its shard.                  *)
Through(s, n) == n <= Clock(s) /\ (Saving(s) => n < Clock(s))

(* What a service is through with it has saved, unless all have saved a    *)
(* later step since.                                                       *)
SavedInv ==
  up =>
    /\ resume[0] <= ResumePoint
    /\ \A s \in Services : \A n \in Steps :
         n > resume[0] /\ (s = Train => n > Cold) /\ Through(s, n)
           => IsComplete(s, n) \/ ResumePoint > n

LEMMA BudgetTypes ==
  ASSUME RInv
  PROVE  /\ Window \in Nat /\ Batch \in Nat \ {0} /\ Cold \in Nat /\ Keep \in Nat /\ Keep >= 2
         /\ Interval \in Nat \ {0}
         /\ gatesSeen \in Nat /\ started \in Nat /\ windows \in Nat /\ steps \in Nat
         /\ Trained \in Nat /\ Leader \in Nat /\ ResumePoint \in Nat
         /\ resume[0] \in Nat /\ 0 \in Ranks
         /\ \A n \in Int : Allowance(n) \in Int
         /\ \A n \in Int : Allowance(n + 1) = Allowance(n) + Batch
<1>1. /\ Window \in Nat /\ Batch \in Nat \ {0} /\ Cold \in Nat /\ Keep \in Nat /\ Keep >= 2
      /\ Interval \in Nat \ {0} /\ 0 \in Ranks
  BY RunAssumption, PolicyAssumption
<1>2. gatesSeen \in Nat /\ started \in Nat /\ windows \in Nat /\ steps \in Nat
  BY DEF RInv, RunType
<1>3. Trained \in Nat /\ Leader \in Nat
  <2>1. Trained \in Nat
    BY <1>2 DEF Trained
  <2> QED BY <1>2, <2>1 DEF Leader
<1>4. \A n \in Steps \cup {0} : n \in Nat
  BY DEF Steps
<1>5. ResumePoint \in Nat
  BY <1>4, ResumePointIs DEF Resumable
<1>6. resume[0] \in Nat
  BY <1>1, <1>4 DEF RInv, RunType
<1>7. \A n \in Int : Allowance(n) \in Int
  BY <1>1 DEF Allowance
<1>8. ASSUME NEW n \in Int PROVE Allowance(n + 1) = Allowance(n) + Batch
  <2>1. n - 1 + Window \in Int /\ n + 1 - 1 + Window = (n - 1 + Window) + 1
    BY <1>1
  <2>2. ((n - 1 + Window) + 1) * Batch = (n - 1 + Window) * Batch + Batch
    BY <1>1, <2>1, Products
  <2> QED BY <2>1, <2>2 DEF Allowance
<1> QED BY <1>1, <1>2, <1>3, <1>5, <1>6, <1>7, <1>8

(* The service that leads has not gone past what the pulses allow.         *)
LEMMA LeaderPaced ==
  ASSUME RInv, BehindCritic, BudgetInv, up, NEW hi \in Nat, hi <= Leader, hi > 0
  PROVE  /\ gatesSeen > 0 /\ hi <= gatesSeen - 1 + Window
         /\ Saving(Roll) => hi <= gatesSeen - 2 + Window
<1>1. /\ Window \in Nat /\ Batch \in Nat \ {0} /\ gatesSeen \in Nat /\ started \in Nat
      /\ Leader \in Nat
  BY BudgetTypes
<1>2. /\ started <= IF gatesSeen = 0 THEN 0 ELSE Allowance(gatesSeen)
      /\ Saving(Roll) => started = Allowance(gatesSeen - 1)
      /\ Leader * Batch + Cardinality(rolled) <= started
  BY ClockIs DEF BudgetInv
<1>3. Cardinality(rolled) \in Nat
  BY FS_CardinalityType DEF BehindCritic
<1>4. hi * Batch <= Leader * Batch
  BY <1>1, Multiples
<1>5. hi * Batch <= started
  <2> DEFINE x == hi * Batch
             y == Leader * Batch
             z == Cardinality(rolled)
  <2>1. x \in Int /\ y \in Int /\ z \in Nat /\ x <= y /\ y + z <= started
    BY <1>1, <1>2, <1>3, <1>4
  <2> HIDE DEF x, y, z
  <2>2. x <= started
    BY <1>1, <2>1
  <2> QED BY <2>2 DEF x
<1>6. gatesSeen > 0
  <2> SUFFICES ASSUME gatesSeen = 0 PROVE FALSE
    BY <1>1
  <2> DEFINE x == hi * Batch
  <2>1. x <= 0 * Batch
    <3>1. x \in Int
      BY <1>1
    <3> HIDE DEF x
    <3>2. x <= 0
      BY <1>1, <1>2, <1>5, <3>1 DEF x
    <3>3. 0 * Batch = 0
      BY <1>1
    <3> QED BY <3>2, <3>3
  <2>2. hi <= 0
    BY <1>1, <2>1, Products
  <2> QED BY <2>2
<1>7. hi <= gatesSeen - 1 + Window
  <2>1. hi * Batch <= (gatesSeen - 1 + Window) * Batch
    <3> DEFINE x == hi * Batch
               y == (gatesSeen - 1 + Window) * Batch
    <3>1. x \in Int /\ y \in Int /\ x <= started /\ started <= y
      BY <1>1, <1>2, <1>5, <1>6 DEF Allowance
    <3> HIDE DEF x, y
    <3>2. x <= y
      BY <1>1, <3>1
    <3> QED BY <3>2 DEF x, y
  <2> QED BY <1>1, <2>1, Products
<1>8. ASSUME Saving(Roll) PROVE hi <= gatesSeen - 2 + Window
  <2>1. hi * Batch <= (gatesSeen - 2 + Window) * Batch
    <3>1. gatesSeen - 1 - 1 + Window = gatesSeen - 2 + Window
      BY <1>1
    <3> QED BY <1>2, <1>5, <1>8, <3>1 DEF Allowance
  <2> QED BY <1>1, <2>1, Products
<1> QED BY <1>6, <1>7, <1>8

(* A step a service has committed a spread of Keep shards ago is one the   *)
(* rollout is through with: no service is further ahead of it.             *)
LEMMA RollThrough ==
  ASSUME Paced, RInv, StreamInv, BehindCritic, BudgetInv, up, NEW s \in Services,
         NEW lo \in CompleteSteps(s), NEW hi \in CompleteSteps(s),
         hi >= lo + (Keep - 1) * Interval, lo > resume[0]
  PROVE  Through(Roll, lo)
<1>1. /\ Window \in Nat /\ Cold \in Nat /\ gatesSeen \in Nat /\ Leader \in Nat
      /\ windows \in Nat /\ steps \in Nat /\ resume[0] \in Nat /\ Trained \in Nat
  BY BudgetTypes
<1>2. lo \in Nat /\ hi \in Nat /\ hi \in Steps /\ hi > 0 /\ lo \in Steps
  BY DEF CompleteSteps, Steps
<1>3. hi >= lo + Window
  <2> DEFINE y == (Keep - 1) * Interval
  <2>1. y \in Int /\ Window <= y /\ hi >= lo + y
    BY PolicyAssumption DEF Paced
  <2> HIDE DEF y
  <2> QED BY <1>1, <1>2, <2>1
<1>4. CASE s = Roll
  <2>1. /\ lo <= resume[0] \/ lo <= Clock(Roll)
        /\ Saving(Roll) => lo < Clock(Roll)
    BY <1>4 DEF RInv, Behind
  <2>2. ~(lo <= resume[0])
    BY <1>1, <1>2
  <2> QED BY <2>1, <2>2 DEF Through
<1>5. CASE s \in Heavy
  <2>1. hi <= Clock(s)
    BY <1>5 DEF RInv, Behind
  <2>2. hi <= Leader
    <3>1. CASE s = Score
      BY <1>5, <2>1, <3>1, ServicesAre, ClockIs DEF Leader
    <3>2. CASE s = Train /\ Critic
      <4>1. disk[Train][hi].meta # {}
        BY <3>2, ServicesAre DEF RInv, StoreInv, CommittedWhole
      <4>2. hi > Cold
        BY <1>1, <1>2, <4>1 DEF RInv, PolicyStored
      <4>3. steps # 0 /\ hi <= steps + Cold
        BY <1>1, <1>2, <2>1, <3>2, <4>2, ClockIs
      <4>4. windows > Cold
        BY <1>1, <3>2, <4>3 DEF StreamInv
      <4>5. steps + Cold <= windows
        BY <3>2, <4>4, AheadOfTrainer
      <4>6. Leader = windows
        BY <3>2 DEF Leader
      <4> QED BY <1>1, <1>2, <4>3, <4>5, <4>6
    <3>3. CASE s = Train /\ ~Critic
      <4>1. Cold = 0
        BY <3>3, RunAssumption
      <4>2. hi <= steps
        BY <1>1, <1>2, <2>1, <3>3, <4>1, ClockIs
      <4>3. Leader = Trained
        BY <3>3 DEF Leader
      <4>4. steps <= Trained
        BY <1>1 DEF Trained
      <4> QED BY <1>1, <1>2, <4>2, <4>3, <4>4
    <3> QED BY <1>5, <3>1, <3>2, <3>3, ServicesAre
  <2>3. /\ gatesSeen > 0 /\ hi <= gatesSeen - 1 + Window
        /\ Saving(Roll) => hi <= gatesSeen - 2 + Window
    BY <1>2, <2>2, LeaderPaced
  <2>4. lo <= gatesSeen - 1 /\ (Saving(Roll) => lo < gatesSeen - 1)
    BY <1>1, <1>2, <1>3, <2>3
  <2> QED BY <2>4, ClockIs DEF Through
<1> QED BY <1>4, <1>5, RunAssumption

(* When the rollout is through with a step, so is everyone who saves it:   *)
(* the pulse was raised after their shards.                                *)
LEMMA AllThrough ==
  ASSUME RInv, StreamInv, BehindCritic, up, NEW n \in Steps, Through(Roll, n),
         NEW p \in CheckpointParticipants(n)
  PROVE  Through(p, n)
<1>1. /\ Cold \in Nat /\ gatesSeen \in Nat /\ windows \in Nat /\ steps \in Nat
  BY BudgetTypes
<1>2. n \in Nat /\ n > 0
  BY DEF Steps
<1>3. Len(pulses) \in Nat
  BY DEF RInv, RunType
<1>4. n <= Owed
  <2>1. n <= gatesSeen - 1
    BY ClockIs DEF Through
  <2>2. Raised = Owed
    BY DEF StreamInv
  <2>3. n <= Raised
    BY <1>1, <1>2, <1>3, <2>1 DEF Raised
  <2> QED BY <2>2, <2>3
<1>5. p \in Services /\ (p = Train => n > Cold)
  BY DEF CheckpointParticipants
<1>6. CASE p = Train
  <2>1. ~(Critic /\ windows <= Cold)
    <3> SUFFICES ASSUME Critic, windows <= Cold PROVE FALSE
      OBVIOUS
    <3>1. n <= windows
      BY <1>1, <1>2, <1>4 DEF Owed
    <3> QED BY <1>1, <1>2, <1>5, <1>6, <3>1
  <2>2. n <= Cold + steps - (IF doing[Train] \in Past THEN 1 ELSE 0)
    BY <1>4, <2>1 DEF Owed
  <2>3. Saving(Train) => doing[Train] \in Past
    BY DEF Saving, Past
  <2>4. n <= steps + Cold /\ (Saving(Train) => n < steps + Cold)
    BY <1>1, <1>2, <2>2, <2>3
  <2> QED BY <1>6, <2>4, ClockIs DEF Through
<1>7. CASE p = Score
  <2>1. Critic
    BY <1>5, <1>7, ServicesAre
  <2>2. Saving(Score) => doing[Score] # "idle"
    BY DEF Saving
  <2>3. CASE windows <= Cold
    <3>1. n <= windows - (IF doing[Score] = "idle" THEN 0 ELSE 1)
      BY <1>4, <2>1, <2>3 DEF Owed
    <3>2. n <= windows /\ (Saving(Score) => n < windows)
      BY <1>1, <1>2, <2>2, <3>1
    <3> QED BY <1>7, <3>2, ClockIs DEF Through
  <2>4. CASE ~(windows <= Cold)
    <3>1. n <= Cold + steps - (IF doing[Train] \in Past THEN 1 ELSE 0)
      BY <1>4, <2>4 DEF Owed
    <3>2. n <= steps + Cold
      BY <1>1, <1>2, <3>1
    <3>3. windows > Cold
      BY <1>1, <2>4
    <3>4. steps + Cold <= windows /\ (doing[Score] # "idle" => steps + Cold < windows)
      BY <2>1, <3>3, AheadOfTrainer
    <3>5. n <= windows /\ (Saving(Score) => n < windows)
      BY <1>1, <1>2, <2>2, <3>2, <3>4
    <3> QED BY <1>7, <3>5, ClockIs DEF Through
  <2> QED BY <2>3, <2>4
<1> QED BY <1>5, <1>6, <1>7, ServicesAre

(* What the rotation takes is older than the resume point.                 *)
LEMMA StaleIsPast ==
  ASSUME Paced, RInv, StreamInv, BehindCritic, BudgetInv, SavedInv, up,
         NEW s \in Services, NEW d \in Stale(s)
  PROVE  d < ResumePoint
<1> DEFINE A == {j \in CompleteSteps(s) : j > d}
<1>1. /\ d \in CompleteSteps(s) /\ d \in Nat /\ d > 0 /\ ~(Cardinality(A) < Keep)
  BY DEF Stale, Newest, CompleteSteps, Steps
<1>2. A \subseteq Steps /\ A \subseteq CompleteSteps(s) /\ \A j \in A : j > d
  BY DEF CompleteSteps
<1> HIDE DEF A
<1>3. Cardinality(A) \in Nat
  <2>1. IsFiniteSet(A)
    BY <1>2, StepsFinite
  <2> QED BY <2>1, FS_CardinalityType
<1>4. Keep \in Nat \ {0} /\ Cardinality(A) >= Keep
  BY <1>1, <1>3, PolicyAssumption
<1>5. PICK lo, hi \in A : (\A j \in A : lo <= j) /\ hi >= lo + (Keep - 1) * Interval
  BY <1>2, <1>4, Spread
<1>6. lo \in Steps /\ lo \in Nat /\ lo > d /\ lo \in CompleteSteps(s) /\ hi \in CompleteSteps(s)
  <2>1. \A j \in Steps : j \in Nat
    BY DEF Steps
  <2> QED BY <1>2, <2>1
<1>7. ResumePoint \in Nat /\ resume[0] \in Nat
  BY BudgetTypes
<1>8. CASE lo <= resume[0]
  <2>1. resume[0] <= ResumePoint
    BY DEF SavedInv
  <2> QED BY <1>1, <1>6, <1>7, <1>8, <2>1
<1>9. CASE lo > resume[0]
  <2>1. Through(Roll, lo)
    BY <1>5, <1>6, <1>9, RollThrough
  <2>2. \A p \in CheckpointParticipants(lo) : IsComplete(p, lo) \/ ResumePoint > lo
    <3> TAKE p \in CheckpointParticipants(lo)
    <3>1. Through(p, lo)
      BY <1>6, <2>1, AllThrough
    <3>2. p \in Services /\ (p = Train => lo > Cold)
      BY DEF CheckpointParticipants
    <3> QED BY <1>6, <1>9, <3>1, <3>2 DEF SavedInv
  <2>3. CASE ResumePoint > lo
    BY <1>1, <1>6, <1>7, <2>3
  <2>4. CASE \A p \in CheckpointParticipants(lo) : IsComplete(p, lo)
    <3>1. lo \in Resumable
      BY <1>6, <2>4 DEF Resumable, AllComplete
    <3>2. lo <= ResumePoint
      BY <3>1, ResumePointIs
    <3> QED BY <1>1, <1>6, <1>7, <3>2
  <2> QED BY <2>2, <2>3, <2>4
<1> QED BY <1>6, <1>7, <1>8, <1>9

LEMMA PointStays ==
  ASSUME \A p \in Services, m \in Steps :
           m = ResumePoint /\ disk[p][m].mark => disk'[p][m].mark
  PROVE  ResumePoint' >= ResumePoint
<1>1. ResumePoint \in Resumable \cup {0}
  BY ResumePointIs
<1>2. (/\ ResumePoint \in Resumable \cup {0}
       /\ \A n \in Resumable : n <= ResumePoint)'
  BY ResumePointIs, PTL
<1>3. \A n \in Steps : n \in Nat
  BY DEF Steps
<1>4. CASE ResumePoint \in Resumable
  <2>1. PICK n \in Resumable : n = ResumePoint
    BY <1>4
  <2>2. n \in Steps /\ \A p \in CheckpointParticipants(n) : IsComplete(p, n)
    BY DEF Resumable, AllComplete
  <2>3. \A p \in CheckpointParticipants(n) : disk'[p][n].mark
    BY <2>1, <2>2 DEF IsComplete, CheckpointParticipants
  <2>4. n \in Resumable'
    BY <2>2, <2>3 DEF Resumable, AllComplete, IsComplete
  <2>5. n <= ResumePoint'
    BY <1>2, <2>4
  <2>6. ResumePoint' \in Nat /\ n \in Nat
    BY <1>2, <1>3, <2>2 DEF Resumable
  <2> QED BY <2>1, <2>5, <2>6
<1>5. CASE ResumePoint = 0
  <2>1. ResumePoint' \in Nat
    BY <1>2, <1>3 DEF Resumable
  <2> QED BY <1>5, <2>1
<1> QED BY <1>1, <1>4, <1>5

LEMMA PointOf ==
  ASSUME disk' = disk
  PROVE  ResumePoint' = ResumePoint /\ \A s, n : IsComplete(s, n)' = IsComplete(s, n)
<1>1. \A s, n : IsComplete(s, n)' = IsComplete(s, n)
  BY DEF IsComplete
<1>2. Resumable' = Resumable
  BY <1>1 DEF Resumable, AllComplete
<1> QED BY <1>1, <1>2 DEF ResumePoint

(* What a save does to the markers, with the one the rotation takes.       *)
LEMMA SaveTakes ==
  ASSUME RInv, NEW s \in Services, SaveStep(s)
  PROVE  \/ /\ \A t \in Services, m \in Steps : disk'[t][m].mark <=> disk[t][m].mark
            /\ Saving(s)' <=> Saving(s)
         \/ /\ \A t \in Services, m \in Steps :
                 disk'[t][m].mark <=> disk[t][m].mark \/ (t = s /\ m = Clock(s))
            /\ ~Saving(s)'
         \/ /\ \E d \in Stale(s) : \A t \in Services, m \in Steps :
                 disk'[t][m].mark <=> disk[t][m].mark /\ ~(t = s /\ m = d)
            /\ Saving(s)' <=> Saving(s)
<1>0. StoreType /\ RunType /\ StoreInv
  BY DEF RInv
<1>1. CASE DirWritten(s) \/ MetaWritten(s)
  BY <1>1 DEF DirWritten, MetaWritten, Saving
<1>2. CASE Marked(s)
  BY <1>2 DEF Marked, Saving
<1>3. CASE doing[s] = "prune" /\ \E n \in Stale(s) : MarkerTaken(s, n)
  <2>1. PICK d \in Stale(s) : MarkerTaken(s, d)
    BY <1>3
  <2>2. \A t \in Services, m \in Steps :
          disk'[t][m].mark <=> disk[t][m].mark /\ ~(t = s /\ m = d)
    BY <2>1 DEF MarkerTaken
  <2>3. Saving(s)' <=> Saving(s)
    BY <2>1 DEF MarkerTaken, Saving
  <2> QED BY <2>2, <2>3
<1>4. CASE doing[s] = "prune" /\ FilesTaken(s)
  <2>1. victim[s] \in Steps /\ ~disk[s][victim[s]].mark
    BY <1>0, <1>4 DEF StoreInv, StoreType, FilesTaken
  <2>2. \A t \in Services, m \in Steps : disk'[t][m].mark <=> disk[t][m].mark
    BY <1>4, <2>1 DEF FilesTaken, NoShard
  <2> QED BY <1>4, <2>2 DEF FilesTaken, Saving
<1>5. CASE SaveOver(s)
  <2>1. After(s) \in {"rotate", "publish", "idle"}
    BY ServicesAre DEF After
  <2> QED BY <1>5, <2>1 DEF SaveOver, store, Saving
<1> QED BY <1>0, <1>1, <1>2, <1>3, <1>4, <1>5, SaveIs

LEMMA SavePoint ==
  ASSUME Paced, RInv, StreamInv, BehindCritic, BudgetInv, SavedInv,
         NEW s \in Services, SaveStep(s)
  PROVE  ResumePoint' >= ResumePoint
<1>1. up
  BY SavesWhenUp
<1>2. ASSUME \A t \in Services, m \in Steps : disk[t][m].mark => disk'[t][m].mark
      PROVE  ResumePoint' >= ResumePoint
  BY <1>2, PointStays
<1>3. CASE \E d \in Stale(s) : \A t \in Services, m \in Steps :
             disk'[t][m].mark <=> disk[t][m].mark /\ ~(t = s /\ m = d)
  <2>1. PICK d \in Stale(s) : \A t \in Services, m \in Steps :
             disk'[t][m].mark <=> disk[t][m].mark /\ ~(t = s /\ m = d)
    BY <1>3
  <2>2. d < ResumePoint /\ d \in Nat /\ ResumePoint \in Nat
    BY <1>1, StaleIsPast, BudgetTypes DEF Stale, CompleteSteps, Steps
  <2>3. d # ResumePoint
    BY <2>2
  <2> QED BY <2>1, <2>3, PointStays
<1> QED BY <1>2, <1>3, SaveTakes

LEMMA PointNext ==
  ASSUME Paced, RInv, StreamInv, BehindCritic, BudgetInv, SavedInv, [Next]_vars
  PROVE  ResumePoint' >= ResumePoint
<1>0. StoreType /\ RunType /\ StoreInv /\ ResumePoint \in Nat
  BY BudgetTypes DEF RInv
<1>1. ASSUME disk' = disk PROVE ResumePoint' >= ResumePoint
  BY <1>0, <1>1, PointOf
<1>2. CASE DropNewerThan
  BY <1>0, <1>2, DropAgrees
<1>3. CASE \E r \in Ranks : Look(r)
  BY <1>0, <1>1, <1>3, LookIs DEF store
<1>4. CASE Start \/ Crash
  BY <1>1, <1>4 DEF Start, Crash, store
<1>5. CASE RolloutWork \/ CriticWork \/ TrainerWork
  BY <1>0, <1>1, <1>5, WorkKeeps DEF store
<1>6. CASE UNCHANGED vars
  BY <1>1, <1>6 DEF vars, store
<1> QED BY <1>2, <1>3, <1>4, <1>5, <1>6, StepCases, SavePoint

-----------------------------------------------------------------------------
(* The budget.                                                             *)

BudgetLeft ==
  up =>
    /\ started <= IF gatesSeen = 0 THEN 0 ELSE Allowance(gatesSeen)
    /\ Saving(Roll) => started = Allowance(Clock(Roll))
    /\ Leader * Batch + Cardinality(rolled) <= started

SnapshotsPaced == \A n \in Steps : \A c \in disk[Roll][n].meta : c.started = Allowance(n)

(* A window takes its rows and counts itself.                              *)
LEMMA WindowTaken ==
  ASSUME NEW R, IsFiniteSet(R), NEW S \in kSubset(Batch, R), NEW l \in Nat, NEW g \in Nat,
         Batch \in Nat \ {0}, l * Batch + Cardinality(R) <= g
  PROVE  (l + 1) * Batch + Cardinality(R \ S) <= g
<1>1. Cardinality(R \ S) = Cardinality(R) - Batch /\ Cardinality(R) \in Nat
  BY TakenFrom
<1>2. l * Batch \in Int /\ (l + 1) * Batch = l * Batch + Batch
  BY Products
<1> DEFINE p == l * Batch
           r == Cardinality(R)
<1>3. /\ Cardinality(R \ S) = r - Batch /\ (l + 1) * Batch = p + Batch /\ p + r <= g
      /\ p \in Int /\ r \in Int /\ Batch \in Int
  BY <1>1, <1>2
<1> HIDE DEF p, r
<1>4. (p + Batch) + (r - Batch) <= g
  BY <1>3
<1> QED BY <1>3, <1>4

LEMMA SameLeft ==
  ASSUME BudgetLeft, up' => up, UNCHANGED <<gatesSeen, started>>,
         Saving(Roll)' => Saving(Roll), Leader' = Leader, rolled' = rolled
  PROVE  BudgetLeft'
<1>1. Allowance(gatesSeen)' = Allowance(gatesSeen) /\ Clock(Roll)' = Clock(Roll)
      /\ Allowance(Clock(Roll))' = Allowance(Clock(Roll))
  <2>1. Clock(Roll)' = Clock(Roll)
    BY ClockIs DEF Clock, Train, Score, Roll
  <2> QED BY <2>1 DEF Allowance
<1> QED BY <1>1 DEF BudgetLeft

LEMMA LeftSave ==
  ASSUME RInv, BudgetLeft, NEW s \in Services, SaveStep(s)
  PROVE  BudgetLeft'
<1>0. StoreType /\ RunType /\ StoreInv /\ up
  BY SavesWhenUp DEF RInv
<1>1. UNCHANGED <<up, windows, steps, rolled, gatesSeen, started>>
  BY DEF SaveStep, others, trainerVars, criticVars, rolloutVars, rows
<1>2. /\ doing[s] \in {"data", "meta", "mark", "prune"}
      /\ doing'[s] \in {"data", "meta", "mark", "prune", After(s)}
  BY <1>0, SaveIs DEF DirWritten, MetaWritten, Marked, MarkerTaken, FilesTaken, SaveOver
<1>3. \A t \in Services \ {s} : doing'[t] = doing[t]
  BY SaveKeeps
<1>4. doing'[Train] = "export" <=> doing[Train] = "export"
  <2>1. CASE s = Train
    <3>1. After(s) = "rotate"
      BY <2>1, ServicesAre DEF After
    <3> QED BY <1>2, <2>1, <3>1
  <2>2. CASE s # Train
    BY <1>3, <2>2, ServicesAre
  <2> QED BY <2>1, <2>2
<1>5. Leader' = Leader
  BY <1>1, <1>4 DEF Leader, Trained
<1>6. Saving(Roll)' => Saving(Roll)
  <2>1. CASE s = Roll
    BY <2>1, SaveKeeps
  <2>2. CASE s # Roll
    BY <1>3, <2>2, ServicesAre DEF Saving
  <2> QED BY <2>1, <2>2
<1> QED BY <1>1, <1>5, <1>6, SameLeft

LEMMA LeftCritic ==
  ASSUME RInv, BehindCritic, BudgetLeft, CriticWork
  PROVE  BudgetLeft'
<1>0. StoreType /\ RunType /\ StoreInv /\ up /\ up' = up /\ Critic
  BY WorkKeeps, CriticMoves DEF RInv
<1>1. doing'[Roll] = doing[Roll] /\ UNCHANGED <<gatesSeen, started>>
  <2>1. doing'[Roll] = doing[Roll]
    BY <1>0, CriticMoves, ServicesAre DEF Moves
  <2> QED BY <2>1 DEF CriticWork, ScoreWindow, PublishScores, rolloutVars
<1>2. Saving(Roll)' <=> Saving(Roll)
  BY <1>1 DEF Saving
<1>3. CASE ScoreWindow
  <2>1. PICK S \in kSubset(Batch, rolled) : rolled' = rolled \ S
    BY <1>3 DEF ScoreWindow
  <2>2. Leader' = Leader + 1 /\ Leader \in Nat /\ Batch \in Nat \ {0} /\ started \in Nat
    BY <1>0, <1>3, BudgetTypes DEF ScoreWindow, Leader
  <2>3. Leader * Batch + Cardinality(rolled) <= started /\ IsFiniteSet(rolled)
    BY <1>0 DEF BudgetLeft, BehindCritic
  <2>4. Leader' * Batch + Cardinality(rolled') <= started
    BY <2>1, <2>2, <2>3, WindowTaken
  <2>5. Allowance(gatesSeen)' = Allowance(gatesSeen) /\ Allowance(Clock(Roll))' = Allowance(Clock(Roll))
    BY <1>1 DEF Allowance, Clock, Train, Score, Roll
  <2> QED BY <1>0, <1>1, <1>2, <2>4, <2>5 DEF BudgetLeft
<1>4. CASE PublishScores
  <2>1. UNCHANGED <<windows, rolled>>
    BY <1>4 DEF PublishScores
  <2>2. Leader' = Leader
    BY <1>0, <2>1 DEF Leader
  <2> QED BY <1>0, <1>1, <1>2, <2>1, <2>2, SameLeft
<1> QED BY <1>3, <1>4 DEF CriticWork

LEMMA LeftTrainer ==
  ASSUME RInv, BehindCritic, BudgetLeft, TrainerWork
  PROVE  BudgetLeft'
<1>0. StoreType /\ RunType /\ StoreInv /\ up /\ up' = up
  BY WorkKeeps DEF RInv
<1>1. doing'[Roll] = doing[Roll] /\ UNCHANGED <<gatesSeen, started, windows>>
  <2>1. doing'[Roll] = doing[Roll]
    BY <1>0, TrainerMoves, ServicesAre DEF Moves
  <2> QED BY <2>1
          DEF TrainerWork, TrainStep, ExportWeights, PruneWeights, RaiseGate, rolloutVars, criticVars
<1>2. Saving(Roll)' <=> Saving(Roll)
  BY <1>1 DEF Saving
<1>3. steps \in Nat /\ Batch \in Nat \ {0} /\ started \in Nat /\ Leader \in Nat
  BY BudgetTypes
<1>4. ASSUME ~TrainStep PROVE Trained' = Trained /\ rolled' = rolled
  <2>1. CASE ExportWeights
    <3>1. steps' = steps + 1 /\ doing[Train] = "export" /\ doing'[Train] \in {"data", "rotate"}
      BY <1>0, <2>1, ServicesAre DEF ExportWeights, StoreType
    <3> QED BY <1>3, <2>1, <3>1 DEF Trained, ExportWeights, rows
  <2>2. CASE PruneWeights
    <3>1. steps' = steps /\ doing[Train] = "rotate" /\ doing'[Train] = "publish"
      BY <1>0, <2>2, ServicesAre DEF PruneWeights, StoreType
    <3> QED BY <2>2, <3>1 DEF Trained, PruneWeights, rows
  <2>3. CASE RaiseGate
    <3>1. steps' = steps /\ doing[Train] = "publish" /\ doing'[Train] = "idle"
      BY <1>0, <2>3, ServicesAre DEF RaiseGate, StoreType, trainerVars
    <3> QED BY <2>3, <3>1 DEF Trained, RaiseGate, rows
  <2> QED BY <1>4, <2>1, <2>2, <2>3 DEF TrainerWork
<1>5. CASE ~TrainStep
  <2>1. Leader' = Leader /\ rolled' = rolled
    BY <1>1, <1>4, <1>5 DEF Leader
  <2> QED BY <1>0, <1>1, <1>2, <2>1, SameLeft
<1>6. CASE TrainStep
  <2>1. PICK S \in kSubset(Batch, Ready) : rolled' = IF Critic THEN rolled ELSE rolled \ S
    BY <1>6 DEF TrainStep
  <2>2. CASE Critic
    <3>1. Leader' = Leader /\ rolled' = rolled
      BY <1>1, <2>1, <2>2 DEF Leader
    <3> QED BY <1>0, <1>1, <1>2, <3>1, SameLeft
  <2>3. CASE ~Critic
    <3>1. steps' = steps /\ doing[Train] = "idle" /\ doing'[Train] = "export"
      BY <1>0, <1>6, ServicesAre DEF TrainStep, StoreType
    <3>2. Leader' = Leader + 1
      BY <1>3, <2>3, <3>1 DEF Leader, Trained
    <3>3. Leader * Batch + Cardinality(rolled) <= started /\ IsFiniteSet(rolled)
      BY <1>0 DEF BudgetLeft, BehindCritic
    <3>4. S \in kSubset(Batch, rolled) /\ rolled' = rolled \ S
      BY <2>1, <2>3 DEF Ready
    <3>5. Leader' * Batch + Cardinality(rolled') <= started
      BY <1>3, <3>2, <3>3, <3>4, WindowTaken
    <3>6. Allowance(gatesSeen)' = Allowance(gatesSeen)
          /\ Allowance(Clock(Roll))' = Allowance(Clock(Roll))
      BY <1>1 DEF Allowance, Clock, Train, Score, Roll
    <3> QED BY <1>0, <1>1, <1>2, <3>5, <3>6 DEF BudgetLeft
  <2> QED BY <2>2, <2>3
<1> QED BY <1>5, <1>6

LEMMA LeftRollout ==
  ASSUME Window > 0, RInv, BehindCritic, BudgetLeft, RolloutWork
  PROVE  BudgetLeft'
<1>0. StoreType /\ RunType /\ StoreInv /\ up /\ up' = up
  BY WorkKeeps DEF RInv
<1>1. UNCHANGED <<windows, steps>> /\ doing'[Train] = doing[Train]
  <2>1. doing'[Train] = doing[Train]
    BY <1>0, RolloutMoves, ServicesAre DEF Moves
  <2> QED BY <2>1 DEF RolloutWork, NextBatch, TryAdvanceGate, AcquireGenerationSlot,
                      trainerVars, criticVars
<1>2. Leader' = Leader
  BY <1>1 DEF Leader, Trained
<1>3. /\ Batch \in Nat \ {0} /\ Window \in Nat /\ gatesSeen \in Nat /\ started \in Nat
      /\ Leader \in Nat
      /\ \A n \in Int : Allowance(n) \in Int
      /\ \A n \in Int : Allowance(n + 1) = Allowance(n) + Batch
  BY BudgetTypes
<1>4. /\ started <= IF gatesSeen = 0 THEN 0 ELSE Allowance(gatesSeen)
      /\ Saving(Roll) => started = Allowance(Clock(Roll))
      /\ Leader * Batch + Cardinality(rolled) <= started
      /\ IsFiniteSet(rolled)
  BY <1>0 DEF BudgetLeft, BehindCritic
<1>5. GenerationBudget = IF gatesSeen = 0 THEN 0 ELSE Allowance(gatesSeen)
  BY DEF GenerationBudget, Allowance
<1>6. Clock(Roll)' = gatesSeen' - 1
  BY DEF Clock, Train, Score, Roll
<1>7. CASE NextBatch
  <2>1. UNCHANGED <<gatesSeen, started, rolled, doing>>
    BY <1>7 DEF NextBatch, rows
  <2> QED BY <1>0, <1>2, <2>1, SameLeft DEF Saving
<1>8. CASE TryAdvanceGate
  <2>1. /\ gatesSeen' = gatesSeen + 1 /\ UNCHANGED <<started, rolled>> /\ Gated
        /\ doing' = [doing EXCEPT ![Roll] = IF SnapshotDue(gatesSeen) THEN "meta" ELSE "idle"]
    BY <1>8 DEF TryAdvanceGate, rows
  <2>2. gatesSeen # 0 => started = Allowance(gatesSeen)
    <3>1. gatesSeen # 0 => started + 1 > Allowance(gatesSeen) /\ started <= Allowance(gatesSeen)
      BY <1>4, <1>5, <2>1 DEF Gated
    <3> DEFINE a == Allowance(gatesSeen)
    <3>2. a \in Int
      BY <1>3
    <3> HIDE DEF a
    <3>3. started + 1 > a /\ started <= a => started = a
      BY <1>3, <3>2
    <3> QED BY <3>1, <3>3 DEF a
  <2>3. started <= Allowance(gatesSeen + 1)
    <3>1. CASE gatesSeen = 0
      <4>1. Allowance(gatesSeen + 1) = Window * Batch
        <5>1. 0 + 1 - 1 + Window = Window
          BY <1>3
        <5> QED BY <3>1, <5>1 DEF Allowance
      <4>2. Window * Batch \in Nat
        BY <1>3
      <4> DEFINE p == Window * Batch
      <4>3. started <= 0 /\ p \in Nat
        BY <1>4, <3>1, <4>2
      <4> HIDE DEF p
      <4>4. started <= p
        BY <1>3, <4>3
      <4> QED BY <4>1, <4>4 DEF p
    <3>2. CASE gatesSeen # 0
      <4> DEFINE a == Allowance(gatesSeen)
      <4>1. Allowance(gatesSeen + 1) = a + Batch /\ a \in Int /\ started <= a
        BY <1>3, <1>4, <3>2
      <4> HIDE DEF a
      <4>2. started <= a + Batch
        BY <1>3, <4>1
      <4> QED BY <4>1, <4>2
    <3> QED BY <3>1, <3>2
  <2>4. gatesSeen + 1 # 0 /\ gatesSeen + 1 - 1 = gatesSeen
    BY <1>3
  <2>5. Saving(Roll)' => gatesSeen # 0
    <3>1. doing'[Roll] = IF SnapshotDue(gatesSeen) THEN "meta" ELSE "idle"
      BY <1>0, <2>1, ServicesAre DEF StoreType
    <3>2. SnapshotDue(gatesSeen) => gatesSeen # 0
      BY <1>3 DEF SnapshotDue, Due
    <3> QED BY <3>1, <3>2 DEF Saving
  <2>6. /\ Allowance(gatesSeen)' = Allowance(gatesSeen + 1)
        /\ Allowance(Clock(Roll))' = Allowance(gatesSeen)
    <3>2. gatesSeen' = gatesSeen + 1
      BY <2>1
    <3>1. Clock(Roll)' = gatesSeen
      <4>1. \A g, h, c : g \in Nat /\ h = g + 1 /\ c = h - 1 => c = g
        OBVIOUS
      <4> QED BY <1>3, <1>6, <3>2, <4>1, Zenon
    <3>3. /\ Allowance(gatesSeen)' = (gatesSeen' - 1 + Window) * Batch
          /\ Allowance(Clock(Roll))' = (Clock(Roll)' - 1 + Window) * Batch
      BY Zenon DEF Allowance
    <3>4. \A a, b : a = b => (a - 1 + Window) * Batch = Allowance(b)
      BY DEF Allowance
    <3>5. /\ (gatesSeen' - 1 + Window) * Batch = Allowance(gatesSeen + 1)
          /\ (Clock(Roll)' - 1 + Window) * Batch = Allowance(gatesSeen)
      BY <3>1, <3>2, <3>4, Zenon
    <3> QED BY <3>3, <3>5, Zenon
  <2> QED BY <1>0, <1>2, <1>4, <2>1, <2>2, <2>3, <2>4, <2>5, <2>6 DEF BudgetLeft
<1>9. CASE AcquireGenerationSlot
  <2>1. /\ UNCHANGED <<gatesSeen, doing>> /\ ~Gated /\ doing[Roll] = "idle"
        /\ started' = started + 1 /\ rolled' = rolled \cup {next}
    BY <1>9 DEF AcquireGenerationSlot, AtSlot
  <2>2. gatesSeen # 0 /\ started + 1 <= Allowance(gatesSeen)
    <3>1. gatesSeen # 0 /\ ~(started + 1 > Allowance(gatesSeen))
      BY <1>5, <2>1 DEF Gated
    <3>2. Allowance(gatesSeen) \in Int
      BY <1>3
    <3> QED BY <1>3, <3>1, <3>2
  <2>3. Leader * Batch + Cardinality(rolled \cup {next}) <= started + 1
    <3>1. /\ Cardinality(rolled \cup {next}) \in Nat /\ Cardinality(rolled) \in Nat
          /\ Cardinality(rolled \cup {next}) <= Cardinality(rolled) + 1
      <4>1. /\ IsFiniteSet(rolled \cup {next})
            /\ Cardinality(rolled \cup {next}) =
                 IF next \in rolled THEN Cardinality(rolled) ELSE Cardinality(rolled) + 1
        BY <1>4, FS_AddElement
      <4>2. Cardinality(rolled \cup {next}) \in Nat /\ Cardinality(rolled) \in Nat
        BY <1>4, <4>1, FS_CardinalityType
      <4> QED BY <4>1, <4>2
    <3> DEFINE p == Leader * Batch
               r == Cardinality(rolled)
               q == Cardinality(rolled \cup {next})
    <3>2. p \in Int /\ q \in Int /\ r \in Int /\ q <= r + 1 /\ p + r <= started
      BY <1>3, <1>4, <3>1
    <3> HIDE DEF p, q, r
    <3>3. p + q <= started + 1
      BY <1>3, <3>2
    <3> QED BY <3>3 DEF p, q
  <2>4. ~Saving(Roll)'
    BY <2>1 DEF Saving
  <2>5. Allowance(gatesSeen)' = Allowance(gatesSeen)
    BY <2>1 DEF Allowance
  <2> QED BY <1>0, <1>2, <2>1, <2>2, <2>3, <2>4, <2>5 DEF BudgetLeft
<1> QED BY <1>7, <1>8, <1>9 DEF RolloutWork

LEMMA LeftStart ==
  ASSUME Window > 0, RInv, StreamInv, SnapshotsPaced, Start
  PROVE  BudgetLeft'
<1> DEFINE n == resume[0]
<1>1. n \in Nat /\ Cold \in Nat /\ (~Critic => Cold = 0) /\ ~up /\ (n > 0 => n \in Steps)
      /\ Batch \in Nat \ {0} /\ Window \in Nat
  BY Agreed, RunAssumption
<1>2. /\ windows' = (IF Critic THEN n ELSE 0) /\ gatesSeen' = n
      /\ \A s \in Services : doing'[s] = "idle"
      /\ started' = RestoredStarted(n) /\ rolled' = rolled
  BY DEF Start, RestoredGates, rows
<1>3. steps' = IF n > Cold THEN n - Cold ELSE 0
  BY StartClocks
<1>4. doing'[Train] = "idle" /\ ~Saving(Roll)'
  BY <1>2, ServicesAre DEF Saving
<1>5. Leader' = n
  <2>1. CASE Critic
    BY <1>2, <2>1 DEF Leader
  <2>2. CASE ~Critic
    <3>1. steps' = n
      BY <1>1, <1>3, <2>2
    <3>2. Trained' = steps' + 0
      BY <1>4 DEF Trained
    <3>3. n + 0 = n
      BY <1>1
    <3> QED BY <2>2, <3>1, <3>2, <3>3 DEF Leader
  <2> QED BY <2>1, <2>2
<1>6. rolled = {} /\ Cardinality(rolled') = 0
  BY <1>1, <1>2, FS_EmptySet DEF StreamInv
<1>7. started' = IF n > 0 THEN Allowance(n) ELSE 0
  <2>1. CASE n > 0
    <3> DEFINE c == Content(disk[Roll][n].meta)
    <3>1. disk[Roll][n].meta = {c}
      BY <2>1, Restored
    <3> HIDE DEF c
    <3>2. c.started = Allowance(n)
      BY <1>1, <2>1, <3>1 DEF SnapshotsPaced
    <3>3. started' = c.started
      BY <1>2, <2>1 DEF RestoredStarted, c
    <3> QED BY <2>1, <3>2, <3>3
  <2>2. CASE ~(n > 0)
    BY <1>2, <2>2 DEF RestoredStarted
  <2> QED BY <2>1, <2>2
<1>8. Allowance(gatesSeen)' = Allowance(n)
  BY <1>2 DEF Allowance
<1>9. n * Batch \in Int /\ (n > 0 => n * Batch <= Allowance(n) /\ Allowance(n) \in Int)
      /\ (n = 0 => n * Batch = 0)
  <2>1. n * Batch \in Int /\ (n = 0 => n * Batch = 0)
    BY <1>1
  <2>2. n <= n - 1 + Window /\ n - 1 + Window \in Int
    BY <1>1
  <2>3. n * Batch <= (n - 1 + Window) * Batch /\ (n - 1 + Window) * Batch \in Int
    BY <1>1, <2>2, Multiples
  <2> QED BY <2>1, <2>3 DEF Allowance
<1>10. Leader' * Batch + Cardinality(rolled') <= started'
  <2> DEFINE p == n * Batch
             a == Allowance(n)
  <2>1. p \in Int /\ (n > 0 => p <= a /\ a \in Int) /\ (n = 0 => p = 0)
    BY <1>9
  <2>2. started' = (IF n > 0 THEN a ELSE 0) /\ Leader' * Batch = p
    BY <1>5, <1>7
  <2> HIDE DEF p, a
  <2>3. p + 0 <= IF n > 0 THEN a ELSE 0
    BY <1>1, <2>1
  <2> QED BY <1>6, <2>2, <2>3
<1>11. started' <= IF gatesSeen' = 0 THEN 0 ELSE Allowance(gatesSeen)'
  <2> DEFINE a == Allowance(n)
  <2>1. n > 0 => a \in Int
    BY <1>9
  <2> HIDE DEF a
  <2>2. n > 0 => a <= a
    BY <2>1
  <2>3. (IF n > 0 THEN a ELSE 0) <= IF n = 0 THEN 0 ELSE a
    BY <1>1, <2>2
  <2> QED BY <1>2, <1>7, <1>8, <2>3 DEF a
<1> QED BY <1>4, <1>10, <1>11 DEF BudgetLeft

LEMMA SnapshotsNext ==
  ASSUME RInv, BudgetLeft, SnapshotsPaced, [Next]_vars
  PROVE  SnapshotsPaced'
<1>0. StoreType /\ RunType /\ StoreInv
  BY DEF RInv
<1>1. ASSUME disk' = disk PROVE SnapshotsPaced'
  BY <1>1 DEF SnapshotsPaced, Allowance
<1>2. ASSUME \A n \in Steps : \A c \in disk'[Roll][n].meta :
                c \in disk[Roll][n].meta \/ c.started = Allowance(n)
      PROVE  SnapshotsPaced'
  BY <1>2 DEF SnapshotsPaced, Allowance
<1>3. CASE DropNewerThan
  <2>1. \A n \in Steps : disk'[Roll][n].meta = disk[Roll][n].meta \/ disk'[Roll][n].meta = {}
    BY <1>0, <1>3, DropStepIs, ServicesAre
       DEF FilesTaken, MarkerTaken, DropsDone, store, NoShard
  <2> QED BY <1>2, <2>1
<1>4. CASE \E s \in Services : SaveStep(s)
  <2>1. PICK s \in Services : SaveStep(s)
    BY <1>4
  <2>2. up
    BY <2>1, SavesWhenUp
  <2>3. CASE MetaWritten(s)
    <3>1. s = Roll => started = Allowance(Clock(Roll))
      BY <2>2, <2>3 DEF BudgetLeft, MetaWritten, Saving
    <3>2. Snapshot(Roll).started = started
      BY ClockIs
    <3>3. ASSUME NEW n \in Steps, NEW c \in disk'[Roll][n].meta
          PROVE  c \in disk[Roll][n].meta \/ c.started = Allowance(n)
      <4>1. CASE s = Roll /\ n = Clock(Roll)
        <5>1. disk'[Roll][n].meta = {Snapshot(Roll)}
          BY <2>3, <4>1, ServicesAre DEF MetaWritten
        <5>2. c = Snapshot(Roll)
          BY <5>1
        <5> QED BY <3>1, <3>2, <4>1, <5>2
      <4>2. CASE ~(s = Roll /\ n = Clock(Roll))
        <5>1. disk'[Roll][n].meta = disk[Roll][n].meta
          BY <2>3, <4>2, ServicesAre DEF MetaWritten
        <5> QED BY <5>1
      <4> QED BY <4>1, <4>2
    <3> QED BY <1>2, <3>3
  <2>4. CASE ~MetaWritten(s)
    <3> DEFINE Spared == \A n \in Steps :
                 disk'[Roll][n].meta = disk[Roll][n].meta \/ disk'[Roll][n].meta = {}
    <3>0. Roll \in Services
      BY ServicesAre
    <3>2. DirWritten(s) \/ Marked(s) => Spared
      BY <3>0 DEF DirWritten, Marked
    <3>3. (\E n \in Stale(s) : MarkerTaken(s, n)) => Spared
      BY <3>0 DEF MarkerTaken
    <3>4. FilesTaken(s) => Spared
      BY <3>0 DEF FilesTaken, NoShard
    <3>5. SaveOver(s) => Spared
      BY DEF SaveOver, store
    <3>6. \/ DirWritten(s) \/ Marked(s) \/ FilesTaken(s) \/ SaveOver(s)
          \/ \E n \in Stale(s) : MarkerTaken(s, n)
      BY <1>0, <2>1, <2>4, SaveIs
    <3> HIDE DEF Spared
    <3>7. Spared
      BY <3>2, <3>3, <3>4, <3>5, <3>6
    <3>1. \A n \in Steps : disk'[Roll][n].meta = disk[Roll][n].meta \/ disk'[Roll][n].meta = {}
      BY <3>7 DEF Spared
    <3> QED BY <1>2, <3>1
  <2> QED BY <2>3, <2>4
<1>5. CASE \E r \in Ranks : Look(r)
  BY <1>0, <1>1, <1>5, LookIs DEF store
<1>6. CASE Start \/ Crash
  BY <1>1, <1>6 DEF Start, Crash, store
<1>7. CASE RolloutWork \/ CriticWork \/ TrainerWork
  BY <1>0, <1>1, <1>7, WorkKeeps DEF store
<1>8. CASE UNCHANGED vars
  BY <1>1, <1>8 DEF vars, store
<1> QED BY <1>3, <1>4, <1>5, <1>6, <1>7, <1>8, StepCases

LEMMA BudgetIs == BudgetInv <=> SnapshotsPaced /\ BudgetLeft
BY DEF BudgetInv, SnapshotsPaced, BudgetLeft

LEMMA LeftNext ==
  ASSUME Window > 0, RInv, StreamInv, BehindCritic, SnapshotsPaced, BudgetLeft, [Next]_vars
  PROVE  BudgetLeft'
<1>0. StoreType /\ RunType
  BY DEF RInv
<1>1. CASE Crash
  BY <1>1 DEF Crash, BudgetLeft
<1>2. CASE DropNewerThan \/ \E r \in Ranks : Look(r)
  <2>1. ~up /\ up' = up
    BY <1>0, <1>2, LooksBefore, LookIs, DropsBefore, DropStepIs
  <2> QED BY <2>1 DEF BudgetLeft
<1>3. CASE UNCHANGED vars
  <2>1. UNCHANGED <<up, gatesSeen, started, doing, rolled, windows, steps>>
    BY <1>3 DEF vars, trainerVars, criticVars, rolloutVars, rows
  <2> QED BY <1>0, <2>1, SameLeft DEF Leader, Trained, Saving
<1> QED BY <1>1, <1>2, <1>3, StepCases, LeftSave, LeftRollout, LeftCritic, LeftTrainer, LeftStart

LEMMA BudgetStep ==
  ASSUME Window > 0, RInv, StreamInv, BehindCritic, BudgetInv, [Next]_vars
  PROVE  BudgetInv'
<1>1. SnapshotsPaced /\ BudgetLeft
  BY BudgetIs
<1>2. BudgetLeft' /\ SnapshotsPaced'
  BY <1>1, LeftNext, SnapshotsNext
<1>3. (BudgetInv <=> SnapshotsPaced /\ BudgetLeft)'
  BY BudgetIs, PTL
<1> QED BY <1>2, <1>3

-----------------------------------------------------------------------------
(* What is saved.                                                          *)

(* A service that comes to a step it has to save begins the save at once.  *)
LEMMA SavesAtOnce ==
  ASSUME RInv, RolloutWork \/ CriticWork \/ TrainerWork, NEW s \in Services, NEW n \in Steps,
         n > resume[0], Through(s, n)'
  PROVE  Through(s, n)
<1>0. StoreType /\ RunType /\ StoreInv /\ up /\ up' = up
  BY WorkKeeps DEF RInv
<1>1. PICK t \in Services : Moves(t)
  BY <1>0, WorkMoves
<1>2. n \in Nat /\ Due(n) /\ n \in Int
  BY DEF Steps
<1>3. gatesSeen \in Nat /\ windows \in Nat /\ steps \in Nat /\ Cold \in Nat
  BY BudgetTypes
<1>4. n <= Clock(s)' /\ (Saving(s)' => n < Clock(s)')
  BY DEF Through
<1>5. CASE t # s
  <2>1. Clock(s)' = Clock(s) /\ doing'[s] = doing[s]
    BY <1>1, <1>5 DEF Moves
  <2>2. Saving(s)' <=> Saving(s)
    BY <2>1 DEF Saving
  <2> QED BY <1>4, <2>1, <2>2 DEF Through
<1>6. CASE t = s
  <2>1. ~Saving(s)
    BY <1>1, <1>6 DEF Moves, Saving
  <2>2. n <= Clock(s)
    <3>1. CASE Clock(s)' = Clock(s)
      BY <1>4, <3>1
    <3>2. CASE RolloutWork /\ Clock(s)' # Clock(s)
      <4>1. s = Roll
        <5>1. Moves(Roll)
          BY <1>0, <3>2, RolloutMoves
        <5> QED BY <3>2, <5>1 DEF Moves
      <4>2. Clock(s) = gatesSeen - 1 /\ Clock(s)' = gatesSeen' - 1
        BY <4>1, ClockIs DEF Clock, Train, Score, Roll
      <4>3. TryAdvanceGate
        BY <3>2, <4>2 DEF RolloutWork, NextBatch, AcquireGenerationSlot
      <4>4. gatesSeen' = gatesSeen + 1
            /\ doing'[Roll] = IF SnapshotDue(gatesSeen) THEN "meta" ELSE "idle"
        BY <1>0, <4>3, ServicesAre DEF TryAdvanceGate, StoreType
      <4>5. Clock(s)' = gatesSeen
        <5>1. \A g, h, c : g \in Nat /\ h = g + 1 /\ c = h - 1 => c = g
          OBVIOUS
        <5> QED BY <1>3, <4>2, <4>4, <5>1, Zenon
      <4>6. n # gatesSeen
        <5> SUFFICES ASSUME n = gatesSeen PROVE FALSE
          OBVIOUS
        <5>1. SnapshotDue(gatesSeen)
          BY <1>2 DEF SnapshotDue
        <5>2. Saving(s)'
          BY <4>1, <4>4, <5>1 DEF Saving
        <5>3. n < n
          BY <1>4, <4>5, <5>2
        <5> QED BY <1>2, <5>3
      <4>7. n <= gatesSeen
        BY <1>4, <4>5
      <4> QED BY <1>2, <1>3, <4>2, <4>6, <4>7
    <3>3. CASE CriticWork /\ Clock(s)' # Clock(s)
      <4>1. s = Score
        <5>1. Moves(Score)
          BY <1>0, <3>3, CriticMoves
        <5> QED BY <3>3, <5>1 DEF Moves
      <4>2. Clock(s) = windows /\ Clock(s)' = windows'
        BY <4>1, ClockIs DEF Clock, Train, Score, Roll
      <4>3. ScoreWindow
        BY <3>3, <4>2 DEF CriticWork, PublishScores
      <4>4. windows' = windows + 1
            /\ doing'[Score] = IF Due(windows + 1) THEN "data" ELSE "publish"
        BY <1>0, <4>1, <4>3 DEF ScoreWindow, StoreType
      <4>5. n # windows + 1
        <5> SUFFICES ASSUME n = windows + 1 PROVE FALSE
          OBVIOUS
        <5>1. Saving(s)'
          BY <1>2, <4>1, <4>4 DEF Saving
        <5>2. n < n
          BY <1>4, <4>2, <4>4, <5>1
        <5> QED BY <1>2, <5>2
      <4>6. n <= windows + 1
        BY <1>4, <4>2, <4>4
      <4> QED BY <1>2, <1>3, <4>2, <4>5, <4>6
    <3>4. CASE TrainerWork /\ Clock(s)' # Clock(s)
      <4>1. s = Train
        <5>1. Moves(Train)
          BY <1>0, <3>4, TrainerMoves
        <5> QED BY <3>4, <5>1 DEF Moves
      <4>2. Clock(s) = steps + Cold /\ Clock(s)' = steps' + Cold
        BY <4>1, ClockIs DEF Clock, Train, Score, Roll
      <4>3. ExportWeights
        BY <3>4, <4>2 DEF TrainerWork, TrainStep, PruneWeights, RaiseGate, trainerVars
      <4>4. steps' = steps + 1
            /\ doing'[Train] = IF Due(steps' + Cold) THEN "data" ELSE "rotate"
        BY <1>0, <4>1, <4>3 DEF ExportWeights, StoreType
      <4>5. n # Clock(s)'
        <5> SUFFICES ASSUME n = Clock(s)' PROVE FALSE
          OBVIOUS
        <5>1. Saving(s)'
          BY <1>2, <4>1, <4>2, <4>4 DEF Saving
        <5>2. n < n
          BY <1>4, <5>1
        <5> QED BY <1>2, <5>2
      <4>6. Clock(s)' = steps + 1 + Cold
        BY <4>2, <4>4
      <4> QED BY <1>2, <1>3, <1>4, <4>2, <4>5, <4>6
    <3> QED BY <3>1, <3>2, <3>3, <3>4
  <2> QED BY <2>1, <2>2 DEF Through
<1> QED BY <1>5, <1>6

LEMMA SavedWork ==
  ASSUME RInv, SavedInv, RolloutWork \/ CriticWork \/ TrainerWork
  PROVE  SavedInv'
<1>1. up /\ up' = up /\ disk' = disk /\ resume' = resume
  BY WorkKeeps DEF RInv, store, launch
<1>2. ResumePoint' = ResumePoint /\ \A s, n : IsComplete(s, n)' = IsComplete(s, n)
  BY <1>1, PointOf
<1>3. \A s \in Services : \A n \in Steps : n > resume[0] /\ Through(s, n)' => Through(s, n)
  BY SavesAtOnce
<1> QED BY <1>1, <1>2, <1>3 DEF SavedInv

LEMMA SavedStart ==
  ASSUME RInv, Start
  PROVE  SavedInv'
<1>1. /\ resume[0] \in Nat /\ resume[0] = ResumePoint /\ Cold \in Nat
  BY Agreed, RunAssumption
<1>2. disk' = disk /\ resume' = resume
  BY DEF Start, store, launch
<1>3. ResumePoint' = ResumePoint
  BY <1>2, PointOf
<1>4. ASSUME NEW s \in Services, NEW n \in Steps, n > resume[0], s = Train => n > Cold,
             n <= Clock(s)'
      PROVE  FALSE
  <2>1. n \in Nat
    BY DEF Steps
  <2>2. CASE s = Train
    BY <1>1, <1>4, <2>1, <2>2, StartClocks
  <2>3. CASE s = Score
    <3>1. Clock(s)' = resume[0]
      BY <2>3, StartClocks, ServicesAre
    <3> QED BY <1>1, <1>4, <2>1, <3>1
  <2>4. CASE s = Roll
    <3>1. Clock(s)' = resume[0] - 1
      BY <2>4, StartClocks
    <3> QED BY <1>1, <1>4, <2>1, <3>1
  <2> QED BY <2>2, <2>3, <2>4, ServicesAre
<1> QED BY <1>1, <1>2, <1>3, <1>4 DEF SavedInv, Through

LEMMA SavedSave ==
  ASSUME Paced, RInv, StreamInv, BehindCritic, BudgetInv, SavedInv,
         NEW s \in Services, SaveStep(s)
  PROVE  SavedInv'
<1>0. StoreType /\ RunType /\ up
  BY SavesWhenUp DEF RInv
<1>1. up' = up /\ resume' = resume /\ \A t : Clock(t)' = Clock(t)
  <2>1. UNCHANGED <<up, resume, steps, windows, gatesSeen>>
    BY DEF SaveStep, others, launch, trainerVars, criticVars, rolloutVars
  <2> QED BY <2>1 DEF Clock
<1>2. ResumePoint' >= ResumePoint
  BY SavePoint
<1>3. ResumePoint \in Nat /\ ResumePoint' \in Nat /\ resume[0] \in Nat
  <2>1. (ResumePoint \in Resumable \cup {0})'
    BY ResumePointIs, PTL
  <2>2. ResumePoint' \in Steps \cup {0}
    BY <2>1 DEF Resumable
  <2> QED BY <2>2, BudgetTypes DEF Steps
<1>4. /\ resume[0] <= ResumePoint
      /\ \A t \in Services : \A n \in Steps :
           n > resume[0] /\ (t = Train => n > Cold) /\ Through(t, n)
             => IsComplete(t, n) \/ ResumePoint > n
  BY <1>0 DEF SavedInv
<1>5. \A t \in Services \ {s} : Saving(t)' <=> Saving(t)
  BY SaveKeeps DEF Saving
<1>6. ASSUME NEW t \in Services, NEW n \in Steps, n > resume[0], t = Train => n > Cold,
             Through(t, n)'
      PROVE  disk'[t][n].mark \/ ResumePoint' > n
  <2>0. n \in Nat
    BY DEF Steps
  <2>1. n <= Clock(t) /\ (Saving(t)' => n < Clock(t))
    BY <1>1, <1>6 DEF Through
  <2>2. ASSUME Through(t, n) PROVE disk[t][n].mark \/ ResumePoint' > n
    <3>1. IsComplete(t, n) \/ ResumePoint > n
      BY <1>4, <1>6, <2>2
    <3> QED BY <1>2, <1>3, <2>0, <3>1 DEF IsComplete
  <2>3. CASE /\ \A q \in Services, m \in Steps : disk'[q][m].mark <=> disk[q][m].mark
             /\ Saving(s)' <=> Saving(s)
    <3>1. Through(t, n)
      BY <1>5, <2>1, <2>3 DEF Through
    <3> QED BY <2>2, <2>3, <3>1
  <2>4. CASE /\ \A q \in Services, m \in Steps :
                  disk'[q][m].mark <=> disk[q][m].mark \/ (q = s /\ m = Clock(s))
             /\ ~Saving(s)'
    <3>1. CASE t = s /\ n = Clock(s)
      BY <2>4, <3>1
    <3>2. CASE ~(t = s /\ n = Clock(s))
      <4>1. t = s => n < Clock(t)
        <5>1. Clock(t) \in Int
          BY <1>0, ClockType
        <5> QED BY <2>0, <2>1, <3>2, <5>1
      <4>2. Through(t, n)
        BY <1>5, <2>1, <4>1 DEF Through
      <4> QED BY <2>2, <2>4, <4>2
    <3> QED BY <3>1, <3>2
  <2>5. CASE /\ \E d \in Stale(s) : \A q \in Services, m \in Steps :
                  disk'[q][m].mark <=> disk[q][m].mark /\ ~(q = s /\ m = d)
             /\ Saving(s)' <=> Saving(s)
    <3>1. PICK d \in Stale(s) : \A q \in Services, m \in Steps :
                  disk'[q][m].mark <=> disk[q][m].mark /\ ~(q = s /\ m = d)
      BY <2>5
    <3>2. Through(t, n)
      BY <1>5, <2>1, <2>5 DEF Through
    <3>3. disk[t][n].mark \/ ResumePoint' > n
      BY <2>2, <3>2
    <3>4. CASE t = s /\ n = d
      <4>1. d < ResumePoint
        BY <1>0, StaleIsPast
      <4> QED BY <1>2, <1>3, <2>0, <3>4, <4>1
    <3>5. CASE ~(t = s /\ n = d)
      BY <3>1, <3>3, <3>5
    <3> QED BY <3>4, <3>5
  <2> QED BY <2>3, <2>4, <2>5, SaveTakes
<1>7. resume'[0] <= ResumePoint'
  BY <1>1, <1>2, <1>3, <1>4
<1> QED BY <1>1, <1>6, <1>7 DEF SavedInv, IsComplete

LEMMA SavedStep ==
  ASSUME Paced, RInv, StreamInv, BehindCritic, BudgetInv, SavedInv, [Next]_vars
  PROVE  SavedInv'
<1>0. StoreType /\ RunType
  BY DEF RInv
<1>1. CASE Crash
  BY <1>1 DEF Crash, SavedInv
<1>2. CASE DropNewerThan \/ \E r \in Ranks : Look(r)
  <2>1. ~up /\ up' = up
    BY <1>0, <1>2, LooksBefore, LookIs, DropsBefore, DropStepIs
  <2> QED BY <2>1 DEF SavedInv
<1>3. CASE UNCHANGED vars
  <2>1. /\ UNCHANGED <<up, disk, resume, doing, steps, windows, gatesSeen>>
    BY <1>3 DEF vars, store, launch, trainerVars, criticVars, rolloutVars
  <2>2. ResumePoint' = ResumePoint /\ \A s, n : IsComplete(s, n)' = IsComplete(s, n)
    BY <2>1, PointOf
  <2>3. \A s \in Services : \A n \in Steps : Through(s, n)' => Through(s, n)
    BY <2>1 DEF Through, Saving, Clock
  <2> QED BY <2>1, <2>2, <2>3 DEF SavedInv
<1> QED BY <1>1, <1>2, <1>3, StepCases, SavedSave, SavedWork, SavedStart

LEMMA SavedAlways ==
  ASSUME Paced
  PROVE  Spec => [](RInv /\ StreamInv /\ BehindCritic /\ BudgetInv /\ SavedInv)
<1>1. Init => StreamInv /\ BehindCritic /\ BudgetInv /\ SavedInv
  <2> SUFFICES ASSUME Init PROVE StreamInv /\ BehindCritic /\ BudgetInv /\ SavedInv
    OBVIOUS
  <2>1. ~up /\ rolled = {} /\ scored = {} /\ held = {}
    BY DEF Init
  <2>2. \A n \in Steps : disk[Roll][n].meta = {}
    BY ServicesAre DEF Init, EmptyStore, NoShard
  <2> QED BY <2>1, <2>2, FS_EmptySet DEF StreamInv, BehindCritic, BudgetInv, SavedInv
<1>2. Window > 0
  BY DEF Paced
<1>3. RInv /\ StreamInv /\ BehindCritic /\ BudgetInv /\ SavedInv /\ [Next]_vars
        => StreamInv' /\ BehindCritic' /\ BudgetInv' /\ SavedInv'
  BY <1>2, StreamStep, PaceStep, BudgetStep, SavedStep
<1> QED BY <1>1, <1>3, RInvAlways, PTL DEF Spec

(* Once all services have a step to resume from, that one or a later one   *)
(* is there for good, although each rotates its shards on its own count    *)
(* (StateStore.prune), under way at different windows, and rank 0 deletes  *)
(* what is newer at a launch.  The reason is the pacing of the rollout: it *)
(* saves a step before it grants the budget with which any service could   *)
(* get Keep shards further (_generation_budget); a pacing window beyond    *)
(* Keep - 1 intervals, or none at all, breaks it.                          *)
THEOREM ResumePointStays ==
  ASSUME Paced
  PROVE  Spec => ResumePointKept
<1>1. RInv /\ StreamInv /\ BehindCritic /\ BudgetInv /\ SavedInv /\ [Next]_vars
        => [ResumePoint' >= ResumePoint]_vars
  BY PointNext
<1> QED BY <1>1, SavedAlways, PTL DEF Spec, ResumePointKept

-----------------------------------------------------------------------------
(* A window can always be made up.                                         *)

(* The groups that the crash took and the budget still counts: those the   *)
(* restored snapshot had started and the pulses had not yet paid for.      *)
Lost == IF resume[0] = 0 THEN 0 ELSE (Window - 1) * Batch

(* A row is in one place, and the next prompt is in none.                  *)
PlacedInv ==
  up =>
    /\ \A p \in rolled \cup scored \cup held : p < next
    /\ rolled \cap scored = {} /\ rolled \cap held = {} /\ held \cap scored = {}

(* What is started has been taken by the service that leads, waits for it, *)
(* or was lost; what a critic is through with, the trainer has had or is   *)
(* waiting for it.                                                         *)
AccountInv ==
  up =>
    /\ started <= Leader * Batch + Cardinality(rolled) + Lost
    /\ Critic /\ windows > Cold =>
         (windows - Cold) * Batch
           <= Trained * Batch + Cardinality(scored) + Cardinality(held)

LEMMA PlacedStep ==
  ASSUME RInv, StreamInv, PlacedInv, [Next]_vars
  PROVE  PlacedInv'
<1>0. StoreType /\ RunType /\ StoreInv
  BY DEF RInv
<1>1. ASSUME up' => up, UNCHANGED <<rolled, scored, held, next>> PROVE PlacedInv'
  BY <1>1 DEF PlacedInv
<1>2. CASE Crash
  BY <1>2 DEF Crash, PlacedInv
<1>3. CASE DropNewerThan \/ \E r \in Ranks : Look(r)
  <2>1. ~up /\ up' = up
    BY <1>0, <1>3, LooksBefore, LookIs, DropsBefore, DropStepIs
  <2> QED BY <2>1 DEF PlacedInv
<1>4. CASE UNCHANGED vars
  BY <1>1, <1>4 DEF vars, rows, criticVars, rolloutVars
<1>5. CASE Start
  <2>1. rolled' = {} /\ scored' = {} /\ held' = {}
    <3>1. ~up /\ UNCHANGED <<rolled, scored, held>>
      BY <1>5 DEF Start, rows
    <3> QED BY <3>1 DEF StreamInv
  <2> QED BY <2>1 DEF PlacedInv
<1>6. CASE \E s \in Services : SaveStep(s)
  BY <1>1, <1>6 DEF SaveStep, others, rows, criticVars, rolloutVars
<1>7. CASE RolloutWork
  <2>1. up /\ UNCHANGED <<scored, held>> /\ next \in Nat
    <3>1. UNCHANGED <<scored, held>>
      BY <1>7 DEF RolloutWork, NextBatch, TryAdvanceGate, AcquireGenerationSlot, rows, criticVars
    <3> QED BY <1>0, <1>7, <3>1, WorkKeeps DEF RunType
  <2>2. CASE NextBatch \/ TryAdvanceGate
    <3>1. UNCHANGED <<rolled, next>>
      BY <2>2 DEF NextBatch, TryAdvanceGate, rows
    <3> QED BY <1>1, <2>1, <3>1
  <2>3. CASE AcquireGenerationSlot
    <3>1. rolled' = rolled \cup {next} /\ next' = next + 1
      BY <2>3 DEF AcquireGenerationSlot
    <3>2. /\ \A p \in rolled \cup scored \cup held : p < next
          /\ rolled \cap scored = {} /\ rolled \cap held = {} /\ held \cap scored = {}
      BY <2>1 DEF PlacedInv
    <3>3. next \notin scored /\ next \notin held
      BY <2>1, <3>2
    <3>4. \A p \in rolled' \cup scored' \cup held' : p < next'
      <4>1. \A p \in rolled \cup scored \cup held : p \in Nat
        BY <1>0 DEF RunType
      <4>2. next < next + 1 /\ \A p \in Nat : p < next => p < next + 1
        BY <2>1
      <4> QED BY <2>1, <3>1, <3>2, <4>1, <4>2
    <3> QED BY <2>1, <3>1, <3>2, <3>3, <3>4 DEF PlacedInv
  <2> QED BY <1>7, <2>2, <2>3 DEF RolloutWork
<1>8. CASE CriticWork
  <2>1. up /\ next' = next
    <3>1. next' = next
      BY <1>8 DEF CriticWork, ScoreWindow, PublishScores, rolloutVars
    <3> QED BY <1>0, <1>8, <3>1, WorkKeeps
  <2>2. /\ \A p \in rolled \cup scored \cup held : p < next
        /\ rolled \cap scored = {} /\ rolled \cap held = {} /\ held \cap scored = {}
    BY <2>1 DEF PlacedInv
  <2>3. CASE ScoreWindow
    <3>1. PICK S \in kSubset(Batch, rolled) : held' = S /\ rolled' = rolled \ S /\ scored' = scored
      BY <2>3 DEF ScoreWindow
    <3>2. S \subseteq rolled
      BY DEF kSubset
    <3> QED BY <2>1, <2>2, <3>1, <3>2 DEF PlacedInv
  <2>4. CASE PublishScores
    <3>1. held' = {} /\ rolled' = rolled /\ (scored' = scored \/ scored' = scored \cup held)
      BY <2>4 DEF PublishScores
    <3> QED BY <2>1, <2>2, <3>1 DEF PlacedInv
  <2> QED BY <1>8, <2>3, <2>4 DEF CriticWork
<1>9. CASE TrainerWork
  <2>1. up /\ next' = next /\ held' = held /\ rolled' \subseteq rolled /\ scored' \subseteq scored
    <3>1. next' = next /\ held' = held
      BY <1>9 DEF TrainerWork, TrainStep, ExportWeights, PruneWeights, RaiseGate, rolloutVars,
                  criticVars
    <3>2. rolled' \subseteq rolled /\ scored' \subseteq scored
      BY <1>9 DEF TrainerWork, TrainStep, ExportWeights, PruneWeights, RaiseGate, rows
    <3> QED BY <1>0, <1>9, <3>1, <3>2, WorkKeeps
  <2> QED BY <2>1 DEF PlacedInv
<1> QED BY <1>2, <1>3, <1>4, <1>5, <1>6, <1>7, <1>8, <1>9, StepCases

LEMMA AccountSame ==
  ASSUME AccountInv, up' => up, resume' = resume, Leader' = Leader, Trained' = Trained,
         UNCHANGED <<started, windows, rolled, scored, held>>
  PROVE  AccountInv'
<1>1. Lost' = Lost
  BY DEF Lost
<1> QED BY <1>1 DEF AccountInv

LEMMA AccountStart ==
  ASSUME Window > 0, RInv, StreamInv, SnapshotsPaced, Start
  PROVE  AccountInv'
<1> DEFINE n == resume[0]
<1>1. n \in Nat /\ Cold \in Nat /\ (~Critic => Cold = 0) /\ ~up /\ (n > 0 => n \in Steps)
      /\ Batch \in Nat \ {0} /\ Window \in Nat
  BY Agreed, RunAssumption
<1>2. /\ windows' = (IF Critic THEN n ELSE 0) /\ resume' = resume
      /\ \A s \in Services : doing'[s] = "idle"
      /\ started' = RestoredStarted(n) /\ UNCHANGED <<rolled, scored, held>>
  BY DEF Start, rows, launch
<1>3. steps' = IF n > Cold THEN n - Cold ELSE 0
  BY StartClocks
<1>4. doing'[Train] = "idle"
  BY <1>2, ServicesAre
<1>5. Trained' = steps'
  <2>1. Trained' = steps' + 0 /\ steps' \in Nat
    BY <1>4, StartClocks DEF Trained
  <2>2. \A k \in Nat : k + 0 = k
    OBVIOUS
  <2> QED BY <2>1, <2>2
<1>6. Leader' = n
  <2>1. CASE Critic
    BY <1>2, <2>1 DEF Leader
  <2>2. CASE ~Critic
    <3>1. steps' = n
      BY <1>1, <1>3, <2>2
    <3> QED BY <1>5, <2>2, <3>1 DEF Leader
  <2> QED BY <2>1, <2>2
<1>7. /\ Cardinality(rolled') = 0 /\ Cardinality(scored') = 0 /\ Cardinality(held') = 0
  BY <1>1, <1>2, FS_EmptySet DEF StreamInv
<1>8. started' = IF n > 0 THEN Allowance(n) ELSE 0
  <2>1. CASE n > 0
    <3> DEFINE c == Content(disk[Roll][n].meta)
    <3>1. disk[Roll][n].meta = {c}
      BY <2>1, Restored
    <3> HIDE DEF c
    <3>2. c.started = Allowance(n)
      BY <1>1, <2>1, <3>1 DEF SnapshotsPaced
    <3>3. started' = c.started
      BY <1>2, <2>1 DEF RestoredStarted, c
    <3> QED BY <2>1, <3>2, <3>3
  <2>2. CASE ~(n > 0)
    BY <1>2, <2>2 DEF RestoredStarted
  <2> QED BY <2>1, <2>2
<1>9. started' <= Leader' * Batch + Cardinality(rolled') + Lost'
  <2>1. Lost' = IF n = 0 THEN 0 ELSE (Window - 1) * Batch
    BY <1>2 DEF Lost
  <2>2. CASE n = 0
    <3>1. Leader' * Batch = 0
      BY <1>1, <1>6, <2>2
    <3>2. started' = 0 /\ Lost' = 0
      BY <1>1, <1>8, <2>1, <2>2
    <3> QED BY <1>7, <3>1, <3>2
  <2>3. CASE n # 0
    <3>1. Allowance(n) = n * Batch + (Window - 1) * Batch
      <4>1. \A a, b, k \in Int : (a - 1 + b) * k = a * k + (b - 1) * k
        OBVIOUS
      <4> QED BY <1>1, <4>1 DEF Allowance
    <3> DEFINE x == n * Batch
               y == (Window - 1) * Batch
    <3>2. x \in Int /\ y \in Int
      BY <1>1
    <3>3. started' = x + y /\ Leader' * Batch = x /\ Lost' = y
      BY <1>1, <1>6, <1>8, <2>1, <2>3, <3>1
    <3> HIDE DEF x, y
    <3>4. x + y <= x + 0 + y
      BY <3>2
    <3> QED BY <1>7, <3>3, <3>4
  <2> QED BY <2>2, <2>3
<1>10. ASSUME Critic, windows' > Cold
       PROVE  (windows' - Cold) * Batch
                <= Trained' * Batch + Cardinality(scored') + Cardinality(held')
  <2>1. windows' = n /\ Trained' = n - Cold
    BY <1>2, <1>3, <1>5, <1>10
  <2> DEFINE x == (n - Cold) * Batch
  <2>2. x \in Int
    BY <1>1
  <2>3. (windows' - Cold) * Batch = x /\ Trained' * Batch = x
    BY <2>1
  <2> HIDE DEF x
  <2>4. x <= x + 0 + 0
    BY <2>2
  <2> QED BY <1>7, <2>3, <2>4
<1> QED BY <1>9, <1>10 DEF AccountInv

(* The arithmetic of a window that is taken.                               *)
LEMMA TakenArithmetic ==
  ASSUME NEW l \in Nat, NEW k \in Nat \ {0}, NEW r \in Int, NEW z \in Int, NEW g \in Int,
         g <= l * k + r + z
  PROVE  g <= (l + 1) * k + (r - k) + z
<1> DEFINE x == l * k
<1>1. x \in Int /\ (l + 1) * k = x + k /\ g <= x + r + z
  BY Products
<1> HIDE DEF x
<1>2. g <= (x + k) + (r - k) + z
  BY <1>1
<1> QED BY <1>1, <1>2

LEMMA LostIs == ASSUME RInv PROVE Lost \in Int
<1>1. Window \in Nat /\ Batch \in Nat \ {0}
  BY BudgetTypes
<1>2. (Window - 1) * Batch \in Int
  BY <1>1
<1> QED BY <1>2 DEF Lost

LEMMA AccountCritic ==
  ASSUME RInv, BehindCritic, PlacedInv, AccountInv, CriticWork
  PROVE  AccountInv'
<1>0. StoreType /\ RunType /\ StoreInv /\ up /\ up' = up /\ resume' = resume /\ Critic
  BY WorkKeeps, CriticMoves DEF RInv, launch
<1>1. UNCHANGED <<started, steps>> /\ doing'[Train] = doing[Train]
  <2>1. doing'[Train] = doing[Train]
    BY <1>0, CriticMoves, ServicesAre DEF Moves
  <2> QED BY <2>1 DEF CriticWork, ScoreWindow, PublishScores, rolloutVars, trainerVars
<1>2. Trained' = Trained /\ Lost' = Lost
  BY <1>0, <1>1 DEF Trained, Lost
<1>3. /\ Batch \in Nat \ {0} /\ Cold \in Nat /\ windows \in Nat /\ started \in Nat
      /\ Trained \in Nat /\ Leader \in Nat /\ Lost \in Int /\ Leader = windows
  BY <1>0, BudgetTypes, LostIs DEF Leader
<1>4. /\ IsFiniteSet(rolled) /\ IsFiniteSet(scored) /\ IsFiniteSet(held)
      /\ Cardinality(held) = IF doing[Score] = "idle" THEN 0 ELSE Batch
      /\ Cardinality(rolled) \in Nat /\ Cardinality(scored) \in Nat /\ Cardinality(held) \in Nat
  BY <1>0, FS_CardinalityType DEF BehindCritic
<1>5. /\ started <= Leader * Batch + Cardinality(rolled) + Lost
      /\ windows > Cold =>
           (windows - Cold) * Batch <= Trained * Batch + Cardinality(scored) + Cardinality(held)
  BY <1>0 DEF AccountInv
<1>6. CASE ScoreWindow
  <2>1. PICK S \in kSubset(Batch, rolled) : held' = S /\ rolled' = rolled \ S
    BY <1>6 DEF ScoreWindow
  <2>2. windows' = windows + 1 /\ scored' = scored /\ doing[Score] = "idle"
    BY <1>6 DEF ScoreWindow
  <2>3. /\ Cardinality(rolled') = Cardinality(rolled) - Batch
        /\ Cardinality(held') = Batch /\ Cardinality(held) = 0
    BY <1>4, <2>1, <2>2, TakenFrom DEF kSubset
  <2>4. Leader' = Leader + 1
    BY <1>0, <1>3, <2>2 DEF Leader
  <2>5. started' <= Leader' * Batch + Cardinality(rolled') + Lost'
    <3>1. started <= (Leader + 1) * Batch + (Cardinality(rolled) - Batch) + Lost
      <4> DEFINE r == Cardinality(rolled)
      <4>1. r \in Int /\ started \in Int /\ started <= Leader * Batch + r + Lost
        BY <1>3, <1>4, <1>5
      <4> HIDE DEF r
      <4>2. started <= (Leader + 1) * Batch + (r - Batch) + Lost
        BY <1>3, <4>1, TakenArithmetic
      <4> QED BY <4>2 DEF r
    <3> QED BY <1>1, <1>2, <2>3, <2>4, <3>1
  <2>6. ASSUME windows' > Cold
        PROVE  (windows' - Cold) * Batch
                 <= Trained' * Batch + Cardinality(scored') + Cardinality(held')
    <3> DEFINE t == Trained * Batch
               q == Cardinality(scored)
               w == (windows - Cold) * Batch
    <3>1. t \in Nat /\ q \in Nat /\ w \in Int
      BY <1>3, <1>4
    <3>2. (windows' - Cold) * Batch = w + Batch
      <4>1. windows' - Cold = (windows - Cold) + 1 /\ windows - Cold \in Int
        BY <1>3, <2>2
      <4> QED BY <1>3, <4>1, Products
    <3>3. w <= t + q
      <4>1. CASE windows > Cold
        <5>1. w <= t + q + 0
          BY <1>5, <2>3, <4>1
        <5> HIDE DEF t, q, w
        <5> QED BY <3>1, <5>1
      <4>2. CASE ~(windows > Cold)
        <5>1. windows - Cold <= 0 /\ windows - Cold \in Int
          BY <1>3, <4>2
        <5>2. w <= 0 * Batch
          BY <1>3, <5>1, Multiples
        <5>3. 0 * Batch = 0
          BY <1>3
        <5> HIDE DEF t, q, w
        <5> QED BY <3>1, <5>2, <5>3
      <4> QED BY <4>1, <4>2
    <3>4. Trained' * Batch = t /\ Cardinality(scored') = q
      BY <1>2, <2>2
    <3> HIDE DEF t, q, w
    <3>5. w + Batch <= t + q + Batch
      BY <1>3, <3>1, <3>3
    <3> QED BY <2>3, <3>2, <3>4, <3>5
  <2> QED BY <2>5, <2>6 DEF AccountInv
<1>7. CASE PublishScores
  <2>1. UNCHANGED <<windows, rolled>> /\ held' = {}
        /\ (windows > Cold => scored' = scored \cup held)
    BY <1>3, <1>7 DEF PublishScores
  <2>2. Leader' = Leader
    BY <1>0, <2>1 DEF Leader
  <2>3. ASSUME windows > Cold
        PROVE  Cardinality(scored') + Cardinality(held') = Cardinality(scored) + Cardinality(held)
    <3>1. scored \cap held = {}
      BY <1>0 DEF PlacedInv
    <3>2. Cardinality(scored \cup held) = Cardinality(scored) + Cardinality(held) - Cardinality({})
      BY <1>4, <3>1, FS_Union
    <3>3. Cardinality(scored \cup held) = Cardinality(scored) + Cardinality(held)
      BY <1>4, <3>2, FS_EmptySet
    <3>4. scored' = scored \cup held /\ Cardinality(held') = 0
      BY <2>1, <2>3, FS_EmptySet
    <3> QED BY <1>4, <3>3, <3>4
  <2>4. ASSUME windows > Cold
        PROVE  (windows - Cold) * Batch
                 <= Trained * Batch + Cardinality(scored') + Cardinality(held')
    <3> DEFINE t == Trained * Batch
               w == (windows - Cold) * Batch
               a == Cardinality(scored)
               b == Cardinality(held)
               c == Cardinality(scored')
               d == Cardinality(held')
    <3>1. t \in Int /\ w \in Int /\ a \in Nat /\ b \in Nat /\ c \in Nat /\ d \in Nat
      <4>0. IsFiniteSet(scored \cup held) /\ IsFiniteSet({})
        BY <1>4, FS_Union, FS_EmptySet
      <4>1. IsFiniteSet(scored') /\ IsFiniteSet(held')
        BY <2>1, <2>4, <4>0
      <4> QED BY <1>3, <1>4, <4>1, FS_CardinalityType
    <3>2. w <= t + a + b /\ c + d = a + b
      BY <1>5, <2>3, <2>4
    <3> HIDE DEF t, w, a, b, c, d
    <3>3. w <= t + c + d
      BY <3>1, <3>2
    <3> QED BY <3>3 DEF t, w, c, d
  <2> QED BY <1>1, <1>2, <1>5, <2>1, <2>2, <2>4 DEF AccountInv
<1> QED BY <1>6, <1>7 DEF CriticWork

LEMMA AccountTrainer ==
  ASSUME RInv, StreamInv, BehindCritic, AccountInv, TrainerWork
  PROVE  AccountInv'
<1>0. StoreType /\ RunType /\ StoreInv /\ up /\ up' = up /\ resume' = resume
  BY WorkKeeps DEF RInv, launch
<1>1. UNCHANGED <<started, windows, held>>
  BY DEF TrainerWork, TrainStep, ExportWeights, PruneWeights, RaiseGate, rolloutVars, criticVars
<1>2. steps \in Nat /\ Batch \in Nat \ {0} /\ started \in Nat /\ Leader \in Nat /\ Cold \in Nat
      /\ windows \in Nat /\ Trained \in Nat /\ Lost \in Int /\ Lost' = Lost
  BY <1>0, BudgetTypes, LostIs DEF Lost
<1>3. ASSUME ~TrainStep PROVE Trained' = Trained /\ UNCHANGED <<rolled, scored>>
  <2>1. CASE ExportWeights
    <3>1. steps' = steps + 1 /\ doing[Train] = "export" /\ doing'[Train] \in {"data", "rotate"}
      BY <1>0, <2>1, ServicesAre DEF ExportWeights, StoreType
    <3> QED BY <1>2, <2>1, <3>1 DEF Trained, ExportWeights, rows
  <2>2. CASE PruneWeights
    <3>1. steps' = steps /\ doing[Train] = "rotate" /\ doing'[Train] = "publish"
      BY <1>0, <2>2, ServicesAre DEF PruneWeights, StoreType
    <3> QED BY <2>2, <3>1 DEF Trained, PruneWeights, rows
  <2>3. CASE RaiseGate
    <3>1. steps' = steps /\ doing[Train] = "publish" /\ doing'[Train] = "idle"
      BY <1>0, <2>3, ServicesAre DEF RaiseGate, StoreType, trainerVars
    <3> QED BY <2>3, <3>1 DEF Trained, RaiseGate, rows
  <2> QED BY <1>3, <2>1, <2>2, <2>3 DEF TrainerWork
<1>4. CASE ~TrainStep
  <2>1. Trained' = Trained /\ UNCHANGED <<rolled, scored>>
    BY <1>3, <1>4
  <2>2. Leader' = Leader
    BY <1>1, <2>1 DEF Leader
  <2> QED BY <1>0, <1>1, <2>1, <2>2, AccountSame
<1>5. CASE TrainStep
  <2>1. PICK S \in kSubset(Batch, Ready) :
          rolled' = (IF Critic THEN rolled ELSE rolled \ S) /\ scored' = scored \ S
    BY <1>5 DEF TrainStep
  <2>2. steps' = steps /\ doing[Train] = "idle" /\ doing'[Train] = "export"
    BY <1>0, <1>5, ServicesAre DEF TrainStep, StoreType
  <2>3. Trained' = Trained + 1
    BY <1>2, <2>2 DEF Trained
  <2>4. IsFiniteSet(rolled) /\ IsFiniteSet(scored) /\ IsFiniteSet(held)
        /\ Cardinality(rolled) \in Nat /\ Cardinality(scored) \in Nat /\ Cardinality(held) \in Nat
    BY FS_CardinalityType DEF BehindCritic
  <2>5. /\ started <= Leader * Batch + Cardinality(rolled) + Lost
        /\ Critic /\ windows > Cold =>
             (windows - Cold) * Batch <= Trained * Batch + Cardinality(scored) + Cardinality(held)
    BY <1>0 DEF AccountInv
  <2>6. CASE Critic
    <3>1. Leader' = Leader /\ rolled' = rolled
      BY <1>1, <2>1, <2>6 DEF Leader
    <3>2. Cardinality(scored') = Cardinality(scored) - Batch
      BY <2>1, <2>4, <2>6, TakenFrom DEF Ready
    <3>3. ASSUME windows > Cold
          PROVE  (windows - Cold) * Batch
                   <= Trained' * Batch + Cardinality(scored') + Cardinality(held)
      <4> DEFINE w == (windows - Cold) * Batch
                 a == Cardinality(scored)
                 b == Cardinality(held)
      <4>1. w \in Int /\ a \in Int /\ b \in Int /\ w <= Trained * Batch + a + b
        BY <1>2, <2>4, <2>5, <2>6, <3>3
      <4> HIDE DEF w, a, b
      <4>2. w <= (Trained + 1) * Batch + (a - Batch) + b
        BY <1>2, <4>1, TakenArithmetic
      <4> QED BY <2>3, <3>2, <4>2 DEF w, a, b
    <3> QED BY <1>0, <1>1, <1>2, <2>5, <3>1, <3>3 DEF AccountInv
  <2>7. CASE ~Critic
    <3>1. Leader' = Leader + 1
      BY <2>3, <2>7 DEF Leader
    <3>2. Cardinality(rolled') = Cardinality(rolled) - Batch
      BY <2>1, <2>4, <2>7, TakenFrom DEF Ready
    <3>3. started <= (Leader + 1) * Batch + (Cardinality(rolled) - Batch) + Lost
      <4> DEFINE r == Cardinality(rolled)
      <4>1. r \in Int /\ started \in Int /\ started <= Leader * Batch + r + Lost
        BY <1>2, <2>4, <2>5
      <4> HIDE DEF r
      <4>2. started <= (Leader + 1) * Batch + (r - Batch) + Lost
        BY <1>2, <4>1, TakenArithmetic
      <4> QED BY <4>2 DEF r
    <3> QED BY <1>0, <1>1, <1>2, <2>7, <3>1, <3>2, <3>3 DEF AccountInv
  <2> QED BY <2>6, <2>7
<1> QED BY <1>4, <1>5

LEMMA AccountRollout ==
  ASSUME RInv, BehindCritic, PlacedInv, AccountInv, RolloutWork
  PROVE  AccountInv'
<1>0. StoreType /\ RunType /\ StoreInv /\ up /\ up' = up /\ resume' = resume
  BY WorkKeeps DEF RInv, launch
<1>1. UNCHANGED <<windows, steps, scored, held>> /\ doing'[Train] = doing[Train]
  <2>1. doing'[Train] = doing[Train]
    BY <1>0, RolloutMoves, ServicesAre DEF Moves
  <2> QED BY <2>1 DEF RolloutWork, NextBatch, TryAdvanceGate, AcquireGenerationSlot,
                      trainerVars, criticVars, rows
<1>2. Trained' = Trained
  BY <1>1 DEF Trained
<1>3. Leader' = Leader
  BY <1>1, <1>2 DEF Leader
<1>4. CASE NextBatch \/ TryAdvanceGate
  <2>1. UNCHANGED <<started, rolled>>
    BY <1>4 DEF NextBatch, TryAdvanceGate, rows
  <2> QED BY <1>0, <1>1, <1>2, <1>3, <2>1, AccountSame
<1>5. CASE AcquireGenerationSlot
  <2>1. started' = started + 1 /\ rolled' = rolled \cup {next}
    BY <1>5 DEF AcquireGenerationSlot
  <2>2. next \in Nat /\ started \in Nat /\ Leader \in Nat /\ Batch \in Nat \ {0} /\ Lost \in Int
        /\ Lost' = Lost
    BY <1>0, BudgetTypes, LostIs DEF RunType, Lost
  <2>3. next \notin rolled
    <3>1. next \in rolled => next < next
      BY <1>0 DEF PlacedInv
    <3> QED BY <2>2, <3>1
  <2>4. IsFiniteSet(rolled) /\ Cardinality(rolled) \in Nat
    BY FS_CardinalityType DEF BehindCritic
  <2>5. Cardinality(rolled') = Cardinality(rolled) + 1
    BY <2>1, <2>3, <2>4, FS_AddElement
  <2>6. started' <= Leader' * Batch + Cardinality(rolled') + Lost'
    <3> DEFINE x == Leader * Batch
               r == Cardinality(rolled)
    <3>1. x \in Int /\ r \in Int /\ started <= x + r + Lost
      BY <1>0, <2>2, <2>4 DEF AccountInv
    <3> HIDE DEF x, r
    <3>2. started + 1 <= x + (r + 1) + Lost
      BY <2>2, <3>1
    <3> QED BY <1>3, <2>1, <2>2, <2>5, <3>2 DEF x, r
  <2> QED BY <1>0, <1>1, <1>2, <2>6 DEF AccountInv
<1> QED BY <1>4, <1>5 DEF RolloutWork

LEMMA AccountSave ==
  ASSUME RInv, AccountInv, NEW s \in Services, SaveStep(s)
  PROVE  AccountInv'
<1>0. StoreType /\ RunType /\ StoreInv /\ up
  BY SavesWhenUp DEF RInv
<1>1. UNCHANGED <<up, resume, windows, steps, rolled, scored, held, started>>
  BY DEF SaveStep, others, launch, trainerVars, criticVars, rolloutVars, rows
<1>2. /\ doing[s] \in {"data", "meta", "mark", "prune"}
      /\ doing'[s] \in {"data", "meta", "mark", "prune", After(s)}
  BY <1>0, SaveIs DEF DirWritten, MetaWritten, Marked, MarkerTaken, FilesTaken, SaveOver
<1>3. \A t \in Services \ {s} : doing'[t] = doing[t]
  BY SaveKeeps
<1>4. doing'[Train] = "export" <=> doing[Train] = "export"
  <2>1. CASE s = Train
    <3>1. After(s) = "rotate"
      BY <2>1, ServicesAre DEF After
    <3> QED BY <1>2, <2>1, <3>1
  <2>2. CASE s # Train
    BY <1>3, <2>2, ServicesAre
  <2> QED BY <2>1, <2>2
<1>5. Trained' = Trained
  BY <1>1, <1>4 DEF Trained
<1>6. Leader' = Leader
  BY <1>1, <1>5 DEF Leader
<1> QED BY <1>1, <1>5, <1>6, AccountSame

LEMMA AccountStep ==
  ASSUME Window > 0, RInv, StreamInv, BehindCritic, BudgetInv, PlacedInv, AccountInv,
         [Next]_vars
  PROVE  AccountInv'
<1>0. StoreType /\ RunType
  BY DEF RInv
<1>1. CASE Crash
  BY <1>1 DEF Crash, AccountInv
<1>2. CASE DropNewerThan \/ \E r \in Ranks : Look(r)
  <2>1. ~up /\ up' = up
    BY <1>0, <1>2, LooksBefore, LookIs, DropsBefore, DropStepIs
  <2> QED BY <2>1 DEF AccountInv
<1>3. CASE UNCHANGED vars
  <2>1. UNCHANGED <<up, resume, started, doing, rolled, scored, held, windows, steps>>
    BY <1>3 DEF vars, launch, trainerVars, criticVars, rolloutVars, rows
  <2> QED BY <1>0, <2>1, AccountSame DEF Leader, Trained
<1>4. SnapshotsPaced
  BY BudgetIs
<1> QED BY <1>1, <1>2, <1>3, <1>4, StepCases, AccountSave, AccountRollout, AccountCritic,
           AccountTrainer, AccountStart

LEMMA AccountAlways ==
  ASSUME Window > 0
  PROVE  Spec => [](RInv /\ StreamInv /\ BehindCritic /\ BudgetInv /\ PlacedInv /\ AccountInv)
<1>1. Init => StreamInv /\ BehindCritic /\ BudgetInv /\ PlacedInv /\ AccountInv
  <2> SUFFICES ASSUME Init
               PROVE StreamInv /\ BehindCritic /\ BudgetInv /\ PlacedInv /\ AccountInv
    OBVIOUS
  <2>1. ~up /\ rolled = {} /\ scored = {} /\ held = {}
    BY DEF Init
  <2>2. \A n \in Steps : disk[Roll][n].meta = {}
    BY ServicesAre DEF Init, EmptyStore, NoShard
  <2> QED BY <2>1, <2>2, FS_EmptySet
          DEF StreamInv, BehindCritic, BudgetInv, PlacedInv, AccountInv
<1>2. RInv /\ StreamInv /\ BehindCritic /\ BudgetInv /\ PlacedInv /\ AccountInv /\ [Next]_vars
        => StreamInv' /\ BehindCritic' /\ BudgetInv' /\ PlacedInv' /\ AccountInv'
  BY StreamStep, PaceStep, BudgetStep, PlacedStep, AccountStep
<1> QED BY <1>1, <1>2, RInvAlways, PTL DEF Spec

(* At rest, the pulses read are one per window the leading service has had *)
(* and the trainer is through with.                                        *)
LEMMA RestingClock ==
  ASSUME RInv, StreamInv, up, AllIdle, pulses = <<>>
  PROVE  gatesSeen - 1 = (IF Critic /\ windows <= Cold THEN windows ELSE Cold + steps)
         /\ Trained = steps
<1>1. doing[Train] = "idle" /\ (Critic => doing[Score] = "idle")
  BY ServicesAre DEF AllIdle
<1>2. steps \in Nat /\ windows \in Nat /\ Cold \in Nat /\ gatesSeen \in Nat
  BY BudgetTypes
<1>3. Raised = gatesSeen - 1
  BY <1>2 DEF Raised
<1>4. Owed = IF Critic /\ windows <= Cold THEN windows ELSE Cold + steps
  BY <1>1, <1>2 DEF Owed, Past
<1>5. Trained = steps
  BY <1>1, <1>2 DEF Trained
<1> QED BY <1>3, <1>4, <1>5 DEF StreamInv

LEMMA BatchLeft ==
  ASSUME RInv, StreamInv, BehindCritic, PlacedInv, AccountInv, Window > 0
  PROVE  WindowAlwaysPossible
<1> SUFFICES ASSUME up, AllIdle, pulses = <<>>, gatesSeen > 0
             PROVE  (GenerationBudget - started) + Cardinality(rolled \cup scored) >= Batch
  BY DEF WindowAlwaysPossible
<1>1. /\ Batch \in Nat \ {0} /\ Window \in Nat /\ Cold \in Nat /\ gatesSeen \in Nat
      /\ started \in Nat /\ windows \in Nat /\ steps \in Nat /\ Lost \in Int
      /\ (~Critic => Cold = 0)
  BY BudgetTypes, LostIs, RunAssumption
<1>2. /\ gatesSeen - 1 = (IF Critic /\ windows <= Cold THEN windows ELSE Cold + steps)
      /\ Trained = steps
  BY RestingClock
<1>3. /\ IsFiniteSet(rolled) /\ IsFiniteSet(scored)
      /\ Cardinality(rolled) \in Nat /\ Cardinality(scored) \in Nat
      /\ Critic => Cardinality(held) = 0
  <2>1. Critic => doing[Score] = "idle"
    BY ServicesAre DEF AllIdle
  <2> QED BY <2>1, FS_CardinalityType DEF BehindCritic
<1>4. Cardinality(rolled \cup scored) = Cardinality(rolled) + Cardinality(scored)
  <2>1. rolled \cap scored = {}
    BY DEF PlacedInv
  <2>2. Cardinality(rolled \cup scored)
          = Cardinality(rolled) + Cardinality(scored) - Cardinality({})
    BY <1>3, <2>1, FS_Union
  <2> QED BY <1>3, <2>2, FS_EmptySet
<1>5. /\ started <= Leader * Batch + Cardinality(rolled) + Lost
      /\ Critic /\ windows > Cold =>
           (windows - Cold) * Batch <= Trained * Batch + Cardinality(scored) + Cardinality(held)
  BY DEF AccountInv
<1>6. Lost <= (Window - 1) * Batch /\ (Window - 1) * Batch \in Int
  <2>1. 0 * Batch <= (Window - 1) * Batch
    BY  <1>1, Multiples
  <2>2. 0 * Batch = 0 /\ (Window - 1) * Batch \in Int
    BY <1>1
  <2> DEFINE y == (Window - 1) * Batch
  <2>3. y \in Int /\ 0 <= y /\ (Lost = 0 \/ Lost = y)
    BY <2>1, <2>2 DEF Lost
  <2> HIDE DEF y
  <2>4. Lost <= y
    BY <2>3
  <2> QED BY <2>2, <2>4 DEF y
<1>7. GenerationBudget = (gatesSeen - 1) * Batch + (Window - 1) * Batch + Batch
  <2>1. \A a, w, k \in Int : (a + w) * k = a * k + (w - 1) * k + k
    OBVIOUS
  <2>2. gatesSeen - 1 \in Int /\ gatesSeen # 0
    BY <1>1
  <2> QED BY <1>1, <2>1, <2>2 DEF GenerationBudget
<1>8. Leader * Batch <= (gatesSeen - 1) * Batch + Cardinality(scored)
  <2>1. CASE ~Critic \/ windows <= Cold
    <3>1. Leader = gatesSeen - 1
      BY <1>1, <1>2, <2>1 DEF Leader
    <3> DEFINE x == Leader * Batch
               q == Cardinality(scored)
    <3>2. x \in Int /\ q \in Nat
      BY <1>1, <1>3, <3>1
    <3> HIDE DEF x, q
    <3>3. x <= x + q
      BY <3>2
    <3> QED BY <3>1, <3>3 DEF x, q
  <2>2. CASE Critic /\ windows > Cold
    <3> DEFINE t == steps * Batch
               c == Cold * Batch
               l == windows * Batch
               q == Cardinality(scored)
    <3>1. t \in Int /\ c \in Int /\ l \in Int /\ q \in Nat
      BY <1>1, <1>3
    <3>2. (windows - Cold) * Batch = l - c
      <4>1. \A a, b, k \in Int : (a - b) * k = a * k - b * k
        OBVIOUS
      <4> QED BY <1>1, <4>1
    <3>3. (gatesSeen - 1) * Batch = c + t
      <4>1. \A a, b, k \in Int : (a + b) * k = a * k + b * k
        OBVIOUS
      <4>2. gatesSeen - 1 = Cold + steps
        BY <1>1, <1>2, <2>2
      <4> QED BY <1>1, <4>1, <4>2
    <3>4. Leader = windows
      BY <2>2 DEF Leader
    <3>5. l - c <= t + q + 0
      BY <1>2, <1>3, <1>5, <2>2, <3>2
    <3> HIDE DEF t, c, l, q
    <3>6. l <= c + t + q
      BY <3>1, <3>5
    <3> QED BY <3>3, <3>4, <3>6 DEF l, q
  <2> QED BY <1>1, <2>1, <2>2
<1> DEFINE g == (gatesSeen - 1) * Batch
           l == Leader * Batch
           y == (Window - 1) * Batch
           r == Cardinality(rolled)
           q == Cardinality(scored)
<1>9. g \in Int /\ l \in Int /\ y \in Int /\ r \in Int /\ q \in Int
  <2>1. Leader \in Int
    BY BudgetTypes
  <2> QED BY <1>1, <1>3, <2>1
<1>10. /\ started <= l + r + Lost /\ Lost <= y /\ l <= g + q
       /\ GenerationBudget = g + y + Batch /\ Cardinality(rolled \cup scored) = r + q
  BY <1>4, <1>5, <1>6, <1>7, <1>8
<1> HIDE DEF g, l, y, r, q
<1>11. ((g + y + Batch) - started) + (r + q) >= Batch
  BY <1>1, <1>9, <1>10
<1> QED BY <1>10, <1>11

(* However many groups were in flight when a launch died, and however much *)
(* of the budget the restored count of groups started has used up          *)
(* (load_snapshot), a rollout that has read every pulse there is finds     *)
(* rows and budget for one more batch: with pacing, a resume never leaves  *)
(* rollout, critic and trainer all waiting for one another.                *)
THEOREM ResumeLeavesABatch == Spec => []WindowAlwaysPossible
<1>1. CASE Window > 0
  <2>1. RInv /\ StreamInv /\ BehindCritic /\ BudgetInv /\ PlacedInv /\ AccountInv
          => WindowAlwaysPossible
    BY <1>1, BatchLeft
  <2> QED BY <1>1, <2>1, AccountAlways, PTL
<1>2. CASE ~(Window > 0)
  <2>1. WindowAlwaysPossible
    BY <1>2 DEF WindowAlwaysPossible
  <2> QED BY <2>1, PTL
<1> QED BY <1>1, <1>2
=============================================================================
