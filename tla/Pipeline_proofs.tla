--------------------------- MODULE Pipeline_proofs ---------------------------
(***************************************************************************)
(* Proofs about the pipeline, for every window, batch, cold start, scorer  *)
(* and placement: the rollout's overlap is bounded by the pulses it reads, *)
(* and the critic and the trainer number them without a gap.               *)
(***************************************************************************)
EXTENDS Pipeline, FiniteSetTheorems, TLAPS

-----------------------------------------------------------------------------
(* Where groups are, before and after a step.                              *)

LEMMA SizeTypes ==
  /\ Window \in Nat /\ ColdWindows \in Nat
  /\ Batch \in Nat /\ Batch > 0 /\ Chunk \in Nat /\ Chunk > 0
  /\ ScoreBatch \in Nat /\ ScoreBatch > 0
  BY SizeAssumption

LEMMA GroupSeq ==
  ASSUME NEW s \in Seq(Group)
  PROVE  /\ DOMAIN s = 1..Len(s) /\ Len(s) \in Nat
         /\ \A g \in DOMAIN s : s[g] \in Group
  OBVIOUS

LEMMA InitialSegment ==
  ASSUME NEW n \in Nat
  PROVE  IsFiniteSet(1..n) /\ Cardinality(1..n) = n
<1>1. IsFiniteSet(1..n) /\ Cardinality(1..n) = IF 1 > n THEN 0 ELSE n - 1 + 1
  BY FS_Interval
<1> QED
  BY <1>1

LEMMA FiniteAt ==
  ASSUME groups \in Seq(Group), NEW S \in SUBSET DOMAIN groups
  PROVE  IsFiniteSet(S) /\ Cardinality(S) \in Nat /\ Cardinality(S) <= Len(groups)
<1>1. DOMAIN groups = 1..Len(groups) /\ Len(groups) \in Nat
  BY GroupSeq
<1>2. IsFiniteSet(1..Len(groups)) /\ Cardinality(1..Len(groups)) = Len(groups)
  BY <1>1, InitialSegment
<1> QED
  BY <1>1, <1>2, FS_Subset, FS_CardinalityType

(* Moving groups keeps the sequence and changes nothing but their place.   *)
LEMMA MoveType ==
  ASSUME groups \in Seq(Group), NEW G, NEW place \in Places
  PROVE  /\ Move(G, place) \in Seq(Group)
         /\ Len(Move(G, place)) = Len(groups)
         /\ DOMAIN Move(G, place) = DOMAIN groups
         /\ \A g \in DOMAIN groups :
              Move(G, place)[g].at = IF g \in G THEN place ELSE groups[g].at
<1>1. DOMAIN groups = 1..Len(groups) /\ Len(groups) \in Nat
  BY GroupSeq
<1>2. ASSUME NEW g \in DOMAIN groups
      PROVE  /\ Move(G, place)[g] \in Group
             /\ Move(G, place)[g].at = IF g \in G THEN place ELSE groups[g].at
  <2>1. groups[g] \in Group
    BY GroupSeq
  <2> QED
    BY <2>1 DEF Move, Group
<1>3. DOMAIN Move(G, place) = 1..Len(groups)
  BY <1>1 DEF Move
<1>4. Move(G, place) \in [1..Len(groups) -> Group]
  BY <1>1, <1>2 DEF Move
<1> QED
  BY <1>1, <1>2, <1>3, <1>4

LEMMA MoveAt ==
  ASSUME groups \in Seq(Group), NEW G \in SUBSET DOMAIN groups, NEW place \in Places,
         groups' = Move(G, place)
  PROVE  /\ groups' \in Seq(Group) /\ Len(groups') = Len(groups)
         /\ At(place)' = At(place) \cup G
         /\ \A p \in Places \ {place} : At(p)' = At(p) \ G
  BY MoveType DEF At

(* A step that leaves every group where it is. *)
LEMMA StayAt ==
  ASSUME groups \in Seq(Group), groups' \in Seq(Group), Len(groups') = Len(groups),
         \A g \in DOMAIN groups : groups'[g].at = groups[g].at
  PROVE  \A p \in Places : At(p)' = At(p)
<1>1. DOMAIN groups' = DOMAIN groups
  BY GroupSeq
<1> QED
  BY <1>1 DEF At

LEMMA AppendAt ==
  ASSUME groups \in Seq(Group), NEW new \in Group, new.at = "held",
         groups' = Append(groups, new)
  PROVE  /\ groups' \in Seq(Group) /\ Len(groups') = Len(groups) + 1
         /\ \A p \in Places \ {"held"} : At(p)' = At(p)
<1>1. /\ DOMAIN groups' = DOMAIN groups \cup {Len(groups) + 1}
      /\ Len(groups) + 1 \notin DOMAIN groups
      /\ \A g \in DOMAIN groups : groups'[g] = groups[g]
      /\ groups'[Len(groups) + 1] = new
      /\ groups' \in Seq(Group) /\ Len(groups') = Len(groups) + 1
  OBVIOUS
<1> QED
  BY <1>1 DEF At

LEMMA GatesAppend ==
  ASSUME gates \in Seq(Gate), NEW pulse \in Gate, gates' = Append(gates, pulse)
  PROVE  gates' \in Seq(Gate) /\ Len(gates') = Len(gates) + 1 /\ Len(gates) \in Nat
  OBVIOUS

LEMMA GatesTail ==
  ASSUME gates \in Seq(Gate), gates # <<>>
  PROVE  /\ Head(gates) \in Gate /\ Tail(gates) \in Seq(Gate)
         /\ Len(Tail(gates)) = Len(gates) - 1 /\ Len(gates) \in Nat /\ Len(gates) > 0
         /\ \A i \in 1..Len(gates) - 1 : Tail(gates)[i] = gates[i + 1]
  OBVIOUS
-----------------------------------------------------------------------------
(* Type correctness.                                                       *)

LEMMA EmptySeq == <<>> \in Seq(Gate) /\ <<>> \in Seq(Group)
  OBVIOUS

LEMMA GenerateAt ==
  ASSUME TypeOK, NEW g \in DOMAIN groups, Generate(g)
  PROVE  /\ groups' \in Seq(Group) /\ Len(groups') = Len(groups)
         /\ \A h \in DOMAIN groups : groups'[h].at = groups[h].at
<1> DEFINE grown == [groups[g] EXCEPT !.weights = @ \cup {serving}]
<1>1. groups \in Seq(Group) /\ groups[g] \in Group
  BY GroupSeq DEF TypeOK
<1>2. grown \in Group /\ grown.at = groups[g].at
  BY <1>1 DEF Group, TypeOK
<1>3. groups' = [groups EXCEPT ![g] = grown]
  BY DEF Generate
<1> HIDE DEF grown
<1> QED
  BY <1>1, <1>2, <1>3

LEMMA InitType == Init => TypeOK
<1> SUFFICES ASSUME Init PROVE TypeOK
  OBVIOUS
<1>1. /\ owner \in Members \cup {Nobody} /\ onCard \subseteq Members
      /\ left \in BOOLEAN /\ asking \subseteq Members
  BY DEF Init, Token!Init
<1>2. gates \in Seq(Gate) /\ groups \in Seq(Group)
  BY EmptySeq DEF Init
<1>3. 0 \in Version
  BY DEF Version
<1> QED
  BY <1>1, <1>2, <1>3 DEF Init, TypeOK

LEMMA LabelType ==
  ASSUME groups \in Seq(Group), NEW v \in Labels(At("scoring"))
  PROVE  v \in Version
<1>1. PICK g \in DOMAIN groups : v = groups[g].label
  BY DEF Labels, At
<1>2. groups[g] \in Group
  BY GroupSeq
<1> QED
  BY <1>1, <1>2 DEF Group, Version

LEMMA TokenType ==
  ASSUME TypeOK,
         \/ Token!Genesis(Infer) \/ Token!Enter \/ Token!Leave
         \/ \E s \in Members : Token!Ask(s) \/ Token!Pass(s)
  PROVE  /\ owner' \in Members \cup {Nobody} /\ onCard' \subseteq Members
         /\ left' \in BOOLEAN /\ asking' \subseteq Members
<1> USE DEF TypeOK
<1>1. CASE Token!Genesis(Infer)
  BY <1>1 DEF Token!Genesis, Members
<1>2. CASE Token!Enter
  BY <1>2 DEF Token!Enter
<1>3. CASE Token!Leave
  BY <1>3 DEF Token!Leave
<1>4. ASSUME NEW s \in Members, Token!Ask(s) PROVE asking' \subseteq Members
  BY <1>4 DEF Token!Ask
<1>5. ASSUME NEW s \in Members, Token!Ask(s)
      PROVE  UNCHANGED <<owner, onCard, left>>
  BY <1>5 DEF Token!Ask
<1>6. CASE \E s \in Members : Token!Ask(s)
  BY <1>4, <1>5, <1>6
<1>7. CASE \E s \in Members : Token!Pass(s)
  BY <1>7 DEF Token!Pass
<1> QED
  BY <1>1, <1>2, <1>3, <1>6, <1>7

LEMMA StepType == TypeOK /\ [Next]_vars => TypeOK'
<1> SUFFICES ASSUME TypeOK, [Next]_vars PROVE TypeOK'
  OBVIOUS
<1> USE DEF TypeOK
<1>0. groups \in Seq(Group) /\ gates \in Seq(Gate) /\ Train \in Members /\ Score \in Members
  BY DEF Members
<1>1. CASE UNCHANGED vars
  BY <1>1 DEF vars, rolloutVars, trainerVars, scorerVars, token
<1>2. CASE TryAdvanceGate
  BY <1>0, <1>2, GatesTail
     DEF TryAdvanceGate, Gate, trainerVars, scorerVars, token
<1>3. CASE AcquireGenerationSlot
  <2>1. [label |-> label, weights |-> {}, aborted |-> FALSE, at |-> "held"] \in Group
    BY DEF Group, Places
  <2> QED
    BY <1>0, <1>3, <2>1, AppendAt
       DEF AcquireGenerationSlot, rolloutVars, trainerVars, scorerVars, token
<1>4. ASSUME NEW g \in DOMAIN groups, GroupTask(g) PROVE TypeOK'
  <2>1. CASE \E place \in Places : groups' = Move({g}, place)
    BY <1>0, <1>4, <2>1, MoveType
       DEF GroupTask, Execute, Generate, FinishGroup, WriteRolloutGroup, DropGroup,
           rolloutVars, trainerVars, scorerVars, token
  <2>2. CASE Generate(g)
    <3>4. groups' \in Seq(Group)
      BY <2>2, GenerateAt
    <3> QED
      BY <2>2, <3>4 DEF Generate, rolloutVars, trainerVars, scorerVars, token
  <2> QED
    BY <1>4, <2>1, <2>2
       DEF GroupTask, Execute, FinishGroup, WriteRolloutGroup, DropGroup, Places
<1>5. CASE RaiseGenesisGate
  BY <1>0, <1>5, GatesAppend DEF RaiseGenesisGate, Gate, rolloutVars, scorerVars, token
<1>6. CASE TrainerFetches
  <2>1. groups' \in Seq(Group)
    BY <1>0, <1>6, MoveType DEF TrainerFetches, Places
  <2>2. (\E s \in Members : Token!Ask(s)) \/ UNCHANGED token
    BY <1>0, <1>6 DEF TrainerFetches
  <2> QED
    BY <1>6, <2>1, <2>2, TokenType DEF TrainerFetches, rolloutVars, scorerVars, token
<1>7. CASE StepChunk
  <2>1. groups' \in Seq(Group)
    BY <1>0, <1>7, MoveType DEF StepChunk, Places
  <2> QED
    BY <1>7, <2>1, SizeTypes DEF StepChunk, rolloutVars, scorerVars, token
<1>8. CASE StepSync
  <2>1. version' \in Nat
    BY <1>8 DEF StepSync
  <2>2. disk' \subseteq Nat
    BY <1>8, <2>1 DEF StepSync, PruneWeights
  <2>3. serving' \in Version
    BY <1>8, <2>1 DEF StepSync, Version
  <2>4. sinceSync' \in Nat /\ trainer' \in {"stepped", "gate"}
    BY <1>8 DEF StepSync
  <2> QED
    BY <1>8, <2>1, <2>2, <2>3, <2>4 DEF StepSync, rolloutVars, scorerVars, token
<1>9. CASE TrainerLeaves \/ ScorerLeaves \/ WorkerEnters
  BY <1>9, TokenType
     DEF TrainerLeaves, ScorerLeaves, WorkerEnters, rolloutVars, trainerVars, scorerVars
<1>10. CASE TrainerReleases
  BY <1>10, TokenType DEF TrainerReleases, Version, rolloutVars, scorerVars
<1>11. CASE RaiseGate
  <2>1. groups' \in Seq(Group)
    BY <1>0, <1>11, MoveType DEF RaiseGate, Places
  <2>2. [step |-> version + ColdWindows, version |-> version] \in Gate
    BY SizeTypes DEF Gate
  <2> QED
    BY <1>0, <1>11, <2>1, <2>2, GatesAppend DEF RaiseGate, rolloutVars, scorerVars, token
<1>12. CASE ScorerFetches
  <2>1. groups' \in Seq(Group)
    BY <1>0, <1>12, MoveType DEF ScorerFetches, Places
  <2>2. (\E s \in Members : Token!Ask(s)) \/ UNCHANGED token
    BY <1>0, <1>12 DEF ScorerFetches
  <2> QED
    BY <1>12, <2>1, <2>2, TokenType DEF ScorerFetches, rolloutVars, trainerVars, token
<1>13. CASE ScoreWindow
  BY <1>13 DEF ScoreWindow, rolloutVars, trainerVars, token
<1>14. CASE ScorerReleases
  BY <1>0, <1>14, TokenType, LabelType DEF ScorerReleases, rolloutVars, trainerVars
<1>15. CASE WriteScores
  <2>1. groups' \in Seq(Group)
    BY <1>0, <1>15, MoveType DEF WriteScores, Places
  <2>2. gates' \in Seq(Gate)
    <3>1. [step |-> windows, version |-> 0] \in Gate
      BY DEF Gate
    <3> QED
      BY <1>0, <1>15, <3>1, GatesAppend DEF WriteScores
  <2> QED
    BY <1>15, <2>1, <2>2 DEF WriteScores, rolloutVars, trainerVars, token
<1>16. CASE Genesis \/ InferPasses
  BY <1>16, TokenType DEF Genesis, InferPasses, Version, rolloutVars, trainerVars, scorerVars
<1>17. CASE InferEnters
  BY <1>17, TokenType DEF InferEnters, rolloutVars, trainerVars, scorerVars
<1>18. CASE InferLeaves
  <2>1. groups' \in Seq(Group)
    <3>1. \A g \in DOMAIN groups : groups'[g] \in Group
      BY <1>0, <1>18, GroupSeq DEF InferLeaves, Group
    <3> QED
      BY <1>0, <1>18, <3>1, GroupSeq DEF InferLeaves
  <2> QED
    BY <1>18, <2>1, TokenType DEF InferLeaves, rolloutVars, trainerVars, scorerVars
<1> QED
  BY <1>1, <1>2, <1>3, <1>4, <1>5, <1>6, <1>7, <1>8, <1>9, <1>10, <1>11, <1>12,
     <1>13, <1>14, <1>15, <1>16, <1>17, <1>18
     DEF Next, RolloutLoop, TrainerWorker, ScorerWorker, Card

(* The pulses, groups, workers and exports of every run keep their types.  *)
THEOREM TypeCorrect == Spec => []TypeOK
  BY InitType, StepType, PTL DEF Spec
-----------------------------------------------------------------------------
(* Steps that move no batch, raise or read no pulse and count nothing.     *)

Quiet ==
  /\ \A p \in {"scoring", "scored", "training", "trained", "cleared"} : At(p)' = At(p)
  /\ Len(groups') = Len(groups)
  /\ UNCHANGED <<gates, gatesSeen, sinceSync, version, windows>>
  /\ trainer' = trainer \/ (trainer = "stepped" /\ trainer' = "gate")
  /\ scorer' = scorer \/ (scorer # "fetch" /\ scorer' # "fetch")

LEMMA QuietSteps ==
  ASSUME TypeOK,
         \/ UNCHANGED vars
         \/ \E g \in DOMAIN groups : GroupTask(g)
         \/ TrainerLeaves \/ TrainerReleases
         \/ ScoreWindow \/ ScorerLeaves \/ ScorerReleases
         \/ Card
  PROVE  Quiet
<1>0. groups \in Seq(Group)
  BY DEF TypeOK
<1>1. CASE groups' = groups
  <2>1. \A p \in Places : At(p)' = At(p)
    BY <1>1 DEF At
  <2> QED
    BY <1>1, <2>1
       DEF Quiet, Places, vars, rolloutVars, trainerVars, scorerVars, token,
           GroupTask, Execute, Generate, FinishGroup, WriteRolloutGroup, DropGroup,
           TrainerLeaves, TrainerReleases, ScoreWindow, ScorerLeaves, ScorerReleases,
           Card, Genesis, InferEnters, InferLeaves, InferPasses, WorkerEnters
<1>2. ASSUME NEW g \in DOMAIN groups, GroupTask(g) PROVE Quiet
  <2>1. /\ groups[g].at \in {"held", "running", "done"}
        /\ UNCHANGED <<gates, rolloutVars, trainerVars, scorerVars>>
        /\ \/ \E place \in {"running", "done", "row", "dropped"} : groups' = Move({g}, place)
           \/ Generate(g)
    BY <1>2
       DEF GroupTask, Execute, Generate, FinishGroup, WriteRolloutGroup, DropGroup
  <2>2. ASSUME NEW place \in {"running", "done", "row", "dropped"}, groups' = Move({g}, place)
        PROVE  Quiet
    <3>0. place \in Places /\ {g} \in SUBSET DOMAIN groups
      BY DEF Places
    <3>1. /\ Len(groups') = Len(groups)
          /\ \A p \in Places \ {place} : At(p)' = At(p) \ {g}
      BY <1>0, <2>2, <3>0, MoveAt
    <3> QED
      BY <2>1, <3>1 DEF Quiet, At, Places, rolloutVars, trainerVars, scorerVars
  <2>3. CASE Generate(g)
    <3> QED
      BY <1>0, <2>1, <2>3, GenerateAt, StayAt
         DEF Quiet, Places, rolloutVars, trainerVars, scorerVars
  <2> QED
    BY <2>1, <2>2, <2>3
<1>3. CASE InferLeaves
  <2>1. groups' \in Seq(Group)
    BY <1>3, StepType DEF TypeOK, Next, Card
  <2>2. /\ Len(groups') = Len(groups)
        /\ \A h \in DOMAIN groups : groups'[h].at = groups[h].at
    <3>1. \A h \in DOMAIN groups : groups[h] \in Group
      BY <1>0, GroupSeq
    <3>2. DOMAIN groups' = DOMAIN groups
      BY <1>3 DEF InferLeaves
    <3>3. Len(groups') = Len(groups)
      BY <1>0, <2>1, <3>2, GroupSeq
    <3> QED
      BY <1>3, <3>1, <3>3 DEF InferLeaves, Group
  <2> QED
    BY <1>0, <1>3, <2>1, <2>2, StayAt
       DEF InferLeaves, Quiet, Places, rolloutVars, trainerVars, scorerVars
<1> QED
  BY <1>1, <1>2, <1>3
     DEF vars, TrainerLeaves, TrainerReleases, ScoreWindow, ScorerLeaves, ScorerReleases,
         Card, Genesis, InferEnters, InferPasses, WorkerEnters

LEMMA QuietKeeps ==
  ASSUME IInv, TypeOK', Quiet
  PROVE  IInv'
<1> USE DEF Quiet
<1>1. /\ Pulses' = Pulses /\ Stepping' = Stepping /\ WindowsDone' = WindowsDone
      /\ Finished' = Finished /\ GenerationBudget' = GenerationBudget
  BY DEF IInv, TypeOK, Pulses, Stepping, WindowsDone, Finished, GenerationBudget
<1>2. GenesisFirst'
  BY <1>1 DEF IInv, TypeOK, GenesisFirst
<1>3. BatchesHeld'
  BY DEF IInv, TypeOK, BatchesHeld
<1>4. PulsesPaid'
  BY <1>1 DEF IInv, TypeOK, PulsesPaid
<1>5. GateStreamInOrder'
  BY DEF IInv, GateStreamInOrder
<1>6. PulsesNumbered'
  BY <1>1 DEF IInv, TypeOK, PulsesNumbered
<1> QED
  BY <1>2, <1>3, <1>4, <1>5, <1>6 DEF IInv
-----------------------------------------------------------------------------
(* The counting.                                                           *)

LEMMA Monotone ==
  ASSUME NEW a \in Int, NEW b \in Int, NEW c \in Nat, a <= b
  PROVE  a * c <= b * c
<1>1. b - a \in Nat /\ (b - a) * c >= 0
  OBVIOUS
<1>2. b * c = a * c + (b - a) * c
  OBVIOUS
<1>3. a * c \in Int /\ b * c \in Int /\ (b - a) * c \in Int
  OBVIOUS
<1> QED
  BY <1>1, <1>2, <1>3

LEMMA OneMore ==
  ASSUME NEW a \in Int, NEW b \in Int
  PROVE  (a + 1) * b = a * b + b /\ a * b \in Int
  OBVIOUS

(* Consequences of the invariant that several steps need.                  *)
LEMMA Counts ==
  ASSUME IInv
  PROVE  /\ groups \in Seq(Group) /\ gates \in Seq(Gate)
         /\ Len(groups) \in Nat /\ Len(gates) \in Nat
         /\ gatesSeen \in Nat /\ sinceSync \in Nat /\ version \in Nat /\ windows \in Nat
         /\ Pulses \in Nat /\ WindowsDone \in Nat
         /\ \A p \in Places : At(p) \subseteq DOMAIN groups /\ IsFiniteSet(At(p))
         /\ Finished \subseteq DOMAIN groups /\ IsFiniteSet(Finished)
         /\ Cardinality(Finished) \in Nat
<1>1. groups \in Seq(Group) /\ gates \in Seq(Gate)
  BY DEF IInv, TypeOK
<1>2. \A p \in Places : At(p) \subseteq DOMAIN groups /\ IsFiniteSet(At(p))
  BY <1>1, FiniteAt DEF At
<1>3. Finished \subseteq DOMAIN groups
  BY DEF Finished, At
<1>4. IsFiniteSet(Finished) /\ Cardinality(Finished) \in Nat
  BY <1>1, <1>3, FiniteAt
<1>5. Len(groups) \in Nat /\ Len(gates) \in Nat
  BY <1>1
<1> QED
  BY <1>1, <1>2, <1>3, <1>4, <1>5 DEF IInv, TypeOK, BatchesHeld, Pulses, WindowsDone

LEMMA Amounts ==
  ASSUME IInv
  PROVE  /\ Len(groups) \in Nat /\ Len(gates) \in Nat
         /\ gatesSeen \in Nat /\ sinceSync \in Nat /\ version \in Nat /\ windows \in Nat
         /\ Pulses \in Nat /\ WindowsDone \in Nat /\ Cardinality(Finished) \in Nat
  BY Counts

(* A worker in the middle of a batch holds rows; the trainer's are there   *)
(* only when the cold start is over.                                       *)
LEMMA TrainerHolds ==
  ASSUME IInv, trainer \in {"batch", "stepped", "gate"}
  PROVE  /\ Cardinality(At("training")) = Chunk
         /\ At("training") # {} /\ WindowsDone >= ColdWindows
<1>1. Cardinality(At("training")) = Chunk
  BY DEF IInv, BatchesHeld
<1>2. At("training") # {}
  BY <1>1, SizeTypes, FS_EmptySet
<1> QED
  BY <1>1, <1>2 DEF IInv, PulsesNumbered

(* Groups that finish add to those that have.                              *)
LEMMA Finishing ==
  ASSUME IInv, NEW from \in {"training", "scoring"}, NEW place \in {"trained", "cleared"},
         groups' = Move(At(from), place)
  PROVE  /\ Finished' = Finished \cup At(from)
         /\ Cardinality(Finished') = Cardinality(Finished) + Cardinality(At(from))
         /\ At(from)' = {}
         /\ Cardinality(At(from)) \in Nat
         /\ \A p \in Places \ {from, place} : At(p)' = At(p)
         /\ Len(groups') = Len(groups)
<1>1. /\ from \in Places /\ place \in Places /\ from # place
      /\ At(from) \in SUBSET DOMAIN groups /\ groups \in Seq(Group)
  BY Counts DEF Places
<1>2. /\ At(place)' = At(place) \cup At(from)
      /\ \A p \in Places \ {place} : At(p)' = At(p) \ At(from)
      /\ Len(groups') = Len(groups)
  BY <1>1, MoveAt
<1>3. \A p \in Places \ {from} : At(p) \cap At(from) = {}
  BY <1>1 DEF At
<1>4. Finished' = Finished \cup At(from) /\ Finished \cap At(from) = {}
  BY <1>2, <1>3 DEF Finished, Places
<1>5. IsFiniteSet(At(from)) /\ Cardinality(At(from)) \in Nat
  BY <1>1, Counts, FS_CardinalityType
<1>6. Cardinality(Finished \cup At(from)) = Cardinality(Finished) + Cardinality(At(from))
  <2>1. Cardinality(Finished \cup At(from)) =
          Cardinality(Finished) + Cardinality(At(from)) - Cardinality(Finished \cap At(from))
    BY <1>5, Counts, FS_Union
  <2>2. Cardinality(Finished \cap At(from)) = 0
    BY <1>4, FS_EmptySet
  <2>3. Cardinality(Finished) \in Nat
    BY Counts
  <2> QED
    BY <1>5, <2>1, <2>2, <2>3
<1>7. ASSUME NEW p \in Places \ {from, place} PROVE At(p)' = At(p)
  <2>1. At(p)' = At(p) \ At(from)
    BY <1>2
  <2>2. At(p) \cap At(from) = {}
    BY <1>3
  <2> QED
    BY <2>1, <2>2
<1>8. At(from)' = {}
  BY <1>1, <1>2
<1> QED
  BY <1>2, <1>4, <1>5, <1>6, <1>7, <1>8

(* A fetch or a scored window leaves the finished groups as they are.      *)
LEMMA Fetching ==
  ASSUME IInv, NEW from \in Places \ {"trained", "cleared"},
         NEW place \in Places \ {"trained", "cleared"}, from # place,
         NEW G \in SUBSET At(from), groups' = Move(G, place)
  PROVE  /\ Finished' = Finished
         /\ At(from)' = At(from) \ G /\ At(place)' = At(place) \cup G
         /\ \A p \in Places \ {from, place} : At(p)' = At(p)
         /\ Len(groups') = Len(groups)
<1>1. G \in SUBSET DOMAIN groups /\ groups \in Seq(Group)
  BY Counts
<1>2. /\ At(place)' = At(place) \cup G
      /\ \A p \in Places \ {place} : At(p)' = At(p) \ G
      /\ Len(groups') = Len(groups)
  BY <1>1, MoveAt
<1>3. \A p \in Places \ {from} : At(p) \cap G = {}
  BY DEF At
<1>4. ASSUME NEW p \in Places \ {from, place} PROVE At(p)' = At(p)
  <2>1. At(p)' = At(p) \ G
    BY <1>2
  <2>2. At(p) \cap G = {}
    BY <1>3
  <2> QED
    BY <2>1, <2>2
<1> QED
  BY <1>2, <1>4 DEF Finished, Places

(* The next pulse carries the next step number.                            *)
LEMMA NextPulse ==
  ASSUME IInv, NEW pulse \in Gate, pulse.step = Pulses,
         gates' = Append(gates, pulse), gatesSeen' = gatesSeen
  PROVE  GateStreamInOrder' /\ Pulses' = Pulses + 1
<1>1. /\ Len(gates') = Len(gates) + 1 /\ Len(gates) \in Nat
      /\ DOMAIN gates' = DOMAIN gates \cup {Len(gates) + 1}
      /\ \A i \in DOMAIN gates : gates'[i] = gates[i]
      /\ gates'[Len(gates) + 1] = pulse
  BY Counts
<1>2. Pulses' = Pulses + 1
  BY <1>1, Counts DEF Pulses
<1>3. pulse.step = gatesSeen + (Len(gates) + 1) - 1
  BY Counts DEF Pulses
<1> QED
  BY <1>1, <1>2, <1>3 DEF IInv, GateStreamInOrder
-----------------------------------------------------------------------------
(* The rollout reads a pulse and starts a group.                           *)

LEMMA TryAdvanceGateKeeps ==
  ASSUME IInv, TypeOK', TryAdvanceGate
  PROVE  IInv'
<1>1. /\ gates \in Seq(Gate) /\ gates # <<>> /\ gates' = Tail(gates)
      /\ gatesSeen' = gatesSeen + 1 /\ groups' = groups
      /\ UNCHANGED <<trainer, sinceSync, version, scorer, windows>>
  BY Counts DEF TryAdvanceGate, trainerVars, scorerVars
<1>2. \A p \in Places : At(p)' = At(p)
  BY <1>1 DEF At
<1>3. Pulses' = Pulses /\ Pulses > 0 /\ gatesSeen \in Nat
  <2>1. Len(gates') = Len(gates) - 1 /\ Len(gates) \in Nat /\ Len(gates) > 0
    BY <1>1, GatesTail
  <2>2. gatesSeen \in Nat
    BY Counts
  <2> QED
    BY <1>1, <2>1, <2>2 DEF Pulses
<1>4. Finished' = Finished /\ Stepping' = Stepping /\ WindowsDone' = WindowsDone
  BY <1>1, <1>2 DEF Finished, Places, Stepping, WindowsDone
<1>5. GenesisFirst'
  BY <1>1, <1>3 DEF IInv, GenesisFirst
<1>6. BatchesHeld'
  BY <1>1, <1>2 DEF IInv, BatchesHeld, Places
<1>7. Window > 0 => Len(groups') <= GenerationBudget'
  <2> SUFFICES ASSUME Window > 0 PROVE Len(groups) <= GenerationBudget'
    BY <1>1
  <2>1. GenerationBudget' = (gatesSeen + 1 - 1 + Window) * Batch
    BY <1>1, <1>3 DEF GenerationBudget
  <2>2. CASE gatesSeen = 0
    <3>1. Len(groups) = 0
      BY <2>2 DEF IInv, GenesisFirst
    <3>2. Window * Batch >= 0
      BY SizeTypes
    <3> QED
      BY <2>1, <2>2, <3>1, <3>2, SizeTypes
  <2>3. CASE gatesSeen # 0
    <3>1. Len(groups) <= (gatesSeen - 1 + Window) * Batch
      BY <2>3 DEF IInv, PulsesPaid, GenerationBudget
    <3>2. gatesSeen - 1 + Window \in Int /\ gatesSeen + 1 - 1 + Window = (gatesSeen - 1 + Window) + 1
      BY <1>3, SizeTypes
    <3>3. /\ GenerationBudget' = (gatesSeen - 1 + Window) * Batch + Batch
          /\ (gatesSeen - 1 + Window) * Batch \in Int
      BY <2>1, <3>2, OneMore, SizeTypes
    <3> QED
      BY <3>1, <3>3, Amounts, SizeTypes
  <2> QED
    BY <2>2, <2>3
<1>8. PulsesPaid'
  BY <1>1, <1>3, <1>4, <1>7 DEF IInv, PulsesPaid
<1>9. GateStreamInOrder'
  <2> SUFFICES ASSUME NEW i \in DOMAIN gates' PROVE gates'[i].step = gatesSeen' + i - 1
    BY DEF GateStreamInOrder
  <2>1. i \in Nat /\ i + 1 \in DOMAIN gates /\ gates'[i] = gates[i + 1]
    BY <1>1, GatesTail
  <2> QED
    BY <1>1, <1>3, <2>1 DEF IInv, GateStreamInOrder
<1>10. PulsesNumbered'
  BY <1>1, <1>2, <1>3, <1>4 DEF IInv, PulsesNumbered, Places
<1> QED
  BY <1>5, <1>6, <1>8, <1>9, <1>10 DEF IInv

LEMMA AcquireKeeps ==
  ASSUME IInv, TypeOK', AcquireGenerationSlot
  PROVE  IInv'
<1>1. [label |-> label, weights |-> {}, aborted |-> FALSE, at |-> "held"] \in Group
  BY DEF IInv, TypeOK, Group, Places
<1>2. /\ Len(groups') = Len(groups) + 1
      /\ \A p \in Places \ {"held"} : At(p)' = At(p)
  BY <1>1, Counts, AppendAt DEF AcquireGenerationSlot
<1>3. /\ gatesSeen > 0 /\ (Window > 0 => WithinBudget)
      /\ UNCHANGED <<gates, gatesSeen, trainer, sinceSync, version, scorer, windows>>
  BY Amounts, SizeTypes DEF AcquireGenerationSlot, rolloutVars, trainerVars, scorerVars
<1>4. /\ Pulses' = Pulses /\ Finished' = Finished /\ Stepping' = Stepping
      /\ WindowsDone' = WindowsDone /\ GenerationBudget' = GenerationBudget
  BY <1>2, <1>3 DEF Pulses, Finished, Places, Stepping, WindowsDone, GenerationBudget
<1>5. GenesisFirst'
  BY <1>3, <1>4, Counts DEF IInv, GenesisFirst
<1>6. BatchesHeld'
  BY <1>2, <1>3 DEF IInv, BatchesHeld, Places
<1>7. PulsesPaid'
  BY <1>2, <1>3, <1>4 DEF IInv, PulsesPaid, WithinBudget
<1>8. GateStreamInOrder'
  BY <1>3 DEF IInv, GateStreamInOrder
<1>9. PulsesNumbered'
  BY <1>2, <1>3, <1>4 DEF IInv, PulsesNumbered, Places
<1> QED
  BY <1>5, <1>6, <1>7, <1>8, <1>9 DEF IInv

-----------------------------------------------------------------------------
(* The trainer.                                                            *)

LEMMA GenesisGateKeeps ==
  ASSUME IInv, TypeOK', RaiseGenesisGate
  PROVE  IInv'
<1>1. /\ trainer = "start" /\ trainer' = "fetch" /\ groups' = groups
      /\ UNCHANGED <<gatesSeen, sinceSync, version, scorer, windows>>
      /\ gates' = Append(gates, [step |-> version, version |-> version])
  BY DEF RaiseGenesisGate, rolloutVars, scorerVars
<1>2. Pulses = 0 /\ version = 0 /\ sinceSync = 0 /\ windows = 0 /\ scorer = "fetch"
  BY <1>1 DEF IInv, GenesisFirst
<1>3. [step |-> version, version |-> version] \in Gate
  BY Counts DEF Gate
<1>4. GateStreamInOrder' /\ Pulses' = 1
  BY <1>1, <1>2, <1>3, NextPulse
<1>5. \A p \in Places : At(p)' = At(p)
  BY <1>1 DEF At
<1>6. Finished' = Finished /\ ~Stepping' /\ WindowsDone' = 0 /\ GenerationBudget' = GenerationBudget
  BY <1>1, <1>2, <1>5 DEF Finished, Places, Stepping, WindowsDone, GenerationBudget
<1>7. GenesisFirst'
  BY <1>1 DEF IInv, GenesisFirst
<1>8. BatchesHeld'
  BY <1>1, <1>5 DEF IInv, BatchesHeld, Places
<1>9. PulsesPaid'
  BY <1>1, <1>2, <1>4, <1>6, Amounts, SizeTypes DEF IInv, PulsesPaid
<1>10. PulsesNumbered'
  BY <1>1, <1>2, <1>4, <1>5, <1>6, SizeTypes DEF IInv, PulsesNumbered, Places, WindowsDone
<1> QED
  BY <1>4, <1>7, <1>8, <1>9, <1>10 DEF IInv

LEMMA TrainerFetchesKeeps ==
  ASSUME IInv, TypeOK', TrainerFetches
  PROVE  IInv'
<1>1. /\ trainer = "fetch" /\ trainer' = "batch"
      /\ UNCHANGED <<gates, gatesSeen, sinceSync, version, scorer, windows>>
  BY DEF TrainerFetches, rolloutVars, scorerVars
<1>2. PICK G \in SUBSET Ready : Cardinality(G) = Chunk /\ groups' = Move(G, "training")
  BY DEF TrainerFetches
<1>3. PICK from \in {"row", "scored"} :
        Ready = At(from) /\ (from = "row" => Scorer = "none")
  BY DEF Ready
<1>4. /\ Finished' = Finished /\ At("training")' = At("training") \cup G
      /\ At(from)' = At(from) \ G
      /\ \A p \in Places \ {from, "training"} : At(p)' = At(p)
      /\ Len(groups') = Len(groups)
  BY <1>2, <1>3, Fetching DEF Places
<1>5. At("training")' = G
  BY <1>1, <1>4 DEF IInv, BatchesHeld
<1>6. WindowsDone >= ColdWindows
  <2>1. G # {}
    BY <1>2, SizeTypes, FS_EmptySet
  <2>2. CASE from = "row"
    BY <1>3, <2>2, SizeTypes, ModeAssumption DEF IInv, BatchesHeld, WindowsDone
  <2>3. CASE from = "scored"
    BY <1>2, <1>3, <2>1, <2>3 DEF IInv, PulsesNumbered
  <2> QED
    BY <2>2, <2>3
<1>7. /\ Pulses' = Pulses /\ Stepping' = Stepping /\ WindowsDone' = WindowsDone
      /\ GenerationBudget' = GenerationBudget
  BY <1>1 DEF Pulses, Stepping, WindowsDone, GenerationBudget
<1>8. GenesisFirst'
  BY <1>1, <1>4, Counts DEF IInv, TypeOK, GenesisFirst
<1>9. BatchesHeld'
  BY <1>1, <1>2, <1>3, <1>4, <1>5 DEF IInv, BatchesHeld, Places
<1>10. PulsesPaid'
  BY <1>1, <1>4, <1>7 DEF IInv, PulsesPaid
<1>11. GateStreamInOrder'
  BY <1>1 DEF IInv, GateStreamInOrder
<1>12. PulsesNumbered'
  BY <1>1, <1>6, <1>7 DEF IInv, PulsesNumbered
<1> QED
  BY <1>8, <1>9, <1>10, <1>11, <1>12 DEF IInv

LEMMA StepChunkKeeps ==
  ASSUME IInv, TypeOK', StepChunk
  PROVE  IInv'
<1>1. /\ trainer = "batch" /\ trainer' = "fetch" /\ sinceSync' = sinceSync + Chunk
      /\ groups' = Move(At("training"), "trained")
      /\ UNCHANGED <<gates, gatesSeen, version, scorer, windows>>
  BY DEF StepChunk, MayTrain, rolloutVars, scorerVars
<1>2. /\ Cardinality(Finished') = Cardinality(Finished) + Chunk
      /\ At("training")' = {}
      /\ \A p \in Places \ {"training", "trained"} : At(p)' = At(p)
      /\ Len(groups') = Len(groups) /\ WindowsDone >= ColdWindows
  BY <1>1, Finishing, TrainerHolds
<1>3. /\ Pulses' = Pulses /\ ~Stepping /\ ~Stepping' /\ WindowsDone' = WindowsDone
      /\ GenerationBudget' = GenerationBudget
  BY <1>1 DEF Pulses, Stepping, WindowsDone, GenerationBudget
<1>4. GenesisFirst'
  BY <1>1, <1>2, Counts DEF IInv, TypeOK, GenesisFirst
<1>5. BatchesHeld'
  BY <1>1, <1>2 DEF IInv, BatchesHeld, Places
<1>6. PulsesPaid'
  <2> DEFINE paid == (Pulses - 1) * Batch
  <2>1. paid + sinceSync + 0 <= Cardinality(Finished)
    BY <1>1, <1>3 DEF IInv, PulsesPaid
  <2>2. paid \in Int /\ paid' = paid
    BY <1>3, Amounts, SizeTypes
  <2> DEFINE done == Cardinality(Finished)
  <2>3. /\ sinceSync' = sinceSync + Chunk /\ done' = done + Chunk
        /\ sinceSync \in Nat /\ done \in Nat /\ Chunk \in Nat
    BY <1>1, <1>2, Amounts, SizeTypes
  <2>4. paid + sinceSync <= done
    BY <2>1, <2>2, <2>3
  <2> HIDE DEF paid, done
  <2>5. paid' + sinceSync' + 0 <= done'
    BY <2>2, <2>3, <2>4
  <2> USE DEF done
  <2> USE DEF paid
  <2> QED
    BY <1>1, <1>2, <1>3, <2>5 DEF IInv, PulsesPaid
<1>7. GateStreamInOrder'
  BY <1>1 DEF IInv, GateStreamInOrder
<1>8. PulsesNumbered'
  BY <1>1, <1>2, <1>3 DEF IInv, PulsesNumbered
<1> QED
  BY <1>4, <1>5, <1>6, <1>7, <1>8 DEF IInv

LEMMA StepSyncKeeps ==
  ASSUME IInv, TypeOK', StepSync
  PROVE  IInv'
<1>1. /\ trainer = "batch" /\ trainer' \in {"stepped", "gate"}
      /\ sinceSync + Chunk >= Batch /\ sinceSync' = 0 /\ version' = version + 1
      /\ UNCHANGED <<gates, gatesSeen, groups, scorer, windows>>
  BY DEF StepSync, MayTrain, Sync, rolloutVars, scorerVars
<1>2. \A p \in Places : At(p)' = At(p)
  BY <1>1 DEF At
<1>3. /\ Pulses' = Pulses /\ ~Stepping /\ Stepping' /\ WindowsDone' = WindowsDone
      /\ GenerationBudget' = GenerationBudget /\ Finished' = Finished
  BY <1>1, <1>2 DEF Pulses, Stepping, WindowsDone, GenerationBudget, Finished, Places
<1>4. WindowsDone >= ColdWindows
  BY <1>1, TrainerHolds
<1>5. GenesisFirst'
  BY <1>1 DEF IInv, GenesisFirst
<1>6. BatchesHeld'
  BY <1>1, <1>2 DEF IInv, BatchesHeld, Places
<1>7. PulsesPaid'
  <2> DEFINE paid == (Pulses - 1) * Batch
  <2>1. paid + sinceSync + 0 <= Cardinality(Finished)
    BY <1>1, <1>3 DEF IInv, PulsesPaid
  <2>2. paid \in Int /\ paid' = paid
    BY <1>3, Amounts, SizeTypes
  <2> DEFINE done == Cardinality(Finished)
  <2>3. /\ sinceSync' = 0 /\ done' = done
        /\ sinceSync \in Nat /\ done \in Nat
    BY <1>1, <1>3, Amounts
  <2>4. paid + sinceSync <= done
    BY <2>1, <2>2, <2>3
  <2>5. Due \in Nat /\ Due <= sinceSync
    BY <1>1, <2>3, SizeTypes DEF Due
  <2> HIDE DEF paid, done
  <2>6. paid' + sinceSync' + Due <= done'
    BY <2>2, <2>3, <2>4, <2>5
  <2> USE DEF done
  <2> USE DEF paid
  <2> QED
    BY <1>1, <1>3, <2>6 DEF IInv, PulsesPaid
<1>8. GateStreamInOrder'
  BY <1>1 DEF IInv, GateStreamInOrder
<1>9. PulsesNumbered'
  <2> DEFINE cold == IF WindowsDone <= ColdWindows THEN WindowsDone ELSE ColdWindows
  <2>1. cold' = cold /\ cold \in Nat
    BY <1>3, Amounts, SizeTypes
  <2>2. Pulses + 0 = 1 + version + cold
    BY <1>1, <1>3 DEF IInv, PulsesNumbered
  <2>3. Pulses \in Nat /\ version \in Nat
    BY Counts
  <2> HIDE DEF cold
  <2>4. Pulses' + 1 = 1 + version' + cold'
    BY <1>1, <1>3, <2>1, <2>2, <2>3
  <2>5. WindowsDone' >= ColdWindows
    BY <1>3, <1>4
  <2> USE DEF cold
  <2> QED
    BY <1>3, <2>4, <2>5 DEF PulsesNumbered
<1> QED
  BY <1>5, <1>6, <1>7, <1>8, <1>9 DEF IInv

LEMMA RaiseGateKeeps ==
  ASSUME IInv, TypeOK', RaiseGate
  PROVE  IInv'
<1> DEFINE pulse == [step |-> version + ColdWindows, version |-> version]
<1>1. /\ trainer = "gate" /\ trainer' = "fetch" /\ gates' = Append(gates, pulse)
      /\ groups' = Move(At("training"), "trained")
      /\ UNCHANGED <<gatesSeen, sinceSync, version, scorer, windows>>
  BY DEF RaiseGate, rolloutVars, scorerVars
<1>2. /\ Cardinality(Finished') = Cardinality(Finished) + Chunk
      /\ At("training")' = {}
      /\ \A p \in Places \ {"training", "trained"} : At(p)' = At(p)
      /\ Len(groups') = Len(groups) /\ WindowsDone >= ColdWindows
  BY <1>1, Finishing, TrainerHolds
<1>3. pulse \in Gate /\ pulse.step = version + ColdWindows
  BY Amounts, SizeTypes DEF Gate
<1>4. /\ Stepping /\ ~Stepping' /\ WindowsDone' = WindowsDone
      /\ GenerationBudget' = GenerationBudget
  BY <1>1 DEF Stepping, WindowsDone, GenerationBudget
<1>5. Pulses = version + ColdWindows
  <2>1. Pulses + 1 = 1 + version + (IF WindowsDone <= ColdWindows THEN WindowsDone ELSE ColdWindows)
    BY <1>1, <1>4 DEF IInv, PulsesNumbered
  <2>2. WindowsDone >= ColdWindows /\ WindowsDone \in Nat /\ Pulses \in Nat /\ version \in Nat
    BY <1>2, Amounts
  <2>3. (IF WindowsDone <= ColdWindows THEN WindowsDone ELSE ColdWindows) = ColdWindows
    BY <2>2, SizeTypes
  <2> QED
    BY <2>1, <2>2, <2>3, SizeTypes
<1> HIDE DEF pulse
<1>6. GateStreamInOrder' /\ Pulses' = Pulses + 1
  BY <1>1, <1>3, <1>5, NextPulse
<1>7. GenesisFirst'
  BY <1>1, <1>2, Counts DEF IInv, TypeOK, GenesisFirst
<1>8. BatchesHeld'
  BY <1>1, <1>2 DEF IInv, BatchesHeld, Places
<1>9. PulsesPaid'
  <2> DEFINE paid == (Pulses - 1) * Batch
  <2>1. paid + sinceSync + Due <= Cardinality(Finished)
    BY <1>1, <1>4 DEF IInv, PulsesPaid
  <2>2. paid \in Int /\ (Pulses' - 1) * Batch = paid + Batch
    <3>1. Pulses - 1 \in Int /\ Pulses' - 1 = (Pulses - 1) + 1
      BY <1>6, Amounts
    <3> QED
      BY <3>1, OneMore, SizeTypes
  <2> HIDE DEF paid
  <2> DEFINE done == Cardinality(Finished)
             next == Cardinality(Finished')
  <2>3. done \in Nat /\ sinceSync \in Nat /\ next = done + Chunk
    BY <1>2, Counts
  <2>4. paid + sinceSync + Due <= done /\ paid \in Int /\ sinceSync' = sinceSync
    BY <1>1, <2>1, <2>2
  <2>5. Due \in Nat /\ Due + Chunk >= Batch
    BY SizeTypes DEF Due
  <2> HIDE DEF done, next
  <2>6. (paid + Batch) + sinceSync' + 0 <= next
    BY <2>3, <2>4, <2>5, SizeTypes
  <2> USE DEF next
  <2> QED
    BY <1>1, <1>2, <1>4, <2>2, <2>6 DEF IInv, PulsesPaid
<1>10. PulsesNumbered'
  BY <1>1, <1>2, <1>4, <1>5, <1>6, Amounts, SizeTypes DEF IInv, PulsesNumbered
<1> QED
  BY <1>6, <1>7, <1>8, <1>9, <1>10 DEF IInv

-----------------------------------------------------------------------------
(* The scorer.                                                             *)

LEMMA ScorerFetchesKeeps ==
  ASSUME IInv, TypeOK', ScorerFetches
  PROVE  IInv'
<1>1. /\ scorer = "fetch" /\ scorer' = "batch" /\ windows' = windows + 1 /\ Scorer # "none"
      /\ UNCHANGED <<gates, gatesSeen, trainer, sinceSync, version>>
  BY DEF ScorerFetches, rolloutVars, trainerVars
<1>2. PICK G \in SUBSET At("row") : Cardinality(G) = ScoreBatch /\ groups' = Move(G, "scoring")
  BY DEF ScorerFetches
<1>3. /\ Finished' = Finished /\ At("scoring")' = At("scoring") \cup G
      /\ \A p \in Places \ {"row", "scoring"} : At(p)' = At(p)
      /\ Len(groups') = Len(groups)
  BY <1>2, Fetching DEF Places
<1>4. At("scoring")' = G
  BY <1>1, <1>3 DEF IInv, BatchesHeld
<1>5. trainer # "start" /\ gatesSeen # 0
  <2>1. PICK g : g \in G
    BY <1>2, SizeTypes, FS_EmptySet
  <2>2. groups # <<>>
    BY <1>2, <2>1 DEF At
  <2>3. gatesSeen # 0
    BY <2>2 DEF IInv, GenesisFirst
  <2> QED
    BY <2>3, Counts DEF IInv, GenesisFirst, Pulses
<1>6. /\ Pulses' = Pulses /\ Stepping' = Stepping /\ WindowsDone' = WindowsDone
      /\ GenerationBudget' = GenerationBudget
  BY <1>1, Counts DEF Pulses, Stepping, WindowsDone, GenerationBudget
<1>7. GenesisFirst'
  BY <1>1, <1>5 DEF GenesisFirst
<1>8. BatchesHeld'
  BY <1>1, <1>2, <1>3, <1>4, Counts DEF IInv, BatchesHeld, Places
<1>9. PulsesPaid'
  BY <1>1, <1>3, <1>6 DEF IInv, PulsesPaid
<1>10. GateStreamInOrder'
  BY <1>1 DEF IInv, GateStreamInOrder
<1>11. PulsesNumbered'
  BY <1>1, <1>3, <1>6 DEF IInv, PulsesNumbered, Places
<1> QED
  BY <1>7, <1>8, <1>9, <1>10, <1>11 DEF IInv

(* While the critic is cold the trainer has nothing, and has done nothing. *)
LEMMA ColdStart ==
  ASSUME IInv, scorer = "write", Cold
  PROVE  /\ windows > 0 /\ windows <= ColdWindows
         /\ Cardinality(At("scoring")) = Batch
         /\ WindowsDone = windows - 1 /\ version = 0 /\ ~Stepping /\ trainer # "start"
         /\ At("scored") \cup At("training") \cup At("trained") = {}
<1>1. /\ windows > 0 /\ windows <= ColdWindows /\ Scorer = "critic"
      /\ Cardinality(At("scoring")) = Batch
  BY Amounts, SizeTypes, ModeAssumption, CriticAssumption DEF IInv, BatchesHeld, Cold
<1>2. WindowsDone = windows - 1
  BY DEF WindowsDone
<1>3. ~(WindowsDone >= ColdWindows)
  BY <1>1, <1>2, Amounts, SizeTypes
<1>4. version = 0 /\ At("scored") \cup At("training") \cup At("trained") = {}
  BY <1>3, Counts DEF IInv, PulsesNumbered
<1>5. trainer # "start"
  BY DEF IInv, GenesisFirst
<1>6. ~Stepping
  BY <1>4, TrainerHolds DEF Stepping
<1> QED
  BY <1>1, <1>2, <1>4, <1>5, <1>6

LEMMA ColdWriteKeeps ==
  ASSUME IInv, TypeOK', WriteScores, Cold
  PROVE  IInv'
<1> DEFINE pulse == [step |-> windows, version |-> 0]
<1>1. /\ scorer = "write" /\ scorer' = "fetch" /\ gates' = Append(gates, pulse)
      /\ groups' = Move(At("scoring"), "cleared")
      /\ UNCHANGED <<gatesSeen, trainer, sinceSync, version, windows>>
  BY DEF WriteScores, rolloutVars, trainerVars
<1>2. /\ windows > 0 /\ windows <= ColdWindows
      /\ Cardinality(At("scoring")) = Batch
      /\ WindowsDone = windows - 1 /\ version = 0 /\ ~Stepping /\ trainer # "start"
      /\ At("scored") \cup At("training") \cup At("trained") = {}
  BY <1>1, ColdStart
<1>3. WindowsDone' = windows
  BY <1>1 DEF WindowsDone
<1>4. At("training") = {} /\ At("scored") = {} /\ At("trained") = {}
  BY <1>2
<1>5. ~Stepping'
  BY <1>1, <1>2 DEF Stepping
<1>6. /\ Cardinality(Finished') = Cardinality(Finished) + Batch
      /\ At("scoring")' = {}
      /\ \A p \in Places \ {"scoring", "cleared"} : At(p)' = At(p)
      /\ Len(groups') = Len(groups)
  BY <1>1, <1>2, Finishing
<1>7. pulse \in Gate /\ pulse.step = windows
  BY Counts DEF Gate
<1>8. Pulses = windows
  <2>1. Pulses + 0 = 1 + version + (IF WindowsDone <= ColdWindows THEN WindowsDone ELSE ColdWindows)
    BY <1>2 DEF IInv, PulsesNumbered
  <2> QED
    BY <1>2, <2>1, Amounts, SizeTypes
<1> HIDE DEF pulse
<1>9. GateStreamInOrder' /\ Pulses' = Pulses + 1
  BY <1>1, <1>7, <1>8, NextPulse
<1>10. GenerationBudget' = GenerationBudget
  BY <1>1 DEF GenerationBudget
<1>11. GenesisFirst'
  BY <1>1, <1>2, <1>6, Counts DEF IInv, TypeOK, GenesisFirst
<1>12. BatchesHeld'
  BY <1>1, <1>2, <1>6 DEF IInv, BatchesHeld, Places
<1>13. PulsesPaid'
  <2> DEFINE paid == (Pulses - 1) * Batch
  <2>1. paid + sinceSync + 0 <= Cardinality(Finished)
    BY <1>2 DEF IInv, PulsesPaid
  <2>2. paid \in Int /\ (Pulses' - 1) * Batch = paid + Batch
    <3>1. Pulses - 1 \in Int /\ Pulses' - 1 = (Pulses - 1) + 1
      BY <1>9, Amounts
    <3> QED
      BY <3>1, OneMore, SizeTypes
  <2> HIDE DEF paid
  <2>3. (paid + Batch) + sinceSync' + 0 <= Cardinality(Finished')
    BY <1>1, <1>6, <2>1, <2>2, Amounts, SizeTypes
  <2> QED
    BY <1>1, <1>2, <1>5, <1>6, <1>10, <2>2, <2>3 DEF IInv, PulsesPaid
<1>14. PulsesNumbered'
  <2>1. Pulses' = 1 + windows
    BY <1>8, <1>9, Counts
  <2>2. version' = 0 /\ At("scored")' \cup At("training")' \cup At("trained")' = {}
    BY <1>1, <1>2, <1>4, <1>6 DEF Places
  <2> QED
    BY <1>2, <1>3, <1>5, <2>1, <2>2, Amounts, SizeTypes DEF PulsesNumbered
<1> QED
  BY <1>9, <1>11, <1>12, <1>13, <1>14 DEF IInv

LEMMA WarmWriteKeeps ==
  ASSUME IInv, TypeOK', WriteScores, ~Cold
  PROVE  IInv'
<1>1. /\ scorer = "write" /\ scorer' = "fetch"
      /\ groups' = Move(At("scoring"), "scored")
      /\ UNCHANGED <<gates, gatesSeen, trainer, sinceSync, version, windows>>
  BY DEF WriteScores, rolloutVars, trainerVars
<1>2. /\ Finished' = Finished /\ At("scoring")' = {}
      /\ \A p \in Places \ {"scoring", "scored"} : At(p)' = At(p)
      /\ Len(groups') = Len(groups)
  <2>1. At("scoring") \in SUBSET At("scoring")
    OBVIOUS
  <2> QED
    BY <1>1, <2>1, Fetching DEF Places
<1>3. /\ WindowsDone = windows - 1 /\ WindowsDone' = windows
      /\ WindowsDone >= ColdWindows /\ WindowsDone' >= ColdWindows
  BY <1>1, Amounts, SizeTypes DEF WindowsDone, Cold
<1>4. /\ Pulses' = Pulses /\ Stepping' = Stepping /\ GenerationBudget' = GenerationBudget
  BY <1>1 DEF Pulses, Stepping, GenerationBudget
<1>5. GenesisFirst'
  BY <1>1, <1>2, Counts DEF IInv, TypeOK, GenesisFirst
<1>6. BatchesHeld'
  BY <1>1, <1>2 DEF IInv, BatchesHeld, Places
<1>7. PulsesPaid'
  BY <1>1, <1>2, <1>4 DEF IInv, PulsesPaid
<1>8. GateStreamInOrder'
  BY <1>1 DEF IInv, GateStreamInOrder
<1>9. PulsesNumbered'
  BY <1>1, <1>3, <1>4, Amounts, SizeTypes DEF IInv, PulsesNumbered
<1> QED
  BY <1>5, <1>6, <1>7, <1>8, <1>9 DEF IInv

-----------------------------------------------------------------------------
(* The theorems.                                                           *)

LEMMA InitIInv == Init => IInv
<1> SUFFICES ASSUME Init PROVE IInv
  OBVIOUS
<1>1. TypeOK
  BY InitType
<1>2. \A p : At(p) = {}
  BY DEF Init, At
<1>3. Pulses = 0 /\ WindowsDone = 0 /\ ~Stepping
  BY DEF Init, Pulses, WindowsDone, Stepping
<1>4. GenesisFirst
  BY <1>3 DEF Init, GenesisFirst
<1>5. BatchesHeld
  BY <1>2 DEF Init, BatchesHeld
<1>6. PulsesPaid
  BY DEF Init, PulsesPaid, GenerationBudget
<1>7. GateStreamInOrder
  BY DEF Init, GateStreamInOrder
<1>8. PulsesNumbered
  BY <1>2 DEF Init, PulsesNumbered
<1> QED
  BY <1>1, <1>4, <1>5, <1>6, <1>7, <1>8 DEF IInv

LEMMA StepIInv == IInv /\ [Next]_vars => IInv'
<1> SUFFICES ASSUME IInv, [Next]_vars PROVE IInv'
  OBVIOUS
<1>1. TypeOK /\ TypeOK'
  BY StepType DEF IInv
<1>2. CASE \/ UNCHANGED vars
           \/ \E g \in DOMAIN groups : GroupTask(g)
           \/ TrainerLeaves \/ TrainerReleases
           \/ ScoreWindow \/ ScorerLeaves \/ ScorerReleases
           \/ Card
  BY <1>1, <1>2, QuietSteps, QuietKeeps
<1>3. CASE WriteScores
  BY <1>1, <1>3, ColdWriteKeeps, WarmWriteKeeps
<1> QED
  BY <1>1, <1>2, <1>3, TryAdvanceGateKeeps, AcquireKeeps, GenesisGateKeeps,
     TrainerFetchesKeeps, StepChunkKeeps, StepSyncKeeps, RaiseGateKeeps,
     ScorerFetchesKeeps
     DEF Next, RolloutLoop, TrainerWorker, ScorerWorker

LEMMA Invariant == Spec => []IInv
  BY InitIInv, StepIInv, PTL DEF Spec

(* A gated rollout never has more than W batches under way, whatever the   *)
(* card, the scorer, the streaming and the lost groups do.                 *)
LEMMA BoundedByInvariant == IInv => OverlapBounded
<1> SUFFICES ASSUME IInv, Window > 0
             PROVE  Cardinality(DOMAIN groups \ Finished) <= Window * Batch
  BY DEF OverlapBounded, Finished
<1>1. Cardinality(DOMAIN groups \ Finished) = Len(groups) - Cardinality(Finished)
  <2>1. IsFiniteSet(DOMAIN groups) /\ Cardinality(DOMAIN groups) = Len(groups)
    BY Counts, GroupSeq, InitialSegment
  <2>2. Finished \subseteq DOMAIN groups /\ IsFiniteSet(Finished)
    BY Counts
  <2>3. DOMAIN groups \cap Finished = Finished
    BY <2>2
  <2>4. Cardinality(DOMAIN groups \ Finished)
          = Cardinality(DOMAIN groups) - Cardinality(DOMAIN groups \cap Finished)
    BY <2>1, FS_Difference
  <2> QED
    BY <2>1, <2>3, <2>4
<1>2. Len(groups) <= GenerationBudget
  BY DEF IInv, PulsesPaid
<1>3. CASE gatesSeen = 0
  <2>1. Len(groups) = 0
    BY <1>3 DEF IInv, GenesisFirst
  <2>2. Window * Batch >= 0
    BY SizeTypes
  <2>3. Cardinality(Finished) >= 0 /\ Cardinality(Finished) \in Nat
    BY Counts
  <2> HIDE DEF Finished
  <2>4. Window * Batch \in Int
    BY SizeTypes
  <2> QED
    BY <1>1, <2>1, <2>2, <2>3, <2>4
<1>4. CASE gatesSeen # 0
  <2> DEFINE paid == (Pulses - 1) * Batch
             seen == (gatesSeen - 1) * Batch
             ahead == Window * Batch
  <2>1. trainer # "start" /\ gatesSeen <= Pulses
    BY <1>4, Counts DEF IInv, GenesisFirst, Pulses
  <2>2. paid \in Int /\ seen \in Int /\ ahead \in Int
    BY Amounts, SizeTypes
  <2>3. seen <= paid
    <3>1. gatesSeen - 1 \in Int /\ Pulses - 1 \in Int /\ gatesSeen - 1 <= Pulses - 1
      BY <2>1, Amounts
    <3> QED
      BY <3>1, Monotone, SizeTypes
  <2>4. GenerationBudget = seen + ahead
    BY <1>4, Amounts, SizeTypes DEF GenerationBudget
  <2>5. paid + sinceSync + (IF Stepping THEN Due ELSE 0) <= Cardinality(Finished)
    BY <2>1 DEF IInv, PulsesPaid
  <2>6. (IF Stepping THEN Due ELSE 0) \in Nat /\ sinceSync \in Nat
    BY Amounts, SizeTypes DEF Due
  <2>7. Cardinality(Finished) \in Nat /\ Len(groups) \in Nat
    BY Counts
  <2> DEFINE done == Cardinality(Finished)
             due == IF Stepping THEN Due ELSE 0
  <2>8. paid + sinceSync + due <= done /\ due \in Nat /\ done \in Nat
    BY <2>5, <2>6, <2>7
  <2>9. Len(groups) <= seen + ahead
    BY <1>2, <2>4
  <2> SUFFICES Len(groups) - done <= ahead
    BY <1>1
  <2> HIDE DEF paid, seen, ahead, done, due
  <2> QED
    BY <2>2, <2>3, <2>6, <2>7, <2>8, <2>9
<1> QED
  BY <1>3, <1>4

THEOREM OverlapIsBounded == Spec => []OverlapBounded
  BY Invariant, BoundedByInvariant, PTL

(* The rollout reads pulses 0, 1, 2, ... : the critic's cold start and the *)
(* trainer's steps number one stream without a gap or a repetition.        *)
THEOREM GatesComeInOrder == Spec => []GateStreamInOrder
<1>1. IInv => GateStreamInOrder
  BY DEF IInv
<1> QED
  BY <1>1, Invariant, PTL

-----------------------------------------------------------------------------
(***************************************************************************)
(* Proofs about what the inference server serves and who holds the card,   *)
(* for every window, batch, cold start and placement: the weights a grant  *)
(* names, the labels of the groups, the lock step of a window of one, and  *)
(* the one clock of a critic and its trainer.                              *)
(***************************************************************************)

(* The card and the workers: a request of a worker stands while it holds   *)
(* its batch, and a worker that has done its work still owns the card.     *)

TokenHeld ==
  /\ onCard \subseteq {owner}
  /\ Nobody \notin onCard
  /\ left => onCard = {}
  /\ Infer \notin asking /\ owner \notin asking
  /\ owner = Nobody => ~left
  /\ ~Colocated => owner = Nobody /\ asking = {}

TrainerOnCard ==
  /\ Train \in asking => trainer = "batch"
  /\ trainer = "stepped" => owner = Train
  /\ owner = Train =>
       /\ trainer \in {"fetch", "batch", "stepped"}
       /\ trainer = "fetch" => Chunk < Batch
       /\ left => trainer = "stepped"

ScorerOnCard ==
  /\ Score \in asking => scorer = "batch"
  /\ scorer = "scored" => owner = Score
  /\ owner = Score =>
       /\ scorer \in {"batch", "scored"}
       /\ left => scorer = "scored"

CardInv == TypeOK /\ TokenHeld /\ TrainerOnCard /\ ScorerOnCard

LEMMA CardInit == Init => CardInv
<1> SUFFICES ASSUME Init PROVE CardInv
  OBVIOUS
<1> QED
  BY InitType
     DEF Init, Token!Init, CardInv, TokenHeld, TrainerOnCard, ScorerOnCard, Infer, Train,
         Score, Nobody

(* What the token does, whoever moves it. *)
LEMMA TokenKept ==
  ASSUME TypeOK, TokenHeld,
         \/ UNCHANGED token
         \/ Colocated /\ Token!Genesis(Infer)
         \/ Token!Enter \/ Token!Leave
         \/ Colocated /\ \E s \in {Train, Score} : Token!Ask(s) /\ owner # s
         \/ \E t \in Members : Token!Pass(t)
  PROVE  TokenHeld'
<1> USE DEF TokenHeld, TypeOK, Members, Infer, Train, Score, Nobody
<1>1. CASE UNCHANGED token
  BY <1>1 DEF token
<1>2. CASE Colocated /\ Token!Genesis(Infer)
  BY <1>2 DEF Token!Genesis
<1>3. CASE Token!Enter
  BY <1>3 DEF Token!Enter
<1>4. CASE Token!Leave
  BY <1>4 DEF Token!Leave
<1>5. ASSUME NEW s \in {Train, Score}, Colocated, Token!Ask(s), owner # s PROVE TokenHeld'
  BY <1>5 DEF Token!Ask
<1>6. ASSUME NEW t \in Members, Token!Pass(t) PROVE TokenHeld'
  BY <1>6 DEF Token!Pass
<1> QED
  BY <1>1, <1>2, <1>3, <1>4, <1>5, <1>6

LEMMA CardStep == CardInv /\ [Next]_vars => CardInv'
<1> SUFFICES ASSUME CardInv, [Next]_vars PROVE CardInv'
  OBVIOUS
<1> USE DEF CardInv, Members, Infer, Train, Score, Nobody
<1>0. TypeOK'
  BY StepType
<1>1. CASE UNCHANGED <<token, trainer, scorer>>
  BY <1>0, <1>1, TokenKept DEF token, TrainerOnCard, ScorerOnCard
<1>2. CASE RaiseGenesisGate \/ RaiseGate
  BY <1>0, <1>2, TokenKept
     DEF RaiseGenesisGate, RaiseGate, token, scorerVars, TrainerOnCard, ScorerOnCard
<1>3. CASE TrainerFetches
  BY <1>0, <1>3, TokenKept
     DEF TrainerFetches, Token!Ask, token, scorerVars, TokenHeld, TrainerOnCard, ScorerOnCard
<1>4. CASE StepChunk \/ StepSync
  BY <1>0, <1>4, TokenKept, SizeTypes
     DEF StepChunk, StepSync, Sync, MayTrain, TypeOK, token, scorerVars, TokenHeld,
         TrainerOnCard, ScorerOnCard
<1>5. CASE TrainerLeaves \/ ScorerLeaves \/ InferLeaves
  BY <1>0, <1>5, TokenKept
     DEF TrainerLeaves, ScorerLeaves, InferLeaves, Token!Leave, trainerVars, scorerVars,
         TokenHeld, TrainerOnCard, ScorerOnCard
<1>6. CASE TrainerReleases
  BY <1>0, <1>6, TokenKept
     DEF TrainerReleases, Token!Pass, scorerVars, TokenHeld, TrainerOnCard, ScorerOnCard
<1>7. CASE ScorerFetches
  BY <1>0, <1>7, TokenKept
     DEF ScorerFetches, Token!Ask, token, trainerVars, TokenHeld, TrainerOnCard, ScorerOnCard
<1>8. CASE ScoreWindow
  BY <1>0, <1>8, TokenKept
     DEF ScoreWindow, token, trainerVars, TokenHeld, TrainerOnCard, ScorerOnCard
<1>9. CASE ScorerReleases
  BY <1>0, <1>9, TokenKept
     DEF ScorerReleases, Token!Pass, trainerVars, TokenHeld, TrainerOnCard, ScorerOnCard
<1>10. CASE WriteScores
  BY <1>0, <1>10, TokenKept
     DEF WriteScores, token, trainerVars, TokenHeld, TrainerOnCard, ScorerOnCard
<1>11. CASE Genesis
  BY <1>0, <1>11, TokenKept
     DEF Genesis, Token!Genesis, trainerVars, scorerVars, TokenHeld, TrainerOnCard,
         ScorerOnCard
<1>12. CASE InferEnters \/ WorkerEnters
  BY <1>0, <1>12, TokenKept
     DEF InferEnters, WorkerEnters, Token!Enter, trainerVars, scorerVars, TokenHeld,
         TrainerOnCard, ScorerOnCard
<1>13. CASE InferPasses
  BY <1>0, <1>13, TokenKept
     DEF InferPasses, Token!Pass, TypeOK, trainerVars, scorerVars, TokenHeld, TrainerOnCard,
         ScorerOnCard
<1>14. CASE UNCHANGED vars \/ RolloutLoop \/ \E g \in DOMAIN groups : GroupTask(g)
  BY <1>1, <1>14
     DEF vars, RolloutLoop, TryAdvanceGate, AcquireGenerationSlot, GroupTask, Execute,
         Generate, FinishGroup, WriteRolloutGroup, DropGroup, trainerVars, scorerVars, token
<1> QED
  BY <1>2, <1>3, <1>4, <1>5, <1>6, <1>7, <1>8, <1>9, <1>10, <1>11, <1>12, <1>13, <1>14
     DEF Next, TrainerWorker, ScorerWorker, Card

LEMMA CardInvariant == Spec => []CardInv
  BY CardInit, CardStep, PTL DEF Spec

(* A trainer that takes a whole batch to a fetch (stream_minibatch off)    *)
(* releases the card after each of them (TitanWorker.process_tq_batch), so *)
(* that it never keeps the others off the card while it waits for rows.    *)
THEOREM NeverIdlesOnCard ==
  ASSUME Chunk >= Batch
  PROVE  Spec => []NeverIdleOnCard
<1>1. CardInv => NeverIdleOnCard
  BY SizeTypes DEF CardInv, TrainerOnCard, NeverIdleOnCard
<1> QED
  BY <1>1, CardInvariant, PTL

-----------------------------------------------------------------------------
(* One clock.  What the scorer has passed on is what it has finished.      *)

PastScorer == At("scored") \cup At("training") \cup Finished
ScoredCounted == Scorer # "none" => Cardinality(PastScorer) = WindowsDone * ScoreBatch

LEMMA PastFinite ==
  ASSUME IInv
  PROVE  /\ PastScorer \in SUBSET DOMAIN groups
         /\ IsFiniteSet(PastScorer) /\ Cardinality(PastScorer) \in Nat
<1>1. PastScorer \in SUBSET DOMAIN groups
  BY DEF PastScorer, Finished, At
<1> QED
  BY <1>1, Counts, FiniteAt

LEMMA CountedInit == Init => ScoredCounted
<1> SUFFICES ASSUME Init PROVE ScoredCounted
  OBVIOUS
<1>1. PastScorer = {} /\ WindowsDone = 0
  BY DEF Init, PastScorer, Finished, At, WindowsDone
<1> QED
  BY <1>1, FS_EmptySet, SizeTypes DEF ScoredCounted

(* The scorer hands over a window. *)
LEMMA CountedWrite ==
  ASSUME IInv, ScoredCounted, WriteScores
  PROVE  ScoredCounted'
<1>1. PICK place \in {"scored", "cleared"} : groups' = Move(At("scoring"), place)
  BY DEF WriteScores
<1>2. /\ scorer = "write" /\ scorer' = "fetch" /\ windows' = windows
      /\ windows \in Nat /\ Cardinality(At("scoring")) = ScoreBatch
  BY Counts DEF WriteScores, IInv, BatchesHeld
<1>3. /\ groups \in Seq(Group) /\ At("scoring") \in SUBSET DOMAIN groups
      /\ IsFiniteSet(At("scoring"))
  BY Counts DEF Places
<1>4. /\ At(place)' = At(place) \cup At("scoring")
      /\ \A p \in Places \ {place} : At(p)' = At(p) \ At("scoring")
  BY <1>1, <1>3, MoveAt DEF Places
<1>5. \A p \in Places \ {"scoring"} : At(p) \cap At("scoring") = {}
  BY DEF At
<1>6. PastScorer' = PastScorer \cup At("scoring") /\ PastScorer \cap At("scoring") = {}
  BY <1>4, <1>5 DEF PastScorer, Finished, Places
<1>7. Cardinality(PastScorer') = Cardinality(PastScorer) + ScoreBatch
  <2>1. Cardinality(PastScorer \cup At("scoring")) =
          Cardinality(PastScorer) + Cardinality(At("scoring"))
            - Cardinality(PastScorer \cap At("scoring"))
    BY <1>3, PastFinite, FS_Union
  <2>2. Cardinality(PastScorer \cap At("scoring")) = 0
    BY <1>6, FS_EmptySet
  <2> QED
    BY <1>2, <1>6, <2>1, <2>2, PastFinite, SizeTypes
<1>8. WindowsDone' = WindowsDone + 1 /\ WindowsDone \in Nat
  BY <1>2, Counts DEF WindowsDone
<1>9. (WindowsDone + 1) * ScoreBatch = WindowsDone * ScoreBatch + ScoreBatch
  BY <1>8, OneMore, SizeTypes
<1> QED
  BY <1>7, <1>8, <1>9 DEF ScoredCounted

LEMMA CountedStep ==
  ASSUME IInv, [Next]_vars, ScoredCounted
  PROVE  ScoredCounted'
<1>0. TypeOK /\ groups \in Seq(Group)
  BY DEF IInv, TypeOK
<1>1. ASSUME PastScorer' = PastScorer, WindowsDone' = WindowsDone
      PROVE  ScoredCounted'
  BY <1>1 DEF ScoredCounted
<1>2. ASSUME \A p \in {"scored", "training", "trained", "cleared"} : At(p)' = At(p),
             WindowsDone' = WindowsDone
      PROVE  ScoredCounted'
  BY <1>1, <1>2 DEF PastScorer, Finished
<1>3. CASE \/ UNCHANGED vars
           \/ \E g \in DOMAIN groups : GroupTask(g)
           \/ TrainerLeaves \/ TrainerReleases
           \/ ScoreWindow \/ ScorerLeaves \/ ScorerReleases
           \/ Card
  <2>1. Quiet
    BY <1>0, <1>3, QuietSteps
  <2> QED
    BY <1>2, <2>1 DEF Quiet, WindowsDone
<1>4. CASE TryAdvanceGate \/ RaiseGenesisGate \/ StepSync
  BY <1>2, <1>4
     DEF TryAdvanceGate, RaiseGenesisGate, StepSync, At, WindowsDone, scorerVars
<1>5. CASE AcquireGenerationSlot
  <2>1. [label |-> label, weights |-> {}, aborted |-> FALSE, at |-> "held"] \in Group
    BY <1>0 DEF TypeOK, Group, Places
  <2>2. \A p \in Places \ {"held"} : At(p)' = At(p)
    BY <1>0, <1>5, <2>1, AppendAt DEF AcquireGenerationSlot
  <2> QED
    BY <1>2, <1>5, <2>2 DEF AcquireGenerationSlot, Places, WindowsDone, scorerVars
<1>6. CASE TrainerFetches /\ Scorer # "none"
  <2>1. PICK G \in SUBSET At("scored") : groups' = Move(G, "training")
    BY <1>6 DEF TrainerFetches, Ready
  <2>2. /\ Finished' = Finished
        /\ At("scored")' = At("scored") \ G /\ At("training")' = At("training") \cup G
    BY <2>1, Fetching DEF Places
  <2>3. PastScorer' = PastScorer
    BY <2>2 DEF PastScorer
  <2> QED
    BY <1>1, <1>6, <2>3 DEF TrainerFetches, WindowsDone, scorerVars
<1>7. CASE StepChunk \/ RaiseGate
  <2>1. groups' = Move(At("training"), "trained")
    BY <1>7 DEF StepChunk, RaiseGate
  <2>2. /\ Finished' = Finished \cup At("training") /\ At("training")' = {}
        /\ At("scored")' = At("scored")
    BY <2>1, Finishing DEF Places
  <2>3. PastScorer' = PastScorer
    BY <2>2 DEF PastScorer
  <2> QED
    BY <1>1, <1>7, <2>3 DEF StepChunk, RaiseGate, WindowsDone, scorerVars
<1>8. CASE ScorerFetches
  <2>1. PICK G \in SUBSET At("row") : groups' = Move(G, "scoring")
    BY <1>8 DEF ScorerFetches
  <2>2. \A p \in Places \ {"row", "scoring"} : At(p)' = At(p)
    BY <2>1, Fetching DEF Places
  <2>3. WindowsDone' = WindowsDone
    BY <1>8, Counts DEF ScorerFetches, WindowsDone
  <2> QED
    BY <1>2, <2>2, <2>3 DEF Places
<1>9. CASE WriteScores
  BY <1>9, CountedWrite
<1>10. CASE Scorer = "none"
  BY <1>10 DEF ScoredCounted
<1> QED
  BY <1>3, <1>4, <1>5, <1>6, <1>7, <1>8, <1>9, <1>10
     DEF Next, RolloutLoop, TrainerWorker, ScorerWorker

(* Pulses are paid for by finished batches, and every finished group has   *)
(* passed the critic.                                                      *)
LEMMA BehindByCount ==
  ASSUME IInv, ScoredCounted
  PROVE  TrainerBehindCritic
<1> SUFFICES ASSUME Scorer = "critic", version > 0
             PROVE  version + ColdWindows <= windows
  BY DEF TrainerBehindCritic
<1>1. /\ WindowsDone >= ColdWindows /\ trainer # "start"
      /\ WindowsDone \in Nat /\ windows \in Nat /\ WindowsDone <= windows
  BY Counts DEF IInv, PulsesNumbered, GenesisFirst, WindowsDone
<1> DEFINE done == Cardinality(Finished)
           past == Cardinality(PastScorer)
           due == IF Stepping THEN Due ELSE 0
           paid == (Pulses - 1) * Batch
<1>2. past = WindowsDone * Batch /\ past \in Nat /\ done \in Nat
  BY CriticAssumption, PastFinite, Counts DEF ScoredCounted
<1>3. /\ paid + sinceSync + due <= done
      /\ paid \in Int /\ sinceSync \in Nat /\ due \in Nat
  BY <1>1, Amounts, SizeTypes DEF IInv, PulsesPaid, Due
<1>4. Pulses + (IF Stepping THEN 1 ELSE 0) = 1 + version + ColdWindows
  <2>1. (IF WindowsDone <= ColdWindows THEN WindowsDone ELSE ColdWindows) = ColdWindows
    BY <1>1, SizeTypes
  <2> QED
    BY <1>1, <2>1 DEF IInv, PulsesNumbered
<1>5. done <= past
  <2>1. Finished \in SUBSET PastScorer
    BY DEF PastScorer
  <2> QED
    BY <2>1, PastFinite, FS_Subset
<1>6. (version + ColdWindows) * Batch <= WindowsDone * Batch
  <2>1. CASE ~Stepping
    <3>1. Pulses - 1 = version + ColdWindows
      BY <1>4, <2>1, Amounts, SizeTypes
    <3> HIDE DEF done, past, due
    <3>2. paid <= past
      BY <1>2, <1>3, <1>5
    <3> QED
      BY <1>2, <3>1, <3>2
  <2>2. CASE Stepping
    <3>1. Pulses = version + ColdWindows
      BY <1>4, <2>2, Amounts, SizeTypes
    <3>2. done + Chunk <= past
      <4>1. Cardinality(At("training")) = Chunk
        BY <2>2, TrainerHolds DEF Stepping
      <4>2. /\ At("training") \in SUBSET DOMAIN groups /\ IsFiniteSet(At("training"))
            /\ IsFiniteSet(Finished)
        BY Counts DEF Places
      <4>3. Finished \cap At("training") = {}
        BY DEF Finished, At
      <4>4. Cardinality(Finished \cup At("training")) = done + Chunk
        <5>1. Cardinality(Finished \cup At("training")) =
                done + Cardinality(At("training")) - Cardinality(Finished \cap At("training"))
          BY <4>2, FS_Union
        <5>2. Cardinality(Finished \cap At("training")) = 0
          BY <4>3, FS_EmptySet
        <5> QED
          BY <1>2, <4>1, <5>1, <5>2, SizeTypes
      <4>5. Finished \cup At("training") \in SUBSET PastScorer
        BY DEF PastScorer
      <4> QED
        BY <4>4, <4>5, PastFinite, FS_Subset
    <3>3. due + Chunk >= Batch
      BY <2>2, SizeTypes DEF Due
    <3>4. Pulses * Batch = paid + Batch
      <4>1. Pulses = (Pulses - 1) + 1 /\ Pulses - 1 \in Int
        BY Amounts
      <4>2. ((Pulses - 1) + 1) * Batch = paid + Batch
        BY <4>1, OneMore, SizeTypes
      <4> QED
        BY <4>1, <4>2
    <3> HIDE DEF done, past, due, paid
    <3>5. paid + Batch <= past
      BY <1>2, <1>3, <3>2, <3>3, SizeTypes
    <3> QED
      BY <1>2, <3>1, <3>4, <3>5
  <2> QED
    BY <2>1, <2>2
<1>7. version + ColdWindows <= WindowsDone
  <2> SUFFICES ASSUME WindowsDone + 1 <= version + ColdWindows PROVE FALSE
    BY <1>1, Amounts, SizeTypes
  <2>1. (WindowsDone + 1) * Batch <= (version + ColdWindows) * Batch
    BY <1>1, Amounts, SizeTypes, Monotone
  <2>2. (WindowsDone + 1) * Batch = WindowsDone * Batch + Batch
    BY <1>1, OneMore, SizeTypes
  <2> HIDE DEF past
  <2>3. WindowsDone * Batch \in Int /\ (version + ColdWindows) * Batch \in Int
    BY <1>1, Amounts, SizeTypes
  <2> QED
    BY <1>6, <2>1, <2>2, <2>3, SizeTypes
<1> QED
  BY <1>1, <1>7, Amounts, SizeTypes

(* A window of data counts as a step of the trainer only after the critic  *)
(* has had it: the critic's windows and the trainer's steps are one clock, *)
(* apart by the cold start (CriticWorker.windows and                       *)
(* TitanEngine.global_step).                                               *)
THEOREM CriticGoesFirst == Spec => []TrainerBehindCritic
<1>1. Init => IInv /\ ScoredCounted
  BY InitIInv, CountedInit
<1>2. (IInv /\ ScoredCounted) /\ [Next]_vars => (IInv /\ ScoredCounted)'
  BY StepIInv, CountedStep
<1>3. IInv /\ ScoredCounted => TrainerBehindCritic
  BY BehindByCount
<1> QED
  BY <1>1, <1>2, <1>3, PTL DEF Spec

-----------------------------------------------------------------------------
(* What a step does to the groups.                                         *)

Early == {"held", "running", "dropped"}   \* no weights needed yet, or ever

(* Groups keep their label and their weights, a finished group stays so,   *)
(* and no group leaves the server without weights.                         *)
GroupsKept ==
  /\ DOMAIN groups' = DOMAIN groups
  /\ \A g \in DOMAIN groups :
       /\ groups'[g].label = groups[g].label /\ groups'[g].weights = groups[g].weights
       /\ g \in Finished => g \in Finished'
       /\ groups'[g].at \notin Early => groups[g].at \notin Early \/ groups[g].weights # {}

LEMMA MoveKeeps ==
  ASSUME groups \in Seq(Group), NEW G \in SUBSET DOMAIN groups, NEW place \in Places,
         groups' = Move(G, place),
         place \in {"trained", "cleared"} \/ G \cap Finished = {},
         place \in Early \/ \A g \in G : groups[g].at \notin Early \/ groups[g].weights # {}
  PROVE  GroupsKept
<1>1. DOMAIN groups' = DOMAIN groups
  BY DEF Move
<1>2. ASSUME NEW g \in DOMAIN groups
      PROVE  /\ groups'[g].label = groups[g].label /\ groups'[g].weights = groups[g].weights
             /\ groups'[g].at = IF g \in G THEN place ELSE groups[g].at
  <2>1. groups[g] \in Group
    BY GroupSeq
  <2> QED
    BY <2>1 DEF Move, Group
<1>3. ASSUME NEW g \in DOMAIN groups, g \in Finished PROVE g \in Finished'
  <2>1. groups[g].at \in {"trained", "cleared"}
    BY <1>3 DEF Finished, At
  <2>2. groups'[g].at \in {"trained", "cleared"}
    BY <1>2, <1>3, <2>1
  <2> QED
    BY <1>1, <2>2 DEF Finished, At
<1>4. ASSUME NEW g \in DOMAIN groups, groups'[g].at \notin Early
      PROVE  groups[g].at \notin Early \/ groups[g].weights # {}
  BY <1>2, <1>4
<1> QED
  BY <1>1, <1>2, <1>3, <1>4 DEF GroupsKept

LEMMA GroupSteps ==
  ASSUME TypeOK, [Next]_vars
  PROVE  \/ GroupsKept
         \/ AcquireGenerationSlot
         \/ \E g \in DOMAIN groups : Generate(g)
<1>0. groups \in Seq(Group)
  BY DEF TypeOK
<1>1. CASE groups' = groups
  BY <1>1 DEF GroupsKept, Finished, At
<1>2. ASSUME NEW g \in DOMAIN groups, GroupTask(g), ~Generate(g) PROVE GroupsKept
  <2>1. /\ groups[g].at \in {"held", "running", "done"}
        /\ \E place \in {"running", "done", "row", "dropped"} :
             /\ groups' = Move({g}, place)
             /\ place \in Early \/ groups[g].at \notin Early \/ groups[g].weights # {}
    BY <1>2
       DEF GroupTask, Execute, FinishGroup, WriteRolloutGroup, DropGroup, Early
  <2>2. PICK place \in {"running", "done", "row", "dropped"} :
             /\ groups' = Move({g}, place)
             /\ place \in Early \/ groups[g].at \notin Early \/ groups[g].weights # {}
    BY <2>1
  <2>3. {g} \cap Finished = {} /\ place \in Places /\ {g} \in SUBSET DOMAIN groups
    BY <2>1 DEF Finished, At, Places
  <2> QED
    BY <1>0, <2>2, <2>3, MoveKeeps
<1>3. ASSUME NEW from \in {"row", "scored", "training", "scoring"},
             NEW G \in SUBSET At(from),
             NEW place \in {"training", "trained", "scoring", "cleared", "scored"},
             groups' = Move(G, place)
      PROVE  GroupsKept
  <2>1. \A g \in G : groups[g].at = from
    BY DEF At
  <2>2. G \in SUBSET DOMAIN groups /\ G \cap Finished = {} /\ place \in Places
    BY <2>1 DEF Finished, At, Places
  <2>3. \A g \in G : groups[g].at \notin Early
    BY <2>1 DEF Early
  <2> QED
    BY <1>0, <1>3, <2>2, <2>3, MoveKeeps
<1>4. CASE TrainerFetches
  <2>1. PICK G \in SUBSET Ready : groups' = Move(G, "training")
    BY <1>4 DEF TrainerFetches
  <2> QED
    BY <1>3, <2>1 DEF Ready
<1>5. CASE StepChunk \/ RaiseGate
  <2>1. groups' = Move(At("training"), "trained")
    BY <1>5 DEF StepChunk, RaiseGate
  <2> QED
    BY <1>3, <2>1
<1>6. CASE ScorerFetches
  <2>1. PICK G \in SUBSET At("row") : groups' = Move(G, "scoring")
    BY <1>6 DEF ScorerFetches
  <2> QED
    BY <1>3, <2>1
<1>7. CASE WriteScores
  <2>1. PICK place \in {"scored", "cleared"} : groups' = Move(At("scoring"), place)
    BY <1>7 DEF WriteScores
  <2> QED
    BY <1>3, <2>1
<1>8. CASE InferLeaves
  <2>1. DOMAIN groups' = DOMAIN groups
    BY <1>8 DEF InferLeaves
  <2>2. ASSUME NEW g \in DOMAIN groups
        PROVE  /\ groups'[g].label = groups[g].label /\ groups'[g].weights = groups[g].weights
               /\ groups'[g].at = groups[g].at
    <3>1. groups[g] \in Group
      BY <1>0, GroupSeq
    <3> QED
      BY <1>8, <3>1 DEF InferLeaves, Group
  <2> QED
    BY <2>1, <2>2 DEF GroupsKept, Finished, At
<1> QED
  BY <1>1, <1>2, <1>4, <1>5, <1>6, <1>7, <1>8
     DEF Next, RolloutLoop, TrainerWorker, ScorerWorker, Card, vars, TryAdvanceGate,
         RaiseGenesisGate, StepSync, TrainerLeaves, TrainerReleases, ScoreWindow,
         ScorerLeaves, ScorerReleases, Genesis, InferEnters, InferPasses, WorkerEnters

(* The server adds its weights to one group; the rollout adds one group.   *)
LEMMA GenerateAdds ==
  ASSUME TypeOK, NEW g \in DOMAIN groups, Generate(g)
  PROVE  /\ DOMAIN groups' = DOMAIN groups
         /\ \A h \in DOMAIN groups :
              /\ groups'[h].label = groups[h].label /\ groups'[h].at = groups[h].at
              /\ groups'[h].weights =
                   IF h = g THEN groups[g].weights \cup {serving} ELSE groups[h].weights
<1> DEFINE grown == [groups[g] EXCEPT !.weights = @ \cup {serving}]
<1>1. groups \in Seq(Group) /\ groups[g] \in Group
  BY GroupSeq DEF TypeOK
<1>2. /\ grown.label = groups[g].label /\ grown.at = groups[g].at
      /\ grown.weights = groups[g].weights \cup {serving}
  BY <1>1 DEF Group
<1>3. groups' = [groups EXCEPT ![g] = grown]
  BY DEF Generate
<1> HIDE DEF grown
<1>4. DOMAIN groups' = DOMAIN groups /\ groups'[g] = grown
  BY <1>3
<1>5. ASSUME NEW h \in DOMAIN groups, h # g PROVE groups'[h] = groups[h]
  BY <1>3, <1>5
<1> QED
  BY <1>2, <1>4, <1>5

LEMMA AcquireAdds ==
  ASSUME TypeOK, AcquireGenerationSlot
  PROVE  /\ Len(groups) + 1 \notin DOMAIN groups
         /\ DOMAIN groups' = DOMAIN groups \cup {Len(groups) + 1}
         /\ \A h \in DOMAIN groups : groups'[h] = groups[h]
         /\ groups'[Len(groups) + 1] =
              [label |-> label, weights |-> {}, aborted |-> FALSE, at |-> "held"]
<1> DEFINE new == [label |-> label, weights |-> {}, aborted |-> FALSE, at |-> "held"]
<1>1. groups \in Seq(Group) /\ groups' = Append(groups, new)
  BY DEF TypeOK, AcquireGenerationSlot
<1> HIDE DEF new
<1>2. /\ DOMAIN groups' = DOMAIN groups \cup {Len(groups) + 1}
      /\ Len(groups) + 1 \notin DOMAIN groups
      /\ \A h \in DOMAIN groups : groups'[h] = groups[h]
      /\ groups'[Len(groups) + 1] = new
  BY <1>1
<1> USE DEF new
<1> QED
  BY <1>2

-----------------------------------------------------------------------------
(* A window of one: what the rollout has started is what the pulses it has *)
(* read allow, and every batch of theirs but the last is finished.         *)

(* A group still under way means that every pulse has been read. *)
LEMMA PulsesRead ==
  ASSUME IInv, Window = 1, gatesSeen > 0, Cardinality(Finished) < gatesSeen * Batch
  PROVE  gates = <<>>
<1> DEFINE done == Cardinality(Finished)
           due == IF Stepping THEN Due ELSE 0
           paid == (Pulses - 1) * Batch
           seen == gatesSeen * Batch
<1>1. trainer # "start" /\ gatesSeen \in Nat /\ Len(gates) \in Nat /\ gates \in Seq(Gate)
  BY Counts DEF IInv, GenesisFirst, Pulses
<1>2. /\ paid + sinceSync + due <= done
      /\ paid \in Int /\ sinceSync \in Nat /\ due \in Nat /\ done \in Nat /\ seen \in Nat
  BY <1>1, Amounts, SizeTypes DEF IInv, PulsesPaid, Due
<1>3. paid < seen
  <2>1. done < seen
    OBVIOUS
  <2> HIDE DEF done, due, paid, seen
  <2> QED
    BY <1>2, <2>1
<1>4. Pulses - 1 < gatesSeen
  <2> SUFFICES ASSUME gatesSeen <= Pulses - 1 PROVE FALSE
    BY <1>1, Amounts
  <2>1. seen <= paid
    BY <1>1, Amounts, SizeTypes, Monotone
  <2> HIDE DEF paid, seen
  <2> QED
    BY <1>2, <1>3, <2>1
<1>5. Len(gates) = 0
  BY <1>1, <1>4, Amounts DEF Pulses
<1> QED
  BY <1>1, <1>5

(* When the trainer has stepped, the batch it holds is all there is.       *)
LEMMA AllTraining ==
  ASSUME IInv, Window = 1, Stepping
  PROVE  DOMAIN groups = Finished \cup At("training")
<1> DEFINE done == Cardinality(Finished)
           paid == (Pulses - 1) * Batch
           all == Finished \cup At("training")
<1>1. /\ trainer # "start" /\ groups \in Seq(Group) /\ gatesSeen \in Nat /\ Pulses \in Nat
      /\ gatesSeen <= Pulses /\ Len(groups) \in Nat
  BY Counts DEF Pulses, Stepping
<1>2. /\ paid + sinceSync + Due <= done
      /\ paid \in Int /\ sinceSync \in Nat /\ Due \in Nat /\ done \in Nat
  BY <1>1, Amounts, SizeTypes DEF IInv, PulsesPaid, Due
<1>3. Cardinality(all) = done + Chunk
  <2>1. Cardinality(At("training")) = Chunk
    BY TrainerHolds DEF Stepping
  <2>2. IsFiniteSet(At("training")) /\ IsFiniteSet(Finished)
    BY Counts DEF Places
  <2>3. Finished \cap At("training") = {}
    BY DEF Finished, At
  <2>4. Cardinality(all) =
          done + Cardinality(At("training")) - Cardinality(Finished \cap At("training"))
    BY <2>2, FS_Union
  <2>5. Cardinality(Finished \cap At("training")) = 0
    BY <2>3, FS_EmptySet
  <2> QED
    BY <1>2, <2>1, <2>4, <2>5, SizeTypes
<1>4. all \in SUBSET DOMAIN groups
  BY DEF Finished, At
<1>5. IsFiniteSet(DOMAIN groups) /\ Cardinality(DOMAIN groups) = Len(groups)
  BY <1>1, GroupSeq, InitialSegment
<1>6. Len(groups) <= gatesSeen * Batch
  <2>1. CASE gatesSeen = 0
    BY <1>1, <2>1, SizeTypes DEF IInv, GenesisFirst
  <2>2. CASE gatesSeen # 0
    <3>1. Len(groups) <= (gatesSeen - 1 + Window) * Batch
      BY <2>2 DEF IInv, PulsesPaid, GenerationBudget
    <3>2. gatesSeen - 1 + Window = gatesSeen
      BY <1>1
    <3> QED
      BY <3>1, <3>2
  <2> QED
    BY <2>1, <2>2
<1>7. Len(groups) <= paid + Batch
  <2>1. gatesSeen * Batch <= Pulses * Batch /\ gatesSeen * Batch \in Int
    BY <1>1, SizeTypes, Monotone
  <2>2. Pulses * Batch = paid + Batch
    <3>1. Pulses = (Pulses - 1) + 1 /\ Pulses - 1 \in Int
      BY <1>1
    <3>2. ((Pulses - 1) + 1) * Batch = paid + Batch
      BY <3>1, OneMore, SizeTypes
    <3> QED
      BY <3>1, <3>2
  <2> DEFINE seen == gatesSeen * Batch
             due == Pulses * Batch
  <2>3. Len(groups) <= seen /\ seen <= due /\ due = paid + Batch /\ seen \in Int
    BY <1>6, <2>1, <2>2
  <2> HIDE DEF seen, due, paid
  <2> QED
    BY <1>1, <1>2, <2>3, SizeTypes
<1>8. Due + Chunk >= Batch
  BY SizeTypes DEF Due
<1>9. Cardinality(DOMAIN groups) <= Cardinality(all)
  <2> HIDE DEF done, paid, all
  <2> QED
    BY <1>1, <1>2, <1>3, <1>5, <1>7, <1>8, SizeTypes
<1>10. all = DOMAIN groups
  <2>1. Cardinality(all) <= Cardinality(DOMAIN groups)
    BY <1>4, <1>5, FS_Subset
  <2>2. Cardinality(all) = Cardinality(DOMAIN groups)
    BY <1>1, <1>2, <1>3, <1>5, <1>9, <2>1, SizeTypes
  <2> QED
    BY <1>4, <1>5, <2>2, FS_Subset
<1> QED
  BY <1>10

-----------------------------------------------------------------------------
(* What the server serves.  A grant names the newest weights when no scorer*)
(* passes the card, or when lock step keeps its rows as new as the trainer.*)

NamesNewest == ~Colocated \/ Scorer = "none" \/ Window = 1

(* The version the newest pulse carries: the trainer's, until it has       *)
(* stepped and not yet raised the gate.                                    *)
Released == IF Stepping THEN version - 1 ELSE version
NewestPulse == IF gates = <<>> THEN label ELSE gates[Len(gates)].version

LabelsReleased ==
  /\ Stepping => version > 0
  /\ label <= Released
  /\ \A i \in DOMAIN gates : gates[i].version <= Released
  /\ \A g \in DOMAIN groups : groups[g].label <= Released
  /\ NewestPulse = Released

(* The newest export survives every pruning. *)
NewestOnDisk ==
  /\ \A v \in disk : v <= version
  /\ version \in Loadable
  /\ KeepWeights = 0 => 1..version \subseteq disk

(* The next grant, and what is on the card. *)
Entering == owner = Infer /\ onCard = {} /\ ~left
ServerCurrent ==
  /\ ~Colocated => serving = version
  /\ owner = Nobody => payload = 0 /\ (Colocated => version = 0)
  /\ Entering => payload \in 0..version
  /\ NamesNewest /\ Entering => payload = version
  /\ NamesNewest /\ onCard = {Infer} => serving = version

(* A group that is not finished was started under the newest pulse, and is *)
(* generated by the weights that pulse names.                              *)
InLockStep ==
  Window = 1 =>
    \A g \in DOMAIN groups \ Finished :
      groups[g].label = Released /\ groups[g].weights \subseteq {Released}

GeneratedFirst ==
  \A g \in DOMAIN groups : groups[g].at \notin Early => groups[g].weights # {}

SInv ==
  /\ IInv /\ CardInv
  /\ LabelsReleased /\ NewestOnDisk /\ ServerCurrent
  /\ InLockStep /\ GeneratedFirst
  /\ NamesNewest => LabelIsLowerBound

-----------------------------------------------------------------------------
(* The labels: no pulse and no group is ahead of the trainer.              *)

LEMMA LabelsKeep ==
  ASSUME LabelsReleased, GroupsKept, UNCHANGED <<gates, label>>,
         Released' = Released, Stepping' => version' > 0
  PROVE  LabelsReleased'
  BY DEF LabelsReleased, GroupsKept, NewestPulse

LEMMA LabelsPulse ==
  ASSUME TypeOK, TypeOK', LabelsReleased, GroupsKept, label' = label,
         NEW pulse \in Gate, gates' = Append(gates, pulse), pulse.version = Released',
         Released <= Released', ~Stepping'
  PROVE  LabelsReleased'
<1>1. /\ gates \in Seq(Gate) /\ Len(gates) \in Nat
      /\ \A i \in DOMAIN gates : gates[i] \in Gate
      /\ \A g \in DOMAIN groups : groups[g].label \in Nat
  <2>1. gates \in Seq(Gate) /\ groups \in Seq(Group)
    BY DEF TypeOK
  <2>2. \A g \in DOMAIN groups : groups[g] \in Group
    BY <2>1, GroupSeq
  <2>3. Len(gates) \in Nat /\ \A i \in DOMAIN gates : gates[i] \in Gate
    BY <2>1
  <2> QED
    BY <2>1, <2>2, <2>3 DEF Group
<1>2. /\ Len(gates') = Len(gates) + 1 /\ gates' # <<>>
      /\ DOMAIN gates' = DOMAIN gates \cup {Len(gates) + 1}
      /\ \A i \in DOMAIN gates : gates'[i] = gates[i]
      /\ gates'[Len(gates) + 1] = pulse
  BY <1>1
<1>3. Released \in Int /\ Released' \in Int /\ label \in Nat
  BY DEF TypeOK, Released
<1>4. label' <= Released'
  BY <1>3 DEF LabelsReleased
<1>5. ASSUME NEW i \in DOMAIN gates' PROVE gates'[i].version <= Released'
  <2>1. CASE i \in DOMAIN gates
    <3>1. gates[i].version <= Released /\ gates[i].version \in Nat
      BY <1>1, <2>1 DEF LabelsReleased, Gate
    <3> QED
      BY <1>2, <1>3, <2>1, <3>1
  <2> QED
    BY <1>2, <1>3, <2>1
<1>6. ASSUME NEW g \in DOMAIN groups' PROVE groups'[g].label <= Released'
  <2>1. /\ g \in DOMAIN groups /\ groups'[g].label = groups[g].label
        /\ groups[g].label <= Released /\ groups[g].label \in Nat
    BY <1>1 DEF GroupsKept, LabelsReleased
  <2> QED
    BY <1>3, <2>1
<1>7. NewestPulse' = Released'
  BY <1>2 DEF NewestPulse
<1> QED
  BY <1>4, <1>5, <1>6, <1>7 DEF LabelsReleased

LEMMA LabelsRead ==
  ASSUME TypeOK, LabelsReleased, TryAdvanceGate
  PROVE  LabelsReleased'
<1>1. /\ gates \in Seq(Gate) /\ gates # <<>>
      /\ gates' = Tail(gates) /\ label' = Head(gates).version
      /\ UNCHANGED <<groups, trainer, version>>
  BY DEF TryAdvanceGate, trainerVars, TypeOK
<1>2. /\ Len(gates) \in Nat /\ Len(gates) > 0 /\ gates' \in Seq(Gate)
      /\ Len(gates') = Len(gates) - 1 /\ Head(gates) = gates[1] /\ 1 \in DOMAIN gates
      /\ \A i \in 1..Len(gates) - 1 : gates'[i] = gates[i + 1]
      /\ DOMAIN gates = 1..Len(gates) /\ DOMAIN gates' = 1..Len(gates) - 1
  BY <1>1
<1>3. Released' = Released /\ Stepping' = Stepping
  BY <1>1 DEF Released, Stepping
<1>4. label' <= Released'
  BY <1>1, <1>2, <1>3 DEF LabelsReleased
<1>5. ASSUME NEW i \in DOMAIN gates' PROVE gates'[i].version <= Released'
  <2>1. gates'[i] = gates[i + 1] /\ i + 1 \in DOMAIN gates
    BY <1>2
  <2> QED
    BY <1>3, <2>1 DEF LabelsReleased
<1>6. NewestPulse' = Released'
  <2>1. CASE Len(gates) = 1
    <3>1. gates' = <<>>
      BY <1>2, <2>1
    <3> QED
      BY <1>1, <1>2, <1>3, <2>1, <3>1 DEF LabelsReleased, NewestPulse
  <2>2. CASE Len(gates) # 1
    <3>1. gates' # <<>> /\ gates'[Len(gates')] = gates[Len(gates)]
      BY <1>2, <2>2
    <3> QED
      BY <1>1, <1>3, <3>1 DEF LabelsReleased, NewestPulse
  <2> QED
    BY <2>1, <2>2
<1> QED
  BY <1>1, <1>3, <1>4, <1>5, <1>6 DEF LabelsReleased

(* What the trainer has released only its own steps change. *)
LEMMA ReleasedKept ==
  ASSUME version \in Nat, UNCHANGED version,
         trainer' = trainer \/ ({trainer, trainer'} \subseteq {"stepped", "gate"})
                    \/ ({trainer, trainer'} \subseteq {"start", "fetch", "batch"})
  PROVE  Released' = Released /\ Stepping' = Stepping
  BY DEF Released, Stepping

LEMMA LabelsStep ==
  ASSUME IInv, LabelsReleased, [Next]_vars
  PROVE  LabelsReleased'
<1>0. TypeOK /\ TypeOK' /\ version \in Nat
  BY StepType DEF IInv, TypeOK
<1>1. CASE AcquireGenerationSlot
  <2>1. /\ UNCHANGED <<gates, label, trainer, version>>
        /\ DOMAIN groups' = DOMAIN groups \cup {Len(groups) + 1}
        /\ \A h \in DOMAIN groups : groups'[h] = groups[h]
        /\ groups'[Len(groups) + 1].label = label
    BY <1>0, <1>1, AcquireAdds DEF AcquireGenerationSlot, rolloutVars, trainerVars
  <2>2. Released' = Released /\ Stepping' = Stepping
    BY <1>0, <2>1, ReleasedKept
  <2> QED
    BY <2>1, <2>2 DEF LabelsReleased, NewestPulse
<1>2. ASSUME NEW g \in DOMAIN groups, Generate(g) PROVE LabelsReleased'
  <2>1. /\ UNCHANGED <<gates, label, trainer, version>>
        /\ DOMAIN groups' = DOMAIN groups
        /\ \A h \in DOMAIN groups : groups'[h].label = groups[h].label
    BY <1>0, <1>2, GenerateAdds DEF Generate, rolloutVars, trainerVars
  <2>2. Released' = Released /\ Stepping' = Stepping
    BY <1>0, <2>1, ReleasedKept
  <2> QED
    BY <2>1, <2>2 DEF LabelsReleased, NewestPulse
<1>3. ASSUME GroupsKept, UNCHANGED <<gates, label, version>>,
             trainer' = trainer \/ ({trainer, trainer'} \subseteq {"stepped", "gate"})
               \/ ({trainer, trainer'} \subseteq {"start", "fetch", "batch"})
      PROVE  LabelsReleased'
  BY <1>0, <1>3, ReleasedKept, LabelsKeep DEF LabelsReleased
<1>4. CASE GroupsKept
  <2>1. CASE \/ UNCHANGED vars
             \/ TrainerFetches \/ StepChunk \/ TrainerLeaves \/ TrainerReleases
             \/ ScorerFetches \/ ScoreWindow \/ ScorerLeaves \/ ScorerReleases
             \/ Card
    BY <1>3, <1>4, <2>1
       DEF vars, TrainerFetches, StepChunk, MayTrain, TrainerLeaves, TrainerReleases,
           ScorerFetches, ScoreWindow, ScorerLeaves, ScorerReleases, Card, Genesis,
           InferEnters, InferLeaves, InferPasses, WorkerEnters, rolloutVars, trainerVars
  <2>2. ASSUME NEW g \in DOMAIN groups, GroupTask(g) PROVE LabelsReleased'
    BY <1>3, <1>4, <2>2
       DEF GroupTask, Execute, Generate, FinishGroup, WriteRolloutGroup, DropGroup,
           rolloutVars, trainerVars
  <2>3. CASE TryAdvanceGate
    BY <1>0, <2>3, LabelsRead
  <2>4. CASE RaiseGenesisGate
    <3> DEFINE pulse == [step |-> version, version |-> version]
    <3>1. pulse \in Gate /\ pulse.version = version
      BY <1>0 DEF Gate
    <3>2. /\ gates' = Append(gates, pulse) /\ label' = label
          /\ Released = version /\ Released' = version /\ ~Stepping'
      BY <2>4 DEF RaiseGenesisGate, Released, Stepping, rolloutVars
    <3> HIDE DEF pulse
    <3> QED
      BY <1>0, <1>4, <3>1, <3>2, LabelsPulse
  <2>5. CASE StepSync
    <3>1. /\ UNCHANGED <<gates, label>> /\ version' = version + 1
          /\ Released = version /\ Released' = version
      BY <1>0, <2>5 DEF StepSync, MayTrain, Released, Stepping, rolloutVars
    <3> QED
      BY <1>0, <1>4, <3>1, LabelsKeep
  <2>6. CASE RaiseGate
    <3> DEFINE pulse == [step |-> version + ColdWindows, version |-> version]
    <3>1. pulse \in Gate /\ pulse.version = version
      BY <1>0, SizeTypes DEF Gate
    <3>2. /\ gates' = Append(gates, pulse) /\ label' = label
          /\ Released = version - 1 /\ Released' = version /\ ~Stepping'
      BY <2>6 DEF RaiseGate, Released, Stepping, rolloutVars
    <3> HIDE DEF pulse
    <3> QED
      BY <1>0, <1>4, <3>1, <3>2, LabelsPulse
  <2>7. CASE WriteScores /\ ~Cold
    BY <1>3, <1>4, <2>7 DEF WriteScores, rolloutVars, trainerVars
  <2>8. CASE WriteScores /\ Cold
    <3> DEFINE pulse == [step |-> windows, version |-> 0]
    <3>1. version = 0 /\ ~Stepping
      BY <2>8, ColdStart DEF WriteScores
    <3>2. pulse \in Gate /\ pulse.version = 0
      BY Counts DEF Gate
    <3>3. /\ gates' = Append(gates, pulse) /\ label' = label
          /\ Released = 0 /\ Released' = 0 /\ ~Stepping'
      BY <2>8, <3>1 DEF WriteScores, Released, Stepping, rolloutVars, trainerVars
    <3> HIDE DEF pulse
    <3> QED
      BY <1>0, <1>4, <3>2, <3>3, LabelsPulse
  <2> QED
    BY <1>1, <2>1, <2>2, <2>3, <2>4, <2>5, <2>6, <2>7, <2>8
       DEF Next, RolloutLoop, TrainerWorker, ScorerWorker
<1> QED
  BY <1>0, <1>1, <1>2, <1>4, GroupSteps

-----------------------------------------------------------------------------
(* The exports and the server.                                             *)

(* Pruning never takes the newest export. *)
LEMMA PruneKeepsNewest ==
  ASSUME NEW exports \in SUBSET Nat, NEW newest \in exports,
         \A v \in exports : v <= newest
  PROVE  /\ newest \in PruneWeights(exports)
         /\ PruneWeights(exports) \subseteq exports
         /\ KeepWeights = 0 => PruneWeights(exports) = exports
<1>1. {w \in exports : w > newest} = {}
  <2>1. ASSUME NEW w \in exports PROVE ~(w > newest)
    <3>1. w \in Nat /\ newest \in Nat /\ w <= newest
      OBVIOUS
    <3> QED
      BY <3>1
  <2> QED
    BY <2>1
<1>2. Cardinality({w \in exports : w > newest}) = 0
  BY <1>1, FS_EmptySet
<1>3. KeepWeights \in Nat
  BY SizeAssumption
<1> QED
  BY <1>2, <1>3 DEF PruneWeights

LEMMA DiskStep ==
  ASSUME TypeOK, NewestOnDisk, [Next]_vars
  PROVE  NewestOnDisk'
<1>1. CASE UNCHANGED <<disk, version>>
  BY <1>1 DEF NewestOnDisk, Loadable
<1>2. CASE StepSync
  <2>1. /\ version \in Nat /\ disk \in SUBSET Nat
        /\ version' = version + 1 /\ disk' = PruneWeights(disk \cup {version + 1})
    BY <1>2 DEF StepSync, TypeOK
  <2> DEFINE exports == disk \cup {version + 1}
  <2>2. /\ exports \in SUBSET Nat /\ version + 1 \in exports
        /\ \A v \in exports : v <= version + 1
    BY <2>1 DEF NewestOnDisk
  <2>3. KeepWeights = 0 => 1..version + 1 \subseteq exports
    BY <2>1 DEF NewestOnDisk
  <2>4. disk' = PruneWeights(exports)
    BY <2>1
  <2> HIDE DEF exports
  <2>5. /\ version + 1 \in disk' /\ disk' \subseteq exports
        /\ KeepWeights = 0 => disk' = exports
    BY <2>2, <2>4, PruneKeepsNewest
  <2> QED
    BY <2>1, <2>2, <2>3, <2>5 DEF NewestOnDisk, Loadable
<1>3. CASE \E g \in DOMAIN groups : GroupTask(g)
  BY <1>1, <1>3
     DEF GroupTask, Execute, Generate, FinishGroup, WriteRolloutGroup, DropGroup, trainerVars
<1> QED
  BY <1>1, <1>2, <1>3
     DEF Next, RolloutLoop, TrainerWorker, ScorerWorker, Card, vars, TryAdvanceGate,
         AcquireGenerationSlot, RaiseGenesisGate, TrainerFetches, StepChunk, TrainerLeaves,
         TrainerReleases, RaiseGate, ScorerFetches, ScoreWindow, ScorerLeaves,
         ScorerReleases, WriteScores, Genesis, InferEnters, InferLeaves, InferPasses,
         WorkerEnters, trainerVars

(* The scorer's grant names a version the trainer has released: its newest *)
(* one in lock step, since the trainer is not stepping then.               *)
LEMMA ScorerNames ==
  ASSUME IInv, LabelsReleased, InLockStep, scorer = "scored",
         NEW v \in Labels(At("scoring"))
  PROVE  /\ v \in 0..version
         /\ Window = 1 => v = version
<1>1. PICK g \in At("scoring") : v = groups[g].label
  BY DEF Labels
<1>2. g \in DOMAIN groups /\ groups[g].at = "scoring"
  BY DEF At
<1>3. v \in Nat /\ version \in Nat
  BY <1>1, <1>2, Counts, GroupSeq DEF Group
<1>4. v <= Released
  BY <1>1, <1>2 DEF LabelsReleased
<1>5. Released \in Int /\ Released <= version
  BY <1>3 DEF Released
<1>6. ASSUME Window = 1 PROVE v = version
  <2>1. g \notin Finished /\ g \notin At("training")
    BY <1>2 DEF Finished, At
  <2>2. v = Released
    BY <1>1, <1>2, <1>6, <2>1 DEF InLockStep
  <2>3. ~Stepping
    BY <1>2, <1>6, <2>1, AllTraining
  <2> QED
    BY <2>2, <2>3 DEF Released
<1> QED
  BY <1>3, <1>4, <1>5, <1>6

LEMMA ServerStep ==
  ASSUME SInv, [Next]_vars
  PROVE  ServerCurrent'
<1> USE DEF Infer, Train, Score, Nobody, Members
<1>0. /\ TypeOK /\ IInv /\ CardInv /\ ServerCurrent /\ version \in Nat
      /\ TokenHeld /\ TrainerOnCard /\ ScorerOnCard
  BY DEF SInv, CardInv, TypeOK
<1>1. CASE UNCHANGED <<serving, payload, version, token>>
  BY <1>0, <1>1 DEF ServerCurrent, Entering, token
<1>2. CASE (TrainerFetches \/ ScorerFetches)
  BY <1>0, <1>2
     DEF TrainerFetches, ScorerFetches, Token!Ask, token, trainerVars, ServerCurrent, Entering
<1>3. CASE StepSync
  BY <1>0, <1>3
     DEF StepSync, MayTrain, TokenHeld, token, ServerCurrent, Entering
<1>4. CASE TrainerLeaves \/ ScorerLeaves \/ InferLeaves
  BY <1>0, <1>4
     DEF TrainerLeaves, ScorerLeaves, InferLeaves, Token!Leave, TokenHeld, trainerVars,
         ServerCurrent, Entering
<1>5. CASE TrainerReleases
  BY <1>0, <1>5
     DEF TrainerReleases, Token!Pass, TokenHeld, ServerCurrent, Entering
<1>6. CASE ScorerReleases
  <2>1. PICK newest \in Labels(At("scoring")) : payload' = newest
    BY <1>6 DEF ScorerReleases
  <2>2. newest \in 0..version /\ (Window = 1 => newest = version)
    BY <1>6, <2>1, ScorerNames DEF ScorerReleases, SInv
  <2>3. NamesNewest => Window = 1
    <3>1. Colocated /\ Scorer # "none"
      BY <1>0, <1>6 DEF ScorerReleases, TokenHeld, IInv, BatchesHeld
    <3> QED
      BY <3>1 DEF NamesNewest
  <2> QED
    BY <1>0, <1>6, <2>1, <2>2, <2>3
       DEF ScorerReleases, Token!Pass, TokenHeld, trainerVars, ServerCurrent, Entering
<1>7. CASE Genesis
  BY <1>0, <1>7 DEF Genesis, Token!Genesis, TokenHeld, trainerVars, ServerCurrent, Entering
<1>8. CASE InferEnters \/ WorkerEnters
  BY <1>0, <1>8
     DEF InferEnters, WorkerEnters, Token!Enter, TokenHeld, trainerVars, ServerCurrent, Entering
<1>9. CASE InferPasses
  BY <1>0, <1>9
     DEF InferPasses, Token!Pass, TokenHeld, TypeOK, trainerVars, ServerCurrent, Entering
<1>10. CASE \/ UNCHANGED vars \/ RolloutLoop \/ RaiseGenesisGate \/ StepChunk \/ RaiseGate
            \/ ScoreWindow \/ WriteScores \/ \E g \in DOMAIN groups : GroupTask(g)
  BY <1>1, <1>10
     DEF vars, RolloutLoop, TryAdvanceGate, AcquireGenerationSlot, RaiseGenesisGate,
         StepChunk, RaiseGate, ScoreWindow, WriteScores, GroupTask, Execute, Generate,
         FinishGroup, WriteRolloutGroup, DropGroup, trainerVars
<1> QED
  BY <1>2, <1>3, <1>4, <1>5, <1>6, <1>7, <1>8, <1>9, <1>10
     DEF Next, TrainerWorker, ScorerWorker, Card

-----------------------------------------------------------------------------
(* What generated a group.                                                 *)

(* A server that adds tokens has the newest weights, which are those of the*)
(* newest pulse when groups are in lock step.                              *)
LEMMA ServesReleased ==
  ASSUME SInv, NamesNewest, NEW g \in DOMAIN groups, Generate(g)
  PROVE  /\ serving = version
         /\ g \notin Finished
         /\ Window = 1 => serving = Released
<1>1. groups[g].at = "running" /\ Serving
  BY DEF Generate
<1>2. serving = version
  BY <1>1 DEF SInv, ServerCurrent, Serving
<1>3. g \notin Finished /\ g \notin At("training")
  BY <1>1 DEF Finished, At
<1>4. Window = 1 => ~Stepping
  BY <1>3, AllTraining DEF SInv
<1> QED
  BY <1>2, <1>3, <1>4 DEF Released

LEMMA LowerBoundStep ==
  ASSUME SInv, [Next]_vars, NamesNewest
  PROVE  LabelIsLowerBound'
<1>0. TypeOK /\ LabelIsLowerBound /\ version \in Nat
  BY DEF SInv, IInv, TypeOK
<1>1. CASE GroupsKept
  BY <1>0, <1>1 DEF GroupsKept, LabelIsLowerBound
<1>2. CASE AcquireGenerationSlot
  <2>1. /\ DOMAIN groups' = DOMAIN groups \cup {Len(groups) + 1}
        /\ \A h \in DOMAIN groups : groups'[h] = groups[h]
        /\ groups'[Len(groups) + 1].weights = {}
    BY <1>0, <1>2, AcquireAdds
  <2> QED
    BY <1>0, <2>1 DEF LabelIsLowerBound
<1>3. ASSUME NEW g \in DOMAIN groups, Generate(g) PROVE LabelIsLowerBound'
  <2>1. /\ DOMAIN groups' = DOMAIN groups
        /\ \A h \in DOMAIN groups :
             /\ groups'[h].label = groups[h].label
             /\ groups'[h].weights =
                  IF h = g THEN groups[g].weights \cup {serving} ELSE groups[h].weights
    BY <1>0, <1>3, GenerateAdds
  <2>2. groups[g].label <= serving
    <3>1. groups[g].label \in Nat
      BY <1>0, GroupSeq DEF TypeOK, Group
    <3>2. groups[g].label <= Released /\ Released <= version /\ Released \in Int
      BY <1>0 DEF SInv, LabelsReleased, Released
    <3>3. serving = version
      BY <1>3, ServesReleased
    <3> QED
      BY <1>0, <3>1, <3>2, <3>3
  <2> QED
    BY <1>0, <2>1, <2>2 DEF LabelIsLowerBound
<1> QED
  BY <1>0, <1>1, <1>2, <1>3, GroupSteps

LEMMA LockStepStep ==
  ASSUME SInv, [Next]_vars
  PROVE  InLockStep'
<1> SUFFICES ASSUME Window = 1,
                    NEW g \in DOMAIN groups', g \notin Finished'
             PROVE  groups'[g].label = Released' /\ groups'[g].weights \subseteq {Released'}
  BY DEF InLockStep
<1>0. /\ TypeOK /\ IInv /\ version \in Nat
      /\ \A h \in DOMAIN groups \ Finished :
           groups[h].label = Released /\ groups[h].weights \subseteq {Released}
  BY DEF SInv, IInv, TypeOK, InLockStep
<1>1. CASE AcquireGenerationSlot
  <2>1. /\ DOMAIN groups' = DOMAIN groups \cup {Len(groups) + 1}
        /\ \A h \in DOMAIN groups : groups'[h] = groups[h]
        /\ groups'[Len(groups) + 1].label = label
        /\ groups'[Len(groups) + 1].weights = {}
    BY <1>0, <1>1, AcquireAdds
  <2>2. Released' = Released
    BY <1>0, <1>1, ReleasedKept DEF AcquireGenerationSlot, trainerVars
  <2>3. label = Released
    <3>1. gatesSeen > 0 /\ WithinBudget
      BY <1>1 DEF AcquireGenerationSlot
    <3>2. Len(groups) + 1 <= (gatesSeen - 1 + Window) * Batch
      BY <1>0, <3>1, Amounts DEF WithinBudget, GenerationBudget
    <3>3. gatesSeen - 1 + Window = gatesSeen
      BY <1>0, Amounts
    <3>4. Cardinality(Finished) <= Len(groups) /\ Cardinality(Finished) \in Nat
      BY <1>0, Counts, FiniteAt
    <3>5. gatesSeen * Batch \in Int /\ Len(groups) + 1 <= gatesSeen * Batch
      BY <1>0, <3>2, <3>3, Amounts, SizeTypes
    <3>6. Cardinality(Finished) < gatesSeen * Batch
      <4> DEFINE done == Cardinality(Finished)
                 seen == gatesSeen * Batch
      <4>1. done <= Len(groups) /\ done \in Nat /\ seen \in Int /\ Len(groups) + 1 <= seen
        BY <3>4, <3>5
      <4> HIDE DEF done, seen
      <4>2. done < seen
        BY <1>0, <4>1, Amounts
      <4> USE DEF done, seen
      <4> QED
        BY <4>2
    <3>7. gates = <<>>
      BY <1>0, <3>1, <3>6, PulsesRead
    <3> QED
      BY <3>7 DEF SInv, LabelsReleased, NewestPulse
  <2>4. CASE g \in DOMAIN groups
    <3>1. g \notin Finished
      BY <2>1, <2>4 DEF Finished, At
    <3> QED
      BY <1>0, <2>1, <2>2, <2>4, <3>1
  <2> QED
    BY <2>1, <2>2, <2>3, <2>4
<1>2. ASSUME NEW h \in DOMAIN groups, Generate(h)
      PROVE  groups'[g].label = Released' /\ groups'[g].weights \subseteq {Released'}
  <2>1. /\ DOMAIN groups' = DOMAIN groups
        /\ \A k \in DOMAIN groups :
             /\ groups'[k].label = groups[k].label /\ groups'[k].at = groups[k].at
             /\ groups'[k].weights =
                  IF k = h THEN groups[h].weights \cup {serving} ELSE groups[k].weights
    BY <1>0, <1>2, GenerateAdds
  <2>2. Released' = Released
    BY <1>0, <1>2, ReleasedKept DEF Generate, trainerVars
  <2>3. serving = Released
    BY <1>2, ServesReleased DEF NamesNewest
  <2>4. g \in DOMAIN groups /\ g \notin Finished
    BY <2>1 DEF Finished, At
  <2> QED
    BY <1>0, <2>1, <2>2, <2>3, <2>4
<1>3. CASE GroupsKept
  <2>1. /\ g \in DOMAIN groups /\ g \notin Finished
        /\ groups'[g].label = groups[g].label /\ groups'[g].weights = groups[g].weights
    BY <1>3 DEF GroupsKept
  <2>2. CASE Released' = Released
    BY <1>0, <2>1, <2>2
  <2>3. CASE RaiseGate
    <3>1. DOMAIN groups = Finished \cup At("training")
      BY <1>0, <2>3, AllTraining DEF RaiseGate, Stepping
    <3>2. Finished' = Finished \cup At("training")
      BY <1>0, <2>3, Finishing DEF RaiseGate
    <3> QED
      BY <2>1, <3>1, <3>2
  <2>4. CASE StepSync
    BY <1>0, <2>2, <2>4 DEF StepSync, MayTrain, Released, Stepping
  <2>5. ASSUME NEW h \in DOMAIN groups, GroupTask(h) PROVE Released' = Released
    BY <1>0, <2>5, ReleasedKept
       DEF GroupTask, Execute, Generate, FinishGroup, WriteRolloutGroup, DropGroup, trainerVars
  <2>6. CASE ~RaiseGate /\ ~StepSync
    <3>1. Released' = Released
      BY <1>0, <2>5, <2>6, ReleasedKept
         DEF Next, RolloutLoop, TrainerWorker, ScorerWorker, Card, vars, TryAdvanceGate,
             AcquireGenerationSlot, RaiseGenesisGate, TrainerFetches, StepChunk, MayTrain,
             TrainerLeaves, TrainerReleases, ScorerFetches, ScoreWindow, ScorerLeaves,
             ScorerReleases, WriteScores, Genesis, InferEnters, InferLeaves, InferPasses,
             WorkerEnters, trainerVars
    <3> QED
      BY <2>2, <3>1
  <2> QED
    BY <2>3, <2>4, <2>6
<1> QED
  BY <1>0, <1>1, <1>2, <1>3, GroupSteps

LEMMA GeneratedStep ==
  ASSUME TypeOK, GeneratedFirst, [Next]_vars
  PROVE  GeneratedFirst'
<1>1. CASE GroupsKept
  BY <1>1 DEF GroupsKept, GeneratedFirst
<1>2. CASE AcquireGenerationSlot
  <2>1. /\ DOMAIN groups' = DOMAIN groups \cup {Len(groups) + 1}
        /\ \A h \in DOMAIN groups : groups'[h] = groups[h]
        /\ groups'[Len(groups) + 1].at = "held"
    BY <1>2, AcquireAdds
  <2> QED
    BY <2>1 DEF GeneratedFirst, Early
<1>3. ASSUME NEW g \in DOMAIN groups, Generate(g) PROVE GeneratedFirst'
  <2>1. /\ DOMAIN groups' = DOMAIN groups
        /\ \A h \in DOMAIN groups :
             /\ groups'[h].at = groups[h].at
             /\ groups'[h].weights =
                  IF h = g THEN groups[g].weights \cup {serving} ELSE groups[h].weights
    BY <1>3, GenerateAdds
  <2> QED
    BY <2>1 DEF GeneratedFirst
<1> QED
  BY <1>1, <1>2, <1>3, GroupSteps

-----------------------------------------------------------------------------
(* The theorems.                                                           *)

LEMMA ServingInit == Init => SInv
<1> SUFFICES ASSUME Init PROVE SInv
  OBVIOUS
<1>1. IInv /\ CardInv
  BY InitIInv, CardInit
<1>2. /\ gates = <<>> /\ groups = <<>> /\ label = 0 /\ version = 0 /\ trainer = "start"
      /\ disk = {} /\ serving = 0 /\ payload = 0
  BY DEF Init
<1>3. LabelsReleased
  BY <1>2 DEF LabelsReleased, NewestPulse, Released, Stepping
<1>4. NewestOnDisk
  BY <1>2 DEF NewestOnDisk, Loadable
<1>5. ServerCurrent
  BY <1>2 DEF ServerCurrent
<1>6. InLockStep /\ GeneratedFirst /\ LabelIsLowerBound
  BY <1>2 DEF InLockStep, GeneratedFirst, LabelIsLowerBound
<1> QED
  BY <1>1, <1>3, <1>4, <1>5, <1>6 DEF SInv

LEMMA ServingStep == SInv /\ [Next]_vars => SInv'
<1> SUFFICES ASSUME SInv, [Next]_vars PROVE SInv'
  OBVIOUS
<1>1. IInv' /\ CardInv'
  BY StepIInv, CardStep DEF SInv
<1>2. LabelsReleased' /\ NewestOnDisk' /\ GeneratedFirst'
  BY LabelsStep, DiskStep, GeneratedStep DEF SInv, IInv
<1>3. ServerCurrent' /\ InLockStep'
  BY ServerStep, LockStepStep
<1>4. NamesNewest' => LabelIsLowerBound'
  BY LowerBoundStep DEF NamesNewest
<1> QED
  BY <1>1, <1>2, <1>3, <1>4 DEF SInv

LEMMA ServingInvariant == Spec => []SInv
  BY ServingInit, ServingStep, PTL DEF Spec

(* The weight_version stamped on a group is a lower bound of the weights   *)
(* that generated it (acquire_generation_slot), wherever a grant names the *)
(* newest weights: without a scorer on the card, or in lock step.  With a  *)
(* critic or a teacher that hands the card back and W > 1 it is false.     *)
THEOREM LabelsAreLowerBounds ==
  ASSUME ~Colocated \/ Scorer = "none" \/ Window = 1
  PROVE  Spec => []LabelIsLowerBound
<1>1. SInv => LabelIsLowerBound
  BY DEF SInv, NamesNewest
<1> QED
  BY <1>1, ServingInvariant, PTL

(* A shared card serves the newest weights after every hand-over to the    *)
(* server (restore_for_colocate), under the same condition.                *)
THEOREM CardServesNewest ==
  ASSUME ~Colocated \/ Scorer = "none" \/ Window = 1
  PROVE  Spec => []ServesNewest
<1>1. SInv => ServesNewest
  BY DEF SInv, ServerCurrent, NamesNewest, ServesNewest
<1> QED
  BY <1>1, ServingInvariant, PTL

(* In lock step (W = 1) the trainer trains on groups that the weights it   *)
(* is about to replace generated from end to end, whoever had the card in  *)
(* between.                                                                *)
THEOREM LockStepTrainsOnPolicy == Spec => []LockStepOnPolicy
<1>1. ASSUME SInv PROVE LockStepOnPolicy
  <2> SUFFICES ASSUME Window = 1, trainer = "batch", NEW g \in At("training")
               PROVE  groups[g].weights = {version}
    BY DEF LockStepOnPolicy
  <2>1. g \in DOMAIN groups /\ groups[g].at = "training"
    BY DEF At
  <2>2. g \notin Finished /\ groups[g].at \notin Early
    BY <2>1 DEF Finished, At, Early
  <2>3. groups[g].weights # {} /\ groups[g].weights \subseteq {Released}
    BY <1>1, <2>1, <2>2 DEF SInv, GeneratedFirst, InLockStep
  <2>4. Released = version
    BY DEF Released, Stepping
  <2> QED
    BY <2>3, <2>4
<1> QED
  BY <1>1, ServingInvariant, PTL

(* The weights a grant names to the server are still on disk when it loads *)
(* them: they are the newest export, which TitanEngine._prune_weights      *)
(* keeps, or nothing is pruned.                                            *)
THEOREM GrantsNameStoredWeights ==
  ASSUME ~Colocated \/ Scorer = "none" \/ Window = 1 \/ KeepWeights = 0
  PROVE  Spec => []PayloadOnDisk
<1>1. ASSUME SInv PROVE PayloadOnDisk
  <2> SUFFICES ASSUME Entering PROVE payload \in Loadable
    BY DEF PayloadOnDisk, Entering
  <2>1. version \in Nat
    BY <1>1 DEF SInv, IInv, TypeOK
  <2>2. CASE NamesNewest
    BY <1>1, <2>2 DEF SInv, ServerCurrent, NewestOnDisk
  <2>3. CASE KeepWeights = 0
    <3>1. payload \in 0..version /\ 1..version \subseteq disk
      BY <1>1, <2>3 DEF SInv, ServerCurrent, NewestOnDisk
    <3> QED
      BY <2>1, <3>1 DEF Loadable
  <2> QED
    BY <2>2, <2>3 DEF NamesNewest
<1> QED
  BY <1>1, ServingInvariant, PTL

(* Servers with a card of their own have been sent the weights of a        *)
(* version before the pulse that names it is raised                        *)
(* (TitanEngine._step_impl and TitanWorker._gate_output).                  *)
THEOREM UpdatedBeforeGate ==
  ASSUME ~Colocated
  PROVE  Spec => []RestoredBeforeGate
<1>1. ASSUME SInv PROVE RestoredBeforeGate
  <2> SUFFICES ASSUME NEW i \in DOMAIN gates PROVE gates[i].version <= serving
    BY DEF RestoredBeforeGate
  <2>1. version \in Nat /\ gates[i].version \in Nat
    <3>1. version \in Nat /\ gates \in Seq(Gate)
      BY <1>1 DEF SInv, IInv, TypeOK
    <3>2. gates[i] \in Gate
      BY <3>1
    <3> QED
      BY <3>1, <3>2 DEF Gate
  <2>2. gates[i].version <= Released /\ Released <= version /\ Released \in Int
    BY <1>1, <2>1 DEF SInv, LabelsReleased, Released
  <2>3. serving = version
    BY <1>1 DEF SInv, ServerCurrent
  <2> QED
    BY <2>1, <2>2, <2>3
<1> QED
  BY <1>1, ServingInvariant, PTL
=============================================================================
