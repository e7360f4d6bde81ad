------------------------- MODULE WorkerLoop_proofs -------------------------
(***************************************************************************)
(* Proofs about the worker loop, for every window, fetch size, cold start, *)
(* number of retries and number of faults.  That a phase which computes is *)
(* not tried again (ProcessRetries = 0, as every service has it) is an     *)
(* assumption of the theorems that need it.                                *)
(***************************************************************************)
EXTENDS WorkerLoop, FiniteSetTheorems, TLAPS

LEMMA SizeTypes ==
  /\ Cold \in Nat /\ MaxRetries \in Nat /\ ProcessRetries \in Nat
  /\ Windows \in Nat /\ Faults \in Nat
  /\ Batch \in Nat /\ Batch > 0 /\ Fetch \in Nat /\ Fetch > 0
  /\ Windows * Batch \in Nat
  BY WorkerLoopAssumption

LEMMA RowsFinite ==
  ASSUME NEW S \in SUBSET Rows
  PROVE  IsFiniteSet(S) /\ Cardinality(S) \in Nat
<1>1. IsFiniteSet(Rows)
  BY SizeTypes, FS_Interval DEF Rows
<1> QED
  BY <1>1, FS_Subset, FS_CardinalityType

-----------------------------------------------------------------------------
(* Types.                                                                  *)

LEMMA GateType ==
  ASSUME TypeOK, NEW w \in Workers
  PROVE  Gate(w) \in Seq(Nat)
  BY SizeTypes DEF TypeOK, Gate, StartupGate, TitanGate, CriticGate

LEMMA OutputType ==
  ASSUME TypeOK, NEW w \in Workers, WriteOutputs(w)
  PROVE  /\ pulses' \in Seq(Nat) /\ scored' \in SUBSET Rows
         /\ UNCHANGED <<written, taken, cleared>>
<1>1. Gate(w) \in Seq(Nat) /\ pulses \in Seq(Nat)
  BY GateType DEF TypeOK
<1>2. pulses' \in Seq(Nat)
  BY <1>1 DEF WriteOutputs
<1>3. batch[w] \in SUBSET Rows /\ scored \in SUBSET Rows
  BY DEF TypeOK
<1> QED
  BY <1>2, <1>3 DEF WriteOutputs

LEMMA FailType ==
  ASSUME TypeOK, NEW w \in Workers, NEW retries \in Nat,
         retries <= MaxRetries + ProcessRetries,
         NEW again \in Phases, FailAttempt(w, retries, again)
  PROVE  /\ pc' \in [Workers -> Phases]
         /\ tries' \in [Workers -> 0..(MaxRetries + ProcessRetries)]
         /\ faults' \in 0..Faults
         /\ UNCHANGED <<batch, stop, ghosts>>
<1>1. faults' \in 0..Faults
  BY SizeTypes DEF FailAttempt, TypeOK
<1>2. CASE tries[w] < retries
  <2>1. tries[w] + 1 \in 0..(MaxRetries + ProcessRetries)
    BY <1>2, SizeTypes DEF TypeOK
  <2> QED
    BY <1>1, <1>2, <2>1 DEF FailAttempt, TypeOK
<1>3. CASE ~(tries[w] < retries)
  BY <1>1, <1>3 DEF FailAttempt, TypeOK, Phases
<1> QED
  BY <1>2, <1>3

LEMMA GotoType ==
  ASSUME TypeOK, NEW w, NEW phase \in Phases, Goto(w, phase)
  PROVE  /\ pc' \in [Workers -> Phases]
         /\ tries' \in [Workers -> 0..(MaxRetries + ProcessRetries)]
<1>1. 0 \in 0..(MaxRetries + ProcessRetries)
  BY SizeTypes
<1> QED
  BY <1>1 DEF TypeOK, Goto

LEMMA CountType ==
  ASSUME TypeOK
  PROVE  Counted \in Nat
<1>1. Cardinality(batch[Titan]) \in Nat
  BY RowsFinite DEF TypeOK, Workers
<1> QED
  BY <1>1 DEF Counted, TypeOK

LEMMA TypeInit ==
  Init => TypeOK
<1> SUFFICES ASSUME Init PROVE TypeOK
  OBVIOUS
<1>1. 0 \in 0..(MaxRetries + ProcessRetries) /\ 0 \in 0..(Windows * Batch) /\ 0 \in 0..Faults
  BY SizeTypes
<1>2. pulses \in Seq(Nat)
  BY DEF Init
<1>3. /\ pc \in [Workers -> Phases]
      /\ tries \in [Workers -> 0..(MaxRetries + ProcessRetries)]
      /\ batch \in [Workers -> SUBSET Rows] /\ taken \in [Workers -> SUBSET Rows]
      /\ stop \in [Workers -> BOOLEAN]
  BY <1>1 DEF Init, Phases
<1>4. {windows, gatesRaised, step, since} \subseteq Nat
  BY DEF Init
<1>5. {scored, cleared, trained, absorbed, missed} \subseteq SUBSET Rows
  BY DEF Init
<1> QED
  BY <1>1, <1>2, <1>3, <1>4, <1>5 DEF Init, TypeOK

LEMMA TypeStep ==
  ASSUME TypeOK, [Next]_vars
  PROVE  TypeOK'
<1> USE DEF loop, critic, titan, queue, ghosts, Workers
<1>1. CASE Produce
  <2>1. written + 1 \in 0..(Windows * Batch)
    BY <1>1, SizeTypes DEF Produce, TypeOK
  <2> QED
    BY <1>1, <2>1 DEF Produce, TypeOK
<1>2. ASSUME NEW w \in Workers, FetchBatch(w) \/ FetchReplyLost(w)
      PROVE  TypeOK'
  <2>1. PICK rows \in SUBSET Rows :
          /\ Take(w, rows)
          /\ \/ /\ batch' = [batch EXCEPT ![w] = rows] /\ Goto(w, "read")
                /\ UNCHANGED <<missed, faults>>
             \/ /\ faults < Faults /\ faults' = faults + 1
                /\ missed' = missed \cup rows /\ UNCHANGED <<pc, tries, batch>>
    BY <1>2 DEF FetchBatch, FetchReplyLost
  <2>2. taken' \in [Workers -> SUBSET Rows]
    BY <2>1 DEF Take, TypeOK
  <2>3. faults' \in 0..Faults /\ missed' \in SUBSET Rows /\ batch' \in [Workers -> SUBSET Rows]
    BY <2>1, SizeTypes DEF TypeOK
  <2>4. pc' \in [Workers -> Phases] /\ tries' \in [Workers -> 0..(MaxRetries + ProcessRetries)]
    BY <2>1, GotoType DEF Phases, TypeOK
  <2> QED
    BY <2>1, <2>2, <2>3, <2>4 DEF Take, TypeOK
<1>3. ASSUME NEW w \in Workers, ReadBatch(w) \/ Granted(w) \/ Leave(w) \/ GiveUp(w) \/ Stop(w)
      PROVE  TypeOK'
  <2>1. CASE ReadBatch(w)
    BY <2>1, GotoType DEF ReadBatch, Phases, TypeOK
  <2>2. CASE Granted(w)
    BY <2>2, GotoType DEF Granted, Phases, TypeOK
  <2>3. CASE Leave(w)
    BY <2>3, GotoType DEF Leave, Phases, TypeOK
  <2>4. CASE GiveUp(w)
    BY <2>4, GotoType DEF GiveUp, Phases, TypeOK
  <2>5. CASE Stop(w)
    BY <2>5 DEF Stop, TypeOK
  <2> QED
    BY <1>3, <2>1, <2>2, <2>3, <2>4, <2>5
<1>4. CASE BeginCritic
  BY <1>4, GotoType DEF BeginCritic, Phases, TypeOK
<1>5. CASE BeginTitan
  <2>1. PICK phase \in Phases : Goto(Titan, phase)
    BY <1>5 DEF BeginTitan, Phases
  <2> QED
    BY <1>5, <2>1, GotoType DEF BeginTitan, TypeOK
<1>6. CASE StepCritic
  <2>1. gatesRaised' \in Nat /\ absorbed' \in SUBSET Rows
    BY <1>6 DEF StepCritic, TypeOK
  <2> QED
    BY <1>6, <2>1, GotoType DEF StepCritic, Phases, TypeOK
<1>7. CASE StepTitan
  <2>1. since' \in Nat /\ step' \in Nat /\ trained' \in SUBSET Rows
    BY <1>7, CountType DEF StepTitan, TypeOK
  <2>2. request' \in BOOLEAN /\ card' \in Workers \cup {Free}
    BY <1>7 DEF StepTitan, SyncDue, TypeOK
  <2> QED
    BY <1>7, <2>1, <2>2, GotoType DEF StepTitan, Phases, TypeOK
<1>8. ASSUME NEW w \in Workers, WriteBatch(w)
      PROVE  TypeOK'
  <2>1. PICK phase \in Phases : Goto(w, phase)
    BY <1>8 DEF WriteBatch, Phases
  <2> QED
    BY <1>8, <2>1, GotoType, OutputType DEF WriteBatch, TypeOK
<1>9. ASSUME NEW w \in Workers, ClearBatch(w)
      PROVE  TypeOK'
  <2>1. cleared' \in SUBSET Rows /\ batch' \in [Workers -> SUBSET Rows]
    BY <1>9 DEF ClearBatch, TypeOK
  <2> QED
    BY <1>9, <2>1, GotoType DEF ClearBatch, Phases, TypeOK
<1>10. ASSUME NEW w \in Workers, CallFails(w) \/ WriteReplyLost(w) \/ ClearReplyLost(w)
       PROVE  TypeOK'
  <2>1. pc[w] \in Phases /\ MaxRetries <= MaxRetries + ProcessRetries /\ FailAttempt(w, MaxRetries, pc[w])
    BY <1>10, SizeTypes DEF CallFails, WriteReplyLost, ClearReplyLost, TypeOK
  <2>2. /\ pc' \in [Workers -> Phases]
        /\ tries' \in [Workers -> 0..(MaxRetries + ProcessRetries)]
        /\ faults' \in 0..Faults
        /\ UNCHANGED <<batch, stop, ghosts>>
    BY <2>1, FailType, SizeTypes
  <2>3. CASE CallFails(w)
    BY <2>2, <2>3 DEF CallFails, TypeOK
  <2>4. CASE WriteReplyLost(w)
    BY <2>2, <2>4, OutputType DEF WriteReplyLost, TypeOK
  <2>5. CASE ClearReplyLost(w)
    BY <2>2, <2>5 DEF ClearReplyLost, TypeOK
  <2> QED
    BY <1>10, <2>3, <2>4, <2>5
<1>11. CASE StepCriticRaises \/ StepTitanRaises
  <2>1. "process" \in Phases /\ ProcessRetries <= MaxRetries + ProcessRetries
    BY SizeTypes DEF Phases
  <2>2. ASSUME NEW w \in Workers, FailAttempt(w, ProcessRetries, "process")
        PROVE  /\ pc' \in [Workers -> Phases]
               /\ tries' \in [Workers -> 0..(MaxRetries + ProcessRetries)]
               /\ faults' \in 0..Faults
               /\ UNCHANGED <<batch, stop, ghosts>>
    BY <2>1, <2>2, FailType, SizeTypes
  <2>3. CASE StepCriticRaises
    BY <2>2, <2>3 DEF StepCriticRaises, TypeOK
  <2>4. CASE StepTitanRaises
    <3>1. since' \in Nat
      BY <2>4, CountType DEF StepTitanRaises, TypeOK
    <3> QED
      BY <2>2, <2>4, <3>1 DEF StepTitanRaises, TypeOK
  <2> QED
    BY <1>11, <2>3, <2>4
<1>12. CASE UNCHANGED vars
  BY <1>12 DEF vars, TypeOK
<1> QED
  BY <1>1, <1>2, <1>3, <1>4, <1>5, <1>6, <1>7, <1>8, <1>9, <1>10, <1>11, <1>12
     DEF Next, CriticStep, TitanStep, Fault, Rest

(* The variables have the types TypeOK gives them, for every value of the  *)
(* constants.                                                              *)
THEOREM TypeCorrect == Spec => []TypeOK
<1>1. Init => TypeOK
  BY TypeInit
<1>2. TypeOK /\ [Next]_vars => TypeOK'
  BY TypeStep
<1> QED
  BY <1>1, <1>2, PTL DEF Spec

-----------------------------------------------------------------------------
(* Whose a row is.  A fetch takes rows no fetch of the worker took before, *)
(* so what is in a worker's hands is apart from what it is through with.   *)

Computing == {"read", "process", "wait", "step"}
Written == {"write", "clear"}

Taken ==
  /\ \A w \in Workers : batch[w] \subseteq taken[w]
  /\ trained \subseteq taken[Titan]
  /\ scored \cup absorbed \subseteq taken[Critic]

TitanHolds ==
  /\ batch[Titan] \subseteq scored /\ trained \subseteq scored
  /\ pc[Titan] \in Computing =>
       batch[Titan] \cap trained = {} /\ Cardinality(batch[Titan]) = Fetch
  /\ pc[Titan] \in Written => batch[Titan] \subseteq trained

CriticHolds ==
  /\ scored \cap absorbed = {}
  /\ pc[Critic] = "startup" => batch[Critic] = {}
  /\ pc[Critic] \in Computing => batch[Critic] \cap (scored \cup absorbed) = {}
  /\ pc[Critic] \in Written =>
       IF InColdStart THEN batch[Critic] \subseteq absorbed
                      ELSE batch[Critic] \cap absorbed = {}

Cleared == cleared \subseteq trained \cup absorbed

IInv == TypeOK /\ Taken /\ TitanHolds /\ CriticHolds /\ Cleared

LEMMA IInvInit ==
  Init => IInv
  BY TypeInit DEF Init, IInv, TypeOK, Taken, TitanHolds, CriticHolds, Cleared, Workers,
     Computing, Written, Titan, Critic

(* A worker whose computation raises is at its end.                        *)
LEMMA RaiseEnds ==
  ASSUME TypeOK, ProcessRetries = 0, NEW w \in Workers,
         FailAttempt(w, ProcessRetries, "process")
  PROVE  pc' = [pc EXCEPT ![w] = "dead"] /\ UNCHANGED <<batch, ghosts>>
<1>1. ~(tries[w] < ProcessRetries)
  BY SizeTypes DEF TypeOK
<1> QED
  BY <1>1 DEF FailAttempt

(* A call that fails leaves the worker where it is, or ends it.            *)
LEMMA FailStays ==
  ASSUME NEW w \in Workers, FailAttempt(w, MaxRetries, pc[w]), TypeOK
  PROVE  /\ pc' = pc \/ pc' = [pc EXCEPT ![w] = "dead"]
         /\ UNCHANGED <<batch, stop, ghosts>>
  BY DEF FailAttempt, TypeOK

LEMMA Distinct ==
  /\ Workers = {Critic, Titan} /\ Critic # Titan
  BY DEF Workers, Critic, Titan

(* A phase is passed, or given up, and no row moves.                       *)
LEMMA PassOn ==
  ASSUME IInv, NEW w \in Workers, NEW phase \in Phases,
         pc' = [pc EXCEPT ![w] = phase],
         UNCHANGED <<batch, taken, scored, trained, absorbed, cleared>>,
         phase \in Computing => pc[w] \in Computing,
         phase \in Written => pc[w] = phase,
         phase # "startup",
         InColdStart' = InColdStart \/ (w = Critic /\ pc[w] \notin Written)
  PROVE  Taken' /\ TitanHolds' /\ CriticHolds' /\ Cleared'
<1>1. Taken' /\ Cleared'
  BY DEF IInv, Taken, Cleared
<1>2. TitanHolds'
  BY Distinct DEF IInv, TypeOK, TitanHolds, Computing, Written
<1>3. CriticHolds'
  BY Distinct DEF IInv, TypeOK, CriticHolds, Computing, Written
<1> QED
  BY <1>1, <1>2, <1>3

LEMMA NothingMoves ==
  ASSUME IInv,
         UNCHANGED <<pc, batch, taken, scored, trained, absorbed, cleared, windows>>
  PROVE  Taken' /\ TitanHolds' /\ CriticHolds' /\ Cleared'
  BY DEF IInv, Taken, TitanHolds, CriticHolds, Cleared, InColdStart

(* A fetch takes rows nobody's hands or books have seen.                   *)
LEMMA FetchIsFresh ==
  ASSUME IInv, NEW w \in Workers, NEW rows \in SUBSET Rows, Take(w, rows)
  PROVE  /\ rows \cap taken[w] = {}
         /\ Cardinality(rows) = FetchSize(w)
         /\ w = Titan => rows \subseteq scored
         /\ taken' = [taken EXCEPT ![w] = @ \cup rows]
         /\ pc[w] = "poll"
         /\ UNCHANGED <<scored, trained, absorbed, cleared, windows>>
  BY DEF Take, IsBatch, Ready, Complete, critic

LEMMA FetchKeeps ==
  ASSUME IInv, NEW w \in Workers, FetchBatch(w)
  PROVE  Taken' /\ TitanHolds' /\ CriticHolds' /\ Cleared'
<1>1. PICK rows \in SUBSET Rows :
        Take(w, rows) /\ batch' = [batch EXCEPT ![w] = rows] /\ Goto(w, "read")
  BY DEF FetchBatch
<1>2. /\ rows \cap taken[w] = {}
      /\ Cardinality(rows) = FetchSize(w)
      /\ w = Titan => rows \subseteq scored
      /\ taken' = [taken EXCEPT ![w] = @ \cup rows]
      /\ UNCHANGED <<scored, trained, absorbed, cleared, windows>>
  BY <1>1, FetchIsFresh
<1>3. pc' = [pc EXCEPT ![w] = "read"]
  BY <1>1 DEF Goto
<1>4. Taken' /\ Cleared'
  BY <1>1, <1>2, Distinct DEF IInv, TypeOK, Taken, Cleared
<1>5. TitanHolds'
  BY <1>1, <1>2, <1>3, Distinct
     DEF IInv, TypeOK, TitanHolds, Taken, Computing, Written, FetchSize
<1>6. CriticHolds'
  BY <1>1, <1>2, <1>3, Distinct
     DEF IInv, TypeOK, CriticHolds, Taken, Computing, Written, InColdStart
<1> QED
  BY <1>4, <1>5, <1>6

LEMMA FetchLostKeeps ==
  ASSUME IInv, NEW w \in Workers, FetchReplyLost(w)
  PROVE  Taken' /\ TitanHolds' /\ CriticHolds' /\ Cleared'
<1>1. PICK rows \in SUBSET Rows : Take(w, rows) /\ UNCHANGED <<pc, tries, batch>>
  BY DEF FetchReplyLost
<1>2. /\ taken' = [taken EXCEPT ![w] = @ \cup rows]
      /\ UNCHANGED <<scored, trained, absorbed, cleared, windows>>
  BY <1>1, FetchIsFresh
<1>3. Taken' /\ Cleared'
  BY <1>1, <1>2, Distinct DEF IInv, TypeOK, Taken, Cleared
<1>4. TitanHolds' /\ CriticHolds'
  BY <1>1, <1>2 DEF IInv, TitanHolds, CriticHolds, InColdStart
<1> QED
  BY <1>3, <1>4

(* What the write of a batch adds to the scored rows is the critic's own,  *)
(* of a window after the cold start; so nothing absorbed is scored.        *)
LEMMA OutputsKeep ==
  ASSUME IInv, NEW w \in Workers, pc[w] \in {"startup", "write"}, WriteOutputs(w),
         UNCHANGED <<batch, windows, trained, absorbed>>,
         \/ pc' = pc
         \/ pc' = [pc EXCEPT ![w] = "dead"]
         \/ pc' = [pc EXCEPT ![w] = IF pc[w] = "startup" THEN "poll" ELSE "clear"]
  PROVE  Taken' /\ TitanHolds' /\ CriticHolds' /\ Cleared'
<1>1. UNCHANGED <<taken, cleared>> /\ scored \subseteq scored'
  BY DEF WriteOutputs
<1>2. scored' \subseteq scored \cup batch[Critic]
  BY DEF WriteOutputs
<1>3. scored' # scored => w = Critic /\ ~InColdStart
  BY DEF WriteOutputs
<1>4. pc[Critic] \in Computing => scored' = scored
  BY <1>3 DEF Computing
<1>5. Taken' /\ Cleared'
  BY <1>1, <1>2, Distinct DEF IInv, Taken, Cleared
<1>6. TitanHolds'
  BY <1>1, Distinct DEF IInv, TypeOK, TitanHolds, Computing, Written
<1>7. scored' \cap absorbed = {}
  <2>1. CASE scored' = scored
    BY <2>1 DEF IInv, CriticHolds
  <2>2. CASE scored' # scored
    BY <1>2, <1>3, <2>2 DEF IInv, CriticHolds, Written
  <2> QED
    BY <2>1, <2>2
<1>8. CriticHolds'
  BY <1>4, <1>7, Distinct DEF IInv, TypeOK, CriticHolds, Computing, Written, InColdStart
<1> QED
  BY <1>5, <1>6, <1>8

LEMMA StepCriticKeeps ==
  ASSUME IInv, StepCritic
  PROVE  Taken' /\ TitanHolds' /\ CriticHolds' /\ Cleared'
<1>1. /\ pc[Critic] = "step" /\ pc' = [pc EXCEPT ![Critic] = "write"]
      /\ absorbed' = IF InColdStart THEN absorbed \cup batch[Critic] ELSE absorbed
      /\ UNCHANGED <<batch, windows, taken, scored, cleared, trained>>
  BY DEF StepCritic, Goto, queue
<1>2. Taken' /\ Cleared'
  BY <1>1, Distinct DEF IInv, Taken, Cleared
<1>3. TitanHolds'
  BY <1>1, Distinct DEF IInv, TypeOK, TitanHolds
<1>4. batch[Critic] \cap (scored \cup absorbed) = {} /\ scored \cap absorbed = {}
  BY <1>1 DEF IInv, CriticHolds, Computing
<1>5. CriticHolds'
  BY <1>1, <1>4, Distinct DEF IInv, TypeOK, CriticHolds, Computing, Written, InColdStart
<1> QED
  BY <1>2, <1>3, <1>5

LEMMA StepTitanKeeps ==
  ASSUME IInv, StepTitan
  PROVE  Taken' /\ TitanHolds' /\ CriticHolds' /\ Cleared'
<1>1. /\ pc[Titan] = "step" /\ pc' = [pc EXCEPT ![Titan] = "write"]
      /\ trained' = trained \cup batch[Titan]
      /\ UNCHANGED <<batch, windows, taken, scored, cleared, absorbed>>
  BY DEF StepTitan, Goto, queue, critic
<1>2. Taken' /\ Cleared'
  BY <1>1, Distinct DEF IInv, Taken, Cleared
<1>3. TitanHolds'
  BY <1>1, Distinct DEF IInv, TypeOK, TitanHolds, Computing, Written
<1>4. CriticHolds'
  BY <1>1, Distinct DEF IInv, TypeOK, CriticHolds, InColdStart
<1> QED
  BY <1>2, <1>3, <1>4

(* What is cleared has been absorbed in the cold start, or trained on.     *)
LEMMA ClearIsOfUsed ==
  ASSUME IInv, NEW w \in Workers, pc[w] = "clear", ShouldClear(w)
  PROVE  batch[w] \subseteq trained \cup absorbed
  BY Distinct DEF IInv, TitanHolds, CriticHolds, Written, ShouldClear, InColdStart

LEMMA ClearKeeps ==
  ASSUME IInv, NEW w \in Workers, ClearBatch(w)
  PROVE  Taken' /\ TitanHolds' /\ CriticHolds' /\ Cleared'
<1>1. /\ pc[w] = "clear" /\ pc' = [pc EXCEPT ![w] = "poll"]
      /\ batch' = [batch EXCEPT ![w] = {}]
      /\ cleared' = IF ShouldClear(w) THEN cleared \cup batch[w] ELSE cleared
      /\ UNCHANGED <<windows, taken, scored, trained, absorbed>>
  BY DEF ClearBatch, Goto, critic, ghosts
<1>2. Cleared'
  BY <1>1, ClearIsOfUsed DEF IInv, Cleared
<1>3. Taken'
  BY <1>1 DEF IInv, TypeOK, Taken
<1>4. TitanHolds'
  BY <1>1, Distinct DEF IInv, TypeOK, TitanHolds, Computing, Written
<1>5. CriticHolds'
  BY <1>1, Distinct DEF IInv, TypeOK, CriticHolds, Computing, Written, InColdStart
<1> QED
  BY <1>2, <1>3, <1>4, <1>5

LEMMA FailuresKeep ==
  ASSUME IInv, NEW w \in Workers,
         CallFails(w) \/ WriteReplyLost(w) \/ ClearReplyLost(w)
  PROVE  Taken' /\ TitanHolds' /\ CriticHolds' /\ Cleared'
<1>1. /\ pc' = pc \/ pc' = [pc EXCEPT ![w] = "dead"]
      /\ UNCHANGED <<batch, stop, ghosts>>
  BY FailStays DEF IInv, CallFails, WriteReplyLost, ClearReplyLost
<1>2. CASE CallFails(w)
  <2>1. UNCHANGED <<batch, taken, scored, trained, absorbed, cleared, windows>>
    BY <1>1, <1>2 DEF CallFails, queue, critic, ghosts
  <2>2. CASE pc' = pc
    BY <2>1, <2>2, NothingMoves
  <2>3. CASE pc' = [pc EXCEPT ![w] = "dead"]
    BY <2>1, <2>3, PassOn DEF Phases, Computing, Written, InColdStart
  <2> QED
    BY <1>1, <2>2, <2>3
<1>3. CASE WriteReplyLost(w)
  BY <1>1, <1>3, OutputsKeep DEF WriteReplyLost, critic, ghosts
<1>4. CASE ClearReplyLost(w)
  <2>1. /\ pc[w] = "clear" /\ ShouldClear(w) /\ cleared' = cleared \cup batch[w]
        /\ UNCHANGED <<batch, taken, scored, trained, absorbed, windows>>
    BY <1>1, <1>4 DEF ClearReplyLost, critic, ghosts
  <2>2. Cleared'
    BY <2>1, ClearIsOfUsed DEF IInv, Cleared
  <2>3. Taken'
    BY <2>1 DEF IInv, Taken
  <2>4. TitanHolds' /\ CriticHolds'
    BY <1>1, <2>1, Distinct
       DEF IInv, TypeOK, TitanHolds, CriticHolds, Computing, Written, InColdStart
  <2> QED
    BY <2>2, <2>3, <2>4
<1> QED
  BY <1>2, <1>3, <1>4

LEMMA IInvStep ==
  ASSUME IInv, ProcessRetries = 0, [Next]_vars
  PROVE  IInv'
<1>1. TypeOK'
  BY TypeStep DEF IInv
<1>2. CASE Produce \/ UNCHANGED vars \/ \E w \in Workers : Stop(w)
  BY <1>1, <1>2, NothingMoves
     DEF Produce, Stop, vars, loop, critic, titan, queue, ghosts, IInv
<1>3. ASSUME NEW w \in Workers, ReadBatch(w) \/ Granted(w) \/ Leave(w) \/ GiveUp(w)
      PROVE  IInv'
  <2>1. PICK phase \in {"process", "step", "done", "dead"} :
          /\ pc' = [pc EXCEPT ![w] = phase]
          /\ phase \in Computing => pc[w] \in Computing
          /\ UNCHANGED <<batch, taken, scored, trained, absorbed, cleared, windows>>
    BY <1>3 DEF ReadBatch, Granted, Leave, GiveUp, Goto, Computing, critic, queue, ghosts
  <2>2. phase \in Phases /\ phase \notin Written /\ phase # "startup"
    BY DEF Phases, Written
  <2>3. InColdStart' = InColdStart
    BY <2>1 DEF InColdStart
  <2> QED
    BY <1>1, <2>1, <2>2, <2>3, PassOn DEF IInv
<1>4. CASE BeginCritic
  <2>1. /\ pc' = [pc EXCEPT ![Critic] = "wait"] /\ pc[Critic] = "process"
        /\ UNCHANGED <<batch, taken, scored, trained, absorbed, cleared>>
    BY <1>4 DEF BeginCritic, Goto, queue, ghosts
  <2> QED
    BY <1>1, <2>1, PassOn, Distinct DEF IInv, Phases, Computing, Written
<1>5. CASE BeginTitan
  <2>1. PICK phase \in {"wait", "step"} : pc' = [pc EXCEPT ![Titan] = phase]
    BY <1>5 DEF BeginTitan, Goto
  <2>2. /\ pc[Titan] = "process"
        /\ UNCHANGED <<batch, taken, scored, trained, absorbed, cleared, windows>>
    BY <1>5 DEF BeginTitan, Goto, queue, ghosts, critic
  <2>3. InColdStart' = InColdStart
    BY <2>2 DEF InColdStart
  <2> QED
    BY <1>1, <2>1, <2>2, <2>3, PassOn, Distinct DEF IInv, Phases, Computing, Written
<1>6. CASE StepCriticRaises \/ StepTitanRaises
  <2>1. PICK w \in Workers :
          /\ pc' = [pc EXCEPT ![w] = "dead"]
          /\ UNCHANGED <<batch, taken, scored, trained, absorbed, cleared, windows>>
    BY <1>6, RaiseEnds, Distinct
       DEF IInv, StepCriticRaises, StepTitanRaises, queue, ghosts, critic
  <2>2. InColdStart' = InColdStart
    BY <2>1 DEF InColdStart
  <2> QED
    BY <1>1, <2>1, <2>2, PassOn DEF IInv, Phases, Computing, Written
<1>7. ASSUME NEW w \in Workers, FetchBatch(w) \/ FetchReplyLost(w) \/ ClearBatch(w)
      PROVE  IInv'
  BY <1>1, <1>7, FetchKeeps, FetchLostKeeps, ClearKeeps DEF IInv
<1>8. ASSUME NEW w \in Workers, WriteBatch(w)
      PROVE  IInv'
  BY <1>1, <1>8, OutputsKeep DEF IInv, WriteBatch, Goto, critic, ghosts
<1>9. CASE StepCritic \/ StepTitan
  BY <1>1, <1>9, StepCriticKeeps, StepTitanKeeps DEF IInv
<1>10. ASSUME NEW w \in Workers, CallFails(w) \/ WriteReplyLost(w) \/ ClearReplyLost(w)
       PROVE  IInv'
  BY <1>1, <1>10, FailuresKeep DEF IInv
<1> QED
  BY <1>2, <1>3, <1>4, <1>5, <1>6, <1>7, <1>8, <1>9, <1>10, Distinct
     DEF Next, CriticStep, TitanStep, Fault, Rest

(* No row is cleared before its last reader is through with it, and none is*)
(* both absorbed by the cold start and trained on: for every window, fetch *)
(* size, cold start and number of faults (CriticWorker.should_clear_batch).*)
THEOREM ClearedAreUsed ==
  ASSUME ProcessRetries = 0
  PROVE  Spec => []ClearedOnlyWhenUsed
<1>1. Init => IInv
  BY IInvInit
<1>2. IInv /\ [Next]_vars => IInv'
  BY IInvStep
<1>3. IInv => ClearedOnlyWhenUsed
  BY DEF IInv, Cleared, CriticHolds, TitanHolds, ClearedOnlyWhenUsed
<1> QED
  BY <1>1, <1>2, <1>3, PTL DEF Spec

-----------------------------------------------------------------------------
(* The counter of the trainer is a number of whole fetches below a window, *)
(* so that the fetch which reaches a window fills it exactly.              *)

Whole(n) == \E k \in Nat : n = k * Fetch

Count ==
  pc[Titan] # "dead" =>
    /\ Cardinality(trained) = Batch * step + since
    /\ since < Batch
    /\ Whole(since)

LEMMA BatchIsWhole ==
  Whole(Batch)
<1>1. Batch \div Fetch \in Nat /\ Batch = Fetch * (Batch \div Fetch) + (Batch % Fetch)
  BY SizeTypes
<1>2. Batch = (Batch \div Fetch) * Fetch
  BY <1>1, SizeTypes, WorkerLoopAssumption
<1> QED
  BY <1>1, <1>2 DEF Whole

LEMMA NextMultiple ==
  ASSUME NEW k \in Nat, NEW m \in Nat, k * Fetch < m * Fetch
  PROVE  k * Fetch + Fetch <= m * Fetch
<1>1. k < m
  <2> SUFFICES ASSUME m <= k PROVE m * Fetch <= k * Fetch
    BY SizeTypes
  <2>1. PICK d \in Nat : k = m + d
    BY SizeTypes
  <2> QED
    BY <2>1, SizeTypes
<1>2. PICK d \in Nat : m = k + 1 + d
  BY <1>1
<1> QED
  BY <1>2, SizeTypes

LEMMA Filled ==
  ASSUME NEW n \in Nat, Whole(n), n < Batch
  PROVE  n + Fetch <= Batch /\ Whole(n + Fetch)
<1>1. PICK k \in Nat : n = k * Fetch
  BY DEF Whole
<1>2. PICK m \in Nat : Batch = m * Fetch
  BY BatchIsWhole DEF Whole
<1>3. n + Fetch = (k + 1) * Fetch
  BY <1>1, SizeTypes
<1> QED
  BY <1>1, <1>2, <1>3, NextMultiple DEF Whole

(* The step of a batch counts its rows, which are new to the trainer.      *)
LEMMA StepCounts ==
  ASSUME IInv, Count, StepTitan
  PROVE  Count'
<1>1. /\ pc[Titan] = "step"
      /\ trained' = trained \cup batch[Titan]
      /\ since' = IF SyncDue THEN 0 ELSE Counted
      /\ step' = step + (IF SyncDue THEN 1 ELSE 0)
  BY DEF StepTitan
<1>2. batch[Titan] \cap trained = {} /\ Cardinality(batch[Titan]) = Fetch
  BY <1>1 DEF IInv, TitanHolds, Computing
<1>3. /\ batch[Titan] \in SUBSET Rows /\ trained \in SUBSET Rows
      /\ since \in Nat /\ step \in Nat
  BY DEF IInv, TypeOK, Workers
<1>4. Cardinality(trained') = Cardinality(trained) + Fetch
  <2>1. Cardinality(trained \cap batch[Titan]) = 0
    BY <1>2, FS_EmptySet
  <2>2. /\ IsFiniteSet(trained) /\ Cardinality(trained) \in Nat
        /\ IsFiniteSet(batch[Titan])
    BY <1>3, RowsFinite
  <2>3. Cardinality(trained \cup batch[Titan]) =
          Cardinality(trained) + Cardinality(batch[Titan]) - Cardinality(trained \cap batch[Titan])
    BY <2>2, FS_Union
  <2> QED
    BY <1>1, <1>2, <2>1, <2>2, <2>3, SizeTypes
<1>5. /\ Cardinality(trained) = Batch * step + since
      /\ since < Batch /\ Whole(since)
  BY <1>1 DEF Count
<1>6. since + Fetch <= Batch /\ Whole(since + Fetch)
  BY <1>3, <1>5, Filled
<1>7. Counted = since + Fetch
  BY <1>2 DEF Counted
<1>8. CASE SyncDue
  <2>1. since + Fetch = Batch
    BY <1>3, <1>6, <1>7, <1>8, SizeTypes DEF SyncDue
  <2>2. since' = 0 /\ step' = step + 1
    BY <1>1, <1>8
  <2>3. Batch * (step + 1) = Batch * step + Batch
    BY <1>3, SizeTypes
  <2>4. Cardinality(trained') = Batch * step' + since'
    BY <1>3, <1>4, <1>5, <2>1, <2>2, <2>3, SizeTypes
  <2>5. Whole(0)
    BY SizeTypes DEF Whole
  <2> QED
    BY <2>2, <2>4, <2>5, SizeTypes DEF Count
<1>9. CASE ~SyncDue
  <2>1. since' = since + Fetch /\ step' = step /\ since + Fetch < Batch
    BY <1>1, <1>3, <1>7, <1>9, SizeTypes DEF SyncDue
  <2>2. Cardinality(trained') = Batch * step' + since'
    BY <1>3, <1>4, <1>5, <2>1, SizeTypes
  <2> QED
    BY <1>6, <2>1, <2>2 DEF Count
<1> QED
  BY <1>8, <1>9

(* Everything else leaves the books of the trainer, or ends its thread.    *)
LEMMA CountStep ==
  ASSUME IInv, Count, ProcessRetries = 0, [Next]_vars
  PROVE  Count'
<1>1. ASSUME UNCHANGED <<trained, since, step>>, pc[Titan] = "dead" => pc'[Titan] = "dead"
      PROVE  Count'
  BY <1>1 DEF Count
<1> USE DEF loop, critic, titan, ghosts
<1>2. CASE Produce \/ UNCHANGED vars \/ \E w \in Workers : Stop(w)
  BY <1>1, <1>2 DEF Produce, Stop, vars
<1>3. ASSUME NEW w \in Workers, FetchBatch(w) \/ FetchReplyLost(w)
      PROVE  Count'
  <2>1. UNCHANGED <<trained, since, step>>
    BY <1>3 DEF FetchBatch, FetchReplyLost, Take
  <2>2. pc' = pc \/ (pc[w] = "poll" /\ pc' = [pc EXCEPT ![w] = "read"])
    BY <1>3 DEF FetchBatch, FetchReplyLost, Take, Goto
  <2> QED
    BY <1>1, <2>1, <2>2, Distinct DEF IInv, TypeOK
<1>4. ASSUME NEW w \in Workers, ReadBatch(w) \/ Granted(w) \/ Leave(w) \/ GiveUp(w)
                                 \/ WriteBatch(w) \/ ClearBatch(w)
      PROVE  Count'
  <2>1. UNCHANGED <<trained, since, step>>
    BY <1>4 DEF ReadBatch, Granted, Leave, GiveUp, WriteBatch, ClearBatch
  <2>2. PICK phase \in Phases : pc' = [pc EXCEPT ![w] = phase] /\ (pc[w] = "dead" => phase = "dead")
    BY <1>4 DEF ReadBatch, Granted, Leave, GiveUp, WriteBatch, ClearBatch, Goto, Phases
  <2> QED
    BY <1>1, <2>1, <2>2, Distinct DEF IInv, TypeOK
<1>5. CASE BeginCritic \/ StepCritic
  <2>1. UNCHANGED <<trained, since, step>> /\ pc'[Titan] = pc[Titan]
    BY <1>5, Distinct DEF BeginCritic, StepCritic, Goto, IInv, TypeOK
  <2> QED
    BY <1>1, <2>1
<1>6. CASE BeginTitan
  <2>1. UNCHANGED <<trained, since, step>> /\ pc[Titan] # "dead"
    BY <1>6 DEF BeginTitan
  <2> QED
    BY <1>1, <2>1
<1>7. CASE StepCriticRaises
  <2>1. UNCHANGED <<trained, since, step>> /\ pc'[Titan] = pc[Titan]
    BY <1>7, RaiseEnds, Distinct DEF StepCriticRaises, IInv, TypeOK
  <2> QED
    BY <1>1, <2>1
<1>8. CASE StepTitanRaises
  <2>1. pc'[Titan] = "dead"
    BY <1>8, RaiseEnds, Distinct DEF StepTitanRaises, IInv, TypeOK
  <2> QED
    BY <2>1 DEF Count
<1>9. ASSUME NEW w \in Workers, CallFails(w) \/ WriteReplyLost(w) \/ ClearReplyLost(w)
      PROVE  Count'
  <2>1. UNCHANGED <<trained, since, step>>
    BY <1>9, FailStays DEF CallFails, WriteReplyLost, ClearReplyLost, IInv
  <2>2. pc' = pc \/ pc' = [pc EXCEPT ![w] = "dead"]
    BY <1>9, FailStays DEF CallFails, WriteReplyLost, ClearReplyLost, IInv
  <2> QED
    BY <1>1, <2>1, <2>2, Distinct DEF IInv, TypeOK
<1>10. CASE StepTitan
  BY <1>10, StepCounts
<1> QED
  BY <1>2, <1>3, <1>4, <1>5, <1>6, <1>7, <1>8, <1>9, <1>10, Distinct
     DEF Next, CriticStep, TitanStep, Fault, Rest

(* As long as the trainer's thread lives, the rows it has trained on are   *)
(* whole windows for its optimizer steps plus trained_since_sync, whatever *)
(* calls fail and are retried, for every window and every fetch size that  *)
(* divides it (TitanWorker.process_tq_batch).                              *)
THEOREM StepsAreWholeWindows ==
  ASSUME ProcessRetries = 0
  PROVE  Spec => []TrainedAddsUp
<1>1. Init => IInv /\ Count
  <2>1. Init => Cardinality(trained) = Batch * step + since /\ since < Batch /\ Whole(since)
    BY SizeTypes, FS_EmptySet DEF Init, Whole
  <2> QED
    BY <2>1, IInvInit DEF Count
<1>2. IInv /\ Count /\ [Next]_vars => IInv' /\ Count'
  BY IInvStep, CountStep
<1>3. Count => TrainedAddsUp
  BY DEF Count, TrainedAddsUp
<1> QED
  BY <1>1, <1>2, <1>3, PTL DEF Spec

-----------------------------------------------------------------------------
(* The pulses.  Every pulse has all smaller numbers before it; a worker    *)
(* that is about to raise one finds the number before it raised.           *)

Raised == {pulses[j] : j \in 1..Len(pulses)}

InOrder ==
  \A i \in 1..Len(pulses) : \A u \in 0..(pulses[i] - 1) :
    \E j \in 1..(i - 1) : pulses[j] = u

InColdUpTo(n) == IF n <= Cold THEN n ELSE Cold

CriticAtGate == pc[Critic] = "write" /\ InColdStart
TitanAtGate == pc[Titan] = "write" /\ since = 0

CriticPulses ==
  /\ pc[Critic] \in {"wait", "step"} =>
       windows >= 1 /\ gatesRaised = InColdUpTo(windows - 1)
  /\ pc[Critic] \notin {"wait", "step", "dead"} => gatesRaised = InColdUpTo(windows)
  /\ written = 0 =>
       windows = 0 /\ gatesRaised = 0 /\ pc[Critic] \notin Computing \cup Written
  /\ written > 0 /\ pc[Critic] # "dead" =>
       IF CriticAtGate THEN gatesRaised >= 1 /\ gatesRaised - 1 \in Raised
                       ELSE gatesRaised \in Raised

TitanPulses ==
  /\ scored = {} => step = 0 /\ pc[Titan] \notin Computing \cup Written
  /\ scored # {} /\ pc[Titan] # "dead" =>
       IF TitanAtGate THEN step >= 1 /\ step + Cold - 1 \in Raised ELSE step + Cold \in Raised

(* The pulses a worker has counted and not put.                            *)
OwedByCritic == IF CriticAtGate THEN 1 ELSE 0
OwedByTitan == IF pc[Titan] = "startup" \/ TitanAtGate THEN 1 ELSE 0

Owing ==
  Len(pulses) + OwedByCritic + OwedByTitan <= 1 + gatesRaised + step + faults

PInv == InOrder /\ CriticPulses /\ TitanPulses /\ Owing

LEMMA Numbers ==
  ASSUME TypeOK
  PROVE  /\ windows \in Nat /\ gatesRaised \in Nat /\ step \in Nat /\ since \in Nat
         /\ written \in Nat /\ faults \in Nat
         /\ pulses \in Seq(Nat) /\ Len(pulses) \in Nat
         /\ pc \in [Workers -> Phases]
  BY SizeTypes DEF TypeOK

LEMMA PInvInit ==
  Init => PInv
<1> SUFFICES ASSUME Init PROVE PInv
  OBVIOUS
<1>1. pulses = <<>> /\ Len(pulses) = 0 /\ pc[Critic] = "startup" /\ pc[Titan] = "startup"
  BY Distinct DEF Init
<1>2. InOrder
  BY <1>1 DEF InOrder
<1>3. CriticPulses
  BY <1>1, SizeTypes DEF Init, CriticPulses, InColdUpTo, Computing, Written
<1>4. TitanPulses
  BY <1>1 DEF Init, TitanPulses, Computing, Written
<1>5. Owing
  BY <1>1 DEF Init, Owing, OwedByCritic, OwedByTitan, CriticAtGate, TitanAtGate
<1> QED
  BY <1>2, <1>3, <1>4, <1>5 DEF PInv

LEMMA OneOwed ==
  /\ OwedByCritic \in 0..1 /\ OwedByTitan \in 0..1
  /\ OwedByCritic' \in 0..1 /\ OwedByTitan' \in 0..1
  BY DEF OwedByCritic, OwedByTitan

LEMMA OwesLess ==
  ASSUME TypeOK, Owing, faults' \in Nat, faults' >= faults,
         UNCHANGED <<pulses, gatesRaised, step>>,
         OwedByCritic' <= OwedByCritic, OwedByTitan' <= OwedByTitan
  PROVE  Owing'
<1>1. Len(pulses') = Len(pulses) /\ gatesRaised' = gatesRaised /\ step' = step
  OBVIOUS
<1> QED
  BY <1>1, Numbers, OneOwed DEF Owing

(* A phase is passed, or the worker ends, and no pulse is counted or put.  *)
LEMMA MoveOn ==
  ASSUME TypeOK, PInv, NEW w \in Workers, NEW phase \in Phases,
         pc' = [pc EXCEPT ![w] = phase],
         UNCHANGED <<pulses, scored, windows, gatesRaised, step, written>>,
         faults' \in Nat, faults' >= faults,
         \/ phase = "dead" /\ (w = Critic => since' = since)
         \/ /\ since' = since
            /\ pc[w] \notin {"startup", "write", "dead"}
            /\ phase \notin {"startup", "write"}
            /\ w = Critic => (phase \in {"wait", "step"} <=> pc[w] \in {"wait", "step"})
            /\ phase \in Computing \cup Written =>
                 \/ pc[w] \in Computing \cup Written
                 \/ IF w = Critic THEN written > 0 ELSE scored # {}
  PROVE  PInv'
<1>1. InOrder' /\ Raised' = Raised
  BY DEF PInv, InOrder, Raised
<1>2. CriticPulses'
  <2>1. CASE w = Critic
    BY <1>1, <2>1, Distinct, Numbers
       DEF PInv, CriticPulses, CriticAtGate, InColdStart, Computing, Written, InColdUpTo
  <2>2. CASE w = Titan
    <3>1. pc'[Critic] = pc[Critic]
      BY <2>2, Distinct, Numbers
    <3> QED
      BY <1>1, <3>1 DEF PInv, CriticPulses, CriticAtGate, InColdStart, InColdUpTo
  <2> QED
    BY <2>1, <2>2, Distinct
<1>3. TitanPulses'
  <2>1. CASE w = Titan
    BY <1>1, <2>1, Distinct, Numbers DEF PInv, TitanPulses, TitanAtGate, Computing, Written
  <2>2. CASE w = Critic
    <3>1. pc'[Titan] = pc[Titan] /\ since' = since
      BY <2>2, Distinct, Numbers
    <3> QED
      BY <1>1, <3>1 DEF PInv, TitanPulses, TitanAtGate
  <2> QED
    BY <2>1, <2>2, Distinct
<1>4. OwedByCritic' <= OwedByCritic /\ OwedByTitan' <= OwedByTitan
  <2>1. CASE w = Titan
    BY <2>1, Distinct, Numbers
       DEF OwedByCritic, OwedByTitan, CriticAtGate, TitanAtGate, InColdStart
  <2>2. CASE w = Critic
    BY <2>2, Distinct, Numbers
       DEF OwedByCritic, OwedByTitan, CriticAtGate, TitanAtGate, InColdStart
  <2> QED
    BY <2>1, <2>2, Distinct
<1>5. Owing'
  BY <1>4, OwesLess DEF PInv
<1> QED
  BY <1>1, <1>2, <1>3, <1>5 DEF PInv

LEMMA WorkerEnds ==
  ASSUME TypeOK, PInv, NEW w \in Workers,
         pc' = [pc EXCEPT ![w] = "dead"],
         UNCHANGED <<pulses, scored, windows, gatesRaised, step, written>>,
         w = Critic => since' = since,
         faults' = faults \/ faults' = faults + 1
  PROVE  PInv'
<1>1. faults' \in Nat /\ faults' >= faults
  BY Numbers
<1>2. "dead" \in Phases
  BY DEF Phases
<1> QED
  BY <1>1, <1>2, MoveOn

LEMMA PhasePassed ==
  ASSUME TypeOK, PInv, NEW w \in Workers,
         NEW phase \in {"poll", "read", "process", "wait", "step", "done"},
         pc' = [pc EXCEPT ![w] = phase],
         UNCHANGED <<pulses, scored, windows, gatesRaised, since, step, written, faults>>,
         pc[w] \notin {"startup", "write", "dead"},
         w = Critic => (phase \in {"wait", "step"} <=> pc[w] \in {"wait", "step"}),
         phase \in Computing =>
           \/ pc[w] \in Computing
           \/ IF w = Critic THEN written > 0 ELSE scored # {}
  PROVE  PInv'
<1>1. faults' \in Nat /\ faults' >= faults
  BY Numbers
<1>2. phase \in Phases /\ phase \notin Written /\ phase \notin {"startup", "write"}
  BY DEF Phases, Written
<1>3. phase \in Computing \cup Written =>
        \/ pc[w] \in Computing \cup Written
        \/ IF w = Critic THEN written > 0 ELSE scored # {}
  BY <1>2
<1> QED
  BY <1>1, <1>2, <1>3, MoveOn

LEMMA PulsesStay ==
  ASSUME TypeOK, PInv, faults' \in Nat, faults' >= faults,
         UNCHANGED <<pc, pulses, scored, windows, gatesRaised, since, step, written>>
  PROVE  PInv'
<1>1. InOrder' /\ Raised' = Raised
  BY DEF PInv, InOrder, Raised
<1>2. CriticPulses' /\ TitanPulses'
  BY <1>1 DEF PInv, CriticPulses, TitanPulses, CriticAtGate, TitanAtGate, InColdStart, InColdUpTo
<1>3. OwedByCritic' = OwedByCritic /\ OwedByTitan' = OwedByTitan
  BY DEF OwedByCritic, OwedByTitan, CriticAtGate, TitanAtGate, InColdStart
<1>4. Owing'
  BY <1>3, OwesLess, OneOwed DEF PInv
<1> QED
  BY <1>1, <1>2, <1>4 DEF PInv

(* Down from a number that is raised, every number is.                     *)
LEMMA Below ==
  ASSUME TypeOK, InOrder, NEW k \in Nat, k \in Raised, NEW u \in 0..k
  PROVE  u \in Raised
<1>1. PICK j \in 1..Len(pulses) : pulses[j] = k
  BY DEF Raised
<1>2. CASE u = k
  BY <1>2
<1>3. CASE u # k
  <2>1. u \in 0..(pulses[j] - 1)
    BY <1>1, <1>3
  <2>2. PICK i \in 1..(j - 1) : pulses[i] = u
    BY <2>1 DEF InOrder
  <2> QED
    BY <2>2, Numbers DEF Raised
<1> QED
  BY <1>2, <1>3

(* A pulse whose smaller numbers are all raised may be put.                *)
LEMMA PutPulse ==
  ASSUME TypeOK, InOrder, NEW x \in Nat, x = 0 \/ x - 1 \in Raised,
         pulses' = pulses \o <<x>>
  PROVE  /\ InOrder' /\ x \in Raised' /\ Raised \subseteq Raised'
         /\ Len(pulses') = Len(pulses) + 1
<1>1. pulses \in Seq(Nat) /\ Len(pulses) \in Nat
  BY Numbers
<1>2. Len(pulses') = Len(pulses) + 1
  BY <1>1
<1>3. /\ \A j \in 1..Len(pulses) : pulses'[j] = pulses[j]
      /\ pulses'[Len(pulses) + 1] = x
  BY <1>1
<1>4. x \in Raised' /\ Raised \subseteq Raised'
  BY <1>1, <1>2, <1>3 DEF Raised
<1>5. \A u \in 0..(x - 1) : u \in Raised
  BY Below
<1>6. InOrder'
  <2> SUFFICES ASSUME NEW i \in 1..Len(pulses'), NEW u \in 0..(pulses'[i] - 1)
               PROVE  \E j \in 1..(i - 1) : pulses'[j] = u
    BY DEF InOrder
  <2>1. CASE i \in 1..Len(pulses)
    <3>1. PICK j \in 1..(i - 1) : pulses[j] = u
      BY <1>3, <2>1 DEF InOrder
    <3> QED
      BY <1>1, <1>3, <2>1, <3>1
  <2>2. CASE i = Len(pulses) + 1
    <3>1. PICK j \in 1..Len(pulses) : pulses[j] = u
      BY <1>3, <1>5, <2>2 DEF Raised
    <3> QED
      BY <1>1, <1>3, <2>2, <3>1
  <2> QED
    BY <1>1, <1>2, <2>1, <2>2
<1> QED
  BY <1>2, <1>4, <1>6

(* What a worker puts is a pulse that it owes, and no other.               *)
LEMMA GateOf ==
  ASSUME TypeOK, PInv, NEW w \in Workers, pc[w] \in {"startup", "write"}
  PROVE  \/ Gate(w) = <<>> /\ (w = Critic => ~CriticAtGate)
                          /\ (w = Titan => pc[w] # "startup" /\ ~TitanAtGate)
         \/ w = Titan /\ pc[w] = "startup" /\ Gate(w) = <<0>>
         \/ w = Titan /\ TitanAtGate /\ Gate(w) = <<step + Cold>>
         \/ w = Critic /\ CriticAtGate /\ Gate(w) = <<gatesRaised>>
<1>1. CASE w = Critic
  BY <1>1, Distinct DEF Gate, StartupGate, CriticGate, CriticAtGate
<1>2. CASE w = Titan
  BY <1>2, Distinct DEF Gate, StartupGate, TitanGate, TitanAtGate
<1> QED
  BY <1>1, <1>2, Distinct

LEMMA ScoredHasGate ==
  ASSUME TypeOK, PInv, pc[Critic] = "write", ~InColdStart
  PROVE  Cold \in Raised
<1>1. gatesRaised = Cold
  BY Numbers, SizeTypes DEF PInv, CriticPulses, InColdStart, InColdUpTo
<1>2. written > 0
  BY Numbers DEF PInv, CriticPulses, Written
<1> QED
  BY <1>1, <1>2 DEF PInv, CriticPulses, CriticAtGate

(* The write of a batch, its reply received or lost.                       *)
LEMMA WriteKeepsPulses ==
  ASSUME IInv, TypeOK, PInv, NEW w \in Workers, pc[w] \in {"startup", "write"}, WriteOutputs(w),
         UNCHANGED <<windows, gatesRaised, since, step>>,
         \/ /\ pc' = [pc EXCEPT ![w] = IF pc[w] = "startup" THEN "poll" ELSE "clear"]
            /\ faults' = faults
         \/ (pc' = pc \/ pc' = [pc EXCEPT ![w] = "dead"]) /\ faults' = faults + 1
  PROVE  PInv'
<1>1. written' = written /\ pulses' = pulses \o Gate(w)
  BY DEF WriteOutputs
<1>2. PICK n \in 0..1 :
        /\ Len(pulses') = Len(pulses) + n
        /\ InOrder' /\ Raised \subseteq Raised'
        /\ w = Critic => n = OwedByCritic /\ (CriticAtGate => gatesRaised \in Raised')
        /\ w = Titan => n = OwedByTitan /\ (TitanAtGate => step + Cold \in Raised')
  <2>1. CASE /\ Gate(w) = <<>> /\ (w = Critic => ~CriticAtGate)
             /\ (w = Titan => pc[w] # "startup" /\ ~TitanAtGate)
    <3>1. pulses' = pulses
      BY <1>1, <2>1, Numbers
    <3>2. InOrder' /\ Raised' = Raised /\ Len(pulses') = Len(pulses) + 0
      BY <3>1, Numbers DEF PInv, InOrder, Raised
    <3> QED
      BY <2>1, <3>2 DEF OwedByCritic, OwedByTitan
  <2>2. CASE w = Titan /\ pc[w] = "startup" /\ Gate(w) = <<0>>
    <3>1. InOrder' /\ Raised \subseteq Raised' /\ Len(pulses') = Len(pulses) + 1
      BY <1>1, <2>2, PutPulse DEF PInv
    <3> QED
      BY <2>2, <3>1, Distinct DEF OwedByTitan, TitanAtGate
  <2>3. CASE w = Titan /\ TitanAtGate /\ Gate(w) = <<step + Cold>>
    <3>1. step >= 1 /\ step + Cold - 1 \in Raised
      BY <2>3 DEF PInv, TitanPulses, TitanAtGate, Written
    <3>2. PICK x \in Nat : x = step + Cold /\ x - 1 \in Raised
      <4>1. step + Cold \in Nat /\ (step + Cold) - 1 = step + Cold - 1
        BY Numbers, SizeTypes
      <4> QED
        BY <3>1, <4>1
    <3>3. /\ InOrder' /\ step + Cold \in Raised' /\ Raised \subseteq Raised'
          /\ Len(pulses') = Len(pulses) + 1
      BY <1>1, <2>3, <3>2, PutPulse DEF PInv
    <3> QED
      BY <2>3, <3>3, Distinct DEF OwedByTitan
  <2>4. CASE w = Critic /\ CriticAtGate /\ Gate(w) = <<gatesRaised>>
    <3>1. written > 0
      BY <2>4, Numbers DEF PInv, CriticPulses, CriticAtGate, Written
    <3>2. gatesRaised >= 1 /\ gatesRaised - 1 \in Raised
      BY <2>4, <3>1 DEF PInv, CriticPulses, CriticAtGate
    <3>3. /\ InOrder' /\ gatesRaised \in Raised' /\ Raised \subseteq Raised'
          /\ Len(pulses') = Len(pulses) + 1
      BY <1>1, <2>4, <3>2, PutPulse, Numbers DEF PInv
    <3> QED
      BY <2>4, <3>3, Distinct DEF OwedByCritic
  <2> QED
    BY <2>1, <2>2, <2>3, <2>4, GateOf
<1>3. scored' # scored => w = Critic /\ ~InColdStart /\ pc[Critic] = "write"
  <2>1. scored' # scored => w = Critic /\ ~InColdStart
    BY DEF WriteOutputs
  <2>2. pc[Critic] = "startup" => batch[Critic] = {}
    BY DEF IInv, CriticHolds
  <2> QED
    BY <2>1, <2>2 DEF WriteOutputs
<1>4. InColdStart' = InColdStart
  BY DEF InColdStart
<1>5. CriticPulses'
  <2>1. CASE w = Critic
    BY <1>1, <1>2, <1>4, <2>1, Distinct, Numbers
       DEF PInv, CriticPulses, CriticAtGate, Computing, Written, InColdUpTo
  <2>2. CASE w = Titan
    <3>1. pc'[Critic] = pc[Critic]
      BY <2>2, Distinct, Numbers
    <3> QED
      BY <1>1, <1>2, <1>4, <3>1 DEF PInv, CriticPulses, CriticAtGate, InColdUpTo
  <2> QED
    BY <2>1, <2>2, Distinct
<1>6. TitanPulses'
  <2>1. CASE w = Titan
    <3>1. scored' = scored
      BY <1>3, <2>1, Distinct
    <3> QED
      BY <1>2, <2>1, <3>1, Distinct, Numbers DEF PInv, TitanPulses, TitanAtGate, Computing, Written
  <2>2. CASE w = Critic
    <3>1. pc'[Titan] = pc[Titan] /\ TitanAtGate' = TitanAtGate
      BY <2>2, Distinct, Numbers DEF TitanAtGate
    <3>2. CASE scored' = scored
      BY <1>2, <3>1, <3>2 DEF PInv, TitanPulses
    <3>3. CASE scored' # scored /\ scored # {}
      <4>1. scored' # {}
        BY <3>3 DEF WriteOutputs
      <4> QED
        BY <1>2, <3>1, <3>3, <4>1 DEF PInv, TitanPulses
    <3>4. CASE scored' # scored /\ scored = {}
      <4>1. Cold \in Raised
        BY <1>3, <3>4, ScoredHasGate
      <4>2. step + Cold \in Raised' /\ ~TitanAtGate
        BY <1>2, <3>4, <4>1, SizeTypes DEF PInv, TitanPulses, TitanAtGate, Written
      <4> QED
        BY <3>1, <3>4, <4>2 DEF TitanPulses
    <3> QED
      BY <3>2, <3>3, <3>4
  <2> QED
    BY <2>1, <2>2, Distinct
<1>7. Owing'
  <2>1. CASE w = Critic
    <3>1. OwedByTitan' = OwedByTitan
      BY <2>1, Distinct, Numbers DEF OwedByTitan, TitanAtGate
    <3>2. OwedByCritic' = 0 \/ (OwedByCritic' <= OwedByCritic /\ faults' = faults + 1)
      BY <1>4, <2>1, Distinct, Numbers DEF OwedByCritic, CriticAtGate
    <3> QED
      BY <1>2, <2>1, <3>1, <3>2, OneOwed, Numbers DEF PInv, Owing
  <2>2. CASE w = Titan
    <3>1. OwedByCritic' = OwedByCritic
      BY <1>4, <2>2, Distinct, Numbers DEF OwedByCritic, CriticAtGate
    <3>2. OwedByTitan' = 0 \/ (OwedByTitan' <= OwedByTitan /\ faults' = faults + 1)
      BY <2>2, Distinct, Numbers DEF OwedByTitan, TitanAtGate
    <3> QED
      BY <1>2, <2>2, <3>1, <3>2, OneOwed, Numbers DEF PInv, Owing
  <2> QED
    BY <2>1, <2>2, Distinct
<1> QED
  BY <1>2, <1>5, <1>6, <1>7 DEF PInv

(* A batch is some rows; what a fetch of rows presupposes.                 *)
LEMMA FetchNeeds ==
  ASSUME TypeOK, NEW w \in Workers, NEW rows \in SUBSET Rows, Take(w, rows)
  PROVE  IF w = Critic THEN written > 0 ELSE scored # {}
<1>1. rows # {}
  <2>1. Cardinality(rows) > 0
    BY SizeTypes DEF Take, IsBatch, FetchSize
  <2> QED
    BY <2>1, FS_EmptySet
<1>2. rows \subseteq Complete(w)
  BY DEF Take, IsBatch, Ready
<1>3. CASE w = Titan
  BY <1>1, <1>2, <1>3, Distinct DEF Complete
<1>4. CASE w = Critic
  <2>1. PICK r \in 1..written : TRUE
    BY <1>1, <1>2, <1>4, Distinct DEF Complete
  <2> QED
    BY <1>4, <2>1, Numbers
<1> QED
  BY <1>3, <1>4, Distinct

LEMMA FetchKeepsPulses ==
  ASSUME TypeOK, PInv, NEW w \in Workers, FetchBatch(w) \/ FetchReplyLost(w)
  PROVE  PInv'
<1>1. CASE FetchBatch(w)
  <2>1. PICK rows \in SUBSET Rows : Take(w, rows) /\ Goto(w, "read") /\ faults' = faults
    BY <1>1 DEF FetchBatch
  <2>2. /\ pc[w] = "poll" /\ pc' = [pc EXCEPT ![w] = "read"]
        /\ UNCHANGED <<pulses, scored, windows, gatesRaised, since, step, written>>
    BY <2>1 DEF Take, Goto, critic, titan
  <2>3. IF w = Critic THEN written > 0 ELSE scored # {}
    BY <2>1, FetchNeeds
  <2> QED
    BY <2>1, <2>2, <2>3, PhasePassed
<1>2. CASE FetchReplyLost(w)
  <2>1. /\ faults' = faults + 1
        /\ UNCHANGED <<pc, pulses, scored, windows, gatesRaised, since, step, written>>
    BY <1>2 DEF FetchReplyLost, Take, critic, titan
  <2> QED
    BY <2>1, PulsesStay, Numbers
<1> QED
  BY <1>1, <1>2

(* The first row is written when the first pulse, number 0, has been put.  *)
LEMMA ProduceKeepsPulses ==
  ASSUME TypeOK, PInv, Produce
  PROVE  PInv'
<1>1. /\ written' = written + 1
      /\ UNCHANGED <<pc, pulses, scored, windows, gatesRaised, since, step, faults>>
  BY DEF Produce, loop, critic, titan
<1>2. InOrder' /\ Raised' = Raised
  BY <1>1 DEF PInv, InOrder, Raised
<1>3. 0 \in Raised
  <2>1. Len(pulses) > 0
    <3>1. CASE Len(pulses) = 0
      BY <3>1, SizeTypes, Numbers DEF Produce
    <3> QED
      BY <3>1, Numbers
  <2>2. pulses[1] \in Nat /\ 1 \in 1..Len(pulses)
    BY <2>1, Numbers
  <2>3. pulses[1] = 0
    <3> SUFFICES ASSUME pulses[1] # 0 PROVE FALSE
      OBVIOUS
    <3>1. 0 \in 0..(pulses[1] - 1)
      BY <2>2
    <3> QED
      BY <2>2, <3>1 DEF PInv, InOrder
  <2> QED
    BY <2>2, <2>3 DEF Raised
<1>4. CriticPulses'
  BY <1>1, <1>2, <1>3, Numbers
     DEF PInv, CriticPulses, CriticAtGate, InColdStart, InColdUpTo, Written
<1>5. TitanPulses'
  BY <1>1, <1>2 DEF PInv, TitanPulses, TitanAtGate
<1>6. OwedByCritic' = OwedByCritic /\ OwedByTitan' = OwedByTitan
  BY <1>1 DEF OwedByCritic, OwedByTitan, CriticAtGate, TitanAtGate, InColdStart
<1>7. Owing'
  BY <1>1, <1>6, OwesLess, OneOwed, Numbers DEF PInv
<1> QED
  BY <1>2, <1>4, <1>5, <1>7 DEF PInv

LEMMA CriticKeepsPulses ==
  ASSUME TypeOK, PInv, BeginCritic \/ StepCritic
  PROVE  PInv'
<1>1. /\ UNCHANGED <<pulses, scored, since, step, written, faults>>
      /\ pc'[Titan] = pc[Titan]
  BY Distinct, Numbers DEF BeginCritic, StepCritic, Goto, titan, queue
<1>2. InOrder' /\ Raised' = Raised
  BY <1>1 DEF PInv, InOrder, Raised
<1>3. TitanPulses' /\ OwedByTitan' = OwedByTitan
  BY <1>1, <1>2 DEF PInv, TitanPulses, TitanAtGate, OwedByTitan
<1>4. written > 0
  BY Numbers DEF PInv, CriticPulses, BeginCritic, StepCritic, Computing
<1>5. CASE BeginCritic
  <2>1. /\ pc[Critic] = "process" /\ pc'[Critic] = "wait"
        /\ windows' = windows + 1 /\ gatesRaised' = gatesRaised
    BY <1>5, Distinct, Numbers DEF BeginCritic, Goto
  <2>2. CriticPulses'
    BY <1>1, <1>2, <1>4, <2>1, Numbers
       DEF PInv, CriticPulses, CriticAtGate, InColdUpTo
  <2>3. OwedByCritic' = 0 /\ OwedByCritic = 0
    BY <2>1 DEF OwedByCritic, CriticAtGate
  <2>4. Owing'
    BY <1>1, <1>3, <2>1, <2>3, OwesLess, OneOwed, Numbers DEF PInv
  <2> QED
    BY <1>2, <1>3, <2>2, <2>4 DEF PInv
<1>6. CASE StepCritic
  <2>1. /\ pc[Critic] = "step" /\ pc'[Critic] = "write" /\ windows' = windows
        /\ gatesRaised' = gatesRaised + (IF InColdStart THEN 1 ELSE 0)
    BY <1>6, Distinct, Numbers DEF StepCritic, Goto
  <2>2. windows >= 1 /\ gatesRaised = InColdUpTo(windows - 1) /\ gatesRaised \in Raised
    BY <1>4, <2>1 DEF PInv, CriticPulses, CriticAtGate
  <2>3. CASE InColdStart
    <3>1. gatesRaised' = gatesRaised + 1 /\ gatesRaised' = windows /\ CriticAtGate'
      BY <2>1, <2>2, <2>3, Numbers, SizeTypes DEF InColdStart, InColdUpTo, CriticAtGate
    <3>2. CriticPulses'
      BY <1>1, <1>2, <1>4, <2>1, <2>2, <2>3, <3>1, Numbers
         DEF CriticPulses, InColdUpTo, InColdStart
    <3>3. OwedByCritic' = 1 /\ OwedByCritic = 0 /\ Len(pulses') = Len(pulses)
      BY <1>1, <2>1, <3>1 DEF OwedByCritic, CriticAtGate
    <3>4. Owing'
      BY <1>1, <1>3, <3>1, <3>3, OneOwed, Numbers DEF PInv, Owing
    <3> QED
      BY <1>2, <1>3, <3>2, <3>4 DEF PInv
  <2>4. CASE ~InColdStart
    <3>1. gatesRaised' = gatesRaised /\ gatesRaised = Cold /\ ~CriticAtGate'
      BY <2>1, <2>2, <2>4, Numbers, SizeTypes DEF InColdStart, InColdUpTo, CriticAtGate
    <3>2. CriticPulses'
      BY <1>1, <1>2, <1>4, <2>1, <2>2, <2>4, <3>1, Numbers
         DEF CriticPulses, InColdUpTo, InColdStart
    <3>3. OwedByCritic' = 0 /\ OwedByCritic = 0
      BY <2>1, <3>1 DEF OwedByCritic, CriticAtGate
    <3>4. Owing'
      BY <1>1, <1>3, <3>1, <3>3, OwesLess, OneOwed, Numbers DEF PInv
    <3> QED
      BY <1>2, <1>3, <3>2, <3>4 DEF PInv
  <2> QED
    BY <2>3, <2>4
<1> QED
  BY <1>5, <1>6

LEMMA TitanKeepsPulses ==
  ASSUME IInv, TypeOK, PInv, StepTitan
  PROVE  PInv'
<1>1. /\ UNCHANGED <<pulses, scored, windows, gatesRaised, written, faults>>
      /\ pc'[Critic] = pc[Critic] /\ pc[Titan] = "step" /\ pc'[Titan] = "write"
      /\ since' = IF SyncDue THEN 0 ELSE Counted
      /\ step' = step + (IF SyncDue THEN 1 ELSE 0)
  BY Distinct, Numbers DEF StepTitan, Goto, critic, queue
<1>2. InOrder' /\ Raised' = Raised
  BY <1>1 DEF PInv, InOrder, Raised
<1>3. CriticPulses' /\ OwedByCritic' = OwedByCritic
  BY <1>1, <1>2 DEF PInv, CriticPulses, CriticAtGate, InColdStart, InColdUpTo, OwedByCritic
<1>4. scored # {} /\ step + Cold \in Raised
  BY <1>1 DEF PInv, TitanPulses, TitanAtGate, Computing
<1>5. Counted \in Nat /\ Counted > 0
  <2>1. Cardinality(batch[Titan]) = Fetch
    BY <1>1 DEF IInv, TitanHolds, Computing
  <2> QED
    BY <2>1, Numbers, SizeTypes DEF Counted
<1>6. OwedByTitan = 0 /\ Len(pulses') = Len(pulses)
  BY <1>1 DEF OwedByTitan, TitanAtGate
<1>7. CASE SyncDue
  <2>1. step' = step + 1 /\ TitanAtGate' /\ OwedByTitan' = 1 /\ (step + 1) + Cold - 1 = step + Cold
    BY <1>1, <1>7, Numbers, SizeTypes DEF TitanAtGate, OwedByTitan
  <2>2. TitanPulses'
    BY <1>1, <1>2, <1>4, <2>1, Numbers DEF TitanPulses
  <2>3. Owing'
    BY <1>1, <1>3, <1>6, <2>1, OneOwed, Numbers DEF PInv, Owing
  <2> QED
    BY <1>2, <1>3, <2>2, <2>3 DEF PInv
<1>8. CASE ~SyncDue
  <2>1. step' = step /\ ~TitanAtGate' /\ OwedByTitan' = 0
    BY <1>1, <1>5, <1>8, Numbers DEF TitanAtGate, OwedByTitan
  <2>2. TitanPulses'
    BY <1>1, <1>2, <1>4, <2>1 DEF TitanPulses
  <2>3. Owing'
    BY <1>1, <1>3, <1>6, <2>1, OneOwed, OwesLess, Numbers DEF PInv
  <2> QED
    BY <1>2, <1>3, <2>2, <2>3 DEF PInv
<1> QED
  BY <1>7, <1>8

LEMMA PInvStep ==
  ASSUME IInv, PInv, ProcessRetries = 0, [Next]_vars
  PROVE  PInv'
<1> USE DEF loop, critic, titan, queue
<1>1. TypeOK /\ faults \in Nat
  BY Numbers DEF IInv
<1>2. CASE UNCHANGED vars \/ \E w \in Workers : Stop(w)
  BY <1>1, <1>2, PulsesStay DEF Stop, vars
<1>3. ASSUME NEW w \in Workers, ReadBatch(w) \/ Granted(w) \/ Leave(w) \/ ClearBatch(w)
      PROVE  PInv'
  <2>1. UNCHANGED <<pulses, scored, windows, gatesRaised, since, step, written, faults>>
    BY <1>3 DEF ReadBatch, Granted, Leave, ClearBatch
  <2>2. PICK phase \in {"process", "step", "done", "poll"} :
          /\ pc' = [pc EXCEPT ![w] = phase]
          /\ \/ phase = "process" /\ pc[w] = "read"
             \/ phase = "step" /\ pc[w] = "wait"
             \/ phase = "done" /\ pc[w] = "poll"
             \/ phase = "poll" /\ pc[w] = "clear"
    BY <1>3 DEF ReadBatch, Granted, Leave, ClearBatch, Goto
  <2>3. /\ pc[w] \notin {"startup", "write", "dead"}
        /\ phase \in {"wait", "step"} <=> pc[w] \in {"wait", "step"}
        /\ phase \in Computing => pc[w] \in Computing
    BY <2>2 DEF Computing
  <2> QED
    BY <1>1, <2>1, <2>2, <2>3, PhasePassed
<1>4. CASE BeginTitan
  <2>1. /\ UNCHANGED <<pulses, scored, windows, gatesRaised, since, step, written, faults>>
        /\ pc[Titan] = "process"
    BY <1>4 DEF BeginTitan
  <2>2. PICK phase \in {"wait", "step"} : pc' = [pc EXCEPT ![Titan] = phase]
    BY <1>4 DEF BeginTitan, Goto
  <2>3. pc[Titan] \in Computing
    BY <2>1 DEF Computing
  <2> QED
    BY <1>1, <2>1, <2>2, <2>3, PhasePassed, Distinct
<1>5. ASSUME NEW w \in Workers, GiveUp(w)
       PROVE  PInv'
  BY <1>1, <1>5, WorkerEnds DEF GiveUp, Goto
<1>6. CASE StepCriticRaises \/ StepTitanRaises
  <2>1. PICK w \in Workers :
          /\ pc' = [pc EXCEPT ![w] = "dead"] /\ faults' = faults + 1
          /\ UNCHANGED <<pulses, scored, windows, gatesRaised, step, written>>
          /\ w = Critic => since' = since
    BY <1>1, <1>6, RaiseEnds, Distinct DEF StepCriticRaises, StepTitanRaises, FailAttempt
  <2> QED
    BY <1>1, <2>1, WorkerEnds
<1>7. ASSUME NEW w \in Workers, CallFails(w) \/ ClearReplyLost(w)
      PROVE  PInv'
  <2>1. /\ UNCHANGED <<pulses, scored, windows, gatesRaised, since, step, written>>
        /\ FailAttempt(w, MaxRetries, pc[w])
    BY <1>7 DEF CallFails, ClearReplyLost
  <2>2. faults' = faults + 1 /\ (pc' = pc \/ pc' = [pc EXCEPT ![w] = "dead"])
    BY <1>1, <2>1, FailStays DEF FailAttempt
  <2>3. CASE pc' = pc
    BY <1>1, <2>1, <2>2, <2>3, PulsesStay
  <2>4. CASE pc' = [pc EXCEPT ![w] = "dead"]
    BY <1>1, <2>1, <2>2, <2>4, WorkerEnds
  <2> QED
    BY <2>2, <2>3, <2>4
<1>8. ASSUME NEW w \in Workers, WriteReplyLost(w)
      PROVE  PInv'
  <2>1. faults' = faults + 1 /\ (pc' = pc \/ pc' = [pc EXCEPT ![w] = "dead"])
    BY <1>1, <1>8, FailStays DEF WriteReplyLost, FailAttempt
  <2> QED
    BY <1>1, <1>8, <2>1, WriteKeepsPulses DEF WriteReplyLost
<1>9. ASSUME NEW w \in Workers, WriteBatch(w)
      PROVE  PInv'
  BY <1>1, <1>9, WriteKeepsPulses DEF WriteBatch, Goto
<1>10. CASE Produce \/ BeginCritic \/ StepCritic \/ StepTitan
  BY <1>1, <1>10, ProduceKeepsPulses, CriticKeepsPulses, TitanKeepsPulses
<1>11. ASSUME NEW w \in Workers, FetchBatch(w) \/ FetchReplyLost(w)
       PROVE  PInv'
  BY <1>1, <1>11, FetchKeepsPulses
<1> QED
  BY <1>2, <1>3, <1>4, <1>6, <1>7, <1>8, <1>9, <1>10, <1>11, <1>5, Distinct
     DEF Next, CriticStep, TitanStep, Fault, Rest

(* Numbers that have every smaller one with them, and lack v but nothing   *)
(* below v, are as many as v.                                              *)
LEMMA NextNumber ==
  ASSUME NEW S \in SUBSET Nat, \A n \in S : \A u \in 0..n : u \in S,
         NEW v \in Nat, v \notin S, \A u \in 0..(v - 1) : u \in S
  PROVE  v = Cardinality(S)
<1>1. S = 0..(v - 1)
  <2>1. ASSUME NEW n \in S PROVE n \in 0..(v - 1)
    <3>1. n \in Nat /\ ~(v \in 0..n)
      OBVIOUS
    <3> QED
      BY <3>1
  <2> QED
    BY <2>1
<1>2. Cardinality(0..(v - 1)) = IF 0 <= v - 1 THEN (v - 1) - 0 + 1 ELSE 0
  BY FS_Interval
<1> QED
  BY <1>1, <1>2

LEMMA OrderIsStream ==
  ASSUME TypeOK, PInv
  PROVE  PulseStream
<1>1. ASSUME NEW i \in 1..Len(pulses)
      PROVE  pulses[i] \in {pulses[j] : j \in 1..(i - 1)}
                            \cup {Cardinality({pulses[j] : j \in 1..(i - 1)})}
  <2> DEFINE S == {pulses[j] : j \in 1..(i - 1)}
  <2>1. pulses[i] \in Nat /\ S \in SUBSET Nat
    BY Numbers
  <2>2. ASSUME NEW n \in S, NEW u \in 0..n PROVE u \in S
    <3>1. PICK j \in 1..(i - 1) : pulses[j] = n
      OBVIOUS
    <3>2. CASE u = n
      BY <3>2
    <3>3. CASE u # n
      <4> HIDE DEF S
      <4>1. j \in 1..Len(pulses) /\ j \in Int /\ i \in Int
        BY Numbers
      <4>2. pulses[j] \in Nat
        BY <4>1, Numbers
      <4>3. u \in 0..(pulses[j] - 1)
        BY <3>1, <3>3, <4>2
      <4>4. PICK k \in 1..(j - 1) : pulses[k] = u
        BY <4>1, <4>3 DEF PInv, InOrder
      <4>5. k \in 1..(i - 1)
        BY <4>1, <4>4
      <4>6. pulses[k] \in S
        BY ONLY <4>5 DEF S
      <4> QED
        BY ONLY <4>4, <4>6
    <3> QED
      BY <3>2, <3>3
  <2>3. ASSUME NEW u \in 0..(pulses[i] - 1) PROVE u \in S
    BY <2>3 DEF PInv, InOrder
  <2>4. pulses[i] \notin S => pulses[i] = Cardinality(S)
    <3> HIDE DEF S
    <3> QED
      BY <2>1, <2>2, <2>3, NextNumber
  <2> QED
    BY <2>4
<1>2. Len(pulses) <= 1 + gatesRaised + step + faults
  BY Numbers, OneOwed DEF PInv, Owing
<1> QED
  BY <1>1, <1>2 DEF PulseStream

(* Two workers put one stream of pulses, each raised when all smaller ones *)
(* have been; none is skipped, and there are no more than the windows they *)
(* count and the replies that were lost account for (gen_gate, the gates of*)
(* CriticWorker and TitanWorker).                                          *)
THEOREM PulsesAreAStream ==
  ASSUME ProcessRetries = 0
  PROVE  Spec => []PulseStream
<1>1. Init => IInv /\ PInv
  BY IInvInit, PInvInit
<1>2. IInv /\ PInv /\ [Next]_vars => IInv' /\ PInv'
  BY IInvStep, PInvStep
<1>3. IInv /\ PInv => PulseStream
  BY OrderIsStream DEF IInv
<1> QED
  BY <1>1, <1>2, <1>3, PTL DEF Spec
=============================================================================
