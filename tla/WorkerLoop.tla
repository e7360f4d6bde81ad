---------------------------- MODULE WorkerLoop ----------------------------
(***************************************************************************)
(* The TQWorker loop of the critic and of the trainer: fetch a batch, read *)
(* it, process it on the card, write the outputs, clear the rows, each     *)
(* phase retried on its own.                                               *)
(*                                                                         *)
(* A call to TransferQueue may fail before it took effect, or take effect  *)
(* and lose its reply; the worker cannot tell one from the other.  A column*)
(* written twice is the same column; a new row put twice is two rows; a    *)
(* fetch whose reply is lost has consumed its rows.                        *)
(*                                                                         *)
(* The ring that grants the card is abstracted to a token that is free, and*)
(* then the inference server has it, or held by one worker (Colocation);   *)
(* the rollout to a source of rows in order, with the pacing window of one *)
(* (Pipeline).  The trainer streams: it fetches less than a window, and    *)
(* keeps the card until the optimizer step that ends the window.           *)
(***************************************************************************)
EXTENDS Integers, Sequences, FiniteSets

CONSTANTS
  Cold,            \* cold_start_windows of the critic
  Batch,           \* rows to a window: batch_size, score_batch_size
  Fetch,           \* fetch_batch_size of the trainer
  MaxRetries,      \* max_retries of the TQ calls
  ProcessRetries,  \* process_retries: no service sets it, it is 0
  Windows,         \* bound: windows of rows the rollout produces
  Faults           \* bound: calls that fail in a run

Critic == "critic"
Titan == "titan"
Workers == {Critic, Titan}
Free == "free"

ASSUME WorkerLoopAssumption ==
  /\ {Cold, MaxRetries, ProcessRetries, Windows, Faults} \subseteq Nat
  /\ {Batch, Fetch} \subseteq Nat \ {0}
  /\ Batch % Fetch = 0

Rows == 1..(Windows * Batch)

VARIABLES
  pc,          \* where the loop of each worker stands
  tries,       \* failed attempts of the phase it is in
  batch,       \* rows it fetched and has not finished with
  stop,        \* _worker_stop is set
  windows,     \* critic: windows begun
  gatesRaised, \* critic: cold-start pulses
  since,       \* trainer: trained_since_sync
  step,        \* trainer: optimizer steps
  request,     \* trainer: _colocation_request
  card,        \* who holds the card
  written,     \* rows 1..written are in the partition
  scored,      \* rows with the critic's column
  taken,       \* rows each consumer's fetches have consumed
  cleared,     \* rows removed from the partition
  pulses,      \* the gates put into gen_gate, by number
  trained,     \* rows the trainer has stepped on
  absorbed,    \* rows the critic trained on in its cold start
  missed,      \* rows consumed by a fetch whose reply was lost
  faults       \* calls that have failed

loop == <<pc, tries, batch, stop>>
critic == <<windows, gatesRaised>>
titan == <<since, step, request>>
queue == <<written, scored, taken, cleared, pulses>>
ghosts == <<trained, absorbed, missed>>
vars == <<loop, critic, titan, card, queue, ghosts, faults>>

Phases == {"startup", "poll", "read", "process", "wait", "step", "write",
           "clear", "done", "dead"}

TypeOK ==
  /\ pc \in [Workers -> Phases]
  /\ tries \in [Workers -> 0..(MaxRetries + ProcessRetries)]
  /\ batch \in [Workers -> SUBSET Rows]
  /\ stop \in [Workers -> BOOLEAN]
  /\ {windows, gatesRaised, step, since} \subseteq Nat
  /\ request \in BOOLEAN
  /\ card \in Workers \cup {Free}
  /\ written \in 0..(Windows * Batch)
  /\ taken \in [Workers -> SUBSET Rows]
  /\ {scored, cleared, trained, absorbed, missed} \subseteq SUBSET Rows
  /\ pulses \in Seq(Nat)
  /\ faults \in 0..Faults

Init ==
  /\ pc = [w \in Workers |-> "startup"]
  /\ tries = [w \in Workers |-> 0]
  /\ batch = [w \in Workers |-> {}]
  /\ stop = [w \in Workers |-> FALSE]
  /\ windows = 0 /\ gatesRaised = 0
  /\ since = 0 /\ step = 0 /\ request = FALSE
  /\ card = Free
  /\ written = 0 /\ scored = {} /\ cleared = {} /\ pulses = <<>>
  /\ taken = [w \in Workers |-> {}]
  /\ trained = {} /\ absorbed = {} /\ missed = {}
  /\ faults = 0

-----------------------------------------------------------------------------
(* What is in the queue.                                                   *)

(* The rollout generates with the card at the inference server, as far as  *)
(* the pulses in the stream allow.                                         *)
Produce ==
  /\ card = Free
  /\ written < Windows * Batch
  /\ written < Batch * Len(pulses)
  /\ written' = written + 1
  /\ UNCHANGED <<loop, critic, titan, card, scored, taken, cleared, pulses,
                 ghosts, faults>>

(* Rows that have every column of the worker's input.                      *)
Complete(w) == IF w = Titan THEN scored ELSE 1..written

Ready(w) == (Complete(w) \ taken[w]) \ cleared

FetchSize(w) == IF w = Titan THEN Fetch ELSE Batch

(* A fetch returns the oldest rows, or nothing if there is no full batch.  *)
IsBatch(w, rows) ==
  /\ rows \subseteq Ready(w)
  /\ Cardinality(rows) = FetchSize(w)
  /\ \A r \in rows, q \in Ready(w) \ rows : r < q

-----------------------------------------------------------------------------
(* The outputs of a batch.                                                 *)

InColdStart == windows <= Cold

(* (mutant) as if asked before the window was counted                      *)
ShouldClearNext(w) == w = Titan \/ windows <= Cold + 1

(* windows is incremented before the batch is processed, so it tells of the*)
(* batch just written.                                                     *)
ShouldClear(w) == w = Titan \/ windows <= Cold

(* (mutant) the first gate is offset like the others                       *)
StartupGateOffset(w) == IF w = Titan THEN <<Cold>> ELSE <<>>

(* The trainer numbers its gates above the cold start's, its first one is  *)
(* gate 0; the critic has no first gate as the trainer supplies it.        *)
StartupGate(w) == IF w = Titan THEN <<0>> ELSE <<>>

TitanGate == IF since = 0 THEN <<step + Cold>> ELSE <<>>

CriticGate == IF InColdStart THEN <<gatesRaised>> ELSE <<>>

Gate(w) ==
  IF pc[w] = "startup" THEN StartupGate(w)
  ELSE IF w = Titan THEN TitanGate ELSE CriticGate

(* What _write_outputs does to the queue: a pulse is a new row, the        *)
(* critic's column goes onto the rows it fetched.                          *)
WriteOutputs(w) ==
  /\ pulses' = pulses \o Gate(w)
  /\ scored' = IF w = Critic /\ ~InColdStart THEN scored \cup batch[w] ELSE scored
  /\ UNCHANGED <<written, taken, cleared>>

-----------------------------------------------------------------------------
(* The loop.                                                               *)

Goto(w, phase) ==
  /\ pc' = [pc EXCEPT ![w] = phase]
  /\ tries' = [tries EXCEPT ![w] = 0]

(* get_meta in fetch mode.                                                 *)
Take(w, rows) ==
  /\ pc[w] = "poll" /\ ~stop[w]
  /\ IsBatch(w, rows)
  /\ taken' = [taken EXCEPT ![w] = @ \cup rows]
  /\ UNCHANGED <<stop, critic, titan, card, written, scored, cleared, pulses,
                 trained, absorbed>>

FetchBatch(w) ==
  \E rows \in SUBSET Rows :
    /\ Take(w, rows)
    /\ batch' = [batch EXCEPT ![w] = rows]
    /\ Goto(w, "read")
    /\ UNCHANGED <<missed, faults>>

(* The reply is lost: run_tq_once counts an error and polls again.         *)
FetchReplyLost(w) ==
  \E rows \in SUBSET Rows :
    /\ Take(w, rows)
    /\ faults < Faults /\ faults' = faults + 1
    /\ missed' = missed \cup rows
    /\ UNCHANGED <<pc, tries, batch>>

ReadBatch(w) ==
  /\ pc[w] = "read"
  /\ Goto(w, "process")
  /\ UNCHANGED <<batch, stop, critic, titan, card, queue, ghosts, faults>>

(* The critic asks for the card for every window, the trainer only if it   *)
(* has no request open from an earlier batch of the window.                *)
BeginCritic ==
  /\ pc[Critic] = "process"
  /\ windows' = windows + 1
  /\ Goto(Critic, "wait")
  /\ UNCHANGED <<batch, stop, gatesRaised, titan, card, queue, ghosts, faults>>

BeginTitan ==
  /\ pc[Titan] = "process"
  /\ request' = TRUE
  /\ Goto(Titan, IF request THEN "step" ELSE "wait")
  /\ UNCHANGED <<batch, stop, critic, since, step, card, queue, ghosts, faults>>

Granted(w) ==
  /\ pc[w] = "wait" /\ card = Free
  /\ card' = w
  /\ Goto(w, "step")
  /\ UNCHANGED <<batch, stop, critic, titan, queue, ghosts, faults>>

(* score_and_train; the card is given back whatever becomes of it.         *)
(* (mutant) the card is given back only by a window that published         *)
StepCriticKeepsCard ==
  /\ pc[Critic] = "step"
  /\ card' = IF InColdStart THEN card ELSE Free
  /\ absorbed' = IF InColdStart THEN absorbed \cup batch[Critic] ELSE absorbed
  /\ gatesRaised' = gatesRaised + (IF InColdStart THEN 1 ELSE 0)
  /\ Goto(Critic, "write")
  /\ UNCHANGED <<batch, stop, windows, titan, queue, trained, missed, faults>>

StepCritic ==
  /\ pc[Critic] = "step"
  /\ card' = Free
  /\ absorbed' = IF InColdStart THEN absorbed \cup batch[Critic] ELSE absorbed
  /\ gatesRaised' = gatesRaised + (IF InColdStart THEN 1 ELSE 0)
  /\ Goto(Critic, "write")
  /\ UNCHANGED <<batch, stop, windows, titan, queue, trained, missed, faults>>

(* trained_since_sync counts the batch before engine.step sees it, and is  *)
(* zeroed before the optimizer step.                                       *)
Counted == since + Cardinality(batch[Titan])
SyncDue == Counted >= Batch

(* (mutant) the step of a window leaves the counter as it is               *)
StepTitanNoReset ==
  /\ pc[Titan] = "step"
  /\ since' = Counted
  /\ step' = step + (IF SyncDue THEN 1 ELSE 0)
  /\ request' = ~SyncDue
  /\ card' = IF SyncDue THEN Free ELSE card
  /\ trained' = trained \cup batch[Titan]
  /\ Goto(Titan, "write")
  /\ UNCHANGED <<batch, stop, critic, queue, absorbed, missed, faults>>

StepTitan ==
  /\ pc[Titan] = "step"
  /\ since' = IF SyncDue THEN 0 ELSE Counted
  /\ step' = step + (IF SyncDue THEN 1 ELSE 0)
  /\ request' = ~SyncDue
  /\ card' = IF SyncDue THEN Free ELSE card
  /\ trained' = trained \cup batch[Titan]
  /\ Goto(Titan, "write")
  /\ UNCHANGED <<batch, stop, critic, queue, absorbed, missed, faults>>

WriteBatch(w) ==
  /\ pc[w] \in {"startup", "write"}
  /\ WriteOutputs(w)
  /\ Goto(w, IF pc[w] = "startup" THEN "poll" ELSE "clear")
  /\ UNCHANGED <<batch, stop, critic, titan, card, ghosts, faults>>

ClearBatch(w) ==
  /\ pc[w] = "clear"
  /\ cleared' = IF ShouldClear(w) THEN cleared \cup batch[w] ELSE cleared
  /\ batch' = [batch EXCEPT ![w] = {}]
  /\ Goto(w, "poll")
  /\ UNCHANGED <<stop, critic, titan, card, written, scored, taken, pulses,
                 ghosts, faults>>

-----------------------------------------------------------------------------
(* Failures, and the stop event.                                           *)

(* The phase is tried again until its retries are used up; then the worker *)
(* thread ends with TQWorkerError, which on_tq_fatal only records.         *)
FailAttempt(w, retries, again) ==
  /\ faults < Faults /\ faults' = faults + 1
  /\ IF tries[w] < retries
     THEN /\ tries' = [tries EXCEPT ![w] = @ + 1]
          /\ pc' = [pc EXCEPT ![w] = again]
     ELSE /\ pc' = [pc EXCEPT ![w] = "dead"]
          /\ UNCHANGED tries
  /\ UNCHANGED <<batch, stop, ghosts>>

CallFails(w) ==
  /\ pc[w] \in {"startup", "read", "write", "clear"}
  /\ pc[w] = "clear" => ShouldClear(w)
  /\ FailAttempt(w, MaxRetries, pc[w])
  /\ UNCHANGED <<critic, titan, card, queue>>

WriteReplyLost(w) ==
  /\ pc[w] \in {"startup", "write"}
  /\ WriteOutputs(w)
  /\ FailAttempt(w, MaxRetries, pc[w])
  /\ UNCHANGED <<critic, titan, card>>

ClearReplyLost(w) ==
  /\ pc[w] = "clear" /\ ShouldClear(w)
  /\ cleared' = cleared \cup batch[w]
  /\ FailAttempt(w, MaxRetries, pc[w])
  /\ UNCHANGED <<critic, titan, card, written, scored, taken, pulses>>

(* The engine raises: the critic's finally gives the card back, the trainer*)
(* keeps the request and the card, and has counted the batch.              *)
StepCriticRaises ==
  /\ pc[Critic] = "step"
  /\ card' = Free
  /\ FailAttempt(Critic, ProcessRetries, "process")
  /\ UNCHANGED <<critic, titan, queue>>

StepTitanRaises ==
  /\ pc[Titan] = "step"
  /\ since' = IF SyncDue THEN 0 ELSE Counted
  /\ FailAttempt(Titan, ProcessRetries, "process")
  /\ UNCHANGED <<critic, step, request, card, queue>>

Stop(w) ==
  /\ ~stop[w] /\ pc[w] \notin {"done", "dead"}
  /\ stop' = [stop EXCEPT ![w] = TRUE]
  /\ UNCHANGED <<pc, tries, batch, critic, titan, card, queue, ghosts, faults>>

(* The loop tests the event between two batches, a retry while it waits.   *)
Leave(w) ==
  /\ stop[w] /\ pc[w] = "poll"
  /\ Goto(w, "done")
  /\ UNCHANGED <<batch, stop, critic, titan, card, queue, ghosts, faults>>

GiveUp(w) ==
  /\ stop[w] /\ tries[w] > 0
  /\ Goto(w, "dead")
  /\ UNCHANGED <<batch, stop, critic, titan, card, queue, ghosts, faults>>

(* Every row is dealt with, or a worker has ended and the others wait.     *)
Rest ==
  /\ \A w \in Workers :
       \/ pc[w] \in {"done", "dead"}
       \/ pc[w] = "wait" /\ card # Free
       \/ pc[w] = "poll" /\ ~stop[w] /\ Cardinality(Ready(w)) < FetchSize(w)
  /\ card # Free \/ written = Windows * Batch \/ written >= Batch * Len(pulses)
  /\ UNCHANGED vars

-----------------------------------------------------------------------------
CriticStep ==
  \/ FetchBatch(Critic) \/ ReadBatch(Critic) \/ BeginCritic \/ Granted(Critic)
  \/ StepCritic \/ WriteBatch(Critic) \/ ClearBatch(Critic) \/ Leave(Critic)

TitanStep ==
  \/ FetchBatch(Titan) \/ ReadBatch(Titan) \/ BeginTitan \/ Granted(Titan)
  \/ StepTitan \/ WriteBatch(Titan) \/ ClearBatch(Titan) \/ Leave(Titan)

Fault ==
  \/ StepCriticRaises
  \/ StepTitanRaises
  \/ \E w \in Workers :
       \/ FetchReplyLost(w) \/ CallFails(w) \/ WriteReplyLost(w)
       \/ ClearReplyLost(w) \/ Stop(w) \/ GiveUp(w)

Next == Produce \/ CriticStep \/ TitanStep \/ Fault \/ Rest

Spec == Init /\ [][Next]_vars

(* The threads of the two workers and of the rollout are scheduled; nothing*)
(* has to fail.                                                            *)
FairSpec ==
  Spec /\ WF_vars(Produce) /\ WF_vars(CriticStep) /\ WF_vars(TitanStep)

-----------------------------------------------------------------------------
(* The properties.                                                         *)

(* The optimizer steps are on whole windows of rows, none of them counted  *)
(* twice, whatever calls failed and were retried: the counter and the step *)
(* account for every row, as long as the trainer's thread lives.           *)
TrainedAddsUp ==
  pc[Titan] # "dead" => Cardinality(trained) = Batch * step + since

(* A row leaves the partition only when its last reader is done with it:   *)
(* a cold-start row after the critic, any other row after the trainer.     *)
(* The critic decides by a counter it has already advanced                 *)
(* (CriticWorker.should_clear_batch).                                      *)
ClearedOnlyWhenUsed ==
  /\ cleared \subseteq trained \cup absorbed
  /\ trained \cap absorbed = {}

(* The stream of pulses that two workers put, cold-start critic and        *)
(* trainer, is raised in order from 0, none skipped: a pulse is the next   *)
(* number or repeats an earlier one, and it repeats one at most once for   *)
(* each reply that was lost.  (transferqueue/control.py promises exactly   *)
(* one pulse per weight version; a repeated one, which the retry of another*)
(* worker may even put behind a later number, is what the loop can keep.)  *)
PulseStream ==
  /\ \A i \in 1..Len(pulses) :
       LET before == {pulses[j] : j \in 1..(i - 1)}
       IN  pulses[i] \in before \cup {Cardinality(before)}
  /\ Len(pulses) <= 1 + gatesRaised + step + faults

(* Every row is trained on, in the cold start by the critic and after it by*)
(* the trainer, unless a thread has ended or a fetch has lost its rows.    *)
EveryRowTrained ==
  <>(\/ trained \cup absorbed = Rows
     \/ \E w \in Workers : stop[w] \/ pc[w] = "dead"
     \/ missed # {})

=============================================================================
