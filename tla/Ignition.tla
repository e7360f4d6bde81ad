------------------------------ MODULE Ignition ------------------------------
(***************************************************************************)
(* From the launcher to a running pass: TransferQueue comes up, torchrun   *)
(* starts one ignitor to a card, each ignites the services of its card in  *)
(* order, and the card's token then moves between their engines.           *)
(*                                                                         *)
(* The services of the ring share a block of cards.  An inference          *)
(* replica is one server process, started by the ignitor of its first card;*)
(* an SPMD service has a child on every card of the replica, of which the  *)
(* first, its master, takes the commands and broadcasts them to the others.*)
(* The order of the requests in the ring is Colocation's subject; here the *)
(* token goes from the inference group to an SPMD service and back.        *)
(*                                                                         *)
(* Weights on a card are what an engine holds there while it computes or   *)
(* has not yet been moved to the CPU.  Building the trainer is collective  *)
(* up to the load of the weights; moving it away afterwards is not.        *)
(***************************************************************************)
EXTENDS TQCluster, Sequences, FiniteSetsExt

CONSTANTS
  World,     \* cards, one ignitor each
  Gpu,       \* GPU services in the order of declaration
  Infer,     \* the inference replicas among them
  Shared,    \* those on the cards of the ring: is_colocate
  Place,     \* the cards of each service, its master's first
  Deps,      \* wait_until, as service names
  Cpu,       \* the CPU service rank 0 starts last
  HandOffs   \* bound: times the inference group gives the card away

Cards == 0..(World - 1)
Services == {Gpu[i] : i \in 1..Len(Gpu)}
Spmd == Services \ Infer
RingInfer == Infer \cap Shared
CardsOf(s) == {Place[s][i] : i \in 1..Len(Place[s])}
Master(s) == Place[s][1]

(* A name stands for one service and ends in the number of the replica.    *)
(* Services that meet on a card have been declared on one block.           *)
ASSUME IgnitionAssumption ==
  /\ World \in Nat \ {0} /\ HandOffs \in Nat
  /\ Gpu \in Seq(Services)
  /\ \A i, j \in 1..Len(Gpu) : Gpu[i] = Gpu[j] => i = j
  /\ {"nobody", "infer"} \cap Services = {}
  /\ Infer \subseteq Services /\ Shared \subseteq Services
  /\ Spmd \subseteq Shared
  /\ DOMAIN Place = Services
  /\ \A s \in Services : Place[s] \in Seq(Cards) \ {<<>>}
  /\ \A s, t \in Services :
       s # t /\ CardsOf(s) \cap CardsOf(t) # {} => {s, t} \subseteq Shared
  /\ DOMAIN Deps = Services \cup {Cpu} /\ Cpu \notin Services

VARIABLES
  turn,      \* ignitor: the place of its service in the declaration
  phase,     \* ignitor: what it is at
  child,     \* the engine process of a service on a card
  event,     \* SPMD services whose master has set its readiness event
  marker,    \* readiness markers in the bootstrap store
  resident,  \* the services whose weights are on a card
  owner,     \* who has the token: nobody, "infer" or an SPMD service
  serving,   \* the inference servers have their weights back
  given,     \* times the token has been handed to an SPMD service
  cmds,      \* commands broadcast by the master of an SPMD service
  done,      \* how many of them each rank has executed
  failed     \* an ignitor has raised; torchrun stops the others

ignvars == <<turn, phase, child, event, marker, resident, owner, serving,
             given, cmds, done, failed>>
vars == <<tqvars, ignvars>>

OrderBackwards ==  \* (mutant) the colocating groups first
  [i \in 1..Len(Gpu) |-> Gpu[Len(Gpu) + 1 - i]]

Order == Gpu

(* The services of a card are ignited in the order of declaration; one past*)
(* the end stands for none left.                                           *)
NextLocal(r, i) ==
  Min({j \in i..Len(Order) : r \in CardsOf(Order[j])} \cup {Len(Order) + 1})

Current(r) == Order[turn[r]]

PhaseAt(i) == IF i > Len(Order) THEN "barrier" ELSE "gate"

TypeOK ==
  /\ TypeOKCluster
  /\ turn \in [Cards -> 1..(Len(Gpu) + 1)]
  /\ phase \in [Cards -> {"gate", "wait", "barrier", "genesis", "cpu", "join"}]
  /\ child \in [Services -> [Cards -> {"off", "boot", "group", "loaded", "loop", "dead"}]]
  /\ event \subseteq Spmd
  /\ marker \subseteq Services \cup {Cpu}
  /\ resident \in [Cards -> SUBSET Services]
  /\ owner \in Spmd \cup {"nobody", "infer"}
  /\ serving \in BOOLEAN /\ failed \in BOOLEAN
  /\ given \in 0..HandOffs
  /\ cmds \in [Spmd -> Seq({"acquire", "step", "release"})]
  /\ done \in [Spmd -> [Cards -> Nat]]

Init ==
  /\ InitCluster
  /\ turn = [r \in Cards |-> NextLocal(r, 1)]
  /\ phase = [r \in Cards |-> PhaseAt(turn[r])]
  /\ child = [s \in Services |-> [r \in Cards |-> "off"]]
  /\ event = {} /\ marker = {}
  /\ resident = [r \in Cards |-> {}]
  /\ owner = "nobody" /\ serving = FALSE /\ given = 0
  /\ cmds = [s \in Spmd |-> <<>>]
  /\ done = [s \in Spmd |-> [r \in Cards |-> 0]]
  /\ failed = FALSE

token == <<owner, serving, given, cmds, done>>

(* torchrun is started when TransferQueue is up.                           *)
Running == launcher = "up" /\ ~failed

-----------------------------------------------------------------------------
(* The ignitors.                                                           *)

(* The service of this turn is ready, or is not this card's to wait for.   *)
NextTurn(r) ==
  /\ turn' = [turn EXCEPT ![r] = NextLocal(r, @ + 1)]
  /\ phase' = [phase EXCEPT ![r] = PhaseAt(turn'[r])]

(* wait_ready on the dependencies, then ignite.  A card that is not the    *)
(* first of an inference replica starts nothing.                           *)
GateAndStart(r) ==
  /\ Running
  /\ phase[r] = "gate"
  /\ LET s == Current(r)
     IN  /\ Deps[s] \subseteq marker
         /\ child' = IF s \in Infer /\ r # Master(s) THEN child
                     ELSE [child EXCEPT ![s][r] = "boot"]
         /\ IF r = Master(s)
            THEN phase' = [phase EXCEPT ![r] = "wait"] /\ UNCHANGED turn
            ELSE NextTurn(r)
  /\ UNCHANGED <<tqvars, event, marker, resident, token, failed>>

(* The inference server answers; on shared cards it releases its memory    *)
(* before its marker is published.                                         *)
InferenceReady(r) ==
  /\ Running
  /\ phase[r] = "wait"
  /\ LET s == Current(r)
     IN  /\ s \in Infer /\ child[s][r] = "loop"
         /\ resident' = [q \in Cards |-> resident[q] \ ({s} \cap Shared)]
         /\ marker' = marker \cup {s}
  /\ NextTurn(r)
  /\ UNCHANGED <<tqvars, child, event, token, failed>>

SpmdReady(r) ==
  /\ Running
  /\ phase[r] = "wait"
  /\ Current(r) \in event
  /\ marker' = marker \cup {Current(r)}
  /\ NextTurn(r)
  /\ UNCHANGED <<tqvars, child, event, resident, token, failed>>

(* The wait for its own child sees that it died; any other wait runs into  *)
(* its timeout, which is long and matters when a process is gone.          *)
IgnitorRaises(r) ==
  /\ Running
  /\ phase[r] \in {"gate", "wait"}
  /\ \E s \in Services, q \in Cards : child[s][q] = "dead"
  /\ failed' = TRUE
  /\ UNCHANGED <<tqvars, turn, phase, child, event, marker, resident, token>>

BarrierSkipped ==  \* (mutant) rank 0 does not wait for the others
  /\ Running
  /\ phase[0] = "barrier"
  /\ phase' = [r \in Cards |-> IF r = 0 THEN "genesis"
                               ELSE IF phase[r] = "barrier" THEN "join" ELSE phase[r]]
  /\ UNCHANGED <<tqvars, turn, child, event, marker, resident, token, failed>>

Barrier ==
  /\ Running
  /\ \A r \in Cards : phase[r] = "barrier"
  /\ phase' = [r \in Cards |-> IF r = 0 THEN "genesis" ELSE "join"]
  /\ UNCHANGED <<tqvars, turn, child, event, marker, resident, token, failed>>

IssueGenesis ==
  /\ Running
  /\ phase[0] = "genesis"
  /\ owner' = "infer"
  /\ phase' = [phase EXCEPT ![0] = "cpu"]
  /\ UNCHANGED <<tqvars, turn, child, event, marker, resident, serving, given,
                 cmds, done, failed>>

(* The rollout, and then rank 0 too only waits for its processes to end.   *)
StartCpu ==
  /\ Running
  /\ phase[0] = "cpu"
  /\ Deps[Cpu] \subseteq marker
  /\ marker' = marker \cup {Cpu}
  /\ phase' = [phase EXCEPT ![0] = "join"]
  /\ UNCHANGED <<tqvars, turn, child, event, resident, token, failed>>

-----------------------------------------------------------------------------
(* The engine processes.                                                   *)

ServerUp(s) ==
  /\ Running
  /\ s \in Infer /\ child[s][Master(s)] = "boot"
  /\ child' = [child EXCEPT ![s][Master(s)] = "loop"]
  /\ resident' = [r \in Cards |->
       IF r \in CardsOf(s) THEN resident[r] \cup {s} ELSE resident[r]]
  /\ UNCHANGED <<tqvars, turn, phase, event, marker, token, failed>>

(* The process group of a replica exists when all of its ranks are there.  *)
JoinGroup(s) ==
  /\ Running
  /\ s \in Spmd
  /\ \A r \in CardsOf(s) : child[s][r] = "boot"
  /\ child' = [child EXCEPT ![s] =
       [r \in Cards |-> IF r \in CardsOf(s) THEN "group" ELSE @[r]]]
  /\ UNCHANGED <<tqvars, turn, phase, event, marker, resident, token, failed>>

Load(s, r) ==
  /\ Running
  /\ s \in Spmd /\ child[s][r] = "group"
  /\ child' = [child EXCEPT ![s][r] = "loaded"]
  /\ resident' = [resident EXCEPT ![r] = @ \cup {s}]
  /\ UNCHANGED <<tqvars, turn, phase, event, marker, token, failed>>

(* The end of setup moves the engine to the CPU; then the command loop, and*)
(* on the master before it the manager, the worker and the event.          *)
Offload(s, r) ==
  /\ Running
  /\ s \in Spmd /\ child[s][r] = "loaded"
  /\ \A q \in CardsOf(s) : child[s][q] \in {"loaded", "loop"}
  /\ child' = [child EXCEPT ![s][r] = "loop"]
  /\ resident' = [resident EXCEPT ![r] = @ \ {s}]
  /\ event' = IF r = Master(s) THEN event \cup {s} ELSE event
  /\ UNCHANGED <<tqvars, turn, phase, marker, token, failed>>

ChildDies(s, r) ==
  /\ Running
  /\ crashes < Crashes /\ crashes' = crashes + 1
  /\ child[s][r] \in {"boot", "group"}
  /\ child' = [child EXCEPT ![s][r] = "dead"]
  /\ UNCHANGED <<storeMode, launcher, proc, entry, copy, client, turn, phase,
                 event, marker, resident, token, failed>>

-----------------------------------------------------------------------------
(* The token.                                                              *)

(* on_colocate_acquire of the inference group: every server of it.         *)
RestoreServers ==
  /\ Running
  /\ owner = "infer" /\ ~serving
  /\ serving' = TRUE
  /\ resident' = [r \in Cards |->
       resident[r] \cup {s \in RingInfer : r \in CardsOf(s)}]
  /\ UNCHANGED <<tqvars, turn, phase, child, event, marker, owner, given, cmds,
                 done, failed>>

Broadcast(s, command) == cmds' = [cmds EXCEPT ![s] = Append(@, command)]

(* The inference group releases every server and the grant goes to s, whose*)
(* manager has its engine restored by a command.                           *)
HandOver(s) ==
  /\ Running
  /\ s \in Spmd /\ owner = "infer" /\ serving
  /\ given < HandOffs /\ given' = given + 1
  /\ serving' = FALSE
  /\ resident' = [r \in Cards |-> resident[r] \ RingInfer]
  /\ owner' = s
  /\ Broadcast(s, "acquire")
  /\ UNCHANGED <<tqvars, turn, phase, child, event, marker, done, failed>>

LastCommand(s) == cmds[s][Len(cmds[s])]

(* submit_command returns when rank 0 is through with the command.         *)
MasterThrough(s) == cmds[s] # <<>> /\ done[s][Master(s)] = Len(cmds[s])

SubmitStep(s) ==
  /\ Running
  /\ owner = s /\ MasterThrough(s) /\ LastCommand(s) = "acquire"
  /\ Broadcast(s, "step")
  /\ UNCHANGED <<tqvars, turn, phase, child, event, marker, resident, owner,
                 serving, given, done, failed>>

SubmitRelease(s) ==
  /\ Running
  /\ owner = s /\ MasterThrough(s) /\ LastCommand(s) = "step"
  /\ Broadcast(s, "release")
  /\ UNCHANGED <<tqvars, turn, phase, child, event, marker, resident, owner,
                 serving, given, done, failed>>

ReturnAtOnce(s) ==  \* (mutant) the release is submitted and not waited for
  /\ Running
  /\ owner = s /\ cmds[s] # <<>> /\ LastCommand(s) = "release"
  /\ owner' = "infer"
  /\ UNCHANGED <<tqvars, turn, phase, child, event, marker, resident, serving,
                 given, cmds, done, failed>>

ReturnToken(s) ==
  /\ Running
  /\ owner = s /\ MasterThrough(s) /\ LastCommand(s) = "release"
  /\ owner' = "infer"
  /\ UNCHANGED <<tqvars, turn, phase, child, event, marker, resident, serving,
                 given, cmds, done, failed>>

NextCommand(s, r) ==
  IF done[s][r] < Len(cmds[s]) THEN cmds[s][done[s][r] + 1] ELSE "none"

(* A rank moves its engine on or off its own card.                         *)
ExecuteMove(s, r) ==
  /\ Running
  /\ s \in Spmd /\ child[s][r] = "loop"
  /\ NextCommand(s, r) \in {"acquire", "release"}
  /\ resident' = [resident EXCEPT ![r] =
       IF NextCommand(s, r) = "acquire" THEN @ \cup {s} ELSE @ \ {s}]
  /\ done' = [done EXCEPT ![s][r] = @ + 1]
  /\ UNCHANGED <<tqvars, turn, phase, child, event, marker, owner, serving,
                 given, cmds, failed>>

(* The loop of a rank that is not the master logs what a command raises and*)
(* goes on; nobody is told.                                                *)
MoveFails(s, r) ==
  /\ Running
  /\ crashes < Crashes /\ crashes' = crashes + 1
  /\ s \in Spmd /\ r # Master(s) /\ child[s][r] = "loop"
  /\ NextCommand(s, r) \in {"acquire", "release"}
  /\ done' = [done EXCEPT ![s][r] = @ + 1]
  /\ UNCHANGED <<storeMode, launcher, proc, entry, copy, client, turn, phase,
                 child, event, marker, resident, owner, serving, given, cmds,
                 failed>>

(* A step is collective and ends in a barrier; without one of the ranks it *)
(* does not end.                                                           *)
AtStep(s, r) == child[s][r] = "loop" /\ NextCommand(s, r) = "step"

ExecuteStep(s) ==
  /\ Running
  /\ s \in Spmd
  /\ \A r \in CardsOf(s) : AtStep(s, r) /\ s \in resident[r]
  /\ done' = [done EXCEPT ![s] =
       [r \in Cards |-> IF r \in CardsOf(s) THEN @[r] + 1 ELSE @[r]]]
  /\ UNCHANGED <<tqvars, turn, phase, child, event, marker, resident, owner,
                 serving, given, cmds, failed>>

Rest ==
  /\ \/ failed \/ launcher = "failed"
     \/ \E s \in Spmd : \E r \in CardsOf(s) : AtStep(s, r) /\ s \notin resident[r]
     \/ /\ \A r \in Cards : phase[r] = "join"
        /\ given = HandOffs /\ owner = "infer" /\ serving
  /\ UNCHANGED vars

-----------------------------------------------------------------------------
Start == ClusterStep /\ UNCHANGED ignvars

Ignite(r) ==
  GateAndStart(r) \/ InferenceReady(r) \/ SpmdReady(r) \/ IgnitorRaises(r)

Engines ==
  \E s \in Services :
    \/ ServerUp(s) \/ JoinGroup(s) \/ ExecuteStep(s)
    \/ \E r \in CardsOf(s) : Load(s, r) \/ Offload(s, r) \/ ExecuteMove(s, r)

Token ==
  \/ RestoreServers
  \/ \E s \in Spmd : HandOver(s) \/ SubmitStep(s) \/ SubmitRelease(s) \/ ReturnToken(s)

Rank0 == Barrier \/ IssueGenesis \/ StartCpu

Other ==
  \/ ClusterFault /\ UNCHANGED ignvars
  \/ Connect /\ UNCHANGED ignvars
  \/ \E s \in Services : \E r \in CardsOf(s) : ChildDies(s, r) \/ MoveFails(s, r)

Next ==
  \/ Start \/ Rank0 \/ Engines \/ Token \/ Other \/ Rest
  \/ \E r \in Cards : Ignite(r)

Spec == Init /\ [][Next]_vars

(* Processes that are not dead go on; none has to die.                     *)
FairSpec ==
  /\ Spec
  /\ WF_vars(Start) /\ WF_vars(Rank0) /\ WF_vars(Engines)
  /\ \A r \in Cards : WF_vars(Ignite(r))

-----------------------------------------------------------------------------
(* The properties.                                                         *)

(* Nobody owns the token before every GPU service has been through its own *)
(* bootstrap: each server has released its memory and each SPMD service has*)
(* a master in its command loop (the barrier of Ignitor.run).              *)
GenesisAfterHandoff ==
  owner # "nobody" =>
    /\ Services \subseteq marker
    /\ \A s \in Services : child[s][Master(s)] = "loop"

(* On a card whose services all have their master there, the weights of at *)
(* most one engine are resident, from the first boot through every         *)
(* hand-off: the master's waits order what happens on its own card.        *)
MasterCardsExclusive ==
  \A r \in Cards :
    (\A s \in Services : r \in CardsOf(s) => Master(s) = r)
      => Cardinality(resident[r]) <= 1

(* The pass comes up, or an ignitor or the launcher says that it cannot: no*)
(* order of the services on the cards, and no process lost while they      *)
(* start, leaves it waiting for ever.                                      *)
ComesUpOrFails ==
  <>(failed \/ launcher = "failed" \/ \A r \in Cards : phase[r] = "join")
=============================================================================
