----------------------------- MODULE Colocation -----------------------------
(***************************************************************************)
(* The GPU token ring of meshy.service.colocation over the shared request  *)
(* ledger of meshy.transferqueue.colocation.                               *)
(*                                                                         *)
(* Every member of the ring runs a manager thread that polls the ledger,   *)
(* replays its grants and, while it owns the token, passes it on; an       *)
(* ON_DEMAND member also runs a worker thread that requests the card,      *)
(* works and releases.  One action is one uninterrupted stretch of a       *)
(* manager between two points where another process can get in: a ledger   *)
(* write, an engine callback or a sleep.  A ledger scan is one step, and so*)
(* is a poll with the one request it may register: an owner that gives up  *)
(* waiting in between is left out (Patient says when it may give up).      *)
(***************************************************************************)
EXTENDS Integers, Sequences

CONSTANTS
  Ring,        \* the members in ring order; Ring[1] is the initial owner
  Fallback,    \* the members whose mode is FALLBACK; the others are ON_DEMAND
  Authority,   \* the source of the genesis grant
  MaxWindows,  \* bound: MaxWindows[s] requests are raised by the worker of s
  Patient      \* TRUE: next_owner_timeout outlasts a poll of a FALLBACK
               \* manager.  FALSE: phase 1 may time out at any moment

Services == {Ring[i] : i \in DOMAIN Ring}
OnDemand == Services \ Fallback

ASSUME RingAssumption ==
  /\ Ring \in Seq(Services) /\ Len(Ring) >= 2
  /\ \A i, j \in DOMAIN Ring : Ring[i] = Ring[j] => i = j
ASSUME ModeAssumption == Ring[1] \in Fallback /\ Fallback \subseteq Services
ASSUME AuthorityAssumption == Authority \notin Services
ASSUME BoundAssumption == MaxWindows \in [OnDemand -> Nat] /\ Patient \in BOOLEAN

VARIABLES
  ledger,    \* the rows of the request partition, in the order of creation
  view,      \* view[m]: the rows manager m remembers, by ledger position
  granted,   \* granted[m]: the last grant m applied (_grant, _last_sequence)
  phase,     \* phase[m]: where the manager thread of m stands
  chosen,    \* chosen[m]: the row a transfer of m selected
  rest,      \* rest[m]: scanned rows a preempting m has not yet stored
  leases,    \* leases[m]: the rows whose lease event m has set for its worker
  resident,  \* resident[m]: the engine of m holds GPU memory
  worker,    \* worker[m]: where the worker thread of m stands
  job,       \* job[m]: the row of the request the worker raised
  windows    \* windows[m]: the requests the worker has raised

vars == <<ledger, view, granted, phase, chosen, rest, leases, resident,
          worker, job, windows>>

(* A grant names the row it grants in place of the request id written on   *)
(* it.  Ungranted is both a row without a grant and a manager that has     *)
(* applied none: no member is its target.                                  *)
Ungranted ==
  [seq |-> -1, source |-> Authority, target |-> Authority, row |-> 0]
NoRows == [i \in {} |-> i]

OpenRow(s, kind, key) ==
  [svc |-> s, kind |-> kind, key |-> key, state |-> "open", grant |-> Ungranted]

Update(f, i, v) ==
  [k \in DOMAIN f \cup {i} |-> IF k = i THEN v ELSE f[k]]
Overlay(new, old) ==
  [k \in DOMAIN new \cup DOMAIN old |-> IF k \in DOMAIN new THEN new[k] ELSE old[k]]

Index(s) == CHOOSE i \in DOMAIN Ring : Ring[i] = s
Distance(from, to) == (Index(to) - Index(from)) % Len(Ring)
NextMember(m) == Ring[(Index(m) % Len(Ring)) + 1]

Owns(m) == granted[m].target = m

GrantedRows == {i \in DOMAIN ledger : ledger[i].state # "open"}
OpenRows(rows) == {i \in DOMAIN rows : rows[i].state = "open"}
StandingRows(rows, s) ==
  {i \in OpenRows(rows) : rows[i].svc = s /\ rows[i].kind = "fallback"}
HasOpenRequestFrom(m, s) == \E i \in OpenRows(view[m]) : view[m][i].svc = s

GenesisGrant ==
  [seq |-> 0, source |-> Authority, target |-> Ring[1], row |-> 1]

Grant == {Ungranted} \cup
  [seq : Nat, source : Services \cup {Authority}, target : Services, row : Nat]
Row == [svc : Services, kind : {"on_demand", "fallback"}, key : Nat,
        state : {"open", "granted", "closed"}, grant : Grant]

(* A part of the ledger as a manager remembers it. *)
IsCopy(f) == DOMAIN f \subseteq DOMAIN ledger /\ f \in [DOMAIN f -> Row]

TypeOK ==
  /\ ledger \in Seq(Row)
  /\ view = [m \in Services |-> view[m]] /\ \A m \in Services : IsCopy(view[m])
  /\ rest = [m \in Services |-> rest[m]] /\ \A m \in Services : IsCopy(rest[m])
  /\ granted \in [Services -> Grant]
  /\ phase \in [Services -> {"poll", "acquire", "wait", "selected",
                             "vacated", "closed"}]
  /\ chosen \in [Services -> Nat]
  /\ leases \in [Services -> SUBSET Nat]
  /\ resident \in [Services -> BOOLEAN]
  /\ worker \in [Services -> {"idle", "waiting", "working", "releasing"}]
  /\ job \in [Services -> Nat]
  /\ windows \in [Services -> Nat]

Init ==
  /\ ledger = <<>>
  /\ view = [m \in Services |-> NoRows]
  /\ granted = [m \in Services |-> Ungranted]
  /\ phase = [m \in Services |-> "poll"]
  /\ chosen = [m \in Services |-> 0]
  /\ rest = [m \in Services |-> NoRows]
  /\ leases = [m \in Services |-> {}]
  /\ resident = [m \in Services |-> FALSE]
  /\ worker = [m \in Services |-> "idle"]
  /\ job = [m \in Services |-> 0]
  /\ windows = [m \in Services |-> 0]

-----------------------------------------------------------------------------
(* issue_genesis: the request row of the initial owner, then its grant.    *)

IssueGenesisRequest ==
  /\ ledger = <<>>
  /\ ledger' = <<OpenRow(Ring[1], "fallback", 0)>>
  /\ UNCHANGED <<view, granted, phase, chosen, rest, leases, resident, worker,
                 job, windows>>

IssueGenesisGrant ==
  /\ Len(ledger) = 1
  /\ ledger[1].state = "open"
  /\ ledger' = [ledger EXCEPT ![1].state = "granted", ![1].grant = GenesisGrant]
  /\ UNCHANGED <<view, granted, phase, chosen, rest, leases, resident, worker,
                 job, windows>>

-----------------------------------------------------------------------------
(* The worker thread of an ON_DEMAND member.  request_gpu and release run  *)
(* on the manager thread, so both need it at the top of its loop.  No      *)
(* worker has a batch before the initial owner has generated one.          *)

Request(s) ==
  /\ s \in OnDemand
  /\ worker[s] = "idle"
  /\ windows[s] < MaxWindows[s]
  /\ phase[s] = "poll"
  /\ ledger # <<>> /\ ledger[1].state # "open"
  /\ windows' = [windows EXCEPT ![s] = @ + 1]
  /\ ledger' = Append(ledger, OpenRow(s, "on_demand", windows'[s]))
  /\ job' = [job EXCEPT ![s] = Len(ledger) + 1]
  /\ worker' = [worker EXCEPT ![s] = "waiting"]
  /\ UNCHANGED <<view, granted, phase, chosen, rest, leases, resident>>

(* Fault: one event per member instead of one per request id.              *)
WakeOnAnyLease(s) ==
  /\ worker[s] = "waiting"
  /\ leases[s] # {}
  /\ worker' = [worker EXCEPT ![s] = "working"]
  /\ UNCHANGED <<ledger, view, granted, phase, chosen, rest, leases, resident,
                 job, windows>>

(* wait_for_grant returns: the lease event of this very request is set.    *)
Wake(s) ==
  /\ worker[s] = "waiting"
  /\ job[s] \in leases[s]
  /\ worker' = [worker EXCEPT ![s] = "working"]
  /\ UNCHANGED <<ledger, view, granted, phase, chosen, rest, leases, resident,
                 job, windows>>

(* The work is done: the release command rescans the ledger and enters     *)
(* _transfer, which refuses a caller that does not own the token.          *)
Release(s) ==
  /\ worker[s] = "working"
  /\ phase[s] = "poll"
  /\ Owns(s)
  /\ worker' = [worker EXCEPT ![s] = "releasing"]
  /\ view' = [view EXCEPT ![s] = ledger]
  /\ phase' = [phase EXCEPT ![s] = "wait"]
  /\ UNCHANGED <<ledger, granted, chosen, rest, leases, resident, job, windows>>

-----------------------------------------------------------------------------
(* The manager thread: _reconcile.                                         *)

(* The granted rows of the ledger m does not remember as granted.          *)
UnseenGrants(m) ==
  {i \in DOMAIN ledger :
     /\ ledger[i].state # "open"
     /\ i \in DOMAIN view[m] => view[m][i].state = "open"}

(* Fault: the last sequence number starts one too high.                    *)
NewGrantsLate(m) == {i \in UnseenGrants(m) : ledger[i].grant.seq > granted[m].seq + 1}

(* The unseen grants m has yet to apply; the others it wrote itself, and   *)
(* then forgot when it stored an older scan over them.                     *)
NewGrants(m) == {i \in UnseenGrants(m) : ledger[i].grant.seq > granted[m].seq}

Applicable(m) == {granted[m]} \cup {ledger[i].grant : i \in NewGrants(m)}

(* Grants are replayed in sequence order.  After each unseen one that      *)
(* leaves the token elsewhere a FALLBACK manager makes sure that it        *)
(* remembers an open request of its own: one open in this scan, or one     *)
(* whose grant comes later in this scan and is not stored yet.             *)
Registering(m) ==
  {i \in UnseenGrants(m) :
     LET seq   == ledger[i].grant.seq
         owner == IF seq > granted[m].seq THEN ledger[i].grant.target
                  ELSE granted[m].target
     IN  /\ owner # m
         /\ StandingRows(ledger, m) = {}
         /\ \A j \in StandingRows(view[m], m) : ledger[j].grant.seq <= seq}

(* ... at the first such grant, whose sequence numbers the request. *)
StandingRow(m, i) ==
  LET seq == ledger[i].grant.seq
  IN  OpenRow(m, "fallback", (IF seq > granted[m].seq THEN seq ELSE granted[m].seq) + 1)

Register(m) ==
  IF m \in Fallback /\ Registering(m) # {}
  THEN \E i \in Registering(m) :
         /\ \A j \in Registering(m) : ledger[i].grant.seq <= ledger[j].grant.seq
         /\ ledger' = Append(ledger, StandingRow(m, i))
  ELSE UNCHANGED ledger

(* Fault: nobody asks whether the token is still here.                     *)
PreemptsAnyway(m) == m \in Fallback /\ granted[m] # Ungranted /\ OpenRows(ledger) # {}

Preempts(m) == m \in Fallback /\ Owns(m) /\ OpenRows(ledger) # {}

(* A poll: store the scan, apply the new grants, keep a standing request.  *)
Poll(m) ==
  /\ phase[m] = "poll"
  /\ ~Preempts(m)
  /\ Register(m)
  /\ view' = [view EXCEPT ![m] = ledger']
  /\ \E g \in Applicable(m) :
       /\ \A h \in Applicable(m) : h.seq <= g.seq
       /\ granted' = [granted EXCEPT ![m] = g]
       /\ phase' = [phase EXCEPT ![m] = IF g # granted[m] /\ g.target = m
                                        THEN "acquire" ELSE "poll"]
  /\ UNCHANGED <<chosen, rest, leases, resident, worker, job, windows>>

(* on_acquire has returned: the engine is on the card, wake the waiter.    *)
Acquire(m) ==
  /\ phase[m] = "acquire"
  /\ resident' = [resident EXCEPT ![m] = TRUE]
  /\ leases' = [leases EXCEPT ![m] = @ \cup {granted[m].row}]
  /\ phase' = [phase EXCEPT ![m] = "poll"]
  /\ UNCHANGED <<ledger, view, granted, chosen, rest, worker, job, windows>>

(* A FALLBACK owner leaves the replay at the first open row it meets and   *)
(* starts a transfer; the rows behind it are stored when that returns.     *)
Preempt(m) ==
  /\ phase[m] = "poll"
  /\ Preempts(m)
  /\ \E first \in OpenRows(ledger) :
       /\ \A i \in OpenRows(ledger) : first <= i
       /\ view' = [view EXCEPT ![m] = Update(@, first, ledger[first])]
       /\ rest' = [rest EXCEPT ![m] = [i \in DOMAIN ledger \ {first} |-> ledger[i]]]
  /\ phase' = [phase EXCEPT ![m] = "wait"]
  /\ UNCHANGED <<ledger, granted, chosen, leases, resident, worker, job, windows>>

-----------------------------------------------------------------------------
(* The manager thread: _transfer_locked, entered from Release or Preempt.  *)

(* Phase 1: sleep and rescan until the next member in the ring asks ...    *)
Rescan(m) ==
  /\ phase[m] = "wait"
  /\ ~HasOpenRequestFrom(m, NextMember(m))
  /\ view' = [view EXCEPT ![m] = ledger]
  /\ UNCHANGED <<ledger, granted, phase, chosen, rest, leases, resident, worker,
                 job, windows>>

(* Faults: phase 1 without a wait, and without an end.                     *)
MayTimeOutAtOnce(m) == TRUE
MayTimeOutNever(m) == FALSE

(* ... or next_owner_timeout has passed.  A timeout longer than a poll     *)
(* leaves every FALLBACK manager the time to apply the grant the owner     *)
(* holds and to register, and the owner the time to see that.              *)
MayTimeOut(m) ==
  Patient => \A f \in Fallback \ {m} :
               /\ phase[f] = "poll"
               /\ UnseenGrants(f) = {}
               /\ StandingRows(ledger, f) \subseteq DOMAIN view[m]

(* Phase 2: ON_DEMAND before FALLBACK, then ring distance, then age.       *)
Priority(kind) == IF kind = "on_demand" THEN 0 ELSE 1
Candidates(m) == {i \in OpenRows(view[m]) : view[m][i].svc # m}
Before(m, i, j) ==
  LET a == view[m][i]
      b == view[m][j]
  IN  \/ Priority(a.kind) < Priority(b.kind)
      \/ /\ a.kind = b.kind
         /\ \/ Distance(m, a.svc) < Distance(m, b.svc)
            \/ a.svc = b.svc /\ i < j

(* Fault: the request id does not carry a sequence number.                 *)
ReturnRowSameId(m) == OpenRow(granted[m].source, "fallback", 1)

(* With no candidate the owner creates the return request of the member it *)
(* got the token from, whatever that member's mode.  The genesis owner has *)
(* nobody to return to: ring_index_for raises.                             *)
ReturnRow(m) == OpenRow(granted[m].source, "fallback", granted[m].seq + 1)

Select(m) ==
  /\ phase[m] = "wait"
  /\ HasOpenRequestFrom(m, NextMember(m)) \/ MayTimeOut(m)
  /\ IF Candidates(m) # {}
     THEN /\ \E i \in Candidates(m) :
               /\ \A j \in Candidates(m) \ {i} : Before(m, i, j)
               /\ chosen' = [chosen EXCEPT ![m] = i]
          /\ UNCHANGED <<ledger, view>>
     ELSE /\ granted[m].source # Authority
          /\ chosen' = [chosen EXCEPT ![m] = Len(ledger) + 1]
          /\ ledger' = Append(ledger, ReturnRow(m))
          /\ view' = [view EXCEPT ![m] = Update(@, chosen'[m], ReturnRow(m))]
  /\ phase' = [phase EXCEPT ![m] = "selected"]
  /\ UNCHANGED <<granted, rest, leases, resident, worker, job, windows>>

(* Fault: the card is vacated only for the next member in the ring.        *)
VacateForNext(m) ==
  /\ phase[m] = "selected"
  /\ resident' = [resident EXCEPT ![m] = view[m][chosen[m]].svc # NextMember(m)]
  /\ phase' = [phase EXCEPT ![m] = "vacated"]
  /\ UNCHANGED <<ledger, view, granted, chosen, rest, leases, worker, job, windows>>

(* on_release has returned: the engine has left the card.                  *)
Vacate(m) ==
  /\ phase[m] = "selected"
  /\ resident' = [resident EXCEPT ![m] = FALSE]
  /\ phase' = [phase EXCEPT ![m] = "vacated"]
  /\ UNCHANGED <<ledger, view, granted, chosen, rest, leases, worker, job, windows>>

(* Fault: only the rows of genesis and of FALLBACK members are closed.     *)
CloseFallback(m) ==
  /\ phase[m] = "vacated"
  /\ ledger' = [ledger EXCEPT ![granted[m].row].state =
                   IF ledger[granted[m].row].kind = "fallback" THEN "closed" ELSE @]
  /\ phase' = [phase EXCEPT ![m] = "closed"]
  /\ UNCHANGED <<view, granted, chosen, rest, leases, resident, worker, job, windows>>

(* close_request: the row the token was held on.                           *)
Close(m) ==
  /\ phase[m] = "vacated"
  /\ ledger' = [ledger EXCEPT ![granted[m].row].state = "closed"]
  /\ phase' = [phase EXCEPT ![m] = "closed"]
  /\ UNCHANGED <<view, granted, chosen, rest, leases, resident, worker, job, windows>>

(* grant_request, the local _apply_grant and the return of _transfer: the  *)
(* release command is done, or the preempting replay stores what is left   *)
(* of its scan over what it remembers.  An owner knows every earlier       *)
(* grant, so that replay applies none and registers nothing.               *)
NextGrantSameSequence(m) ==   \* fault: the sequence number is not advanced
  [seq |-> granted[m].seq, source |-> m,
   target |-> view[m][chosen[m]].svc, row |-> chosen[m]]

NextGrantBack(m) ==   \* fault: addressed to where the token came from
  [seq |-> granted[m].seq + 1, source |-> m,
   target |-> granted[m].source, row |-> chosen[m]]

NextGrant(m) ==
  [seq |-> granted[m].seq + 1, source |-> m,
   target |-> view[m][chosen[m]].svc, row |-> chosen[m]]

Publish(m) ==
  /\ phase[m] = "closed"
  /\ LET row == [view[m][chosen[m]] EXCEPT !.state = "granted", !.grant = NextGrant(m)]
     IN  /\ ledger' = [ledger EXCEPT ![chosen[m]] = row]
         /\ view' = [view EXCEPT ![m] = Overlay(rest[m], Update(@, chosen[m], row))]
  /\ granted' = [granted EXCEPT ![m] = NextGrant(m)]
  /\ rest' = [rest EXCEPT ![m] = NoRows]
  /\ chosen' = [chosen EXCEPT ![m] = 0]
  /\ phase' = [phase EXCEPT ![m] = "poll"]
  /\ worker' = [worker EXCEPT ![m] = IF @ = "releasing" THEN "idle" ELSE @]
  /\ UNCHANGED <<leases, resident, job, windows>>

-----------------------------------------------------------------------------
Transfer(m) == Rescan(m) \/ Select(m) \/ Vacate(m) \/ Close(m) \/ Publish(m)
Worker(s) == Request(s) \/ Wake(s) \/ Release(s)
Manager(m) == Poll(m) \/ Acquire(m) \/ Preempt(m) \/ Transfer(m)

Next ==
  \/ IssueGenesisRequest
  \/ IssueGenesisGrant
  \/ \E m \in Services : Worker(m) \/ Manager(m)

Spec == Init /\ [][Next]_vars

(* Ignitor issues the genesis grant; a manager thread loops, its callbacks *)
(* and its phase-1 wait return; a woken worker finishes its batch.  Nothing*)
(* obliges a worker to raise another request.                              *)
Fairness ==
  /\ WF_vars(IssueGenesisRequest \/ IssueGenesisGrant)
  /\ \A m \in Services : WF_vars(Manager(m)) /\ WF_vars(Wake(m) \/ Release(m))

FairSpec == Spec /\ Fairness

-----------------------------------------------------------------------------
(* Two engines are never on the card at once: on_release comes before the  *)
(* grant that lets the next member acquire.                                *)
CardExclusive ==
  \A m, n \in Services : resident[m] /\ resident[n] => m = n

(* The ledger's grants are one gapless chain: every sequence number up to  *)
(* the newest is on exactly one row, and each grant passes the token on    *)
(* from the target of the one before.                                      *)
GrantChain ==
  /\ \A i, j \in GrantedRows : ledger[i].grant.seq = ledger[j].grant.seq => i = j
  /\ \A j \in GrantedRows : ledger[j].grant.seq > 0 =>
       \E i \in GrantedRows : /\ ledger[i].grant.seq = ledger[j].grant.seq - 1
                              /\ ledger[i].grant.target = ledger[j].grant.source

(* Only the newest grant is live: once an owner that has applied its grant *)
(* publishes, every other granted row is closed.  At most one row is in    *)
(* state "granted".                                                        *)
OneLiveRow ==
  \A i, j \in DOMAIN ledger :
    ledger[i].state = "granted" /\ ledger[j].state = "granted" => i = j

(* A row of a manager's transfer is still open when the grant is written   *)
(* on it, however old the scan it was selected from.                       *)
ChosenRowStillOpen ==
  \A m \in Services : chosen[m] # 0 =>
    /\ ledger[chosen[m]].state = "open"
    /\ ledger[chosen[m]].svc # m

OnJob(s) == resident[s] /\ Owns(s) /\ granted[s].row = job[s]

(* A worker computes only while its engine is on the card and its manager  *)
(* holds the grant of the very request the worker raised.                  *)
WorkersComputeOnCard ==
  \A s \in OnDemand : worker[s] = "working" => OnJob(s)

(* Request ids, by which the managers key what they remember, never        *)
(* collide, although the owner and the member itself may both create the   *)
(* request "<service>:fallback:<sequence>".                                *)
RequestIdsUnique ==
  \A i, j \in DOMAIN ledger :
    /\ ledger[i].svc = ledger[j].svc
    /\ ledger[i].kind = ledger[j].kind
    /\ ledger[i].key = ledger[j].key
    => i = j

(* An ON_DEMAND member becomes the owner only on a request it published    *)
(* itself (docs/colocation.md:83).                                         *)
OnDemandOwnersAsked ==
  \A i \in DOMAIN ledger :
    ledger[i].state # "open" /\ ledger[i].svc \in OnDemand => ledger[i].kind = "on_demand"

(* A manager's account of the token never runs ahead of the ledger nor     *)
(* back: what it applied stays a grant of the ledger.                      *)
SequenceAdvances ==
  [][\A m \in Services : granted'[m] # granted[m] =>
       /\ granted'[m].seq > granted[m].seq
       /\ ledger'[granted'[m].row].grant = granted'[m]]_vars

(* Every request a worker raises is eventually granted and worked on.      *)
RequestsServed == \A s \in OnDemand : worker[s] = "waiting" ~> worker[s] = "working"

(* The card comes back to a FALLBACK member again and again.               *)
FallbackRegains == []<>(\E f \in Fallback : resident[f])

-----------------------------------------------------------------------------
(* The promise of the ring: the newest grant of the ledger names the owner,*)
(* the engines' residency is the card, and a request is unanswered while   *)
(* its row is open.                                                        *)
LedgerOwner ==
  IF GrantedRows = {} THEN Authority
  ELSE ledger[CHOOSE i \in GrantedRows :
                \A j \in GrantedRows : ledger[j].grant.seq <= ledger[i].grant.seq].svc
Asking == {s \in OnDemand : \E i \in OpenRows(ledger) :
             ledger[i].svc = s /\ ledger[i].kind = "on_demand"}

Token == INSTANCE GpuToken WITH
  Nobody <- Authority,
  owner  <- LedgerOwner,
  onCard <- {m \in Services : resident[m]},
  left   <- \E m \in Services : phase[m] \in {"vacated", "closed"},
  asking <- Asking

(* Every step of the managers, the workers and the ledger is a step of the *)
(* token or leaves it alone: a member enters an empty card, leaves before  *)
(* it passes the token, and passes it to one that asks or a FALLBACK one.  *)
ImplementsToken == Token!Spec

-----------------------------------------------------------------------------
(* The inductive invariant behind the safety properties.                   *)

(* A row is open exactly while it has no grant; a granted row is granted   *)
(* to the member that raised it, under its own position, by another one.   *)
(* The first row is the one of genesis.                                    *)
RowsWellFormed ==
  \A i \in DOMAIN ledger :
    /\ ledger[i].state = "open" => ledger[i].grant = Ungranted
    /\ ledger[i].state # "open" =>
         /\ ledger[i].grant # Ungranted
         /\ ledger[i].grant.target = ledger[i].svc
         /\ ledger[i].grant.row = i
         /\ ledger[i].grant.source # ledger[i].grant.target
    /\ i = 1 => ledger[i].svc = Ring[1]

(* What a manager applied is on the ledger, and an owner holds the newest. *)
GrantsOnLedger ==
  \A m \in Services :
    /\ granted[m] # Ungranted =>
         granted[m].row \in DOMAIN ledger /\ ledger[granted[m].row].grant = granted[m]
    /\ Owns(m) => \A i \in GrantedRows : ledger[i].grant.seq <= granted[m].seq

(* A manager may remember a granted row as open, never the reverse, and it *)
(* has applied every grant it remembers.  An owner's memory is exact about *)
(* which of the rows it knows are open.                                    *)
MemoryFaithful ==
  \A m \in Services :
    /\ \A i \in DOMAIN view[m] :
         /\ view[m][i].svc = ledger[i].svc
         /\ view[m][i].state # "open" =>
              ledger[i].state # "open" /\ ledger[i].grant.seq <= granted[m].seq
         /\ Owns(m) /\ view[m][i].state = "open" => ledger[i].state = "open"
    /\ \A i \in DOMAIN rest[m] :
         /\ rest[m][i].svc = ledger[i].svc
         /\ rest[m][i].state # "open" => ledger[i].state # "open"

(* Only an owner is past the top of its loop, its chosen row is an open    *)
(* one of another member, and its engine is on the card until it vacates.  *)
TransferInOrder ==
  \A m \in Services :
    /\ phase[m] # "poll" => Owns(m)
    /\ phase[m] \in {"selected", "vacated", "closed"} =>
         /\ chosen[m] \in DOMAIN view[m]
         /\ view[m][chosen[m]].state = "open"
         /\ view[m][chosen[m]].svc # m
    /\ phase[m] \in {"poll", "acquire", "wait"} => chosen[m] = 0
    /\ phase[m] = "closed" => ledger[granted[m].row].state = "closed"
    /\ resident[m] => Owns(m) /\ phase[m] \in {"poll", "wait", "selected"}

(* A row in state "granted" holds the newest grant. *)
LiveRowIsNewest ==
  \A i \in GrantedRows : ledger[i].state = "granted" =>
    \A j \in GrantedRows : ledger[j].grant.seq <= ledger[i].grant.seq

IInv ==
  /\ TypeOK
  /\ RowsWellFormed
  /\ GrantsOnLedger
  /\ MemoryFaithful
  /\ TransferInOrder
  /\ GrantChain
  /\ LiveRowIsNewest

(* The manager of an ON_DEMAND member transfers only while its worker waits*)
(* for that; a worker whose lease is set has the card until it releases.   *)
WorkerInStep(s) ==
  /\ leases[s] \subseteq DOMAIN ledger
  /\ s \in OnDemand =>
       /\ phase[s] \in {"wait", "selected", "vacated", "closed"} => worker[s] = "releasing"
       /\ worker[s] = "waiting" /\ job[s] \in leases[s] => OnJob(s)
       /\ worker[s] = "working" => OnJob(s)
WorkersInStep == \A s \in Services : WorkerInStep(s)
=============================================================================
