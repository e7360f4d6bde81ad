----------------------------- MODULE Checkpoint -----------------------------
(***************************************************************************)
(* The state directory of a run (meshy.service.checkpoint.StateStore) and  *)
(* how a service commits and rotates its own shards in it.                 *)
(*                                                                         *)
(* A shard is up to three files: the directory a heavy service writes with *)
(* all its ranks, a sidecar with counters, and the completion marker that  *)
(* is written last.  No service knows of another: the point a run can be   *)
(* resumed from is derived from the markers alone.  What a file contains is*)
(* the caller's; a set of at most one element stands for it, {} for no file*)
(* or a torn directory.                                                    *)
(***************************************************************************)
EXTENDS Integers, FiniteSets, FiniteSetsExt

CONSTANTS
  Services,   \* the services that checkpoint
  Heavy,      \* those of them whose shard has a directory
  Interval,   \* GlobalCheckpointConfig.interval
  Keep,       \* GlobalCheckpointConfig.keep_latest_k
  MaxStep     \* bound: the last window of the run

ASSUME PolicyAssumption ==
  /\ Interval \in Nat \ {0}
  /\ Keep \in Nat /\ Keep >= 2
ASSUME StoreAssumption == Heavy \subseteq Services /\ MaxStep \in Nat

Due(n) == n > 0 /\ n % Interval = 0

Steps == {n \in 1..MaxStep : Due(n)}

VARIABLES
  disk,     \* the shard of a service at a step
  folders,  \* the services that have a directory
  victim,   \* the step a service's shard is being deleted at, or 0
  doing     \* where each service stands in its loop and its save

store == <<disk, folders, victim>>

NoShard == [data |-> {}, meta |-> {}, mark |-> FALSE]

EmptyStore ==
  /\ disk = [s \in Services |-> [n \in Steps |-> NoShard]]
  /\ folders = {}
  /\ victim = [s \in Services |-> 0]

-----------------------------------------------------------------------------
(* What the markers say.                                                   *)

IsComplete(s, n) == n \in Steps /\ disk[s][n].mark

CompleteSteps(s) == {n \in Steps : disk[s][n].mark}

HasAnyShard == \E s \in Services : CompleteSteps(s) # {}

Newest(k, S) == {n \in S : Cardinality({m \in S : m > n}) < k}

(* Fault: the rotation keeps one shard too few.                            *)
StaleKeepsOneLess(s) == CompleteSteps(s) \ Newest(Keep - 1, CompleteSteps(s))

(* What prune drops: all but the newest Keep committed steps.              *)
Stale(s) == CompleteSteps(s) \ Newest(Keep, CompleteSteps(s))

-----------------------------------------------------------------------------
(* Saving: directory, sidecar, marker, then the rotation of older shards.  *)

Put(s, n, field, c) == disk' = [disk EXCEPT ![s][n][field] = c]

WriteShardDir(s, n, c) ==
  /\ doing[s] = "data"
  /\ Put(s, n, "data", {c})
  /\ folders' = folders \cup {s}
  /\ doing' = [doing EXCEPT ![s] = "meta"]
  /\ UNCHANGED victim

WriteMeta(s, n, c) ==
  /\ doing[s] = "meta"
  /\ Put(s, n, "meta", {c})
  /\ folders' = folders \cup {s}
  /\ doing' = [doing EXCEPT ![s] = "mark"]
  /\ UNCHANGED victim

MarkComplete(s, n) ==
  /\ doing[s] = "mark"
  /\ Put(s, n, "mark", TRUE)
  /\ doing' = [doing EXCEPT ![s] = "prune"]
  /\ UNCHANGED <<folders, victim>>

(* Fault: the files go before the marker does.                             *)
DropFilesFirst(s, n) ==
  /\ victim[s] = 0
  /\ disk' = [disk EXCEPT ![s][n] = [NoShard EXCEPT !.mark = TRUE]]
  /\ victim' = [victim EXCEPT ![s] = n]
  /\ UNCHANGED <<folders, doing>>

(* drop takes the marker away first, the sidecar and the directory next.   *)
DropMarker(s, n) ==
  /\ victim[s] = 0
  /\ Put(s, n, "mark", FALSE)
  /\ victim' = [victim EXCEPT ![s] = n]
  /\ UNCHANGED <<folders, doing>>

DropFiles(s) ==
  /\ victim[s] # 0
  /\ disk' = [disk EXCEPT ![s][victim[s]] = NoShard]
  /\ victim' = [victim EXCEPT ![s] = 0]
  /\ UNCHANGED <<folders, doing>>

Prune(s) ==
  /\ doing[s] = "prune"
  /\ \/ Stale(s) # {} /\ DropMarker(s, Min(Stale(s)))
     \/ DropFiles(s)

(* The save is over; the service goes on with what comes next.             *)
Saved(s, next) ==
  /\ doing[s] = "prune"
  /\ Stale(s) = {} /\ victim[s] = 0
  /\ doing' = [doing EXCEPT ![s] = next]
  /\ UNCHANGED store
=============================================================================
