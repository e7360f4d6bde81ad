----------------------------- MODULE TQCluster -----------------------------
(***************************************************************************)
(* How the launcher brings up TransferQueue, and what a client that        *)
(* connects finds: the controller and every storage unit of this launch.   *)
(*                                                                         *)
(* Endpoints are discovered through keys of the bootstrap store, one to a  *)
(* component and one for the whole roster, or through a shared file that   *)
(* every component reads, extends and replaces.  Either may still hold what*)
(* an earlier cluster of the same name left there.  A client places row i  *)
(* on unit i % (number of units it saw): with a short or a stale roster it *)
(* does not fail, it looks in the wrong place.                             *)
(***************************************************************************)
EXTENDS Integers, FiniteSets

CONSTANTS
  Units,    \* storage units of the cluster
  Crashes   \* bound: processes that die while the run starts

Controller == -1
Storage == 0..(Units - 1)
Components == {Controller} \cup Storage

ASSUME TQClusterAssumption == Units \in Nat \ {0} /\ Crashes \in Nat

VARIABLES
  storeMode,  \* the endpoints ref is a store:// key
  launcher,   \* how far the launcher is
  proc,       \* each component: absent, starting, publishing, up, dead
  entry,      \* what is published under each name: none, of an old launch, of this
  copy,       \* the entries a component read from the file and will replace
  client,     \* the entries the last client to connect found
  crashes

tqvars == <<storeMode, launcher, proc, entry, copy, client, crashes>>

Entries == [Components -> {"none", "old", "new"}]

TypeOKCluster ==
  /\ storeMode \in BOOLEAN
  /\ launcher \in {"clear", "controller", "storage", "up", "failed"}
  /\ proc \in [Components -> {"absent", "starting", "publishing", "up", "dead"}]
  /\ entry \in Entries
  /\ copy \in [Components -> Entries]
  /\ client \in Entries
  /\ crashes \in 0..Crashes

(* Entries of an earlier launch are there or not; a client that has not    *)
(* connected has nothing wrong to look at.                                 *)
InitCluster ==
  /\ storeMode \in BOOLEAN
  /\ launcher = "clear"
  /\ proc = [c \in Components |-> "absent"]
  /\ \E left \in {"none", "old"} : entry = [c \in Components |-> left]
  /\ copy = [c \in Components |-> [d \in Components |-> "none"]]
  /\ client = [c \in Components |-> "new"]
  /\ crashes = 0

ClearNothing ==  \* (mutant)
  /\ launcher = "clear"
  /\ launcher' = "controller"
  /\ UNCHANGED <<storeMode, proc, entry, copy, client, crashes>>

(* Deletes the keys of the components and of the roster, or the file.      *)
ClearStale ==
  /\ launcher = "clear"
  /\ launcher' = "controller"
  /\ entry' = [c \in Components |-> "none"]
  /\ UNCHANGED <<storeMode, proc, copy, client, crashes>>

Spawn(comps) ==
  /\ \A c \in comps : proc[c] = "absent"
  /\ proc' = [c \in Components |-> IF c \in comps THEN "starting" ELSE proc[c]]

SpawnController ==
  /\ launcher = "controller"
  /\ Spawn({Controller})
  /\ UNCHANGED <<storeMode, launcher, entry, copy, client, crashes>>

(* The launcher's waits only see that an entry is there.                   *)
IsPublished(c) == entry[c] # "none"

ControllerFound ==
  /\ launcher = "controller" /\ proc[Controller] # "absent"
  /\ IsPublished(Controller)
  /\ launcher' = "storage"
  /\ UNCHANGED <<storeMode, proc, entry, copy, client, crashes>>

(* With a key to each component they start together, with the file one by  *)
(* one, each after the entry of the one before.                            *)
SpawnStorage ==
  /\ launcher = "storage"
  /\ \/ storeMode /\ Spawn(Storage)
     \/ /\ ~storeMode
        /\ \E u \in Storage :
             /\ \A t \in 0..(u - 1) : IsPublished(t)
             /\ Spawn({u})
  /\ UNCHANGED <<storeMode, launcher, entry, copy, client, crashes>>

(* Store mode ends with the roster key, written from the component keys.   *)
StorageFound ==
  /\ launcher = "storage"
  /\ \A u \in Storage : proc[u] # "absent" /\ IsPublished(u)
  /\ launcher' = "up"
  /\ UNCHANGED <<storeMode, proc, entry, copy, client, crashes>>

(* A component sets its own key, or reads the file and then replaces it.   *)
Publish(c) ==
  /\ \/ /\ storeMode /\ proc[c] = "starting"
        /\ entry' = [entry EXCEPT ![c] = "new"]
        /\ proc' = [proc EXCEPT ![c] = "up"]
        /\ UNCHANGED copy
     \/ /\ ~storeMode /\ proc[c] = "starting"
        /\ copy' = [copy EXCEPT ![c] = entry]
        /\ proc' = [proc EXCEPT ![c] = "publishing"]
        /\ UNCHANGED entry
     \/ /\ ~storeMode /\ proc[c] = "publishing"
        /\ entry' = [copy[c] EXCEPT ![c] = "new"]
        /\ proc' = [proc EXCEPT ![c] = "up"]
        /\ UNCHANGED copy
  /\ UNCHANGED <<storeMode, launcher, client, crashes>>

ComponentDies(c) ==
  /\ crashes < Crashes /\ crashes' = crashes + 1
  /\ proc[c] \in {"starting", "publishing"}
  /\ proc' = [proc EXCEPT ![c] = "dead"]
  /\ UNCHANGED <<storeMode, launcher, entry, copy, client>>

(* The waits look whether the processes they wait for are alive.           *)
LauncherGivesUp ==
  /\ \/ launcher = "controller" /\ proc[Controller] = "dead"
     \/ launcher = "storage" /\ \E u \in Storage : proc[u] = "dead"
  /\ launcher' = "failed"
  /\ UNCHANGED <<storeMode, proc, entry, copy, client, crashes>>

(* A worker connects: it waits for the roster key, or takes the file as it *)
(* finds it.  The processes that do so are started by the launcher.        *)
Connect ==
  /\ launcher = "up"
  /\ client' = entry
  /\ UNCHANGED <<storeMode, launcher, proc, entry, copy, crashes>>

ClusterStep ==
  \/ ClearStale \/ SpawnController \/ ControllerFound \/ SpawnStorage
  \/ StorageFound \/ LauncherGivesUp
  \/ \E c \in Components : Publish(c)

ClusterFault == \E c \in Components : ComponentDies(c)

(* Whoever connects has every component of this launch on its roster, in   *)
(* both ways of discovery and whatever an earlier launch left behind.      *)
ConnectsToWholeCluster == client = [c \in Components |-> "new"]
=============================================================================
