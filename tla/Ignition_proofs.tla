--------------------------- MODULE Ignition_proofs ---------------------------
(***************************************************************************)
(* Proofs about the start of a run, for every number of cards, services    *)
(* and storage units and every placement: who connects finds the whole     *)
(* cluster, the token exists only when every service has started, and a    *)
(* card with masters only has the weights of one engine at a time.         *)
(***************************************************************************)
EXTENDS Ignition, FiniteSetFacts

-----------------------------------------------------------------------------
(* The invariants.                                                         *)

TQType ==
  /\ storeMode \in BOOLEAN
  /\ proc \in [Components -> {"absent", "starting", "publishing", "up", "dead"}]
  /\ entry \in [Components -> {"none", "old", "new"}]
  /\ copy \in [Components -> [Components -> {"none", "old", "new"}]]

(* What is published is of this launch, and who reads the shared file to   *)
(* replace it is alone in that.                                            *)
AtWork(c) == proc[c] \in {"starting", "publishing"}

TQInv ==
  /\ launcher = "clear" => \A c \in Components : proc[c] = "absent"
  /\ launcher # "clear" =>
       \A c \in Components : entry[c] # "old" /\ (entry[c] = "new" <=> proc[c] = "up")
  /\ launcher \in {"clear", "controller"} => \A u \in Storage : proc[u] = "absent"
  /\ launcher \in {"storage", "up"} => entry[Controller] = "new"
  /\ launcher = "up" => \A u \in Storage : entry[u] = "new"
  /\ ~storeMode =>
       /\ \A c \in Components : proc[c] = "publishing" => copy[c] = entry
       /\ \A c, d \in Components : AtWork(c) /\ AtWork(d) => c = d
       /\ \A u \in Storage : proc[u] # "absent" =>
            entry[Controller] = "new" /\ \A t \in 0..(u - 1) : entry[t] = "new"
  /\ ConnectsToWholeCluster

Children == {"off", "boot", "group", "loaded", "loop", "dead"}

IgnType ==
  /\ turn \in [Cards -> 1..(Len(Order) + 1)]
  /\ phase \in [Cards -> {"gate", "wait", "barrier", "genesis", "cpu", "join"}]
  /\ child \in [Services -> [Cards -> Children]]
  /\ event \in SUBSET Spmd
  /\ resident \in [Cards -> SUBSET Services]
  /\ owner \in Spmd \cup {"nobody", "infer"}
  /\ cmds \in [Spmd -> Seq({"acquire", "step", "release"})]
  /\ done \in [Spmd -> [Cards -> Nat]]

(* An ignitor has brought up what its card is the master of and is past,   *)
(* and has not touched what comes later.                                   *)
Later(r, i) == i > turn[r] \/ (i = turn[r] /\ phase[r] = "gate")

TurnInv ==
  /\ \A r \in Cards :
       /\ phase[r] \in {"gate", "wait"} <=> turn[r] <= Len(Order)
       /\ turn[r] <= Len(Order) => r \in CardsOf(Current(r))
       /\ phase[r] = "wait" => r = Master(Current(r))
       /\ \A i \in 1..Len(Order) :
            /\ i < turn[r] /\ r = Master(Order[i]) => Order[i] \in marker
            /\ Later(r, i) => child[Order[i]][r] = "off"
  /\ \A s \in Services : s \in marker \/ s \in event => child[s][Master(s)] = "loop"
  /\ phase[0] = "genesis" \/ owner # "nobody" => Services \subseteq marker
  /\ owner # "nobody" => phase[0] \in {"cpu", "join"}

(* A card that is the master's of each of its services.                    *)
Whole(r) == \A s \in Services : r \in CardsOf(s) => Master(s) = r

(* Before there is a token, an engine on such a card is the one its ignitor*)
(* waits for.                                                              *)
StartInv ==
  /\ \A r \in Cards : \A s \in resident[r] : r \in CardsOf(s)
  /\ owner = "nobody" =>
       /\ \A s \in Spmd : cmds[s] = <<>>
       /\ \A r \in Cards : Whole(r) => \A s \in resident[r] :
            child[s][r] # "off" /\ (s \in Shared => s \notin marker)
       /\ \A s \in event : s \notin resident[Master(s)]

(* The master of an engine that does not own the token has executed all    *)
(* commands, the last of them a release.                                   *)
Released(s) ==
  done[s][Master(s)] = Len(cmds[s]) /\ (cmds[s] = <<>> \/ LastCommand(s) = "release")

TokenInv ==
  /\ \A s \in Spmd : done[s][Master(s)] <= Len(cmds[s])
  /\ \A s \in Spmd : owner # s => Released(s)
  /\ owner # "nobody" =>
       \A r \in Cards : Whole(r) =>
         /\ \A s \in Spmd : r = Master(s) /\ Released(s) => s \notin resident[r]
         /\ \A s \in RingInfer : s \in resident[r] => owner = "infer" /\ serving

-----------------------------------------------------------------------------
(* TransferQueue.                                                          *)

LEMMA ClusterSets ==
  /\ Controller \in Components /\ Storage \subseteq Components
  /\ Controller \notin Storage /\ Storage \subseteq Nat
  /\ \A c \in Components : c = Controller \/ c \in Storage
BY TQClusterAssumption DEF Controller, Components, Storage

LEMMA ClusterInit == InitCluster => TQType /\ TQInv
<1> SUFFICES ASSUME InitCluster PROVE TQType /\ TQInv
  OBVIOUS
<1> USE DEF InitCluster
<1>1. PICK left \in {"none", "old"} : entry = [c \in Components |-> left]
  OBVIOUS
<1>2. TQType
  BY <1>1 DEF TQType
<1>3. TQInv
  BY <1>1, ClusterSets DEF TQInv, AtWork, ConnectsToWholeCluster
<1> QED BY <1>2, <1>3

LEMMA ClearKeeps == TQType /\ TQInv /\ ClearStale => TQType' /\ TQInv'
<1> SUFFICES ASSUME TQType, TQInv, ClearStale PROVE TQType' /\ TQInv'
  OBVIOUS
<1> USE DEF ClearStale, TQType, TQInv
<1>1. TQType'
  OBVIOUS
<1>2. \A c \in Components : proc'[c] = "absent" /\ entry'[c] = "none"
  BY <1>1
<1>3. ConnectsToWholeCluster'
  BY DEF ConnectsToWholeCluster
<1> QED BY <1>1, <1>2, <1>3, ClusterSets DEF AtWork

(* A component is started when no other is still at work on the file.      *)
LEMMA SpawnControllerKeeps == TQType /\ TQInv /\ SpawnController => TQType' /\ TQInv'
<1> SUFFICES ASSUME TQType, TQInv, SpawnController PROVE TQType' /\ TQInv'
  OBVIOUS
<1>1. /\ launcher = "controller" /\ UNCHANGED <<storeMode, launcher, entry, copy, client>>
      /\ \A c \in Components : proc[c] = "absent"
      /\ \A c \in Components : proc'[c] = IF c = Controller THEN "starting" ELSE "absent"
      /\ proc' \in [Components -> {"absent", "starting"}]
  BY ClusterSets DEF SpawnController, Spawn, TQInv, TQType
<1>2. TQType'
  BY <1>1 DEF TQType
<1>3. ConnectsToWholeCluster'
  BY <1>1 DEF TQInv, ConnectsToWholeCluster
<1> QED BY <1>1, <1>2, <1>3, ClusterSets DEF TQInv, AtWork

LEMMA SpawnStorageKeeps == TQType /\ TQInv /\ SpawnStorage => TQType' /\ TQInv'
<1> SUFFICES ASSUME TQType, TQInv, SpawnStorage PROVE TQType' /\ TQInv'
  OBVIOUS
<1>1. launcher = "storage" /\ UNCHANGED <<storeMode, launcher, entry, copy, client>>
  BY DEF SpawnStorage
<1>2. ConnectsToWholeCluster'
  BY <1>1 DEF TQInv, ConnectsToWholeCluster
<1>3. CASE storeMode /\ Spawn(Storage)
  BY <1>1, <1>2, <1>3, ClusterSets DEF Spawn, TQInv, TQType, AtWork
<1>4. CASE ~storeMode /\ \E u \in Storage :
             /\ \A t \in 0..(u - 1) : IsPublished(t)
             /\ Spawn({u})
  <2>1. PICK u \in Storage : (\A t \in 0..(u - 1) : IsPublished(t)) /\ Spawn({u})
    BY <1>4
  <2>2. u \in Nat /\ u \in Components /\ proc[u] = "absent"
    BY <2>1, ClusterSets DEF Spawn
  <2>3. \A t \in 0..(u - 1) : t \in Components /\ entry[t] = "new" /\ proc[t] = "up"
    <3>1. \A t \in 0..(u - 1) : t \in Storage
      BY TQClusterAssumption, <2>1 DEF Storage
    <3> QED BY <3>1, <2>1, <1>1, ClusterSets DEF IsPublished, TQInv, TQType
  <2>4. \A t \in Storage : t > u => proc[t] = "absent"
    <3> SUFFICES ASSUME NEW t \in Storage, t > u, proc[t] # "absent" PROVE FALSE
      OBVIOUS
    <3>1. u \in 0..(t - 1)
      BY <2>2, ClusterSets
    <3>2. entry[u] = "new"
      BY <3>1, <1>4 DEF TQInv
    <3> QED BY <3>2, <2>2, <1>1 DEF TQInv
  <2>5. \A c \in Components : c # u => ~AtWork(c)
    <3> SUFFICES ASSUME NEW c \in Components, c # u PROVE ~AtWork(c)
      OBVIOUS
    <3>1. CASE c = Controller
      BY <3>1, <1>1 DEF TQInv, AtWork
    <3>2. CASE c \in Storage /\ c < u
      BY <3>2, <2>3, <2>2, ClusterSets DEF AtWork
    <3>3. CASE c \in Storage /\ c > u
      BY <3>3, <2>4 DEF AtWork
    <3> QED BY <3>1, <3>2, <3>3, <2>2, ClusterSets
  <2>6. /\ proc' \in [Components -> {"absent", "starting", "publishing", "up", "dead"}]
        /\ \A c \in Components : proc'[c] = IF c = u THEN "starting" ELSE proc[c]
    BY <2>1, <2>2 DEF Spawn, TQType
  <2>7. entry[u] # "new" /\ entry[Controller] = "new"
    BY <2>2, <1>1 DEF TQInv
  <2>8. TQType'
    BY <1>1, <2>6 DEF TQType
  <2>9. ~AtWork(u) /\ \A c \in Components : AtWork(c)' => c = u
    BY <2>5, <2>6, <2>2 DEF AtWork
  <2> QED BY <1>1, <1>2, <1>4, <2>2, <2>3, <2>5, <2>6, <2>7, <2>8, <2>9, ClusterSets
       DEF TQInv, AtWork
<1> QED BY <1>3, <1>4 DEF SpawnStorage

LEMMA FoundKeeps ==
  TQType /\ TQInv /\ (ControllerFound \/ StorageFound \/ LauncherGivesUp)
    => TQType' /\ TQInv'
<1> SUFFICES ASSUME TQType, TQInv, ControllerFound \/ StorageFound \/ LauncherGivesUp
             PROVE  TQType' /\ TQInv'
  OBVIOUS
<1>1. UNCHANGED <<storeMode, proc, entry, copy, client>> /\ launcher # "clear"
  BY DEF ControllerFound, StorageFound, LauncherGivesUp
<1>2. TQType' /\ ConnectsToWholeCluster'
  BY <1>1 DEF TQType, TQInv, ConnectsToWholeCluster
<1>3. CASE ControllerFound
  BY <1>1, <1>2, <1>3, ClusterSets DEF ControllerFound, IsPublished, TQInv, TQType, AtWork
<1>4. CASE StorageFound
  BY <1>1, <1>2, <1>4, ClusterSets DEF StorageFound, IsPublished, TQInv, TQType, AtWork
<1>5. CASE LauncherGivesUp
  BY <1>1, <1>2, <1>5, ClusterSets DEF LauncherGivesUp, TQInv, TQType, AtWork
<1> QED BY <1>3, <1>4, <1>5

(* What is written back is what was read, with the writer's own entry.     *)
LEMMA PublishKeeps ==
  ASSUME TQType, TQInv, NEW c \in Components, Publish(c)
  PROVE  TQType' /\ TQInv'
<1>1. UNCHANGED <<storeMode, launcher, client>> /\ AtWork(c)
  BY DEF Publish, AtWork
<1>2. launcher # "clear" /\ entry[c] = "none" /\ ConnectsToWholeCluster'
  <2>1. launcher # "clear"
    BY <1>1 DEF TQInv, AtWork
  <2> QED BY <1>1, <2>1 DEF TQInv, TQType, AtWork, ConnectsToWholeCluster
<1>3. CASE ~storeMode /\ proc[c] = "starting"
  <2>1. /\ copy' = [copy EXCEPT ![c] = entry] /\ proc' = [proc EXCEPT ![c] = "publishing"]
        /\ UNCHANGED entry
    BY <1>3 DEF Publish
  <2>2. TQType'
    BY <1>1, <2>1 DEF TQType
  <2>3. /\ \A d \in Components : AtWork(d)' => d = c
        /\ copy'[c] = entry' /\ \A d \in Components : proc'[d] = "up" <=> proc[d] = "up"
        /\ \A d \in Components : proc'[d] = "absent" <=> proc[d] = "absent"
    BY <1>1, <1>3, <2>1 DEF TQInv, TQType, AtWork
  <2> QED BY <1>1, <1>2, <1>3, <2>1, <2>2, <2>3, ClusterSets DEF TQInv, AtWork
<1>4. CASE ~(~storeMode /\ proc[c] = "starting")
  <2>1. /\ entry' = [entry EXCEPT ![c] = "new"] /\ proc' = [proc EXCEPT ![c] = "up"]
        /\ UNCHANGED copy
    BY <1>1, <1>4 DEF Publish, TQInv
  <2>2. TQType'
    BY <1>1, <2>1 DEF TQType
  <2>3. /\ \A d \in Components : AtWork(d)' => AtWork(d) /\ d # c
        /\ \A d \in Components : entry'[d] = IF d = c THEN "new" ELSE entry[d]
        /\ \A d \in Components : proc'[d] = IF d = c THEN "up" ELSE proc[d]
    BY <1>1, <2>1 DEF TQType, AtWork
  <2>4. ~storeMode => \A d \in Components : ~AtWork(d)'
    BY <2>3, <1>1 DEF TQInv
  <2>5. proc[c] # "absent"
    BY <1>1 DEF AtWork
  <2>6. \A u \in Storage : \A t \in 0..(u - 1) : t \in Components
    BY ClusterSets, TQClusterAssumption DEF Storage
  <2> QED BY <1>1, <1>2, <2>2, <2>3, <2>4, <2>5, <2>6, ClusterSets DEF TQInv, AtWork
<1> QED BY <1>3, <1>4

LEMMA DeathKeeps ==
  ASSUME TQType, TQInv, NEW c \in Components, ComponentDies(c)
  PROVE  TQType' /\ TQInv'
<1>1. /\ UNCHANGED <<storeMode, launcher, entry, copy, client>> /\ AtWork(c)
      /\ proc' = [proc EXCEPT ![c] = "dead"]
  BY DEF ComponentDies, AtWork
<1>2. /\ TQType' /\ ConnectsToWholeCluster'
      /\ launcher # "clear" /\ entry[c] # "new" /\ proc[c] # "absent"
  <2>1. launcher # "clear" /\ proc[c] # "absent"
    BY <1>1 DEF TQInv, AtWork
  <2> QED BY <1>1, <2>1 DEF TQInv, TQType, AtWork, ConnectsToWholeCluster
<1>3. /\ \A d \in Components : AtWork(d)' => AtWork(d) /\ d # c
      /\ \A d \in Components : proc'[d] = IF d = c THEN "dead" ELSE proc[d]
  BY <1>1 DEF TQType, AtWork
<1> QED BY <1>1, <1>2, <1>3, ClusterSets DEF TQInv, AtWork

LEMMA ConnectKeeps == TQType /\ TQInv /\ Connect => TQType' /\ TQInv'
<1> SUFFICES ASSUME TQType, TQInv, Connect PROVE TQType' /\ TQInv'
  OBVIOUS
<1>1. UNCHANGED <<storeMode, launcher, proc, entry, copy>> /\ client' = entry
  BY DEF Connect
<1>2. \A c \in Components : entry[c] = "new"
  BY ClusterSets DEF Connect, TQInv
<1>3. ConnectsToWholeCluster'
  BY <1>1, <1>2 DEF TQType, ConnectsToWholeCluster
<1> QED BY <1>1, <1>3 DEF TQType, TQInv, AtWork

LEMMA ClusterStill ==
  /\ TQType /\ TQInv /\ UNCHANGED <<storeMode, launcher, proc, entry, copy, client>>
     => TQType' /\ TQInv'
BY DEF TQType, TQInv, AtWork, ConnectsToWholeCluster

-----------------------------------------------------------------------------
(* The declaration and the cards.                                          *)

LEMMA OrderFacts ==
  /\ Len(Order) \in Nat
  /\ \A i \in 1..Len(Order) : Order[i] \in Services
  /\ \A s \in Services : \E i \in 1..Len(Order) : Order[i] = s
  /\ \A i, j \in 1..Len(Order) : Order[i] = Order[j] => i = j
BY IgnitionAssumption DEF Order, Services

LEMMA CardFacts ==
  /\ 0 \in Cards
  /\ \A s \in Services :
       CardsOf(s) \subseteq Cards /\ Master(s) \in CardsOf(s) /\ Master(s) \in Cards
<1>1. 0 \in Cards
  BY IgnitionAssumption DEF Cards
<1>2. ASSUME NEW s \in Services
      PROVE  CardsOf(s) \subseteq Cards /\ Master(s) \in CardsOf(s)
  <2>1. Place[s] \in Seq(Cards) /\ Place[s] # <<>>
    BY IgnitionAssumption
  <2>2. Len(Place[s]) \in Nat \ {0} /\ \A i \in 1..Len(Place[s]) : Place[s][i] \in Cards
    BY <2>1
  <2>3. 1 \in 1..Len(Place[s])
    BY <2>2
  <2> QED BY <2>2, <2>3 DEF CardsOf, Master
<1> QED BY <1>1, <1>2

LEMMA ServiceFacts ==
  /\ Spmd \subseteq Services /\ Spmd \subseteq Shared /\ RingInfer \subseteq Services
  /\ RingInfer \cap Spmd = {} /\ "nobody" \notin Services /\ "infer" \notin Services
  /\ Cpu \notin Services
BY IgnitionAssumption DEF Spmd, RingInfer

(* The next place of a card skips only services of other cards.            *)
LEMMA NextLocalFacts ==
  ASSUME NEW r \in Cards, NEW i \in 1..(Len(Order) + 1)
  PROVE  /\ NextLocal(r, i) \in i..(Len(Order) + 1)
         /\ NextLocal(r, i) <= Len(Order) => r \in CardsOf(Order[NextLocal(r, i)])
         /\ \A j \in i..(NextLocal(r, i) - 1) : r \notin CardsOf(Order[j])
<1> DEFINE n == Len(Order)
           S == {j \in i..n : r \in CardsOf(Order[j])} \cup {n + 1}
<1>1. n \in Nat /\ i \in Nat
  BY OrderFacts
<1>2. S \subseteq i..(n + 1) /\ S # {} /\ S \subseteq Int
  BY <1>1
<1>3. IsFiniteSet(S)
  <2> HIDE DEF n, S
  <2>1. i \in Int /\ n + 1 \in Int
    BY <1>1
  <2>2. IsFiniteSet(i..(n + 1))
    BY <2>1, FS_Interval
  <2> QED BY <1>2, <2>2, FS_Subset
<1>4. Min(S) \in S /\ \A y \in S : Min(S) =< y
  BY <1>2, <1>3, MaxMin
<1>5. NextLocal(r, i) = Min(S)
  BY DEF NextLocal
<1>6. PICK m \in S : m = NextLocal(r, i)
  BY <1>4, <1>5
<1>7. m \in i..(n + 1) /\ (m <= n => r \in CardsOf(Order[m]))
  BY <1>1, <1>2
<1>8. ASSUME NEW j \in i..(m - 1), r \in CardsOf(Order[j]) PROVE FALSE
  <2>1. j \in S /\ j < m
    BY <1>1, <1>7, <1>8
  <2> QED BY <2>1, <1>1, <1>4, <1>5, <1>6, <1>7
<1> QED BY <1>6, <1>7, <1>8

LEMMA NextTurnFacts ==
  ASSUME IgnType, NEW r \in Cards, turn[r] <= Len(Order), NextTurn(r)
  PROVE  /\ turn' \in [Cards -> 1..(Len(Order) + 1)]
         /\ phase' \in [Cards -> {"gate", "wait", "barrier", "genesis", "cpu", "join"}]
         /\ \A q \in Cards : q # r => turn'[q] = turn[q] /\ phase'[q] = phase[q]
         /\ turn'[r] > turn[r]
         /\ \/ phase'[r] = "gate" /\ turn'[r] <= Len(Order)
               /\ r \in CardsOf(Order[turn'[r]])
            \/ phase'[r] = "barrier" /\ turn'[r] > Len(Order)
         /\ \A j \in 1..Len(Order) :
              turn[r] < j /\ j < turn'[r] => r \notin CardsOf(Order[j])
<1>1. Len(Order) \in Nat /\ turn[r] \in Nat /\ turn[r] + 1 \in 1..(Len(Order) + 1)
  BY OrderFacts DEF IgnType
<1>2. PICK m : m = NextLocal(r, turn[r] + 1)
  OBVIOUS
<1>3. /\ m \in (turn[r] + 1)..(Len(Order) + 1)
      /\ m <= Len(Order) => r \in CardsOf(Order[m])
      /\ \A j \in (turn[r] + 1)..(m - 1) : r \notin CardsOf(Order[j])
  BY <1>1, <1>2, NextLocalFacts
<1>4. turn' = [turn EXCEPT ![r] = m] /\ phase' = [phase EXCEPT ![r] = PhaseAt(turn'[r])]
  BY <1>2 DEF NextTurn
<1>5. turn' \in [Cards -> 1..(Len(Order) + 1)] /\ turn'[r] = m
  BY <1>1, <1>3, <1>4 DEF IgnType
<1>6. phase'[r] = IF m > Len(Order) THEN "barrier" ELSE "gate"
  BY <1>4, <1>5 DEF PhaseAt, IgnType
<1>7. phase' \in [Cards -> {"gate", "wait", "barrier", "genesis", "cpu", "join"}]
  BY <1>4, <1>5 DEF PhaseAt, IgnType
<1>8. \A q \in Cards : q # r => turn'[q] = turn[q] /\ phase'[q] = phase[q]
  BY <1>4 DEF IgnType
<1> QED BY <1>1, <1>3, <1>5, <1>6, <1>7, <1>8

-----------------------------------------------------------------------------
(* The order of the start.                                                 *)

CardsInv == StartInv /\ TokenInv

LEMMA IgnitionInit == Init => IgnType /\ TurnInv /\ CardsInv
<1> SUFFICES ASSUME Init PROVE IgnType /\ TurnInv /\ CardsInv
  OBVIOUS
<1> USE DEF Init
<1>1. \A r \in Cards : turn[r] = NextLocal(r, 1) /\ phase[r] = PhaseAt(turn[r])
  OBVIOUS
<1>2. Len(Order) \in Nat
  BY OrderFacts
<1>3. ASSUME NEW r \in Cards
      PROVE  /\ turn[r] \in 1..(Len(Order) + 1)
             /\ turn[r] <= Len(Order) => r \in CardsOf(Order[turn[r]])
             /\ \A j \in 1..(turn[r] - 1) : r \notin CardsOf(Order[j])
             /\ phase[r] = IF turn[r] > Len(Order) THEN "barrier" ELSE "gate"
  <2>1. 1 \in 1..(Len(Order) + 1)
    BY <1>2
  <2> QED BY <1>1, <2>1, NextLocalFacts DEF PhaseAt
<1>4. IgnType
  <2>1. turn \in [Cards -> 1..(Len(Order) + 1)]
    BY <1>3
  <2>2. phase \in [Cards -> {"gate", "wait", "barrier", "genesis", "cpu", "join"}]
    BY <1>3
  <2>3. <<>> \in Seq({"acquire", "step", "release"})
    OBVIOUS
  <2> QED BY <2>1, <2>2, <2>3 DEF IgnType, Children
<1>5. TurnInv
  <2>1. \A r \in Cards : \A i \in 1..Len(Order) : i < turn[r] => r # Master(Order[i])
    BY <1>2, <1>3, OrderFacts, CardFacts
  <2>2. \A r \in Cards : /\ phase[r] \in {"gate", "wait"} <=> turn[r] <= Len(Order)
                         /\ turn[r] <= Len(Order) => r \in CardsOf(Current(r))
                         /\ phase[r] # "wait" /\ phase[r] # "genesis"
    BY <1>2, <1>3 DEF Current
  <2>3. \A r \in Cards : \A i \in 1..Len(Order) : child[Order[i]][r] = "off"
    BY OrderFacts
  <2>4. marker = {} /\ event = {} /\ owner = "nobody" /\ phase[0] # "genesis"
    BY <2>2, CardFacts
  <2> QED BY <2>1, <2>2, <2>3, <2>4 DEF TurnInv
<1>6. StartInv
  <2>1. \A r \in Cards : resident[r] = {}
    OBVIOUS
  <2> QED BY <2>1 DEF StartInv
<1>7. TokenInv
  <2>1. \A s \in Spmd : cmds[s] = <<>> /\ done[s][Master(s)] = 0
    BY CardFacts, ServiceFacts
  <2>2. Len(<<>>) = 0
    OBVIOUS
  <2>3. \A s \in Spmd : Len(cmds[s]) = 0
    BY <2>1, <2>2
  <2> QED BY <2>1, <2>3 DEF TokenInv, Released
<1> QED BY <1>4, <1>5, <1>6, <1>7 DEF CardsInv

(* A process that goes on from "off" is the doing of its ignitor only, and *)
(* one in its loop stays there.                                            *)
LEMMA TurnByChild ==
  ASSUME IgnType, TurnInv, UNCHANGED <<turn, phase, marker>>,
         \A s \in Services : \A r \in Cards :
           (child[s][r] = "off" => child'[s][r] = "off")
             /\ (child[s][r] = "loop" => child'[s][r] = "loop"),
         \A s \in Services :
           s \in event' => s \in event \/ child'[s][Master(s)] = "loop",
         owner' = "nobody" <=> owner = "nobody"
  PROVE  TurnInv'
<1>1. \A r \in Cards : \A i \in 1..Len(Order) : Later(r, i)' => child'[Order[i]][r] = "off"
  BY OrderFacts DEF TurnInv, Later
<1>2. \A s \in Services : s \in marker' \/ s \in event' => child'[s][Master(s)] = "loop"
  BY CardFacts DEF TurnInv
<1>3. \A r \in Cards :
        /\ phase'[r] \in {"gate", "wait"} <=> turn'[r] <= Len(Order)
        /\ turn'[r] <= Len(Order) => r \in CardsOf(Current(r)')
        /\ phase'[r] = "wait" => r = Master(Current(r)')
        /\ \A i \in 1..Len(Order) :
             i < turn'[r] /\ r = Master(Order[i]) => Order[i] \in marker'
  BY DEF TurnInv, Current
<1>4. /\ phase'[0] = "genesis" \/ owner' # "nobody" => Services \subseteq marker'
      /\ owner' # "nobody" => phase'[0] \in {"cpu", "join"}
  BY DEF TurnInv
<1> QED BY <1>1, <1>2, <1>3, <1>4 DEF TurnInv

(* A card whose turn moves on has nothing to bring up in the places it     *)
(* leaves behind but what it has just brought up.                          *)
LEMMA TurnByTurn ==
  ASSUME IgnType, TurnInv, NEW r \in Cards, turn[r] <= Len(Order),
         NextTurn(r), UNCHANGED owner, marker \subseteq marker',
         r = Master(Current(r)) => Current(r) \in marker',
         \A s \in Services : \A q \in Cards :
           <<s, q>> # <<Current(r), r>> => child'[s][q] = child[s][q],
         \A s \in Services : s \in marker' \/ s \in event' => child'[s][Master(s)] = "loop"
  PROVE  TurnInv'
<1>1. /\ turn' \in [Cards -> 1..(Len(Order) + 1)]
      /\ \A q \in Cards : q # r => turn'[q] = turn[q] /\ phase'[q] = phase[q]
      /\ turn'[r] > turn[r]
      /\ \/ phase'[r] = "gate" /\ turn'[r] <= Len(Order)
            /\ r \in CardsOf(Order[turn'[r]])
         \/ phase'[r] = "barrier" /\ turn'[r] > Len(Order)
      /\ \A j \in 1..Len(Order) :
           turn[r] < j /\ j < turn'[r] => r \notin CardsOf(Order[j])
  BY NextTurnFacts
<1>2. /\ Len(Order) \in Nat /\ turn[r] \in 1..Len(Order) /\ turn'[r] \in Nat
      /\ Current(r) \in Services /\ Current(r) = Order[turn[r]]
  <2>1. Len(Order) \in Nat /\ turn[r] \in 1..(Len(Order) + 1) /\ turn'[r] \in 1..(Len(Order) + 1)
    BY <1>1, OrderFacts DEF IgnType
  <2>2. turn[r] \in 1..Len(Order) /\ turn'[r] \in Nat
    BY <2>1
  <2> QED BY <2>1, <2>2, OrderFacts DEF Current
<1>3. ASSUME NEW i \in 1..Len(Order), i < turn'[r], r = Master(Order[i])
      PROVE  Order[i] \in marker'
  <2>1. CASE i < turn[r]
    BY <2>1, <1>3 DEF TurnInv
  <2>2. CASE i = turn[r]
    BY <2>2, <1>3, <1>2
  <2>3. CASE i > turn[r]
    <3>1. r \in CardsOf(Order[i])
      BY <1>3, OrderFacts, CardFacts
    <3> QED BY <2>3, <3>1, <1>1, <1>3
  <2> QED BY <2>1, <2>2, <2>3, <1>2
<1>4. ASSUME NEW i \in 1..Len(Order), Later(r, i)'
      PROVE  child'[Order[i]][r] = "off"
  <2>1. i > turn[r]
    BY <1>1, <1>2, <1>4 DEF Later
  <2>2. child[Order[i]][r] = "off"
    BY <2>1 DEF TurnInv, Later
  <2>3. Order[i] # Current(r) /\ Order[i] \in Services
    BY <2>1, <1>2, OrderFacts
  <2> QED BY <2>2, <2>3
<1>5. ASSUME NEW q \in Cards, q # r
      PROVE  /\ phase'[q] \in {"gate", "wait"} <=> turn'[q] <= Len(Order)
             /\ turn'[q] <= Len(Order) => q \in CardsOf(Current(q)')
             /\ phase'[q] = "wait" => q = Master(Current(q)')
             /\ \A i \in 1..Len(Order) :
                  /\ i < turn'[q] /\ q = Master(Order[i]) => Order[i] \in marker'
                  /\ Later(q, i)' => child'[Order[i]][q] = "off"
  <2>1. turn'[q] = turn[q] /\ phase'[q] = phase[q]
    BY <1>1, <1>5
  <2>2. \A i \in 1..Len(Order) : child'[Order[i]][q] = child[Order[i]][q]
    BY <1>5, OrderFacts
  <2>3. Current(q)' = Current(q)
    BY <2>1 DEF Current
  <2> QED BY <2>1, <2>2, <2>3 DEF TurnInv, Later
<1>6. /\ phase'[r] \in {"gate", "wait"} <=> turn'[r] <= Len(Order)
      /\ turn'[r] <= Len(Order) => r \in CardsOf(Current(r)')
      /\ phase'[r] # "wait" /\ phase'[r] # "genesis"
  BY <1>1, <1>2 DEF Current
<1>7. /\ phase'[0] = "genesis" \/ owner' # "nobody" => Services \subseteq marker'
      /\ owner' # "nobody" => phase'[0] \in {"cpu", "join"}
  <2>1. CASE r = 0
    <3>1. phase[r] \in {"gate", "wait"} /\ ~(phase[r] \in {"cpu", "join"})
      BY <1>2 DEF TurnInv
    <3> QED BY <2>1, <3>1, <1>6 DEF TurnInv
  <2>2. CASE r # 0
    BY <2>2, <1>1, CardFacts DEF TurnInv
  <2> QED BY <2>1, <2>2
<1> QED BY <1>3, <1>4, <1>5, <1>6, <1>7 DEF TurnInv

LEMMA AtGate ==
  ASSUME IgnType, TurnInv, NEW r \in Cards, phase[r] \in {"gate", "wait"}
  PROVE  /\ turn[r] \in 1..Len(Order) /\ turn[r] <= Len(Order) /\ Current(r) \in Services
         /\ r \in CardsOf(Current(r))
         /\ phase[r] = "gate" => child[Current(r)][r] = "off"
         /\ phase[r] = "wait" => r = Master(Current(r))
<1>1. Len(Order) \in Nat /\ turn[r] \in 1..(Len(Order) + 1) /\ turn[r] <= Len(Order)
  BY OrderFacts DEF IgnType, TurnInv
<1>2. turn[r] \in 1..Len(Order)
  BY <1>1
<1>3. phase[r] = "gate" => Later(r, turn[r])
  BY DEF Later
<1> QED BY <1>1, <1>2, <1>3, OrderFacts DEF Current, TurnInv

LEMMA GateTurn ==
  ASSUME IgnType, TurnInv, NEW r \in Cards, GateAndStart(r)
  PROVE  TurnInv'
<1>1. /\ phase[r] = "gate" /\ UNCHANGED <<event, marker, owner>>
      /\ child' = IF Current(r) \in Infer /\ r # Master(Current(r)) THEN child
                  ELSE [child EXCEPT ![Current(r)][r] = "boot"]
  BY DEF GateAndStart, token
<1>2. /\ turn[r] \in 1..Len(Order) /\ Current(r) \in Services /\ child[Current(r)][r] = "off"
      /\ turn[r] <= Len(Order) /\ r \in CardsOf(Current(r))
  BY <1>1, AtGate
<1>3. \A s \in Services : \A q \in Cards :
        <<s, q>> # <<Current(r), r>> => child'[s][q] = child[s][q]
  BY <1>1 DEF IgnType
<1>4. \A s \in Services : s \in marker' \/ s \in event' => child'[s][Master(s)] = "loop"
  <2>1. \A s \in Services : s \in marker \/ s \in event => child[s][Master(s)] = "loop"
    BY DEF TurnInv
  <2> QED BY <2>1, <1>1, <1>2, <1>3, CardFacts
<1>5. CASE r # Master(Current(r))
  <2>1. NextTurn(r)
    BY <1>5 DEF GateAndStart
  <2> QED BY <2>1, <1>1, <1>2, <1>3, <1>4, <1>5, TurnByTurn
<1>6. CASE r = Master(Current(r))
  <2>1. phase' = [phase EXCEPT ![r] = "wait"] /\ UNCHANGED turn
    BY <1>6 DEF GateAndStart
  <2>2. /\ phase'[r] = "wait" /\ \A q \in Cards : q # r => phase'[q] = phase[q]
        /\ \A q \in Cards : Current(q)' = Current(q)
    BY <2>1 DEF IgnType, Current
  <2>3. ASSUME NEW q \in Cards, NEW i \in 1..Len(Order), Later(q, i)'
        PROVE  child'[Order[i]][q] = "off"
    <3>1. Later(q, i) /\ <<i, q>> # <<turn[r], r>>
      <4>1. Len(Order) \in Nat /\ turn[q] \in 1..(Len(Order) + 1)
        BY OrderFacts DEF IgnType
      <4>2. CASE q = r
        BY <4>1, <4>2, <2>1, <2>2, <2>3 DEF Later
      <4>3. CASE q # r
        BY <4>3, <2>1, <2>2, <2>3 DEF Later
      <4> QED BY <4>2, <4>3
    <3>2. child[Order[i]][q] = "off"
      BY <3>1 DEF TurnInv
    <3>3. Order[i] = Current(r) => i = turn[r]
      BY <1>2, OrderFacts DEF Current
    <3>4. Order[i] \in Services
      BY OrderFacts
    <3> QED BY <3>1, <3>2, <3>3, <3>4, <1>3
  <2>4. \A q \in Cards :
        /\ phase'[q] \in {"gate", "wait"} <=> turn'[q] <= Len(Order)
        /\ turn'[q] <= Len(Order) => q \in CardsOf(Current(q)')
        /\ phase'[q] = "wait" => q = Master(Current(q)')
        /\ \A i \in 1..Len(Order) :
             i < turn'[q] /\ q = Master(Order[i]) => Order[i] \in marker'
    BY <1>1, <1>2, <1>6, <2>1, <2>2 DEF TurnInv
  <2>5. /\ phase'[0] = "genesis" \/ owner' # "nobody" => Services \subseteq marker'
        /\ owner' # "nobody" => phase'[0] \in {"cpu", "join"}
    BY <1>1, <2>2, CardFacts DEF TurnInv
  <2> QED BY <1>4, <2>3, <2>4, <2>5 DEF TurnInv
<1> QED BY <1>5, <1>6

LEMMA ReadyTurn ==
  ASSUME IgnType, TurnInv, NEW r \in Cards, InferenceReady(r) \/ SpmdReady(r)
  PROVE  TurnInv' /\ phase[r] = "wait" /\ marker' = marker \cup {Current(r)} /\ NextTurn(r)
<1>1. /\ phase[r] = "wait" /\ marker' = marker \cup {Current(r)} /\ NextTurn(r)
      /\ UNCHANGED <<child, event, owner>>
  BY DEF InferenceReady, SpmdReady, token
<1>2. /\ turn[r] <= Len(Order) /\ Current(r) \in Services /\ r = Master(Current(r))
  BY <1>1, AtGate
<1>3. child[Current(r)][r] = "loop"
  BY <1>2 DEF InferenceReady, SpmdReady, TurnInv
<1>4. \A s \in Services : s \in marker' \/ s \in event' => child'[s][Master(s)] = "loop"
  BY <1>1, <1>2, <1>3 DEF TurnInv
<1>5. TurnInv'
  BY <1>1, <1>2, <1>4, TurnByTurn
<1> QED BY <1>1, <1>5

LEMMA Rank0Turn == IgnType /\ TurnInv /\ Rank0 => TurnInv'
<1> SUFFICES ASSUME IgnType, TurnInv, Rank0 PROVE TurnInv'
  OBVIOUS
<1>0. /\ UNCHANGED <<turn, child, event>>
      /\ \A r \in Cards : phase'[r] = phase[r]
           \/ (phase[r] \notin {"gate", "wait"} /\ phase'[r] \notin {"gate", "wait"})
      /\ marker \subseteq marker' /\ Services \cap marker' = Services \cap marker
  <2>1. CASE Barrier
    BY <2>1, CardFacts DEF Barrier
  <2>2. CASE IssueGenesis
    BY <2>2, CardFacts DEF IssueGenesis, IgnType
  <2>3. CASE StartCpu
    BY <2>3, CardFacts, ServiceFacts DEF StartCpu, IgnType
  <2> QED BY <2>1, <2>2, <2>3 DEF Rank0
<1>1. \A r \in Cards :
        /\ phase'[r] \in {"gate", "wait"} <=> turn'[r] <= Len(Order)
        /\ turn'[r] <= Len(Order) => r \in CardsOf(Current(r)')
        /\ phase'[r] = "wait" => r = Master(Current(r)')
        /\ \A i \in 1..Len(Order) :
             /\ i < turn'[r] /\ r = Master(Order[i]) => Order[i] \in marker'
             /\ Later(r, i)' => child'[Order[i]][r] = "off"
  <2> SUFFICES ASSUME NEW r \in Cards
               PROVE  /\ phase'[r] \in {"gate", "wait"} <=> turn'[r] <= Len(Order)
                      /\ turn'[r] <= Len(Order) => r \in CardsOf(Current(r)')
                      /\ phase'[r] = "wait" => r = Master(Current(r)')
                      /\ \A i \in 1..Len(Order) :
                           /\ i < turn'[r] /\ r = Master(Order[i]) => Order[i] \in marker'
                           /\ Later(r, i)' => child'[Order[i]][r] = "off"
    OBVIOUS
  <2>1. Current(r)' = Current(r) /\ turn'[r] = turn[r]
    BY <1>0 DEF Current
  <2>2. phase'[r] = phase[r]
        \/ (phase[r] \notin {"gate", "wait"} /\ phase'[r] \notin {"gate", "wait"})
    BY <1>0
  <2>3. \A i \in 1..Len(Order) : Later(r, i)' => Later(r, i)
    BY <2>1, <2>2 DEF Later
  <2> QED BY <1>0, <2>1, <2>2, <2>3 DEF TurnInv
<1>2. \A s \in Services : s \in marker' \/ s \in event' => child'[s][Master(s)] = "loop"
  BY <1>0 DEF TurnInv
<1>3. /\ phase'[0] = "genesis" \/ owner' # "nobody" => Services \subseteq marker'
      /\ owner' # "nobody" => phase'[0] \in {"cpu", "join"}
  <2>1. CASE Barrier
    <3>1. /\ \A r \in Cards : phase[r] = "barrier" /\ turn[r] > Len(Order)
          /\ marker' = marker /\ owner' = owner /\ phase'[0] = "genesis"
      <4>1. \A r \in Cards : phase[r] = "barrier" /\ ~(turn[r] <= Len(Order))
        BY <2>1 DEF Barrier, TurnInv
      <4>2. \A r \in Cards : turn[r] \in 1..(Len(Order) + 1) /\ Len(Order) \in Nat
        BY OrderFacts DEF IgnType
      <4>3. \A r \in Cards : turn[r] > Len(Order)
        BY <4>1, <4>2
      <4>4. marker' = marker /\ owner' = owner /\ phase'[0] = "genesis"
        BY <2>1, CardFacts DEF Barrier, token
      <4> QED BY <4>1, <4>3, <4>4
    <3>2. ASSUME NEW s \in Services PROVE s \in marker
      <4>1. PICK i \in 1..Len(Order) : Order[i] = s
        BY OrderFacts
      <4>2. Master(s) \in Cards /\ i < turn[Master(s)]
        <5>1. Master(s) \in Cards
          BY CardFacts
        <5>2. turn[Master(s)] \in Nat /\ Len(Order) \in Nat /\ turn[Master(s)] > Len(Order)
          BY <5>1, <3>1, OrderFacts DEF IgnType
        <5> QED BY <5>1, <5>2
      <4> QED BY <4>1, <4>2 DEF TurnInv
    <3>3. owner = "nobody"
      BY <3>1, CardFacts DEF TurnInv
    <3> QED BY <3>1, <3>2, <3>3
  <2>2. CASE IssueGenesis
    BY <2>2, <1>0, CardFacts DEF IssueGenesis, IgnType, TurnInv
  <2>3. CASE StartCpu
    BY <2>3, <1>0, CardFacts DEF StartCpu, IgnType, TurnInv, token
  <2> QED BY <2>1, <2>2, <2>3 DEF Rank0
<1> QED BY <1>1, <1>2, <1>3 DEF TurnInv

-----------------------------------------------------------------------------
(* Types.                                                                  *)

LEMMA IgniteType ==
  ASSUME IgnType, TurnInv, NEW r \in Cards, Ignite(r)
  PROVE  IgnType'
<1>1. CASE GateAndStart(r)
  <2>1. /\ turn[r] <= Len(Order) /\ Current(r) \in Services
        /\ UNCHANGED <<event, resident, owner, cmds, done>>
    BY <1>1, AtGate DEF GateAndStart, token
  <2>2. child' \in [Services -> [Cards -> Children]]
    BY <1>1, <2>1 DEF GateAndStart, IgnType, Children
  <2>3. /\ turn' \in [Cards -> 1..(Len(Order) + 1)]
        /\ phase' \in [Cards -> {"gate", "wait", "barrier", "genesis", "cpu", "join"}]
    <3>1. CASE NextTurn(r)
      BY <2>1, <3>1, NextTurnFacts
    <3>2. CASE phase' = [phase EXCEPT ![r] = "wait"] /\ UNCHANGED turn
      BY <3>2 DEF IgnType
    <3> QED BY <1>1, <3>1, <3>2 DEF GateAndStart
  <2> QED BY <2>1, <2>2, <2>3 DEF IgnType
<1>2. CASE InferenceReady(r) \/ SpmdReady(r)
  <2>1. turn[r] <= Len(Order) /\ NextTurn(r) /\ UNCHANGED <<child, event, owner, cmds, done>>
    BY <1>2, AtGate DEF InferenceReady, SpmdReady, token
  <2>2. /\ turn' \in [Cards -> 1..(Len(Order) + 1)]
        /\ phase' \in [Cards -> {"gate", "wait", "barrier", "genesis", "cpu", "join"}]
    BY <2>1, NextTurnFacts
  <2>3. resident' \in [Cards -> SUBSET Services]
    BY <1>2 DEF InferenceReady, SpmdReady, IgnType
  <2> QED BY <2>1, <2>2, <2>3 DEF IgnType
<1>3. CASE IgnitorRaises(r)
  BY <1>3 DEF IgnitorRaises, IgnType, token
<1> QED BY <1>1, <1>2, <1>3 DEF Ignite

LEMMA EnginesType ==
  ASSUME IgnType, NEW s \in Services,
         \/ ServerUp(s) \/ JoinGroup(s) \/ ExecuteStep(s)
         \/ \E r \in CardsOf(s) :
              Load(s, r) \/ Offload(s, r) \/ ExecuteMove(s, r)
                \/ ChildDies(s, r) \/ MoveFails(s, r)
  PROVE  IgnType'
<1> USE CardFacts, ServiceFacts
<1>1. CASE ServerUp(s)
  <2>1. child' \in [Services -> [Cards -> Children]] /\ resident' \in [Cards -> SUBSET Services]
    BY <1>1 DEF ServerUp, IgnType, Children
  <2> QED BY <1>1, <2>1 DEF ServerUp, IgnType, token
<1>2. CASE JoinGroup(s)
  <2>1. child' \in [Services -> [Cards -> Children]]
    BY <1>2 DEF JoinGroup, IgnType, Children
  <2> QED BY <1>2, <2>1 DEF JoinGroup, IgnType, token
<1>3. CASE ExecuteStep(s)
  <2>1. \A r \in Cards : done[s][r] \in Nat /\ done[s][r] + 1 \in Nat
    BY <1>3 DEF ExecuteStep, IgnType
  <2>2. done' \in [Spmd -> [Cards -> Nat]]
    BY <1>3, <2>1 DEF ExecuteStep, IgnType
  <2> QED BY <1>3, <2>2 DEF ExecuteStep, IgnType
<1>4. ASSUME NEW r \in CardsOf(s),
             \/ Load(s, r) \/ Offload(s, r) \/ ExecuteMove(s, r)
             \/ ChildDies(s, r) \/ MoveFails(s, r)
      PROVE  IgnType'
  <2>0. r \in Cards
    OBVIOUS
  <2>1. CASE Load(s, r)
    <3>1. child' \in [Services -> [Cards -> Children]] /\ resident' \in [Cards -> SUBSET Services]
      BY <2>0, <2>1 DEF Load, IgnType, Children
    <3> QED BY <2>1, <3>1 DEF Load, IgnType, token
  <2>2. CASE Offload(s, r)
    <3>1. child' \in [Services -> [Cards -> Children]] /\ resident' \in [Cards -> SUBSET Services]
      BY <2>0, <2>2 DEF Offload, IgnType, Children
    <3> QED BY <2>2, <3>1 DEF Offload, IgnType, token
  <2>3. CASE ExecuteMove(s, r) \/ MoveFails(s, r)
    <3>1. s \in Spmd /\ done' = [done EXCEPT ![s][r] = @ + 1]
          /\ UNCHANGED <<turn, phase, child, event, owner, cmds>>
      BY <2>3 DEF ExecuteMove, MoveFails
    <3>2. done[s][r] \in Nat /\ done[s][r] + 1 \in Nat
      <4>1. done[s][r] \in Nat
        BY <2>0, <3>1 DEF IgnType
      <4> QED BY <4>1
    <3>3. done' \in [Spmd -> [Cards -> Nat]]
      BY <2>0, <3>1, <3>2 DEF IgnType
    <3>4. resident' \in [Cards -> SUBSET Services]
      <4>1. resident[r] \in SUBSET Services /\ resident \in [Cards -> SUBSET Services]
        BY <2>0 DEF IgnType
      <4>2. \/ UNCHANGED resident
            \/ resident' = [resident EXCEPT ![r] = resident[r] \cup {s}]
            \/ resident' = [resident EXCEPT ![r] = resident[r] \ {s}]
        BY <2>3 DEF ExecuteMove, MoveFails
      <4> QED BY <2>0, <4>1, <4>2
    <3> QED BY <3>1, <3>3, <3>4 DEF IgnType
  <2>4. CASE ChildDies(s, r)
    <3>1. child' \in [Services -> [Cards -> Children]]
      BY <2>0, <2>4 DEF ChildDies, IgnType, Children
    <3> QED BY <2>4, <3>1 DEF ChildDies, IgnType, token
  <2> QED BY <1>4, <2>1, <2>2, <2>3, <2>4
<1> QED BY <1>1, <1>2, <1>3, <1>4

LEMMA TokenType == IgnType /\ Token => IgnType'
<1> SUFFICES ASSUME IgnType, Token PROVE IgnType'
  OBVIOUS
<1> USE ServiceFacts
<1>1. CASE RestoreServers
  <2>1. resident' \in [Cards -> SUBSET Services]
    BY <1>1 DEF RestoreServers, IgnType
  <2> QED BY <1>1, <2>1 DEF RestoreServers, IgnType
<1>2. ASSUME NEW s \in Spmd, HandOver(s) \/ SubmitStep(s) \/ SubmitRelease(s) \/ ReturnToken(s)
      PROVE  IgnType'
  <2>1. \A c \in {"acquire", "step", "release"} :
          Broadcast(s, c) => cmds' \in [Spmd -> Seq({"acquire", "step", "release"})]
    BY DEF Broadcast, IgnType
  <2>2. CASE HandOver(s)
    <3>1. resident' \in [Cards -> SUBSET Services]
      BY <2>2 DEF HandOver, IgnType
    <3> QED BY <2>1, <2>2, <3>1 DEF HandOver, IgnType
  <2>3. CASE SubmitStep(s) \/ SubmitRelease(s)
    BY <2>1, <2>3 DEF SubmitStep, SubmitRelease, IgnType
  <2>4. CASE ReturnToken(s)
    BY <2>4 DEF ReturnToken, IgnType
  <2> QED BY <1>2, <2>2, <2>3, <2>4
<1> QED BY <1>1, <1>2 DEF Token

LEMMA Rank0Type == IgnType /\ Rank0 => IgnType'
<1> SUFFICES ASSUME IgnType, Rank0 PROVE IgnType'
  OBVIOUS
<1> QED BY CardFacts DEF Rank0, Barrier, IssueGenesis, StartCpu, IgnType, token

-----------------------------------------------------------------------------
(* What is on the cards.                                                   *)

(* A step that puts nothing on a card and leaves the token alone.          *)
LEMMA NothingAdded ==
  ASSUME IgnType, CardsInv, UNCHANGED <<owner, serving, cmds, done>>,
         \A r \in Cards : resident'[r] \subseteq resident[r],
         \A s \in Services : \A r \in Cards : child[s][r] # "off" => child'[s][r] # "off",
         \A r \in Cards : \A s \in resident'[r] :
           Whole(r) /\ s \in Shared /\ s \in marker' => s \in marker,
         owner = "nobody" =>
           \A s \in event' : s \in event \/ s \notin resident'[Master(s)],
         event' \subseteq Services
  PROVE  CardsInv'
<1>1. StartInv'
  <2>1. \A r \in Cards : \A s \in resident'[r] : s \in resident[r] /\ r \in CardsOf(s)
    BY DEF CardsInv, StartInv
  <2>2. owner' = "nobody" => \A s \in Spmd : cmds'[s] = <<>>
    BY DEF CardsInv, StartInv
  <2>3. ASSUME NEW r \in Cards, Whole(r), NEW s \in resident'[r], owner' = "nobody"
        PROVE  child'[s][r] # "off" /\ (s \in Shared => s \notin marker')
    <3>1. s \in resident[r] /\ s \in Services
      BY <2>1 DEF IgnType
    <3>2. child[s][r] # "off" /\ (s \in Shared => s \notin marker)
      BY <3>1, <2>3 DEF CardsInv, StartInv
    <3> QED BY <3>1, <3>2, <2>3
  <2>4. ASSUME NEW s \in event', owner' = "nobody" PROVE s \notin resident'[Master(s)]
    BY <2>1, <2>4, CardFacts DEF CardsInv, StartInv
  <2> QED BY <2>1, <2>2, <2>3, <2>4 DEF StartInv, Whole
<1>2. TokenInv'
  <2>1. \A s \in Spmd : Released(s)' <=> Released(s)
    BY DEF Released, LastCommand
  <2> QED BY <2>1 DEF CardsInv, TokenInv, Whole
<1> QED BY <1>1, <1>2 DEF CardsInv

LEMMA IgniteCards ==
  ASSUME IgnType, TurnInv, CardsInv, NEW r \in Cards, Ignite(r)
  PROVE  CardsInv'
<1> USE ServiceFacts
<1>1. UNCHANGED <<owner, serving, cmds, done, event>> /\ event' \subseteq Services
  BY DEF Ignite, GateAndStart, InferenceReady, SpmdReady, IgnitorRaises, token, IgnType
<1>2. CASE GateAndStart(r) \/ IgnitorRaises(r)
  <2>1. UNCHANGED <<resident, marker>>
    BY <1>2 DEF GateAndStart, IgnitorRaises
  <2>2. \A s \in Services : \A q \in Cards : child[s][q] # "off" => child'[s][q] # "off"
    <3>1. child' = child \/ child' = [child EXCEPT ![Current(r)][r] = "boot"]
      BY <1>2 DEF GateAndStart, IgnitorRaises
    <3>2. Current(r) \in Services
      <4>1. phase[r] \in {"gate", "wait"}
        BY <1>2 DEF GateAndStart, IgnitorRaises
      <4> QED BY <4>1, AtGate
    <3>3. ASSUME NEW s \in Services, NEW q \in Cards
          PROVE  child'[s][q] = child[s][q] \/ child'[s][q] = "boot"
      <4>1. CASE s = Current(r)
        BY <3>1, <3>2, <4>1 DEF IgnType
      <4>2. CASE s # Current(r)
        BY <3>1, <4>2 DEF IgnType
      <4> QED BY <4>1, <4>2
    <3> QED BY <3>3
  <2> QED BY <1>1, <2>1, <2>2, NothingAdded
<1>3. CASE InferenceReady(r)
  <2>1. /\ UNCHANGED child /\ marker' = marker \cup {Current(r)}
        /\ resident' = [q \in Cards |-> resident[q] \ ({Current(r)} \cap Shared)]
    BY <1>3 DEF InferenceReady
  <2>2. /\ \A q \in Cards : resident'[q] \subseteq resident[q]
        /\ \A q \in Cards : \A s \in resident'[q] :
             Whole(q) /\ s \in Shared /\ s \in marker' => s \in marker
    BY <2>1
  <2> QED BY <1>1, <2>1, <2>2, NothingAdded
<1>4. CASE SpmdReady(r)
  <2>1. UNCHANGED <<child, resident>> /\ marker' = marker \cup {Current(r)} /\ Current(r) \in event
    BY <1>4 DEF SpmdReady
  <2>2. \A s \in Services : \A q \in Cards : child[s][q] # "off" => child'[s][q] # "off"
    BY <2>1
  <2>3. CASE owner = "nobody"
    <3>1. ASSUME NEW q \in Cards, NEW s \in resident'[q], Whole(q), s = Current(r) PROVE FALSE
      <4>1. s \in resident[q] /\ s \in event /\ s \in Services
        BY <2>1, <3>1 DEF IgnType
      <4>2. Master(s) = q
        BY <4>1, <3>1 DEF Whole, CardsInv, StartInv
      <4> QED BY <4>1, <4>2, <2>3 DEF CardsInv, StartInv
    <3> QED BY <1>1, <2>1, <2>2, <3>1, NothingAdded
  <2>4. CASE owner # "nobody"
    <3>1. marker \cap Services = marker' \cap Services
      <4>1. Services \subseteq marker
        BY <2>4 DEF TurnInv
      <4> QED BY <4>1, <2>1
    <3>2. \A q \in Cards : \A s \in resident'[q] : s \in Services
      BY <2>1 DEF IgnType
    <3> QED BY <1>1, <2>1, <2>2, <3>1, <3>2, NothingAdded
  <2> QED BY <2>3, <2>4
<1> QED BY <1>2, <1>3, <1>4 DEF Ignite

LEMMA Rank0Cards == IgnType /\ TurnInv /\ CardsInv /\ Rank0 => CardsInv'
<1> SUFFICES ASSUME IgnType, TurnInv, CardsInv, Rank0 PROVE CardsInv'
  OBVIOUS
<1> USE ServiceFacts
<1>1. UNCHANGED <<child, event, resident, serving, cmds, done>>
  BY DEF Rank0, Barrier, IssueGenesis, StartCpu, token
<1>2. event' \subseteq Services /\ \A r \in Cards : \A s \in resident'[r] : s \in Services
  BY <1>1 DEF IgnType
<1>3. CASE Barrier \/ StartCpu
  <2>1. marker' = marker \/ marker' = marker \cup {Cpu}
    BY <1>3 DEF Barrier, StartCpu
  <2>2. owner' = owner
    BY <1>3 DEF Barrier, StartCpu, token
  <2>3. \A r \in Cards : \A s \in resident'[r] : s \in marker' => s \in marker
    BY <1>2, <2>1
  <2> QED BY <1>1, <1>2, <2>2, <2>3, NothingAdded
<1>4. CASE IssueGenesis
  <2>1. owner' = "infer" /\ owner = "nobody" /\ Services \subseteq marker /\ UNCHANGED marker
    BY <1>4, CardFacts DEF IssueGenesis, TurnInv
  <2>2. StartInv'
    BY <1>1, <2>1 DEF CardsInv, StartInv
  <2>3. \A s \in Spmd : Released(s)' <=> Released(s)
    BY <1>1 DEF Released, LastCommand
  <2>4. \A s \in Spmd : owner # s
    BY <2>1
  <2>5. \A r \in Cards : Whole(r) => \A s \in Services : s \in Shared => s \notin resident[r]
    BY <2>1 DEF CardsInv, StartInv
  <2>6. /\ \A s \in Spmd : s \in Services /\ s \in Shared
        /\ \A s \in RingInfer : s \in Services /\ s \in Shared
    BY DEF RingInfer
  <2>7. TokenInv'
    BY <1>1, <2>1, <2>3, <2>4, <2>5, <2>6 DEF CardsInv, TokenInv, Whole
  <2> QED BY <2>2, <2>7 DEF CardsInv
<1> QED BY <1>3, <1>4 DEF Rank0

-----------------------------------------------------------------------------
(* The engines.                                                            *)

(* A master that is not in its loop has no marker, and there is no token.  *)
LEMMA MasterNotUp ==
  ASSUME IgnType, TurnInv, NEW s \in Services, child[s][Master(s)] # "loop"
  PROVE  s \notin marker /\ s \notin event /\ owner = "nobody"
BY DEF TurnInv

LEMMA ServerUpKeeps ==
  ASSUME IgnType, TurnInv, CardsInv, NEW s \in Services, ServerUp(s)
  PROVE  TurnInv' /\ CardsInv'
<1> USE CardFacts, ServiceFacts
<1>1. /\ s \in Infer /\ child[s][Master(s)] = "boot"
      /\ child' = [child EXCEPT ![s][Master(s)] = "loop"]
      /\ resident' = [r \in Cards |->
           IF r \in CardsOf(s) THEN resident[r] \cup {s} ELSE resident[r]]
      /\ UNCHANGED <<turn, phase, event, marker, owner, serving, cmds, done>>
  BY DEF ServerUp, token
<1>2. s \notin marker /\ s \notin event /\ owner = "nobody"
  BY <1>1, MasterNotUp
<1>3. \A t \in Services : \A r \in Cards :
        child'[t][r] = IF t = s /\ r = Master(s) THEN "loop" ELSE child[t][r]
  BY <1>1 DEF IgnType
<1>4. TurnInv'
  BY <1>1, <1>3, TurnByChild
<1>5. StartInv'
  <2>1. \A r \in Cards : \A t \in resident'[r] :
          t \in Services /\ (t \in resident[r] \/ (t = s /\ r \in CardsOf(s)))
    BY <1>1 DEF IgnType
  <2>2. \A r \in Cards : \A t \in resident'[r] : r \in CardsOf(t)
    BY <2>1 DEF CardsInv, StartInv
  <2>3. ASSUME NEW r \in Cards, Whole(r), NEW t \in resident'[r]
        PROVE  child'[t][r] # "off" /\ (t \in Shared => t \notin marker')
    <3>1. CASE t = s
      BY <2>2, <2>3, <3>1, <1>1, <1>2, <1>3 DEF Whole
    <3>2. CASE t # s
      BY <2>1, <2>3, <3>2, <1>1, <1>2, <1>3 DEF CardsInv, StartInv
    <3> QED BY <3>1, <3>2
  <2>4. \A t \in event' : t \notin resident'[Master(t)]
    BY <2>1, <1>1, <1>2 DEF CardsInv, StartInv, IgnType
  <2>5. \A t \in Spmd : cmds'[t] = <<>>
    BY <1>1, <1>2 DEF CardsInv, StartInv
  <2> QED BY <2>2, <2>3, <2>4, <2>5 DEF StartInv, Whole
<1>6. TokenInv'
  <2>1. \A t \in Spmd : Released(t)' <=> Released(t)
    BY <1>1 DEF Released, LastCommand
  <2> QED BY <1>1, <1>2, <2>1 DEF CardsInv, TokenInv
<1> QED BY <1>4, <1>5, <1>6 DEF CardsInv

LEMMA JoinGroupKeeps ==
  ASSUME IgnType, TurnInv, CardsInv, NEW s \in Services, JoinGroup(s)
  PROVE  TurnInv' /\ CardsInv'
<1> USE CardFacts, ServiceFacts
<1>1. /\ UNCHANGED <<turn, phase, event, marker, resident, owner, serving, cmds, done>>
      /\ \A t \in Services : \A r \in Cards :
           child'[t][r] = IF t = s /\ r \in CardsOf(s) THEN "group" ELSE child[t][r]
      /\ \A r \in CardsOf(s) : child[s][r] = "boot"
  BY DEF JoinGroup, token, IgnType
<1>2. \A t \in Services : \A r \in Cards :
        /\ child[t][r] = "off" => child'[t][r] = "off"
        /\ child[t][r] = "loop" => child'[t][r] = "loop"
        /\ child[t][r] # "off" => child'[t][r] # "off"
  BY <1>1
<1>3. TurnInv'
  BY <1>1, <1>2, TurnByChild
<1>4. CardsInv'
  <2>1. event' \subseteq Services
    BY <1>1 DEF IgnType
  <2> QED BY <1>1, <1>2, <2>1, NothingAdded
<1> QED BY <1>3, <1>4

LEMMA LoadKeeps ==
  ASSUME IgnType, TurnInv, CardsInv, NEW s \in Services, NEW q \in CardsOf(s), Load(s, q)
  PROVE  TurnInv' /\ CardsInv'
<1> USE CardFacts, ServiceFacts
<1>0. q \in Cards
  OBVIOUS
<1>1. /\ s \in Spmd /\ child[s][q] = "group"
      /\ resident' = [resident EXCEPT ![q] = @ \cup {s}]
      /\ UNCHANGED <<turn, phase, event, marker, owner, serving, cmds, done>>
  BY DEF Load, token
<1>2. \A t \in Services : \A r \in Cards :
        child'[t][r] = IF t = s /\ r = q THEN "loaded" ELSE child[t][r]
  BY <1>0 DEF Load, IgnType
<1>3. TurnInv'
  BY <1>1, <1>2, TurnByChild
<1>4. q = Master(s) => s \notin marker /\ s \notin event /\ owner = "nobody"
  BY <1>1, MasterNotUp
<1>5. \A r \in Cards : \A t \in resident'[r] :
        t \in Services /\ (t \in resident[r] \/ (t = s /\ r = q))
  BY <1>0, <1>1 DEF IgnType
<1>6. \A r \in Cards : \A t \in resident'[r] : r \in CardsOf(t)
  BY <1>5 DEF CardsInv, StartInv
<1>7. \A r \in Cards : Whole(r) /\ r = q => r = Master(s)
  BY DEF Whole
<1>8. StartInv'
  <2>1. owner' = "nobody" => \A t \in Spmd : cmds'[t] = <<>>
    BY <1>1 DEF CardsInv, StartInv
  <2>2. ASSUME NEW r \in Cards, Whole(r), NEW t \in resident'[r], owner' = "nobody"
        PROVE  child'[t][r] # "off" /\ (t \in Shared => t \notin marker')
    <3>1. CASE t = s /\ r = q
      BY <2>2, <3>1, <1>1, <1>2, <1>4, <1>7
    <3>2. CASE ~(t = s /\ r = q)
      BY <2>2, <3>2, <1>1, <1>2, <1>5 DEF CardsInv, StartInv
    <3> QED BY <3>1, <3>2
  <2>3. ASSUME NEW t \in event', owner' = "nobody" PROVE t \notin resident'[Master(t)]
    <3>1. t \in event /\ t \in Services /\ t \notin resident[Master(t)]
      BY <2>3, <1>1 DEF CardsInv, StartInv, IgnType
    <3> QED BY <3>1, <1>4, <1>5
  <2> QED BY <1>6, <2>1, <2>2, <2>3 DEF StartInv, Whole
<1>9. TokenInv'
  <2>1. \A t \in Spmd : Released(t)' <=> Released(t)
    BY <1>1 DEF Released, LastCommand
  <2>2. owner # "nobody" => \A r \in Cards : Whole(r) => resident'[r] = resident[r]
    BY <1>0, <1>1, <1>4, <1>7 DEF IgnType
  <2> QED BY <1>1, <2>1, <2>2 DEF CardsInv, TokenInv, Whole
<1> QED BY <1>3, <1>8, <1>9 DEF CardsInv

LEMMA OffloadKeeps ==
  ASSUME IgnType, TurnInv, CardsInv, NEW s \in Services, NEW q \in CardsOf(s), Offload(s, q)
  PROVE  TurnInv' /\ CardsInv'
<1> USE CardFacts, ServiceFacts
<1>0. q \in Cards
  OBVIOUS
<1>1. /\ s \in Spmd /\ child[s][q] = "loaded"
      /\ resident' = [resident EXCEPT ![q] = @ \ {s}]
      /\ event' = IF q = Master(s) THEN event \cup {s} ELSE event
      /\ UNCHANGED <<turn, phase, marker, owner, serving, cmds, done>>
  BY DEF Offload, token
<1>2. \A t \in Services : \A r \in Cards :
        child'[t][r] = IF t = s /\ r = q THEN "loop" ELSE child[t][r]
  BY <1>0 DEF Offload, IgnType
<1>3. \A t \in Services : t \in event' => t \in event \/ child'[t][Master(t)] = "loop"
  BY <1>1, <1>2
<1>4. TurnInv'
  BY <1>1, <1>2, <1>3, TurnByChild
<1>5. /\ \A r \in Cards : resident'[r] \subseteq resident[r]
      /\ s \notin resident'[q] /\ event' \subseteq Services
  BY <1>0, <1>1 DEF IgnType
<1>6. \A t \in event' : t \in event \/ t \notin resident'[Master(t)]
  BY <1>1, <1>5
<1>7. CardsInv'
  BY <1>1, <1>2, <1>5, <1>6, NothingAdded
<1> QED BY <1>4, <1>7

LEMMA ChildDiesKeeps ==
  ASSUME IgnType, TurnInv, CardsInv, NEW s \in Services, NEW q \in CardsOf(s),
         ChildDies(s, q)
  PROVE  TurnInv' /\ CardsInv'
<1> USE CardFacts, ServiceFacts
<1>0. q \in Cards
  OBVIOUS
<1>1. /\ child[s][q] \in {"boot", "group"}
      /\ UNCHANGED <<turn, phase, event, marker, resident, owner, serving, cmds, done>>
  BY DEF ChildDies, token
<1>2. \A t \in Services : \A r \in Cards :
        child'[t][r] = IF t = s /\ r = q THEN "dead" ELSE child[t][r]
  BY <1>0 DEF ChildDies, IgnType
<1>3. TurnInv'
  BY <1>1, <1>2, TurnByChild
<1>4. event' \subseteq Services
  BY <1>1 DEF IgnType
<1>5. CardsInv'
  BY <1>1, <1>2, <1>4, NothingAdded
<1> QED BY <1>3, <1>5

(* A rank that has a command to execute: there is a token, and if it is the*)
(* master, its engine owns it.                                             *)
LEMMA CommandPending ==
  ASSUME IgnType, CardsInv, NEW s \in Spmd, NEW q \in CardsOf(s),
         NextCommand(s, q) # "none"
  PROVE  /\ owner # "nobody" /\ done[s][q] \in Nat /\ Len(cmds[s]) \in Nat
         /\ done[s][q] < Len(cmds[s]) /\ NextCommand(s, q) = cmds[s][done[s][q] + 1]
         /\ q = Master(s) => owner = s
<1>1. q \in Cards /\ s \in Services
  BY CardFacts, ServiceFacts
<1>2. done[s][q] \in Nat /\ cmds[s] \in Seq({"acquire", "step", "release"})
  BY <1>1 DEF IgnType
<1>3. done[s][q] < Len(cmds[s]) /\ NextCommand(s, q) = cmds[s][done[s][q] + 1]
  BY DEF NextCommand
<1>4. Len(cmds[s]) \in Nat
  BY <1>2
<1>5. owner # "nobody"
  <2>1. SUFFICES ASSUME owner = "nobody" PROVE FALSE
    OBVIOUS
  <2>2. cmds[s] = <<>>
    BY <2>1 DEF CardsInv, StartInv
  <2>3. Len(cmds[s]) = 0
    BY <2>2
  <2> QED BY <2>3, <1>2, <1>3
<1>6. q = Master(s) => owner = s
  <2>1. q = Master(s) /\ owner # s => done[s][q] = Len(cmds[s])
    BY DEF CardsInv, TokenInv, Released
  <2> QED BY <2>1, <1>2, <1>3, <1>4
<1> QED BY <1>2, <1>3, <1>4, <1>5, <1>6

(* The token is at s: what holds of the engines of the others stays.       *)
LEMMA TokenAt ==
  ASSUME IgnType, CardsInv, NEW s \in Spmd, owner # "nobody", owner' = s,
         \A r \in Cards : Whole(r) =>
           /\ \A t \in RingInfer : t \notin resident'[r]
           /\ \A t \in Spmd : t # s /\ t \in resident'[r] => t \in resident[r]
           /\ r = Master(s) /\ Released(s)' => s \notin resident'[r],
         \A r \in Cards : \A t \in resident'[r] : r \in CardsOf(t),
         \A t \in Spmd : t # s => Released(t)
           /\ cmds'[t] = cmds[t] /\ done'[t][Master(t)] = done[t][Master(t)],
         done'[s][Master(s)] <= Len(cmds'[s])
  PROVE  CardsInv'
<1>1. \A t \in Spmd : t # s => (Released(t)' <=> Released(t))
  BY DEF Released, LastCommand
<1>2. \A t \in Spmd : done'[t][Master(t)] <= Len(cmds'[t])
  BY DEF CardsInv, TokenInv
<1>3. s # "nobody" /\ s # "infer"
  BY ServiceFacts
<1>4. StartInv'
  BY <1>3 DEF StartInv
<1>5. \A r \in Cards : Whole(r) =>
        /\ \A t \in Spmd : r = Master(t) /\ Released(t)' => t \notin resident'[r]
        /\ \A t \in RingInfer : t \notin resident'[r]
  BY <1>1 DEF CardsInv, TokenInv
<1>6. TokenInv'
  BY <1>1, <1>2, <1>5 DEF TokenInv, Whole
<1> QED BY <1>4, <1>6 DEF CardsInv

LEMMA NotOnCard ==
  ASSUME IgnType, CardsInv, NEW s \in Spmd, owner = s
  PROVE  \A r \in Cards : Whole(r) => \A t \in RingInfer : t \notin resident[r]
BY ServiceFacts DEF CardsInv, TokenInv

LEMMA MoveKeeps ==
  ASSUME IgnType, TurnInv, CardsInv, NEW s \in Services, NEW q \in CardsOf(s),
         ExecuteMove(s, q) \/ MoveFails(s, q)
  PROVE  TurnInv' /\ CardsInv'
<1> USE CardFacts, ServiceFacts
<1>0. q \in Cards
  OBVIOUS
<1>1. /\ s \in Spmd /\ NextCommand(s, q) \in {"acquire", "release"}
      /\ done' = [done EXCEPT ![s][q] = @ + 1]
      /\ UNCHANGED <<turn, phase, child, event, marker, owner, serving, cmds>>
  BY DEF ExecuteMove, MoveFails
<1>2. TurnInv'
  BY <1>1, TurnByChild
<1>3. /\ owner # "nobody" /\ done[s][q] \in Nat /\ Len(cmds[s]) \in Nat
      /\ done[s][q] < Len(cmds[s]) /\ NextCommand(s, q) = cmds[s][done[s][q] + 1]
      /\ q = Master(s) => owner = s
  BY <1>1, CommandPending
<1>4. /\ \A t \in Spmd : t # s => done'[t] = done[t]
      /\ done'[s][q] = done[s][q] + 1
      /\ \A r \in Cards : r # q => done'[s][r] = done[s][r]
  BY <1>0, <1>1 DEF IgnType
<1>5. /\ \A r \in Cards : r # q => resident'[r] = resident[r]
      /\ \A r \in Cards : \A t \in resident'[r] : t \in resident[r] \/ (t = s /\ r = q)
      /\ ExecuteMove(s, q) /\ NextCommand(s, q) # "acquire" => s \notin resident'[q]
  <2>1. CASE ExecuteMove(s, q)
    BY <2>1, <1>0 DEF ExecuteMove, IgnType
  <2>2. CASE MoveFails(s, q)
    <3>1. UNCHANGED resident
      BY <2>2 DEF MoveFails
    <3>2. CASE ExecuteMove(s, q)
      BY <3>2, <1>0 DEF ExecuteMove, IgnType
    <3> QED BY <3>1, <3>2
  <2> QED BY <2>1, <2>2
<1>6. \A r \in Cards : \A t \in resident'[r] : r \in CardsOf(t)
  BY <1>5 DEF CardsInv, StartInv
<1>7. CASE q = Master(s)
  <2>0. ExecuteMove(s, q)
    BY <1>7 DEF MoveFails
  <2>1. owner = s /\ owner' = s /\ done'[s][q] <= Len(cmds'[s])
    BY <1>1, <1>3, <1>4, <1>7
  <2>2. ASSUME Released(s)' PROVE s \notin resident'[q]
    <3>1. done'[s][Master(s)] = Len(cmds[s]) /\ (cmds[s] = <<>> \/ cmds[s][Len(cmds[s])] = "release")
      BY <2>2, <1>1 DEF Released, LastCommand
    <3>2. done[s][q] + 1 = Len(cmds[s]) /\ cmds[s] # <<>>
      <4>1. cmds[s] = <<>> => Len(cmds[s]) = 0
        OBVIOUS
      <4> QED BY <3>1, <4>1, <1>3, <1>4, <1>7
    <3>3. NextCommand(s, q) = "release"
      BY <3>1, <3>2, <1>3
    <3> QED BY <3>3, <2>0, <1>5
  <2>3. \A t \in Spmd : t # s => Released(t)
          /\ cmds'[t] = cmds[t] /\ done'[t][Master(t)] = done[t][Master(t)]
    BY <2>1, <1>1, <1>4 DEF CardsInv, TokenInv
  <2>4. \A r \in Cards : Whole(r) =>
           /\ \A t \in RingInfer : t \notin resident'[r]
           /\ \A t \in Spmd : t # s /\ t \in resident'[r] => t \in resident[r]
           /\ r = Master(s) /\ Released(s)' => s \notin resident'[r]
    BY <2>1, <2>2, <1>1, <1>5, <1>7, NotOnCard
  <2>5. CardsInv'
    <3>1. owner # "nobody" /\ owner' = s /\ done'[s][Master(s)] <= Len(cmds'[s])
      BY <1>3, <1>7, <2>1
    <3> QED BY <1>1, <1>6, <2>3, <2>4, <3>1, TokenAt
  <2> QED BY <1>2, <2>5
<1>8. CASE q # Master(s)
  <2>1. \A r \in Cards : Whole(r) => r # q
    BY <1>8 DEF Whole
  <2>2. \A t \in Spmd : done'[t][Master(t)] = done[t][Master(t)]
    BY <1>4, <1>8
  <2>3. \A t \in Spmd : Released(t)' <=> Released(t)
    BY <1>1, <2>2 DEF Released, LastCommand
  <2>4. StartInv'
    BY <1>1, <1>3, <1>6 DEF StartInv
  <2>5. TokenInv'
    BY <1>1, <1>5, <2>1, <2>2, <2>3 DEF CardsInv, TokenInv, Whole
  <2> QED BY <1>2, <2>4, <2>5 DEF CardsInv
<1> QED BY <1>7, <1>8

LEMMA StepKeeps ==
  ASSUME IgnType, TurnInv, CardsInv, NEW s \in Services, ExecuteStep(s)
  PROVE  TurnInv' /\ CardsInv'
<1> USE CardFacts, ServiceFacts
<1>1. /\ s \in Spmd /\ \A r \in CardsOf(s) : NextCommand(s, r) = "step"
      /\ done' = [done EXCEPT ![s] =
           [r \in Cards |-> IF r \in CardsOf(s) THEN @[r] + 1 ELSE @[r]]]
      /\ UNCHANGED <<turn, phase, child, event, marker, resident, owner, serving, cmds>>
  BY DEF ExecuteStep, AtStep
<1>2. TurnInv'
  BY <1>1, TurnByChild
<1>3. PICK q : q = Master(s)
  OBVIOUS
<1>4. /\ owner = s /\ done[s][q] \in Nat /\ Len(cmds[s]) \in Nat
      /\ done[s][q] < Len(cmds[s]) /\ cmds[s][done[s][q] + 1] = "step"
      /\ q \in CardsOf(s) /\ q \in Cards
  BY <1>1, <1>3, CommandPending
<1>5. /\ \A t \in Spmd : t # s => done'[t] = done[t]
      /\ done'[s][q] = done[s][q] + 1
  BY <1>1, <1>4 DEF IgnType
<1>6. ~Released(s)'
  <2>1. Released(s)' => done[s][q] + 1 = Len(cmds[s]) /\ (cmds[s] = <<>> \/ cmds[s][Len(cmds[s])] = "release")
    BY <1>1, <1>3, <1>5 DEF Released, LastCommand
  <2>2. cmds[s] = <<>> => Len(cmds[s]) = 0
    OBVIOUS
  <2>3. cmds[s] # <<>>
    BY <2>2, <1>4
  <2> QED BY <2>1, <2>3, <1>4
<1>7. \A t \in Spmd : t # s => Released(t)
        /\ cmds'[t] = cmds[t] /\ done'[t][Master(t)] = done[t][Master(t)]
  BY <1>1, <1>4, <1>5 DEF CardsInv, TokenInv
<1>8. done'[s][Master(s)] <= Len(cmds'[s])
  BY <1>1, <1>3, <1>4, <1>5
<1>9. \A r \in Cards : \A t \in resident'[r] : r \in CardsOf(t)
  BY <1>1 DEF CardsInv, StartInv
<1>10. owner # "nobody" /\ owner' = s
  BY <1>1, <1>4
<1>11. CardsInv'
  BY <1>1, <1>4, <1>6, <1>7, <1>8, <1>9, <1>10, NotOnCard, TokenAt
<1> QED BY <1>2, <1>11

-----------------------------------------------------------------------------
(* The token.                                                              *)

(* The master of an engine that is sent a command has one to execute.      *)
LEMMA CommandSubmitted ==
  ASSUME IgnType, CardsInv, NEW s \in Spmd,
         NEW c \in {"acquire", "step", "release"}, Broadcast(s, c), UNCHANGED done
  PROVE  /\ ~Released(s)' /\ done'[s][Master(s)] <= Len(cmds'[s])
         /\ \A t \in Spmd : t # s => cmds'[t] = cmds[t]
<1>0. s \in Services /\ Master(s) \in Cards
  BY CardFacts, ServiceFacts
<1>1. cmds[s] \in Seq({"acquire", "step", "release"}) /\ done[s][Master(s)] \in Nat
  BY <1>0 DEF IgnType
<1>2. cmds'[s] = Append(cmds[s], c) /\ \A t \in Spmd : t # s => cmds'[t] = cmds[t]
  BY DEF Broadcast, IgnType
<1>3. Len(cmds'[s]) = Len(cmds[s]) + 1 /\ Len(cmds[s]) \in Nat
  BY <1>1, <1>2
<1>4. done[s][Master(s)] <= Len(cmds[s])
  BY DEF CardsInv, TokenInv
<1>5. done'[s][Master(s)] # Len(cmds'[s]) /\ done'[s][Master(s)] <= Len(cmds'[s])
  BY <1>1, <1>3, <1>4
<1> QED BY <1>2, <1>5 DEF Released

LEMMA TokenKeeps == IgnType /\ TurnInv /\ CardsInv /\ Token => TurnInv' /\ CardsInv'
<1> SUFFICES ASSUME IgnType, TurnInv, CardsInv, Token PROVE TurnInv' /\ CardsInv'
  OBVIOUS
<1> USE CardFacts, ServiceFacts
<1>1. UNCHANGED <<turn, phase, child, event, marker, done>>
  BY DEF Token, RestoreServers, HandOver, SubmitStep, SubmitRelease, ReturnToken
<1>2. /\ owner # "nobody" /\ owner' # "nobody"
  BY DEF Token, RestoreServers, HandOver, SubmitStep, SubmitRelease, ReturnToken
<1>3. TurnInv'
  BY <1>1, <1>2, TurnByChild
<1>4. \A r \in Cards : \A t \in resident[r] : t \in Services /\ r \in CardsOf(t)
  BY DEF CardsInv, StartInv, IgnType
<1>5. CASE RestoreServers
  <2>1. /\ owner = "infer" /\ owner' = "infer" /\ serving' /\ UNCHANGED cmds
        /\ resident' = [r \in Cards |->
             resident[r] \cup {s \in RingInfer : r \in CardsOf(s)}]
    BY <1>5 DEF RestoreServers
  <2>2. StartInv'
    BY <1>4, <2>1 DEF StartInv
  <2>3. \A s \in Spmd : Released(s)' <=> Released(s)
    BY <1>1, <2>1 DEF Released, LastCommand
  <2>4. \A r \in Cards : \A s \in Spmd : s \in resident'[r] => s \in resident[r]
    BY <2>1
  <2>5. TokenInv'
    BY <1>1, <1>2, <2>1, <2>3, <2>4 DEF CardsInv, TokenInv, Whole
  <2> QED BY <1>3, <2>2, <2>5 DEF CardsInv
<1>6. ASSUME NEW s \in Spmd, HandOver(s) PROVE CardsInv'
  <2>1. /\ owner = "infer" /\ owner' = s /\ Broadcast(s, "acquire")
        /\ resident' = [r \in Cards |-> resident[r] \ RingInfer]
    BY <1>6 DEF HandOver
  <2>2. /\ ~Released(s)' /\ done'[s][Master(s)] <= Len(cmds'[s])
        /\ \A t \in Spmd : t # s => cmds'[t] = cmds[t]
    BY <1>1, <2>1, CommandSubmitted
  <2>3. \A t \in Spmd : t # s => Released(t)
          /\ cmds'[t] = cmds[t] /\ done'[t][Master(t)] = done[t][Master(t)]
    BY <1>1, <2>1, <2>2 DEF CardsInv, TokenInv
  <2>4. /\ \A r \in Cards : \A t \in RingInfer : t \notin resident'[r]
        /\ \A r \in Cards : \A t \in resident'[r] : t \in resident[r] /\ r \in CardsOf(t)
    BY <1>4, <2>1
  <2> QED BY <1>2, <2>1, <2>2, <2>3, <2>4, TokenAt
<1>7. ASSUME NEW s \in Spmd, SubmitStep(s) \/ SubmitRelease(s) PROVE CardsInv'
  <2>1. owner = s /\ owner' = s /\ UNCHANGED resident
    BY <1>7 DEF SubmitStep, SubmitRelease
  <2>2. /\ ~Released(s)' /\ done'[s][Master(s)] <= Len(cmds'[s])
        /\ \A t \in Spmd : t # s => cmds'[t] = cmds[t]
    <3>1. CASE SubmitStep(s)
      BY <1>1, <3>1, CommandSubmitted DEF SubmitStep
    <3>2. CASE SubmitRelease(s)
      BY <1>1, <3>2, CommandSubmitted DEF SubmitRelease
    <3> QED BY <1>7, <3>1, <3>2
  <2>3. \A t \in Spmd : t # s => Released(t)
          /\ cmds'[t] = cmds[t] /\ done'[t][Master(t)] = done[t][Master(t)]
    BY <1>1, <2>1, <2>2 DEF CardsInv, TokenInv
  <2>4. \A r \in Cards : \A t \in resident'[r] : r \in CardsOf(t)
    BY <1>4, <2>1
  <2> QED BY <1>2, <2>1, <2>2, <2>3, <2>4, NotOnCard, TokenAt
<1>8. ASSUME NEW s \in Spmd, ReturnToken(s) PROVE CardsInv'
  <2>1. /\ owner = s /\ owner' = "infer" /\ UNCHANGED <<resident, cmds, serving>>
        /\ Released(s)
    BY <1>8 DEF ReturnToken, MasterThrough, Released
  <2>2. \A t \in Spmd : (Released(t)' <=> Released(t)) /\ Released(t)
    BY <1>1, <2>1 DEF CardsInv, TokenInv, Released, LastCommand
  <2>3. StartInv'
    BY <1>4, <2>1 DEF StartInv
  <2>4. TokenInv'
    BY <1>1, <2>1, <2>2, NotOnCard DEF CardsInv, TokenInv, Whole
  <2> QED BY <2>3, <2>4 DEF CardsInv
<1> QED BY <1>3, <1>5, <1>6, <1>7, <1>8 DEF Token

-----------------------------------------------------------------------------
(* A card with masters only.                                               *)

(* The server processes of the inference replicas of the ring are on cards *)
(* of their own.                                                           *)
OneServer ==
  \A s, t \in RingInfer : s # t => CardsOf(s) \cap CardsOf(t) = {}

LEMMA OneResident ==
  ASSUME OneServer, IgnType, TurnInv, CardsInv, NEW r \in Cards, Whole(r),
         NEW s \in resident[r], NEW t \in resident[r]
  PROVE  s = t
<1> SUFFICES ASSUME s # t PROVE FALSE
  OBVIOUS
<1> USE CardFacts, ServiceFacts
<1>1. /\ s \in Services /\ t \in Services /\ r \in CardsOf(s) /\ r \in CardsOf(t)
      /\ Master(s) = r /\ Master(t) = r
  BY DEF IgnType, CardsInv, StartInv, Whole
<1>2. s \in Shared /\ t \in Shared
  BY <1>1, IgnitionAssumption
<1>3. CASE owner = "nobody"
  <2>1. ASSUME NEW x \in {s, t}, NEW i \in 1..Len(Order), Order[i] = x
        PROVE  i = turn[r]
    <3>1. x \in resident[r] /\ x \in Shared /\ Master(x) = r
      BY <1>1, <1>2
    <3>2. child[x][r] # "off" /\ x \notin marker
      BY <1>3, <3>1 DEF CardsInv, StartInv
    <3>3. ~(i > turn[r]) /\ ~(i < turn[r])
      BY <2>1, <3>1, <3>2 DEF TurnInv, Later
    <3>4. i \in Nat /\ turn[r] \in Nat
      BY OrderFacts DEF IgnType
    <3> QED BY <3>3, <3>4
  <2>2. PICK i \in 1..Len(Order), j \in 1..Len(Order) : Order[i] = s /\ Order[j] = t
    BY <1>1, OrderFacts
  <2>3. i = turn[r] /\ j = turn[r]
    BY <2>1, <2>2
  <2> QED BY <2>2, <2>3
<1>4. CASE owner # "nobody"
  <2>1. \A x \in {s, t} : x \in Spmd \/ x \in RingInfer
    BY <1>1, <1>2 DEF Spmd, RingInfer
  <2>2. \A x \in {s, t} : x \in Spmd => owner = x
    BY <1>1, <1>4 DEF CardsInv, TokenInv
  <2>3. \A x \in {s, t} : x \in RingInfer => owner = "infer"
    BY <1>4 DEF CardsInv, TokenInv
  <2>4. \A x \in {s, t} : x # "infer"
    BY <1>1
  <2>5. s \in RingInfer /\ t \in RingInfer
    BY <2>1, <2>2, <2>3, <2>4
  <2> QED BY <2>5, <1>1 DEF OneServer
<1> QED BY <1>3, <1>4

LEMMA Exclusive ==
  ASSUME OneServer, IgnType, TurnInv, CardsInv PROVE MasterCardsExclusive
<1> SUFFICES ASSUME NEW r \in Cards, \A s \in Services : r \in CardsOf(s) => Master(s) = r
             PROVE  Cardinality(resident[r]) <= 1
  BY DEF MasterCardsExclusive
<1>1. \A s, t \in resident[r] : s = t
  BY OneResident DEF Whole
<1>2. CASE resident[r] = {}
  BY <1>2, FS_EmptySet
<1>3. CASE resident[r] # {}
  <2>1. PICK s : s \in resident[r]
    BY <1>3
  <2>2. resident[r] = {s}
    BY <1>1, <2>1
  <2>3. Cardinality({s}) = 1
    BY FS_Singleton
  <2> QED BY <2>2, <2>3
<1> QED BY <1>2, <1>3

-----------------------------------------------------------------------------
(* The steps and the theorems.                                             *)

IInv == TQType /\ TQInv /\ IgnType /\ TurnInv /\ CardsInv

LEMMA IgnStill ==
  /\ IgnType /\ TurnInv /\ CardsInv /\ UNCHANGED ignvars
     => IgnType' /\ TurnInv' /\ CardsInv'
<1> SUFFICES ASSUME IgnType, TurnInv, CardsInv, UNCHANGED ignvars
             PROVE  IgnType' /\ TurnInv' /\ CardsInv'
  OBVIOUS
<1>1. UNCHANGED <<turn, phase, child, event, marker, resident, owner, serving, cmds, done>>
  BY DEF ignvars
<1>2. IgnType'
  BY <1>1 DEF IgnType
<1>3. TurnInv'
  BY <1>1, TurnByChild
<1>4. event' \subseteq Services
  BY <1>1, ServiceFacts DEF IgnType
<1>5. CardsInv'
  BY <1>1, <1>4, NothingAdded
<1> QED BY <1>2, <1>3, <1>5

LEMMA ClusterKeeps ==
  TQType /\ TQInv /\ (ClusterStep \/ ClusterFault \/ Connect) => TQType' /\ TQInv'
BY ClearKeeps, SpawnControllerKeeps, SpawnStorageKeeps, FoundKeeps, PublishKeeps,
   DeathKeeps, ConnectKeeps DEF ClusterStep, ClusterFault

LEMMA IgnitionSteps == IInv /\ [Next]_vars => IInv'
<1> SUFFICES ASSUME IInv, [Next]_vars PROVE IInv'
  OBVIOUS
<1> USE DEF IInv
<1>1. CASE (ClusterStep \/ ClusterFault \/ Connect) /\ UNCHANGED ignvars
  BY <1>1, ClusterKeeps, IgnStill
<1>2. CASE UNCHANGED vars
  <2>1. UNCHANGED ignvars /\ UNCHANGED <<storeMode, launcher, proc, entry, copy, client>>
    BY <1>2 DEF vars, tqvars
  <2> QED BY <2>1, ClusterStill, IgnStill
<1>3. ASSUME NEW r \in Cards, Ignite(r) PROVE IInv'
  <2>1. UNCHANGED <<storeMode, launcher, proc, entry, copy, client>>
    BY <1>3 DEF Ignite, GateAndStart, InferenceReady, SpmdReady, IgnitorRaises, tqvars
  <2>2. TurnInv'
    <3>1. CASE IgnitorRaises(r)
      <4>1. UNCHANGED <<turn, phase, child, event, marker, owner>>
        BY <3>1 DEF IgnitorRaises, token
      <4> QED BY <4>1, TurnByChild
    <3> QED BY <1>3, <3>1, GateTurn, ReadyTurn DEF Ignite
  <2> QED BY <1>3, <2>1, <2>2, ClusterStill, IgniteType, IgniteCards
<1>4. CASE Rank0
  <2>1. UNCHANGED <<storeMode, launcher, proc, entry, copy, client>>
    BY <1>4 DEF Rank0, Barrier, IssueGenesis, StartCpu, tqvars
  <2> QED BY <1>4, <2>1, ClusterStill, Rank0Type, Rank0Turn, Rank0Cards
<1>5. CASE Token
  <2>1. UNCHANGED <<storeMode, launcher, proc, entry, copy, client>>
    BY <1>5 DEF Token, RestoreServers, HandOver, SubmitStep, SubmitRelease, ReturnToken, tqvars
  <2> QED BY <1>5, <2>1, ClusterStill, TokenType, TokenKeeps
<1>6. ASSUME NEW s \in Services,
             \/ ServerUp(s) \/ JoinGroup(s) \/ ExecuteStep(s)
             \/ \E r \in CardsOf(s) :
                  Load(s, r) \/ Offload(s, r) \/ ExecuteMove(s, r)
                    \/ ChildDies(s, r) \/ MoveFails(s, r)
      PROVE  IInv'
  <2>1. UNCHANGED <<storeMode, launcher, proc, entry, copy, client>>
    BY <1>6 DEF ServerUp, JoinGroup, ExecuteStep, Load, Offload, ExecuteMove, ChildDies,
                MoveFails, tqvars
  <2>2. TurnInv' /\ CardsInv'
    BY <1>6, ServerUpKeeps, JoinGroupKeeps, StepKeeps, LoadKeeps, OffloadKeeps,
       MoveKeeps, ChildDiesKeeps
  <2> QED BY <1>6, <2>1, <2>2, ClusterStill, EnginesType
<1>7. CASE Rest
  BY <1>2, <1>7 DEF Rest
<1> QED BY <1>1, <1>2, <1>3, <1>4, <1>5, <1>6, <1>7 DEF Next, Start, Engines, Other

LEMMA IgnitionInvariant == Spec => []IInv
<1>1. Init => IInv
  BY ClusterInit, IgnitionInit DEF Init, IInv
<1> QED BY <1>1, IgnitionSteps, PTL DEF Spec

(* A process that connects (transferqueue/client.py wait_for_endpoints)    *)
(* finds the controller and all storage units of this launch, whatever an  *)
(* earlier launch of the same name left in the bootstrap store or in the   *)
(* shared file and whoever dies meanwhile.                                 *)
THEOREM ClientsFindWholeCluster == Spec => []ConnectsToWholeCluster
<1>1. IInv => ConnectsToWholeCluster
  BY DEF IInv, TQInv
<1> QED BY <1>1, IgnitionInvariant, PTL

(* Ignitor.run issues the genesis token when every GPU service of every    *)
(* card has published its marker: each server has released its memory and  *)
(* the master of each SPMD service is in its command loop.                 *)
THEOREM GenesisComesLast == Spec => []GenesisAfterHandoff
<1>1. IInv => GenesisAfterHandoff
  BY DEF IInv, TurnInv, GenesisAfterHandoff
<1> QED BY <1>1, IgnitionInvariant, PTL

(* From the first process of the card through every hand-off (the waits of *)
(* Ignitor._gate_and_start, then submit_command of the owner's master) a   *)
(* card whose services all have their master there holds the weights of at *)
(* most one of them, when no two servers of the ring share a card.         *)
THEOREM OneEngineOnMasterCards ==
  ASSUME OneServer
  PROVE  Spec => []MasterCardsExclusive
<1>1. IInv => MasterCardsExclusive
  BY Exclusive DEF IInv
<1> QED BY <1>1, IgnitionInvariant, PTL
=============================================================================
