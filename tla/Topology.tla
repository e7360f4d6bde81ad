------------------------------ MODULE Topology ------------------------------
(***************************************************************************)
(* build_topology: from the declared groups of a recipe to the replicas,   *)
(* their cards and their ports, with everything it refuses.  It is a pure  *)
(* function that every ignitor computes for itself, so it is operators     *)
(* here.                                                                   *)
(*                                                                         *)
(* A recipe is a sequence of groups and a sequence of rings.  Of a group's *)
(* typed config the model keeps what the topology or the properties read.  *)
(* A column stands for one that holds rows back: "sample" for the eight    *)
(* that the rollout always writes.                                         *)
(***************************************************************************)
EXTENDS Integers, Sequences, FiniteSets

LOCAL INSTANCE SequencesExt
LOCAL INSTANCE TLC

CardsPerHost == 8

NoGroup == "no group"       \* colocate_with is None
NoCheckpoint == [interval |-> 0, keep |-> 0]  \* checkpoint is None or not enabled

UsesGpu(g) == g.role # "rollout"
Total(g) == g.replicas * g.cards
OwnBlock(g) == UsesGpu(g) /\ g.on = NoGroup

(* The cursor: a group that reuses a block does not move it.               *)
FirstFree(groups, i) ==
  FoldLeft(LAMBDA n, g : n + Total(g), 0,
           SelectSeq(SubSeq(groups, 1, i - 1), OwnBlock))

(* The group whose block group i reuses: declared earlier, and not itself  *)
(* on another's block.                                                     *)
Target(groups, i) ==
  {j \in 1..(i - 1) : groups[j].id = groups[i].on /\ OwnBlock(groups[j])}

BlockStart(groups, i) ==
  FirstFree(groups, IF OwnBlock(groups[i]) THEN i
                    ELSE CHOOSE j \in Target(groups, i) : TRUE)

(* Every group finds its cards; a shared block has to match.               *)
CardsSuffice(groups, world) ==
  \A i \in DOMAIN groups :
    UsesGpu(groups[i]) =>
      IF OwnBlock(groups[i])
      THEN FirstFree(groups, i) + Total(groups[i]) <= world
      ELSE \E j \in Target(groups, i) : Total(groups[j]) = Total(groups[i])

IsColocate(groups, g) ==
  UsesGpu(g) /\ (g.on # NoGroup \/ \E i \in DOMAIN groups : groups[i].on = g.id)

(* The cards of replica r, its master's first.                             *)
ReplicaCards(groups, i, r) ==
  [c \in 1..(IF UsesGpu(groups[i]) THEN groups[i].cards ELSE 0) |->
     BlockStart(groups, i) + r * groups[i].cards + c - 1]

InRing(rings, g) == \E q \in DOMAIN rings : g.id \in ToSet(rings[q])

RingLeads(rings, g, r) ==  \* (mutant) one leader to a ring
  r = 0 /\ \E q \in DOMAIN rings : rings[q][1] = g.id

(* One replica of each group of a ring has the group's manager.            *)
GroupLeads(rings, g, r) == r = 0 /\ InRing(rings, g)

Replica(groups, rings, i, r) ==
  LET g == groups[i]
  IN  [name |-> g.id \o "-" \o ToString(r), group |-> g.id, role |-> g.role,
       cards |-> ReplicaCards(groups, i, r), on |-> g.on, waits |-> g.waits,
       shared |-> IsColocate(groups, g), config |-> g.config,
       inRing |-> InRing(rings, g), leader |-> GroupLeads(rings, g, r)]

(* The replicas in the order of declaration.                               *)
ServicesOf(groups, rings) ==
  FlattenSeq([i \in DOMAIN groups |->
    [r \in 1..groups[i].replicas |-> Replica(groups, rings, i, r - 1)]])

-----------------------------------------------------------------------------
(* What a service is asked.                                                *)

OnGpu(s) == s.role # "rollout"
CardSet(s) == ToSet(s.cards)
MasterOf(s) == s.cards[1]
OfGroup(services, id) == {s \in ToSet(services) : s.group = id}
OfRole(services, role) == {s \in ToSet(services) : s.role = role}

(* dependency_names: every replica of every group waited for.              *)
DependencyNames(services, s) ==
  {t.name : t \in UNION {OfGroup(services, id) : id \in s.waits}}

LocalTo(services, rank) ==
  SelectSeq(services, LAMBDA s : rank \in CardSet(s))

(* colocated_inference_for: the replicas that share the cards of a trainer.*)
ManagedInference(services, s) ==
  {t \in OfGroup(services, s.on) : CardSet(t) \cap CardSet(s) # {}}

Checkpointing(services) ==
  {s \in ToSet(services) : s.role # "inference" /\ s.config.checkpoint # NoCheckpoint}

-----------------------------------------------------------------------------
(* What it refuses.                                                        *)

RingsShareBlocks(services, rings) ==
  \A q \in DOMAIN rings :
    LET members == ToSet(rings[q])
        Block(id) == UNION {CardSet(s) : s \in OfGroup(services, id)}
    IN  /\ Len(rings[q]) >= 2 /\ Cardinality(members) = Len(rings[q])
        /\ \A id \in members :
             /\ OfGroup(services, id) # {}
             /\ Block(id) = Block(rings[q][1])
             /\ \A s \in OfGroup(services, id) : s.shared
        /\ \A p \in DOMAIN rings \ {q} : members \cap ToSet(rings[p]) = {}

PortBase(role) ==
  CASE role = "inference" -> 30000 [] role = "training" -> 31000
    [] role = "teacher" -> 32000 [] role = "critic" -> 33000

Address(s) == <<MasterOf(s) \div CardsPerHost, PortBase(s.role) + MasterOf(s)>>

(* The ports for the process groups are the same, 10000 higher.            *)
PortsDistinct(services) ==
  LET gpu == {s \in ToSet(services) : OnGpu(s)}
  IN  /\ \A s \in gpu : Address(s)[2] + 10000 <= 65535
      /\ \A s, t \in gpu : s.name # t.name => Address(s) # Address(t)

CriticColumnsAgree(services) ==
  \A c \in OfRole(services, "critic"), t \in OfRole(services, "training") :
    /\ c.config.publishes \in t.config.fetches
    /\ t.config.gae <=> c.config.publishes = "values"

CheckpointsAgree(services) ==
  LET enabled == Checkpointing(services)
  IN  enabled # {} =>
        /\ \A s, t \in enabled : s.config.checkpoint = t.config.checkpoint
        /\ \A role \in {"training", "critic", "rollout"} :
             OfRole(services, role) # {} =>
               OfRole(services, role) \cap enabled # {}
        /\ \A c \in OfRole(services, "critic"), t \in OfRole(services, "training") :
             c.config.cold = t.config.cold

(* require_ring, which the SPMD services ask when they are built.          *)
RingRequired(services) ==
  \A s \in ToSet(services) :
    s.shared /\ s.role # "inference" => s.inRing

BuildTopology(groups, rings, world) ==
  /\ CardsSuffice(groups, world)
  /\ LET services == ServicesOf(groups, rings)
     IN  /\ RingsShareBlocks(services, rings)
         /\ PortsDistinct(services)
         /\ CriticColumnsAgree(services)
         /\ CheckpointsAgree(services)
         /\ RingRequired(services)

-----------------------------------------------------------------------------
(* The order of ignition: a service is ready when each of the ignitors it  *)
(* needs has come to it.  An ignitor comes to the next service of its card *)
(* when the dependencies of this one are ready and, if it is its master,   *)
(* the service is.                                                         *)

IgnitorsOf(s) == IF s.role = "inference" THEN {MasterOf(s)} ELSE CardSet(s)

Passed(services, ready, s, rank) ==
  /\ DependencyNames(services, s) \subseteq ready
  /\ rank = MasterOf(s) => s.name \in ready

CanStart(services, ready, s) ==
  /\ DependencyNames(services, s) \subseteq ready
  /\ \A rank \in IgnitorsOf(s) :
       LET mine == LocalTo(services, rank)
           before == {mine[i] : i \in 1..(SelectInSeq(mine, LAMBDA t : t.name = s.name) - 1)}
       IN  \A t \in before : Passed(services, ready, t, rank)

ReadyNext(services, ready) ==
  {s.name : s \in {t \in ToSet(services) : OnGpu(t) /\ CanStart(services, ready, t)}}

(* The services that come up; one round for each is enough.                *)
ComesUp(services) ==
  LET gpu == FoldLeft(LAMBDA ready, s : ready \cup ReadyNext(services, ready),
                      {}, services)
  IN  gpu \cup {s.name : s \in {t \in ToSet(services) :
                   ~OnGpu(t) /\ DependencyNames(services, t) \subseteq gpu}}
=============================================================================
