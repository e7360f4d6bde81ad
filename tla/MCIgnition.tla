----------------------------- MODULE MCIgnition -----------------------------
EXTENDS Ignition, Recipes

(* Cards 0 and 1 are the ring's: two inference replicas of one card each, a*)
(* trainer and a critic across both, each waiting for the inference group  *)
(* only.  Card 2 has an inference replica of its own that nobody waits for *)
(* but the rollout.  Placement, order and waits are build_topology's.      *)
MCGroups ==
  <<InferenceGroup(2, 1),
    SharedGroup("actor_train", "training", 2, TrainingConfig(8, 4, 1)),
    SharedGroup("critic", "critic", 2, CriticConfig(8, 1, "advantage", 0, NoCheckpoint)),
    [InferenceGroup(1, 1) EXCEPT !.id = "judge"],
    RolloutGroup({"actor_infer", "actor_train", "critic", "judge"},
                 RolloutConfig(4, 1))>>
MCServices == ServicesOf(MCGroups, <<<<"actor_infer", "critic", "actor_train">>>>)

Named(name) == CHOOSE i \in 1..Len(MCServices) : MCServices[i].name = name
NamesOf(Test(_)) ==
  {MCServices[i].name : i \in {j \in 1..Len(MCServices) : Test(MCServices[j])}}

MCGpu == [i \in 1..(Len(MCServices) - 1) |-> MCServices[i].name]
MCCpu == MCServices[Len(MCServices)].name
MCShared == NamesOf(LAMBDA s : s.shared)
MCInfer == NamesOf(LAMBDA s : s.role = "inference")
MCPlace == [n \in NamesOf(OnGpu) |-> MCServices[Named(n)].cards]
MCDeps == [n \in NamesOf(LAMBDA s : TRUE) |->
             DependencyNames(MCServices, MCServices[Named(n)])]

(* Every recipe is accepted at its number of cards, and no ignitor of any  *)
(* card waits for a service that is behind it in its own list: the order of*)
(* declaration is safe for the waits (local_services says so and no code   *)
(* checks it), so every service comes up.  The ignitors of this run bear   *)
(* ComesUp out: whatever is ready, it foretold.                            *)
RecipesStart == NotStarting = {} /\ marker \subseteq ComesUp(MCServices)

(* What the code leaves to the recipe and nothing checks: the windows of   *)
(* rollout, scorer and trainer fit together, no column is waited for in    *)
(* vain, and no two engines share a card without the token.  In this run   *)
(* too, whoever meets another on a card is in the ring.                    *)
RecipesFit ==
  /\ NotFitting = {}
  /\ \A r \in Cards : Cardinality(resident[r]) > 1 =>
       \A n \in resident[r] : MCServices[Named(n)].inRing

(* Every recipe of the repository starts and, once up, fits together.      *)
RecipesRun == RecipesStart /\ RecipesFit
=============================================================================
