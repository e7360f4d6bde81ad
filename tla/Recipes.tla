------------------------------ MODULE Recipes -------------------------------
(***************************************************************************)
(* The recipes of the repository as inputs of build_topology, with the     *)
(* defaults of their environment variables.  Model names, sampling and     *)
(* optimiser settings, sequence lengths and server arguments are left out. *)
(*                                                                         *)
(* dp is the number of data-parallel ranks: the cards of a replica over    *)
(* cp_degree * tp_degree.  A pacing window of 0 is None.                   *)
(***************************************************************************)
EXTENDS Topology

LOCAL INSTANCE SequencesExt

GrpoFields == {"sample", "advantage"}
GaeFieldsShaped == {"sample", "values", "raw_reward"}
OpdFields == GrpoFields \cup {"teacher_topk"}
InferenceConfig == [serves |-> TRUE]

(* TrainingServiceConfig and TrainerParamsConfig with their defaults.      *)
TrainingConfig(batch, mini, cp) ==
  [batch |-> batch, mini |-> mini, cp |-> cp, fetches |-> GrpoFields,
   gae |-> FALSE, cold |-> 0, stream |-> FALSE, checkpoint |-> NoCheckpoint]

CriticConfig(batch, cp, publishes, cold, checkpoint) ==
  [batch |-> batch, cp |-> cp, publishes |-> publishes, cold |-> cold,
   checkpoint |-> checkpoint]

TeacherConfig(batch) ==
  [batch |-> batch, cp |-> 1, publishes |-> "teacher_topk", checkpoint |-> NoCheckpoint]

(* groupSize samples to a prompt; what the rollout does not write itself.  *)
RolloutConfig(groupSize, pacing) ==
  [groupSize |-> groupSize, pacing |-> pacing, writes |-> GrpoFields,
   checkpoint |-> NoCheckpoint]

InferenceGroup(replicas, cards) ==
  [id |-> "actor_infer", role |-> "inference", replicas |-> replicas,
   cards |-> cards, on |-> NoGroup, waits |-> {}, config |-> InferenceConfig]

(* An SPMD group on the inference cards, or on its own.                    *)
SharedGroup(id, role, cards, config) ==
  [id |-> id, role |-> role, replicas |-> 1, cards |-> cards,
   on |-> "actor_infer", waits |-> {"actor_infer"}, config |-> config]
OwnGroup(id, role, cards, waits, config) ==
  [id |-> id, role |-> role, replicas |-> 1, cards |-> cards,
   on |-> NoGroup, waits |-> waits, config |-> config]

RolloutGroup(waits, config) ==
  [id |-> "rollout", role |-> "rollout", replicas |-> 1, cards |-> 0,
   on |-> NoGroup, waits |-> waits, config |-> config]

Recipe(world, groups, rings) ==
  [world |-> world, groups |-> groups, rings |-> rings]

(* Inference and the trainer take turns on all cards.                      *)
Colocated(replicas, cards, training, rollout) ==
  Recipe(replicas * cards,
    <<InferenceGroup(replicas, cards),
      SharedGroup("actor_train", "training", replicas * cards, training),
      RolloutGroup({"actor_train", "actor_infer"}, rollout)>>,
    <<<<"actor_infer", "actor_train">>>>)

Disaggregated(inferCards, trainCards, training, rollout) ==
  Recipe(inferCards + trainCards,
    <<InferenceGroup(inferCards, 1),
      OwnGroup("actor_train", "training", trainCards, {}, training),
      RolloutGroup({"actor_train", "actor_infer"}, rollout)>>,
    <<>>)

Checkpoint10 == [interval |-> 10, keep |-> 3]

-----------------------------------------------------------------------------
grpo_gsm8k(cards) == Colocated(1, cards, TrainingConfig(16, 1, 1), RolloutConfig(4, 1))
grpo_gsm8k_disaggregate(cards) ==
  Disaggregated(cards - cards \div 2, cards \div 2,
                TrainingConfig(16, 1, 1), RolloutConfig(4, 1))
grpo_gsm8k_qwen3_8b == Colocated(8, 1, TrainingConfig(256, 1, 1), RolloutConfig(8, 1))

justrl == Colocated(8, 1, TrainingConfig(2048, 8, 1), RolloutConfig(8, 1))
justrl_async == Colocated(8, 1, TrainingConfig(2048, 8, 1), RolloutConfig(8, 2))
justrl_fully_async ==
  Disaggregated(8, 8, [TrainingConfig(2048, 8, 1) EXCEPT !.stream = TRUE],
                RolloutConfig(8, 0))
justrl_minicpm5_1b == Colocated(8, 1, TrainingConfig(2048, 8, 1), RolloutConfig(8, 1))
justrl_minicpm5_2b == Colocated(8, 1, TrainingConfig(2048, 8, 1), RolloutConfig(8, 1))
justrl_minicpm5_2b_4gpu == Colocated(4, 1, TrainingConfig(2048, 8, 1), RolloutConfig(8, 1))
justrl_qwen3_30b_a3b == Colocated(1, 8, TrainingConfig(256, 1, 1), RolloutConfig(8, 1))
justrl_smoke == Colocated(8, 1, TrainingConfig(128, 8, 1), RolloutConfig(8, 1))
critic_traj_dump == Colocated(4, 1, TrainingConfig(64, 8, 1), RolloutConfig(4, 1))
math_grpo_minicpm5_2b == Colocated(8, 1, TrainingConfig(512, 4, 4), RolloutConfig(8, 0))
math_grpo_minicpm5_2b_4gpu ==
  Colocated(4, 1, TrainingConfig(256, 4, 4), RolloutConfig(8, 0))

student_topk_opd(cards) ==
  LET training == [TrainingConfig(16, 1, 1) EXCEPT !.fetches = OpdFields]
  IN  Recipe(cards,
        <<InferenceGroup(1, cards),
          SharedGroup("teacher", "teacher", cards, TeacherConfig(16)),
          SharedGroup("actor_train", "training", cards, training),
          RolloutGroup({"actor_train", "actor_infer", "teacher"}, RolloutConfig(4, 1))>>,
        <<<<"actor_infer", "teacher", "actor_train">>>>)

student_topk_opd_disaggregate(cards) ==
  LET training == [TrainingConfig(16, 1, 1) EXCEPT !.fetches = OpdFields]
      rest == cards - 1
  IN  Recipe(cards,
        <<InferenceGroup(rest - rest \div 2, 1),
          OwnGroup("teacher", "teacher", 1, {}, TeacherConfig(16)),
          OwnGroup("actor_train", "training", rest \div 2, {}, training),
          RolloutGroup({"actor_train", "actor_infer", "teacher"}, RolloutConfig(4, 1))>>,
        <<>>)

(* The rollout leaves the advantage to the critic.                         *)
ScoredRollout(groupSize, pacing, writes, checkpoint) ==
  [RolloutConfig(groupSize, pacing) EXCEPT !.writes = writes, !.checkpoint = checkpoint]

critic_coldstart_32k ==
  Recipe(8,
    <<InferenceGroup(6, 1),
      OwnGroup("critic", "critic", 2, {"actor_infer"},
               CriticConfig(64, 2, "advantage", -1, NoCheckpoint)),
      RolloutGroup({"actor_infer", "critic"},
                   ScoredRollout(8, 0, {"sample"}, NoCheckpoint))>>,
    <<>>)

(* The critic on cards of its own.                                         *)
DedicatedCritic(actorCards, criticCards, training, critic, rollout) ==
  Recipe(actorCards + criticCards,
    <<InferenceGroup(actorCards, 1),
      SharedGroup("actor_train", "training", actorCards, training),
      OwnGroup("critic", "critic", criticCards, {"actor_infer"}, critic),
      RolloutGroup({"actor_train", "actor_infer", "critic"}, rollout)>>,
    <<<<"actor_infer", "actor_train">>>>)

SharedCritic(cards, training, critic, rollout) ==
  Recipe(cards,
    <<InferenceGroup(cards, 1),
      SharedGroup("actor_train", "training", cards, training),
      SharedGroup("critic", "critic", cards, critic),
      RolloutGroup({"actor_train", "actor_infer", "critic"}, rollout)>>,
    <<<<"actor_infer", "critic", "actor_train">>>>)

WithCritic(config, cold, checkpoint) ==
  [config EXCEPT !.cold = cold, !.checkpoint = checkpoint]

justrl_ii_minicpm5_2b ==
  DedicatedCritic(4, 4, WithCritic(TrainingConfig(128, 8, 1), 2, Checkpoint10),
                  CriticConfig(128, 1, "advantage", 2, Checkpoint10),
                  ScoredRollout(8, 1, {"sample"}, Checkpoint10))

justrl_ii_minicpm5_2b_128k_32gpu ==
  DedicatedCritic(16, 16, WithCritic(TrainingConfig(480, 4, 4), 30, Checkpoint10),
                  CriticConfig(480, 4, "advantage", 30, Checkpoint10),
                  ScoredRollout(8, 1, {"sample"}, Checkpoint10))

justrl_ii_resume_smoke ==
  LET checkpoint == [interval |-> 1, keep |-> 2]
  IN  SharedCritic(8, WithCritic(TrainingConfig(16, 4, 1), 2, checkpoint),
                   CriticConfig(16, 1, "advantage", 2, checkpoint),
                   ScoredRollout(4, 1, {"sample"}, checkpoint))

(* The rollout shapes the reward and publishes weights for the positives.  *)
justrl_ii_minicpm5_2b_128k ==
  LET training == [TrainingConfig(480, 480, 4) EXCEPT
                     !.fetches = GaeFieldsShaped \cup {"positive_lm_weight"},
                     !.gae = TRUE]
  IN  SharedCritic(8, WithCritic(training, 20, Checkpoint10),
                   CriticConfig(480, 4, "values", 20, Checkpoint10),
                   ScoredRollout(8, 0, {"sample", "raw_reward", "positive_lm_weight"},
                                 Checkpoint10))

(* The examples that size themselves by XRL_NGPUS are taken at 1, 2, 4 and *)
(* 8 cards, and apart with at least a card for each service.               *)
AllRecipes ==
  {grpo_gsm8k(n) : n \in {1, 2, 4, 8}} \cup {student_topk_opd(n) : n \in {1, 2, 4, 8}}
  \cup {grpo_gsm8k_disaggregate(n) : n \in {2, 4, 8}}
  \cup {student_topk_opd_disaggregate(n) : n \in {3, 4}}
  \cup {grpo_gsm8k_qwen3_8b, justrl, justrl_async, justrl_fully_async,
        justrl_minicpm5_1b, justrl_minicpm5_2b, justrl_minicpm5_2b_4gpu,
        justrl_qwen3_30b_a3b, justrl_smoke, critic_traj_dump,
        math_grpo_minicpm5_2b, math_grpo_minicpm5_2b_4gpu, critic_coldstart_32k,
        justrl_ii_minicpm5_2b, justrl_ii_minicpm5_2b_128k_32gpu,
        justrl_ii_resume_smoke, justrl_ii_minicpm5_2b_128k}

-----------------------------------------------------------------------------
(* The properties.                                                         *)

Starts(recipe) ==
  /\ BuildTopology(recipe.groups, recipe.rings, recipe.world)
  /\ LET services == ServicesOf(recipe.groups, recipe.rings)
     IN  ComesUp(services) = {s.name : s \in ToSet(services)}

(* Sets without parameters, which TLC computes once.                       *)
NotStarting == {recipe \in AllRecipes : ~Starts(recipe)}

Dp(s) == Len(s.cards) \div s.config.cp

(* Whoever trains or scores gets whole windows, equal for all its ranks.   *)
WindowsAgree(services) ==
  \A t \in OfRole(services, "training"), r \in OfRole(services, "rollout") :
    /\ t.config.batch % r.config.groupSize = 0
    /\ t.config.batch % Dp(t) = 0
    /\ t.config.stream => t.config.batch % (t.config.mini * Dp(t)) = 0
    /\ \A c \in OfRole(services, "critic") :
         c.config.batch = t.config.batch /\ c.config.cold = t.config.cold
    /\ \A c \in OfRole(services, "teacher") : t.config.batch % c.config.batch = 0

ScorersDivide(services) ==
  \A c \in OfRole(services, "critic") \cup OfRole(services, "teacher") :
    Len(c.cards) % c.config.cp = 0 /\ c.config.batch % Dp(c) = 0

(* A fetch waits for all of its columns: somebody has to write each, and   *)
(* nobody twice.                                                           *)
ColumnsWritten(services) ==
  LET scorers == OfRole(services, "critic") \cup OfRole(services, "teacher")
      written == UNION {r.config.writes : r \in OfRole(services, "rollout")}
      scored == {c.config.publishes : c \in scorers}
  IN  /\ written \cap scored = {}
      /\ \A t \in OfRole(services, "training") :
           t.config.fetches \subseteq written \cup scored

(* Engines on the same card are arbitrated by one ring, where each SPMD    *)
(* replica is a leader and manages an inference replica on every card, and *)
(* the trainer does not stream.                                            *)
CardsArbitrated(services) ==
  \A s \in ToSet(services) :
    \A t \in ToSet(services) :
      (s # t /\ CardSet(s) \cap CardSet(t) # {}) =>
        /\ s.inRing /\ t.inRing
        /\ s.role # "inference" =>
             /\ s.leader
             /\ CardSet(s) \subseteq UNION {CardSet(i) : i \in ManagedInference(services, s)}
        /\ s.role = "training" => ~s.config.stream

Fits(recipe) ==
  LET services == ServicesOf(recipe.groups, recipe.rings)
  IN  /\ WindowsAgree(services) /\ ScorersDivide(services)
      /\ ColumnsWritten(services) /\ CardsArbitrated(services)

NotFitting == {recipe \in AllRecipes : ~Fits(recipe)}
=============================================================================
