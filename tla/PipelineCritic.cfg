SPECIFICATION FairSpec
CONSTANTS
  Colocated = TRUE
  Scorer = "critic"
  Window = 2
  Batch = 1
  Chunk = 1
  ScoreBatch = 1
  ColdWindows = 1
  Running = 2
  KeepWeights = 3
  Prompts = 4
  Drops = 0
CHECK_DEADLOCK FALSE
INVARIANTS GateStreamInOrder TrainerBehindCritic NeverIdleOnCard OverlapBounded
PROPERTIES TrainsToTheEnd
