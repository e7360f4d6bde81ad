SPECIFICATION FairSpec
CONSTANTS
  Services = {"train", "score", "roll"}
  Heavy = {"train", "score"}
  Interval = 2
  Keep = 2
  MaxStep = 7
  Critic = TRUE
  Cold = 1
  Window = 2
  Batch = 1
  PullSize = 2
  KeepWeights = 1
  Ranks = {0, 1}
  Lives = 3
CHECK_DEADLOCK FALSE
INVARIANTS CommittedWhole CommittedNeverRewritten OneHistory RanksAgree GateStreamInOrder BootsCurrentPolicy TrainerAdoptsResumePoint
PROPERTIES ResumePointKept RunsToTheEnd
