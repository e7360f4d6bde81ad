SPECIFICATION Spec
CONSTANTS
  Services = {"train", "roll"}
  Heavy = {"train"}
  Interval = 2
  Keep = 2
  MaxStep = 4
  Critic = FALSE
  Cold = 0
  Window = 2
  Batch = 1
  PullSize = 2
  KeepWeights = 1
  Ranks = {0, 1}
  Lives = 2
CHECK_DEADLOCK FALSE
INVARIANTS TrainerAdoptsResumePoint
