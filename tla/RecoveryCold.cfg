SPECIFICATION Spec
CONSTANTS
  Services = {"train", "score", "roll"}
  Heavy = {"train", "score"}
  Interval = 1
  Keep = 2
  MaxStep = 3
  Critic = TRUE
  Cold = 1
  Window = 2
  Batch = 1
  PullSize = 2
  KeepWeights = 1
  Ranks = {0, 1}
  Lives = 2
CHECK_DEADLOCK FALSE
INVARIANTS TrainerCanStart
