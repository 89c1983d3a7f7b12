CONSTANTS
  M0 = M0
  M1 = M1
  Times <- DistinctTimes
  FrameReused = FALSE
  WrapAt = 4
  CanLose = FALSE
  Prompt = TRUE
  Hasty = FALSE
  Slow = {}
SPECIFICATION FairSpec
INVARIANTS
  TypeOK
  BranchApplies
PROPERTIES
  Answered
  GamesGoOn
