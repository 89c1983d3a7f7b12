CONSTANTS
  M0 = M0
  M1 = M1
  Times <- DistinctTimes
  FrameReused = TRUE
  WrapAt = 4
  CanLose = FALSE
  Prompt = TRUE
  Hasty = FALSE
  Slow = {}
SPECIFICATION FairSpec
INVARIANT
  FasterWins
