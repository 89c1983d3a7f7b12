CONSTANTS
  M0 = M0
  M1 = M1
  Times <- EqualTimes
  FrameReused = FALSE
  WrapAt = 4
  CanLose = FALSE
  Prompt = TRUE
  Hasty = FALSE
  Slow = {}
SPECIFICATION FairSpec
PROPERTY
  OneEntryPerGame
