CONSTANTS
  M0 = M0
  M1 = M1
  Times <- DistinctTimes
  FrameReused = FALSE
  WrapAt = 4
  CanLose = TRUE
  Prompt = TRUE
  Hasty = TRUE
  Slow = {M0, M1}
SPECIFICATION Spec
INVARIANT
  FasterWins
PROPERTIES
  OneEntryPerGame
  StartTogether
  EntryOfThisGame
