CONSTANTS
  WrapAt = 4
  Places = 6
  SENML_LEN = 75
  RecordSizes = {15, 35}
  MaxGames = 4
SPECIFICATION Spec
CHECK_DEADLOCK FALSE
INVARIANTS
  TypeOK
  IndexInBounds
  ReadsWritten
