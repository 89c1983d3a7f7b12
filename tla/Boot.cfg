CONSTANTS
  Addresses = 4
  CharRange = 8
  NameLen = 2
  AlphabetLen = 3
  HasClient = TRUE
  ShortSends = TRUE
SPECIFICATION FairSpec
INVARIANTS
  TypeOK
  NoFalseStart
  PidKnown
  Served
PROPERTIES
  EveryPressCounts
  NameCompletes
CHECK_DEADLOCK FALSE
