CONSTANTS
  NameLen = 2
  Letters = {a, b}
  Nul = nul
  Times = {1, 2}
  Self = board
SPECIFICATION FairSpec
INVARIANTS
  TypeOK
  Announced
PROPERTIES
  NoTornReply
  MotorStops
  ImplementsBoard
