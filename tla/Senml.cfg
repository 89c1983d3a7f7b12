CONSTANTS
  Packs <- SmallPacks
  Rooms <- SmallRooms
  Cap = 2
SPECIFICATION RoundTripSpec
CHECK_DEADLOCK FALSE
INVARIANTS
  TypeOK
  InBounds
  WritesDocument
  RoomDecides
  InCapacity
  DecodesBack
