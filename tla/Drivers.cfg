CONSTANTS
  Width = 10
  Height = 8
  PageRows = 4
  Byte = 20
  GlyphWidth = 2
  GlyphHeight = 3
  Pitch = 3
  Font <- SmallFont
  Jobs <- SomeJobs
  LedCount = 6
  Buffer = 8
  Pictures = 4
  Freq = 1000
  HalfInt16 = 32768
SPECIFICATION Spec
INVARIANTS
  TypeOK
  DrawsWhatItSays
  CirclesRound
  PanelShowsRam
  BacklightKept
  AnimationSeen
  Quiet
CHECK_DEADLOCK FALSE
