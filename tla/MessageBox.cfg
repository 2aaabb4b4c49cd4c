SPECIFICATION FairSpec
CONSTANTS
  StreamFrames = 2
  MixFrame = 2
  FrameSizes = {2, 3}
  BufferFrames = 2
  FlickerFrames = 2
INVARIANTS
  TypeOK
  OwnerAlive
  StreamWhole
  ReadsWithin
PROPERTIES
  BoxOutlived
  DestroyReturns
  FlickerEnds
  SoundEnds
CHECK_DEADLOCK FALSE
