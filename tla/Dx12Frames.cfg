SPECIFICATION FairSpec
CONSTANTS
  Buffers = {b1}
  Pipelines = {p1}
  Uploads = {u1, u2}
  Heaps = {h1}
  None = None
  N = 2
  MaxValue = 4
CHECK_DEADLOCK FALSE
INVARIANTS
  TypeOK
  EventOfThisWait
  FreedNotInFlight
  ResizeAlone
  CollectedCopiesWhole
  SlotIsBackBuffer
PROPERTIES
  LeakOnlyAtClose
  WaitsEnd
  FrameReturns
  ImplementsGpuObjects
