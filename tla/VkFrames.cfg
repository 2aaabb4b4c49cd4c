SPECIFICATION FairSpec
CONSTANTS
  Buffers = {b1}
  Pipelines = {p1}
  Stagings = {s1, s2}
  None = None
  N = 2
CHECK_DEADLOCK FALSE
INVARIANTS
  TypeOK
  FreedNotInFlight
  DanglingOnlyStale
  SlotIsImage
  FenceCovered
PROPERTIES
  LeakOnlyAtClose
  FrameReturns
  ImplementsGpuObjects
