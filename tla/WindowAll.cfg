SPECIFICATION Spec
CONSTANTS
  u1 = u1
  u2 = u2
  Frames = {u1, u2}
  Pushes = 2
  Events = {"minimise", "resize", "click", "switch", "close"}
  HasUpdate = TRUE
INVARIANTS
  TypeOK
  OneUpdate
  ReleaseAlone
  InProgressRuns
SYMMETRY FramesSymmetry
CHECK_DEADLOCK FALSE
