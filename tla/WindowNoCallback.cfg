SPECIFICATION Spec
CONSTANTS
  u1 = u1
  u2 = u2
  Frames = {u1, u2}
  Pushes = 1
  Events = {"close"}
  HasUpdate = FALSE
INVARIANT
  TracksWorker
CHECK_DEADLOCK FALSE
