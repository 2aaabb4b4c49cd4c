SPECIFICATION Spec
CONSTANTS
  u1 = u1
  u2 = u2
  Frames = {u1, u2}
  Pushes = 1
  Events = {"close"}
  HasUpdate = TRUE
INVARIANT
  ExitsCleanly
CHECK_DEADLOCK FALSE
