SPECIFICATION Spec
CONSTANTS
  u1 = u1
  u2 = u2
  Frames = {u1, u2}
  Pushes = 3
  Events = {"resize", "click", "close"}
  HasUpdate = TRUE
INVARIANTS
  WholeFrame
  RequestAfterCollect
PROPERTY
  ImplementsHandOff
CHECK_DEADLOCK FALSE
