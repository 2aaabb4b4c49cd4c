SPECIFICATION FairSpec
CONSTANTS
  u1 = u1
  u2 = u2
  Frames = {u1, u2}
  Pushes = 1
  Events = {"minimise", "resize", "click", "switch", "close"}
  HasUpdate = TRUE
PROPERTIES
  StopCompletes
  FrameCollected
CHECK_DEADLOCK FALSE
