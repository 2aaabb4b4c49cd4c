SPECIFICATION FairSpec
CONSTANTS
  u1 = u1
  u2 = u2
  Frames = {u1, u2}
  Pushes = 1
  Events = {"resize"}
  HasUpdate = TRUE
PROPERTY
  RequestTaken
CHECK_DEADLOCK FALSE
