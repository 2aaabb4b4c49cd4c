SPECIFICATION Spec
CONSTANTS
  Buffers = {b1}
  Pipelines = {p1}
  Stagings = {s1}
  None = None
  N = 2
CHECK_DEADLOCK FALSE
PROPERTIES
  RecreatedAfterPresent
