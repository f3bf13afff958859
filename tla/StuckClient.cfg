SPECIFICATION Spec
CONSTANTS
  Convs = {1, 2}
  None = None
  Segments = 2
  ToServerCap = 2
  ToClientCap = 2
  MaxEnding = 1
CHECK_DEADLOCK FALSE
INVARIANTS AckedIsReadable
