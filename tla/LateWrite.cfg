SPECIFICATION Spec
CONSTANTS
  Sessions = {s1}
  Peers = {p1}
  Convs = {c1}
  None = None
  InputCap = 1
  SndWnd = 1
  Expires = FALSE
  AcceptCap = 1
  Fec = FALSE
INVARIANTS AcceptedDataIsSent
CHECK_DEADLOCK FALSE
