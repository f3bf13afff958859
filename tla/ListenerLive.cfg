SPECIFICATION LiveSpec
CONSTANTS
  s1 = s1
  s2 = s2
  c1 = c1
  c2 = c2
  Sessions = {s1, s2}
  Peers = {p1}
  Convs = {c1, c2}
  None = None
  InputCap = 1
  SndWnd = 1
  Expires = TRUE
  AcceptCap = 1
  Fec = TRUE
PROPERTIES FinishedEntryLeaves ListenerGoesOn EvictedDroppedFinalized
CHECK_DEADLOCK FALSE
