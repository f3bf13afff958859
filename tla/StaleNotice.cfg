SPECIFICATION Spec
CONSTANTS
  Sessions = {s1, s2}
  Peers = {p1}
  Convs = {c1, c2}
  None = None
  InputCap = 1
  SndWnd = 1
  Expires = FALSE
  AcceptCap = 1
  Fec = FALSE
PROPERTIES NoticeEvictsFinished
CHECK_DEADLOCK FALSE
