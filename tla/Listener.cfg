SPECIFICATION Spec
CONSTANTS
  Sessions = {s1, s2}
  Peers = {p1}
  Convs = {c1, c2}
  None = None
  InputCap = 1
  SndWnd = 1
  Expires = TRUE
  AcceptCap = 1
  Fec = TRUE
SYMMETRY Symmetry
INVARIANTS TypeOK EvictedIsClosed OpenHasOwner FinishedEntryHasNotice RoutedToItsConv GracefulClose
CHECK_DEADLOCK FALSE
