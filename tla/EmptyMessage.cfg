SPECIFICATION FairSpec
CONSTANTS
  Writers = {w1}
  Readers = {r1}
  None = None
  SndWnd = 1
  RmtWnds = {3}
  MaxSegments = 1
  RcvCap = 2
  AllowEmpty = FALSE
  EmptySent = TRUE
  Malformed = FALSE
PROPERTIES ReaderServed
