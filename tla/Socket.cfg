SPECIFICATION FairSpec
CONSTANTS
  Writers = {w1, w2}
  Readers = {r1, r2}
  None = None
  SndWnd = 2
  RmtWnds = {0, 1, 3}
  MaxSegments = 3
  RcvCap = 3
  AllowEmpty = FALSE
  EmptySent = TRUE
  Malformed = TRUE
INVARIANTS TypeOK ParkedIsRegistered ClosedNobodyParked OvershootBounded OneSegmentUnnamed ParkedReaderHasNothing
PROPERTIES SenderResumes
