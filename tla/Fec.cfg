SPECIFICATION Spec
CONSTANTS
  D = 2
  P = 1
  Word = 16
  MaxShardSets = 1
  Reach = 4
  MaxEncodes = 10
CHECK_DEADLOCK FALSE
INVARIANTS TypeOK Aligned GroupFitsBeforeWrap RecoveredWasSealed MemoryBounded GroupRecovered
