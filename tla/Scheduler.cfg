SPECIFICATION FairSpec
CONSTANTS
  Sessions = {s1, s2, s3}
  NumShards = 2
  MaxDelay = 1
  Steps = {1, 2}
  SetBack = 2
  MaxSetBacks = 1
INVARIANTS TypeOK HeldOnce PassComplete
PROPERTIES OncePerPass ImplementsTicker
