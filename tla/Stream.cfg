SPECIFICATION Spec
CONSTANTS
  Configs <- MCConfigs
  Sizes <- MCSizes
  Buffers <- MCBuffers
  MAX_SEND_SEGMENTS = 3
  MAX_FRAGMENTS = 4
  MaxCalls = 3
  QueueCap = 2
  RcvCap = 2
CHECK_DEADLOCK FALSE
INVARIANTS TypeOK ValidIsUsable NoSizeError SaidIsTaken
PROPERTIES ImplementsByteFifo
