SPECIFICATION LiveSpec
CONSTANTS
  Convs = {1, 2}
  None = None
  Segments = 2
  ToServerCap = 1
  ToClientCap = 2
  MaxEnding = 1
CHECK_DEADLOCK FALSE
INVARIANTS TypeOK UnnamedIsFirst OneConversation
PROPERTIES LearnsConversation
