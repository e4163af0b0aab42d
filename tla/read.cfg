SPECIFICATION FairSpec
CONSTANTS
  k1 = k1
  k2 = k2
  NoConn = NoConn
  Connections = {k1, k2}
  Programs <- Quiet
  MsgLimit = 2
  Ratio = 2
INVARIANTS
  FramingKept
  BuffersSound
PROPERTIES
  EveryMessageServed
CHECK_DEADLOCK FALSE
