SPECIFICATION Spec
CONSTANTS
  k1 = k1
  k2 = k2
  NoConn = NoConn
  Connections = {k1, k2}
  Programs <- Threaded
  MsgLimit = 50
  Ratio = 10
INVARIANTS
  FramingKept
CHECK_DEADLOCK FALSE
