CONSTANTS
  a1 = a1
  a2 = a2
  k1 = k1
  AppThreads = {a1, a2}
  CommThread = comm
  NoThread = none
  Conns = {k1}
  NoConn = nullconn
  CloseHandled = {k1}
  MaxConditions = 1
  MaxDepth = 1
  CommAtStart = FALSE
  Usage = {"fork", "run", "fail", "appsignal", "close_conn", "eof", "close_cm", "spurious"}
SPECIFICATION Spec
SYMMETRY AppSymmetry
INVARIANTS
  NoLostTrigger
PROPERTIES
  ReadAheadStops
CHECK_DEADLOCK FALSE
