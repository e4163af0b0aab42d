CONSTANTS
  a1 = a1
  a2 = a2
  k1 = k1
  AppThreads = {a1, a2}
  CommThread = comm
  NoThread = none
  Conns = {k1}
  NoConn = nullconn
  CloseHandled = {}
  MaxConditions = 2
  MaxDepth = 1
  CommAtStart = TRUE
  Usage = {"eof", "fail"}
SPECIFICATION AnsweringSpec
INVARIANTS
  TypeOK
  WaitedConditionLive
  OnePoller
  WakeReadNeverBlocks
  NoLostWakeup
  ResultsSound
PROPERTIES
  WaitReturns
CHECK_DEADLOCK FALSE
