CONSTANTS
  a1 = a1
  a2 = a2
  Callers = {a1, a2}
  Server = server
  Programs <- AllPrograms
  MaxEvents = 2
SPECIFICATION FairSpec
INVARIANTS
  EventsHeld
  QueuesExact
  QuietMeansDone
PROPERTIES
  StoppedStonesIdle
  QueuedProcessed
CHECK_DEADLOCK FALSE
