SPECIFICATION FairSpec
CONSTANTS
  a1 = a1
  a2 = a2
  Apps = {a1, a2}
  Net = Net
  Stones = {1, 2}
  Conns = {c1, c2}
  Programs <- AllPrograms
  MaxEvents = 3
  None = None
INVARIANTS
  EventsAccounted
  ReferencesExact
PROPERTIES
  EventsProceed
CHECK_DEADLOCK FALSE
