SPECIFICATION FairSpec
CONSTANTS
  Server = server
  Nobody = nobody
  Workers = {w1}
  Addrs = {a1, a2}
  Periods = {1, 2}
  Delays = {0, 1}
  Removals = {"waiting"}
  MaxAdds = 2
  MaxDepth = 4
  MaxTime = 4
INVARIANTS
  WalkSound
PROPERTIES
  NoLateStart
  DelayedRuns
CHECK_DEADLOCK FALSE
