SPECIFICATION FairSpec
CONSTANTS
  u1 = u1
  u2 = u2
  p = p
  Users = {u1, u2}
  Net = Net
  Peers = {p}
  Conns = {1, 2, 3}
  None = None
  Programs <- TwoPrograms
INVARIANTS
  RefsSound
  SharedOnce
PROPERTIES
  ConnectionsEnd
CHECK_DEADLOCK FALSE
