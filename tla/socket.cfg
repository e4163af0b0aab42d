SPECIFICATION FairSpec
CONSTANTS
  Vectors <- AllVectors
  IovMax = 2
  MaxRW = 6
  TrailBuffer = 1
  Short = {"writev", "nonblocking", "read"}
INVARIANTS
  BytesInOrder
  ResultSound
PROPERTIES
  CallReturns
CHECK_DEADLOCK FALSE
