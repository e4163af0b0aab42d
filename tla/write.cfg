SPECIFICATION FairSpec
CONSTANTS
  m1 = m1
  m2 = m2
  m3 = m3
  m4 = m4
  m5 = m5
  Writers = {w1, w2, w3}
  Pollers = {w1}
  NoMessage = none
  Plain = {m1, m2}
  WithAttrs = {m3}
  Raw = {m4}
  Direct = {m5}
  HeaderLength = 2
  AttrLength = 2
  DataLengths <- TwoPieces
  FirstPart = 4
  Applications <- OpenAndClosed
  UserData = {0}
  Breaks = TRUE
  RepliesWait = TRUE
  RegisterUntil = 2
INVARIANTS
  Exact
PROPERTIES
  CallbacksKept
  ImplementsByteStream
  WritesProceed
CHECK_DEADLOCK FALSE
