SPECIFICATION FairSpec
CONSTANTS
  r1 = r1
  r2 = r2
  r3 = r3
  Local = local
  Programs <- AllPrograms
INVARIANTS
  Sound
  ShutdownSound
PROPERTIES
  RunningIsDeployed
  StartInOrder
  AllProceed
CHECK_DEADLOCK FALSE
