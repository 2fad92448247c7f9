CONSTANTS
  MaxPid = 4
  PrioLevels = 3
  NMutex = 1
  IsrMutexes = {}
  MaxDepth = 2
  Prio <- MCPrio
SPECIFICATION RFairSpec
INVARIANTS
  MutualExclusion
  UnlockAssertions
  NoSelfDeadlock
PROPERTIES
  UrgentLockReturns
