CONSTANTS
  MaxPid = 4
  PrioLevels = 3
  NMutex = 1
  IsrMutexes = {1}
  MaxValue = 2
  InitValue = 0
  Prio <- MCPrio
  Calls <- MCCalls
SPECIFICATION SFairSpec
INVARIANTS
  
  NobodyForgotten
  TimedWaitIsTimed
PROPERTIES
  TimedWaitReturns
CHECK_DEADLOCK FALSE
