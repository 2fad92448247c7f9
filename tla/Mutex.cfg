CONSTANTS
  MaxPid = 4
  PrioLevels = 3
  NMutex = 2
  IsrMutexes = {2}
  Prio <- MCPrio
SPECIFICATION Spec
INVARIANTS
  MutexIntact
  ExactlyOneOwner
PROPERTIES
  NoOvertaking
  ImplementsLock
