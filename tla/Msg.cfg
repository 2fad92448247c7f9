CONSTANTS
  MaxPid = 4
  PrioLevels = 3
  NThreads = 4
  Numbers = 4
  Prio <- MCPrio
  QueueSize <- MCQueue
  Sends <- MCSends
  Requests <- MCRequests
SPECIFICATION FairSpec
INVARIANTS
  MsgIntact
  
  
PROPERTIES
  UrgentRequestAnswered
