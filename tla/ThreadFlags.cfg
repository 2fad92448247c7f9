CONSTANTS
  MaxPid = 4
  PrioLevels = 3
  NBits = 2
  QueueSize = 1
  Waiters = {2, 4}
  Sleepers = {2}
  Handlers = {3}
  Prio <- MCPrio
  Masks <- MCMasks
SPECIFICATION Spec
INVARIANTS
  FlagsIntact
  NoLostWakeup
  WaitReturnsFlags
  NoMessageForgotten
