CONSTANTS
  MaxPid = 4
  PrioLevels = 3
  W = 2
  Size = 1
  Numbers = 3
  Prio <- MCPrio
  Writers = {0, 2}
  Readers = {4}
SPECIFICATION Spec
INVARIANTS
  MboxIntact
  NoLossNoReordering
  OnlySlipsHarm
