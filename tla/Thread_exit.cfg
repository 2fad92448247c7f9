SPECIFICATION Spec
CONSTANTS
  MaxPid = 3
  PrioLevels = 3
  MainPrio = 1
  CreatePrios = {0, 1}
  CreateFlags = {"NONE", "SLEEPING"}
INVARIANT NoNullStore
CHECK_DEADLOCK FALSE
