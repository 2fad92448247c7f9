SPECIFICATION FairSpec
CONSTANTS
  MaxPid = 4
  PrioLevels = 3
  MainPrio = 1
  CreatePrios = {0, 1}
  CreateFlags = {"NONE", "SLEEPING"}
INVARIANTS
  TypeOK
  SchedulerIntact
  AlwaysSchedulable
  HighestPriorityRuns
PROPERTIES
  RoundRobin
CHECK_DEADLOCK FALSE
