CONSTANTS
  Timers = {t1, t2}
  Period = 7
  BACKOFF = 3
  ISR_BACKOFF = 2
  OVERHEAD = 1
  Offsets = {1, 3, 8}
  Latency = 1
SPECIFICATION FairSpec
INVARIANTS
  ListsIntact
  Armed
PROPERTY
  Fires
