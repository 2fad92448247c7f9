CONSTANTS
  Packets = {p1, p2, p3}
  InboxSize = 3
  QueueSize = 2
  MaxTx = 2
SPECIFICATION FairSpec
INVARIANTS
  
  NoPacketLost
PROPERTIES
  ListensWhenPending
  
CHECK_DEADLOCK FALSE
