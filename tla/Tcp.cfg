CONSTANTS
  SeqSpace = 16
  MSS = 1
  MboxSize = 1
  Accepts = 2
  Mishaps = 1
  Faults = 1
  Hungry = {"client"}
  Iss <- MCIss
  Offer <- MCOffer
SPECIFICATION Spec
INVARIANTS
  
  
  
  WaitsForATimer
PROPERTY
  SendSuccess
CHECK_DEADLOCK FALSE
