CONSTANTS
  SeqSpace = 16
  MSS = 1
  MboxSize = 2
  Accepts = 2
  Mishaps = 1
  Faults = 0
  Hungry = {}
  Iss <- MCIss
  Offer <- MCOffer
SPECIFICATION Spec
INVARIANT
  SentAndAcked
CHECK_DEADLOCK FALSE
