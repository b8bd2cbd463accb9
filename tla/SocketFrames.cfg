SPECIFICATION LiveSpec
CONSTANTS
  Conns = {1, 2}
  Inputs <- MCInputs
  Flips <- MCFlips
  MaxMsgs = 2
  Window = 2
  kMaxMessageSize = 3
  Uint32 = 8
INVARIANTS
  DeliveredInOrder
  
  
  FrameInv
PROPERTIES
  SentArrives
CHECK_DEADLOCK FALSE
