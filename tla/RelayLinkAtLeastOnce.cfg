SPECIFICATION Spec
CONSTANTS
  Reliability = "AtLeastOnce"
  WindowSize = 2
  MaxSlots = 2
  SendCap = 1
  MaxRetransmits = 1
  MaxSend = 2
  MaxFlush = 1
  MaxClose = 0
  SendFaults = {}
  RecvReliability = "AtLeastOnce"
  RecvWindow = 2
  RecvCap = 1
  Reserve = 0
  MaxAckRetries = 0
  MaxRead = 2
  MaxSeq = 0
  MaxTerminal = 0
  MaxRClose = 0
  RecvFaults = {}
INVARIANT FlushDelivered
CHECK_DEADLOCK FALSE
