SPECIFICATION MCSpec
CONSTANTS
  Reliability = "ReliableOrdered"
  WindowSize = 2
  MaxSlots = 1
  SendCap = 1
  MaxRetransmits = 0
  MaxSend = 2
  MaxFlush = 1
  MaxClose = 1
  SendFaults = {}
  MaxRClose = 1
  RecvFaults = {}
  RecvReliability = "ReliableOrdered"
  RecvWindow = 2
  RecvCap = 1
  Reserve = 1
  MaxAckRetries = 0
  MaxRead = 2
  MaxSeq = 0
  MaxTerminal = 1
INVARIANTS AckIsDelivered FlushDelivered RemoteCloseComplete
PROPERTY IsChannel
CHECK_DEADLOCK FALSE
