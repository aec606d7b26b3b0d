SPECIFICATION ModesSpec
CONSTANTS
  RecvReliability = "ReliableOrdered"
  RecvWindow = 2
  RecvCap = 1
  Reserve = 1
  MaxAckRetries = 0
  MaxRead = 1
  MaxSeq = 3
  MaxTerminal = 1
  MaxRClose = 0
  RecvFaults = {"ack"}
  LooseWindow = 1
  LooseSeq = 2
INVARIANTS OrderedFits ModesWithinBudget CloseNotBeforeAck
PROPERTY TerminalProcessed
CHECK_DEADLOCK FALSE
