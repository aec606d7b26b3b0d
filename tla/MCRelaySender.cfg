SPECIFICATION SenderFairSpec
CONSTANTS
  Reliability = "ReliableOrdered"
  WindowSize = 1
  MaxSlots = 1
  SendCap = 1
  MaxRetransmits = 1
  MaxSend = 2
  MaxFlush = 1
  MaxClose = 1
  SendFaults = {"abort", "timeout", "rpc"}
INVARIANTS
  UnackedIsWindow
  NoSilentStall
  NoLostWakeup
  FlushCovers
  CloseAfterAcks
PROPERTIES
  FlushReturns
  CloseReturns
CHECK_DEADLOCK FALSE
