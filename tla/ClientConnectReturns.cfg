SPECIFICATION ClientFairSpec
CONSTANTS
  Rpcs = {}
  Sends = {}
  Msgs = {}
  SendLimit = 1
  MaxConn = 1
  MaxCalls = 0
  ClientFaults = {"lost", "normal", "refused", "write", "expire"}
  MaxStoreErr = 1
PROPERTY ConnectReturns
CHECK_DEADLOCK FALSE
