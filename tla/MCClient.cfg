SPECIFICATION ClientFairSpec
CONSTANTS
  r1 = r1
  s1 = s1
  m1 = m1
  Rpcs = {r1}
  Sends = {s1}
  Msgs = {m1}
  SendLimit = 1
  MaxConn = 2
  MaxCalls = 2
  ClientFaults = {"lost", "normal", "refused", "write", "expire"}
  MaxStoreErr = 1
INVARIANTS
  NotifiedOnce
  CloseQuiesces
  ShownOnce
  NeverSkipped
PROPERTIES
  RpcReturns
  SendSettles
  CloseReturns
CHECK_DEADLOCK FALSE
