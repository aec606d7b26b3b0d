SPECIFICATION ClientSpec
CONSTANTS
  r1 = r1
  s1 = s1
  m1 = m1
  Rpcs = {r1}
  Sends = {s1}
  Msgs = {m1}
  SendLimit = 1
  MaxConn = 2
  MaxCalls = 2
  ClientFaults = {"lost", "normal", "refused", "write", "expire"}
  MaxStoreErr = 1
INVARIANT SentIsTracked
CHECK_DEADLOCK FALSE
