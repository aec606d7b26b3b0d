CONSTANTS
  Nil = Nil
  Root = "root"
  Scenarios <- MCScenarios
  Pushes <- MCPushes
  MaxPush = 2
  PayloadOf <- Payload
  Resolve <- resolveValue
  Lookup <- lookupPath
  Matches <- matchSubset
SPECIFICATION Spec
INVARIANT BarrierTogether
INVARIANT ErrorIsCause
INVARIANT ClosedAtEnd
INVARIANT ExpectationsHold
PROPERTY StopReturns
PROPERTY OrderlyReturns
CHECK_DEADLOCK FALSE
