SPECIFICATION RegistriesSpec
CONSTANTS
  i1 = i1
  i2 = i2
  d1 = d1
  h1 = h1
  h2 = h2
  StreamIds = {i1, i2}
  Dialers = {d1}
  Handlers = {h1, h2}
  AcceptBacklog = 1
  MaxStreams = 2
  p1 = p1
  k1 = k1
  RelayIds = {p1}
  Connects = {k1}
  MaxRelays = 3
  MaxLogins = 2
INVARIANTS
  LiveIsRegistered
  CloseEndsStreams
  NoStrandedStream
  AliveIsOwner
  SessionBound
PROPERTIES
  CloseEndsRelays
CHECK_DEADLOCK FALSE
