SPECIFICATION Spec
CONSTANTS
  c1 = c1  c2 = c2
  Client = {c1, c2}
  Request <- MCRequest
  MaxRequests <- MCMaxRequests
  MaxConnections = 1
  MaxBody = 1
  LingerMax = 1
CHECK_DEADLOCK FALSE
INVARIANTS
  OnlyRequestsAreServed
  SlotsAreHeld
  EarlyAnswersArrive
PROPERTY
  ConnectionsEnd
