SPECIFICATION TokensFairSpec
CONSTANTS
  a = a
  b = b
  Sessions = {a, b}
  Setups <- AllSetups
  SlowHost = FALSE
  MaxVersion = 3
  MaxRequests = 3
  MaxFaults = 1

INVARIANTS
  SpentOnce
PROPERTIES
  RequestsEnd
CHECK_DEADLOCK FALSE
