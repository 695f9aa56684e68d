SPECIFICATION TokensSpec
CONSTANTS
  a = a
  b = b
  Sessions = {a, b}
  Setups <- OwnStores
  SlowHost = FALSE
  MaxVersion = 3
  MaxRequests = 3
  MaxFaults = 1
INVARIANTS
  NeverSpentTwice
CHECK_DEADLOCK FALSE
