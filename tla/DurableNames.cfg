SPECIFICATION FairSpec
CONSTANTS
  Setups <- AllSetups
  MaxSessions = 2
  MaxMessages = 2
  MaxTries = 1

INVARIANTS
  OneConfiguration
PROPERTIES
  Served
CHECK_DEADLOCK FALSE
