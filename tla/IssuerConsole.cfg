CONSTANTS
  Total = 2
  Share = 1
  MaxActions = 2
  MaxTxs = 6
  MaxScripted = 0
SPECIFICATION ConsoleSpec
CHECK_DEADLOCK FALSE
PROPERTIES
  ClaimableWhenSaid
