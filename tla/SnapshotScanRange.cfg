SPECIFICATION Spec
CONSTANTS
  First = 1
  Last = 4
  MaxHead = 6
  Contents = {none, c1}
  NoLogs = none
  ReorgDepth = 2
  Confirmations = 2
  InitialChunk = 4
  MinChunk = 1
  MaxRetries = 2
  ResultLimit = 2
CHECK_DEADLOCK FALSE
INVARIANTS
  UnusableOnlyAtMinChunk
