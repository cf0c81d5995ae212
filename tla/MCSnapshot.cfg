CONSTANTS
  First = 1
  Last = 6
  MaxHead = 8
  Contents = {none, c1}
  NoLogs = none
  ReorgDepth = 2
  Confirmations = 2
  InitialChunk = 3
  MinChunk = 1
  MaxRetries = 2
  ResultLimit = 2
  ParallelLast = 10
  Width = 4
  Workers = {w1, w2}
  MaxAttempts = 2
  RangeLimit = 2
  MaxAddress = 3
  Histories <- MCHistories
  Rates = {1, 3}
  Withholdings = {0, 1, 4}
  Exclusions = {{}, {1}}
  One = 2
  Denominator = 4
  NotGiven = NotGiven
  ForeignFiles <- MCForeignFiles
  MaxAmount = 3
  Excludable = {"pool"}
  NodeChain = "node"
  Chains = {"other"}
  Artifacts = {1, 2}
  MaxPinned = 2
  Ids = {"a", "b"}
  Payees = {"x", "y"}
  Sharded = {"a"}
  HoldersOf <- MCHoldersOf
  PrefixOf <- MCPrefixOf
  RecordBlock = 5
  MaxSpan = 1
  MaxHeight = 7
  MaxClaimed = 1
SPECIFICATION AnySpec
CHECK_DEADLOCK FALSE
INVARIANTS
  SnapshotStaysTrue
  SharesFollowLogs
  ArtifactPayable
  VerifyIsExact
  EveryHolderPaid
  PinMatchesFile
  AnswersTrue
PROPERTIES
  ImplementsCollection
  ParallelCollects
  ScansEnd
