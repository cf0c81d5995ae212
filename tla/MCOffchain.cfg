CONSTANTS
  usdg = usdg
  NoCoin = NoCoin
  Ids = {1, 2}
  Kinds = {"CASH", "INFO"}
  Goals = {2}
  Amounts = {1, 2}
  Leaves <- TwoLeaves
  Coins = {usdg}
  CoinOf <- InUsdg
  Pausable = {"registry", "distributor"}
  Leaks = {1}
  Depth = 1
  MaxBlocks = 6
  Held = {1}
  Cooldown = 1
  MinAttempts = 1
  MaxClaims = 1
  MaxTotal = 1
  LargeFund = 100
  LargeSweep = 50
  Suspect <- SomeSuspect
  MaxAgain = 1
  Ticks = {1, 2, 3, 4}
  ChainIds = {1, 2}
  Files <- OneFile
  Declared = {0, 8}
  CoinDecimals = 8
  Shipped <- Bundles
  MaxAmounts = 1
  RelayKeys = {"holder", "other"}
  WindowLength = 2
  PerKeyLimit = 2
  GlobalLimit = 3
  KeysKept = 1
  MaxNow = 4
  Client = "holder"
  MaxClicks = 2
  FormTotal = 2
  Share = 1
  MaxActions = 1
  MaxTxs = 5
  MaxScripted = 2
  SplitIds = {1, 2, 3}
  SplitKinds = {"CASH", "INFO"}
  Accounts = {"keeper", "successor"}
  AssetOf <- TwoAssets
  RatioOf <- Ratios
  Prices = {9}
SPECIFICATION AnySpec
CHECK_DEADLOCK FALSE
INVARIANTS
  OnlyRepeatsFlagged
  VerdictAsAtEvent
  RunningKeepsPolling
  EntitiesMatchBook
  StreamsTellTheBook
  ViewCoherent
  PaidMeansPaid
  RatesBounded
  DepositsApproved
  ConfigResolved
  AmountsAsTyped
  PriceFollowsSplits
PROPERTIES
  PagesExactly
  ShortfallPagedAgain
  StoppedComesToRest
  CatchesUp
  HolderSeesPayment
