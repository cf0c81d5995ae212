CONSTANTS
  usdg = usdg
  NoCoin = NoCoin
  Ids = {1, 2}
  Kinds = {"CASH", "INFO"}
  Goals = {1}
  Amounts = {1}
  Leaves = {}
  Coins = {usdg}
  CoinOf <- SameCoin
  Pausable = {}
  Leaks = {1}
  Depth = 0
  MaxBlocks = 5
  Cooldown = 2
  MinAttempts = 1
  MaxClaims = 0
SPECIFICATION MCSpec
PROPERTIES
  ShortfallPaged
