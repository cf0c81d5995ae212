SPECIFICATION PartsSpec
CONSTANTS
  stock = stock
  usdg = usdg
  NoAddress = NoAddress
  NoRoot = NoRoot
  Assets = {stock}
  Accounts = {issuer, heir}
  Issuers = {issuer, heir}
  Distributors = {d1, d2}
  Tokens = {usdg}
  Roots = {r1, r2}
  Payouts = {0, 1, 2}
  Announcements <- MCAnnouncements
  MaxUint = 2
  MaxActions = 2
  MaxBlock = 2
  Vaults = {v1, v2}
  Coins = {c1, c2}
  NoCoin = NoCoin
  Quantities = {0, 1, 2, 3}
INVARIANTS
  PoolCoversVaults
  PublishedSound
PROPERTIES
  LifecycleForward
