CONSTANTS
  stock = stock
  issuer = issuer
  heir = heir
  alice = alice
  bob = bob
  usdg = usdg
  rGood = rGood
  rOver = rOver
  Distributor = Distributor
  Sink = Sink
  NoAddress = NoAddress
  NoRoot = NoRoot
  Assets = {stock}
  Accounts = {issuer, alice, bob}
  Issuers = {issuer}
  Distributors = {Distributor}
  Tokens = {usdg}
  Roots = {rGood, rOver}
  Payouts = {2}
  Announcements <- PoolAnnouncements
  MaxUint = 4
  MaxActions = 2
  MaxBlock = 1
  Indices = {0, 1}
  LeavesOf <- PoolLeaves
  FeeBps <- NoFee
  InitialBalance <- PoolBalance
  Amounts = {1, 2}
  MaxTime = 3
SPECIFICATION Spec
INVARIANTS
  ClaimsAddUp
  HonestLeavesPayable
PROPERTIES
  ImplementsVaults
