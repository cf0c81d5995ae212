CONSTANTS
  stock = stock
  issuer = issuer
  heir = heir
  alice = alice
  bob = bob
  usdg = usdg
  rGood = rGood
  rOver = rOver
  Distributor = Distributor
  Sink = Sink
  NoAddress = NoAddress
  NoRoot = NoRoot
  Assets = {stock}
  Accounts = {issuer, heir, alice}
  Issuers = {issuer, heir}
  Distributors = {Distributor}
  Tokens = {usdg}
  Roots = {rGood, rOver}
  Payouts = {0, 2, 3}
  Announcements <- EdgeAnnouncements
  MaxUint = 4
  MaxActions = 1
  MaxBlock = 2
  Indices = {0, 1}
  LeavesOf <- EdgeLeaves
  FeeBps <- HalfFee
  InitialBalance <- EdgeBalance
  Amounts = {1, 2, 3}
  MaxTime = 3
SPECIFICATION FairSpec
INVARIANTS
  BooksMatchStatus
  Solvent
PROPERTIES
  ImplementsBook
  HonestClaimsSettle
  ClaimWindow
