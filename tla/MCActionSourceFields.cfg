SPECIFICATION Spec
CONSTANTS
  stock = stock
  other = other
  usdg = usdg
  eurg = eurg
  NoAddress = NoAddress
  NoRoot = NoRoot
  NoRequest = NoRequest
  Assets = {stock, other}
  Accounts = {issuer}
  Issuers = {issuer}
  Distributors = {}
  Tokens = {usdg, eurg}
  Roots = {}
  Payouts = {}
  Announcements <- MCAnnouncementsLoose
  VendorRecords <- MCVendorRecords
  Tickers = {"STK"}
  Payloads <- MCPayloadsLoose
  NoPayload = NoPayload
  AttestKeys <- MCAttestKeys
  RateTolerance = 1
  MaxUint = 1
  MaxActions = 1
  MaxBlock = 0
  MaxRequests = 2
INVARIANTS
  OnlyVerifiedFields
