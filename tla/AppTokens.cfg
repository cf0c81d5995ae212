CONSTANTS
  Declared = {0, 8}
  CoinDecimals = 8
  Shipped = {{}, {31337, 46630}}
  MaxAmounts = 1
SPECIFICATION AppSpec
INVARIANTS
  RatesShownAsTyped
