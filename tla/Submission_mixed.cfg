SPECIFICATION Spec
CONSTANTS
  w1 = w1  e1 = e1  e2 = e2
  Wallets = {w1}
  Emails = {e1, e2}
  Requests = {1, 2}
  Councils = {c1}
  Arrivals <- MixedArrivals
  Utxos <- MCKeys
  Endowment <- MCEndowment
  HoldingKeys <- MCHolding
  ExpirationOffset = 1
  MaxOperations = 3
  MaxFee = 100
  MaxLedger = 2
INVARIANTS BundleBalances
CHECK_DEADLOCK FALSE
