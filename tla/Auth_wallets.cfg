SPECIFICATION Spec
CONSTANTS
  op = op  w1 = w1  n1 = n1  n2 = n2  n3 = n3  r1 = r1  r2 = r2  c1 = c1
  Operator = op
  Wallets = {op, w1}
  Clients = {op}
  Emails = {e1}
  Nonces = {n1, n2, n3}
  Registrations = {r1, r2}
  Connects = {c1}
  MaxPending = 2
  ChallengeTtl = 2
  SessionTtl = 1
  Leeway = 0
  MaxClock = 3
SYMMETRY RequestSymmetry
INVARIANTS AuthInv RegisteredIsComplete OperatorSignedIn
PROPERTIES NonceUsedOnce LiveNonceKept ApprovedStays
CHECK_DEADLOCK FALSE
