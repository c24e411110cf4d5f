SPECIFICATION Spec
CONSTANTS
  p1 = p1  p2 = p2
  Payers = {p1, p2}
  ScanBatch = 2
  ScanCap = 4
  MaxTargets = 2
  MatchCap = 4
  MaxCount = 3
SYMMETRY PayersSymmetry
INVARIANTS HoldingInv FundedIsListed ResolvesUpToCap TargetsWereNew
