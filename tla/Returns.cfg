SPECIFICATION Spec
CONSTANTS
  a = a
  b = b
  Lines = {a, b}
  Ordered <- TwoAndOne
  Price <- SamePrice
  SkuOf <- OwnSku
  Requests <- SomeRequests
  Gateways = {"mock", "stripe"}
  Workers = {w1, w2}
  MaxReturns = 2
  MaxCrashes = 1
INVARIANTS RestockAccounted ReturnedIffAllBack RefundsEarned
SYMMETRY MCSymmetry
CHECK_DEADLOCK FALSE
