SPECIFICATION FairSpec
CONSTANTS
  w1 = w1
  w2 = w2
  n1 = n1
  n2 = n2
  Workers = {w1, w2}
  Nodes = {n1, n2}
  Scenarios <- MCScenarios
INVARIANTS AllocationsAccounted RollupSound CancelFreesStock PaymentRecordTrue
PROPERTIES DeliveryRollsUp
