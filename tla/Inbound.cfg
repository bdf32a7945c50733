SPECIFICATION InbFairSpec
CONSTANTS
  Skus = {s1}
  Locations = {l1, l2}
  Workers = {w1, w2}
  NoWorker = NoWorker
  Quantities = {1}
  SafetyLevels = {0}
  MaxInt = 3
  Operations = {"TRANSFER"}
  DeliverySizes = {2}
  MaxInbounds = 2
INVARIANTS InboundConserved RemainingIsInTransit
PROPERTIES TransactionsEnd
