SPECIFICATION RvFairSpec
CONSTANTS
  s1 = s1
  s2 = s2
  o1 = o1
  o2 = o2
  Skus = {s1}
  Locations = {l1}
  Workers = {a1, j1}
  ApiWorkers = {a1}
  JobWorkers = {j1}
  NoWorker = NoWorker
  Quantities = {1}
  SafetyLevels = {0}
  Operations = {}
  MaxInt = 3
  Orders = {o1, o2}
  Lines <- UnitEach
  Cancellable = {}
  AllowBackorder = {}
  ShipFrom = {l1}
  Priority <- SamePriority
  InitialStock <- TwoUnits
  MaxAttempts = 2
  MaxHolds = 2
  MaxCrashes = 1
PROPERTIES DueHoldsExpire
CHECK_DEADLOCK FALSE
