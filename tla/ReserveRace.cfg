SPECIFICATION RvSpec
CONSTANTS
  s1 = s1
  s2 = s2
  o1 = o1
  o2 = o2
  Skus = {s1, s2}
  Locations = {l1, l2}
  Workers = {a1, a2}
  ApiWorkers = {a1, a2}
  JobWorkers = {}
  NoWorker = NoWorker
  Quantities = {1}
  SafetyLevels = {0}
  Operations = {}
  MaxInt = 3
  Orders = {o1, o2}
  Lines <- MixedLines
  Cancellable = {o1}
  AllowBackorder = {o1}
  ShipFrom = {l1, l2}
  Priority <- SamePriority
  InitialStock <- UnitAtEach
  MaxAttempts = 2
  MaxHolds = 2
  MaxCrashes = 1
INVARIANTS ReserveAllOrNothing NoStrandedUnits
SYMMETRY MCSymmetry
CHECK_DEADLOCK FALSE
