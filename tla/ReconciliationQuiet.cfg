SPECIFICATION RSpec
CONSTANTS
  Skus = {s1}
  Locations = {l1, l2}
  Workers = {w1}
  NoWorker = NoWorker
  Quantities = {1}
  SafetyLevels = {0}
  MaxInt = 1
  Operations = {"RECEIPT", "RESERVE", "TRANSFER"}
  RepairModes = {TRUE, FALSE}
  MaxPasses = 2
SYMMETRY MCSymmetry
INVARIANTS QuietPassExact
