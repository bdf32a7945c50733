SPECIFICATION Spec
CONSTANTS
  Skus = {s1}
  Locations = {l1, l2}
  Workers = {w1, w2}
  NoWorker = NoWorker
  Quantities = {1}
  SafetyLevels = {0, 1}
  MaxInt = 1
  Operations = {"RECEIPT", "ADJUSTMENT", "RETURN", "RESERVE", "RELEASE_RESERVE", "ALLOCATE", "DEALLOCATE", "CONVERT_RESERVE_TO_ALLOC", "SHIP", "TRANSFER", "RESERVE_ORDER", "SOURCE_ORDER", "SAFETY_STOCK"}
SYMMETRY MCSymmetry
INVARIANTS TypeOK SnapshotIsLedgerSum NoNegativeBucket
PROPERTIES NoOversellStep ImplementsStockLedger
