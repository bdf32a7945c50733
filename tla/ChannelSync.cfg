SPECIFICATION FairSpec
CONSTANTS
  w1 = w1
  d1 = d1
  Skus = {s1}
  Locations = {l1}
  Network = Network
  Channels = {c1}
  Listed <- ListedAll
  ShopLocation = l1
  Workers = {w1, d1}
  Calls <- CallsOf
  Viewed <- NetworkViews
  Stock <- OneEach
  Later <- OneEach
  ShopLevels = {0}
  DrainBatch = 2
  PageLimit = 1
  MaxMoves = 2
  MaxFailures = 1
INVARIANTS DriftHasCause PagingSkipsNothing
PROPERTIES CacheHeals RowsArePublished
