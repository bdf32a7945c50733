SPECIFICATION FairSpec
CONSTANTS
  t1 = t1
  t2 = t2
  shop1 = shop1
  c1 = c1
  n1 = n1
  n2 = n2
  None = None
  Unused = Unused
  Tenants = {t1, t2}
  Shops = {shop1, shop2}
  Codes = {c1}
  Scenarios <- MCScenarios
  Nonces = {n1, n2}
  Workers = {w1, w2}
  MaxOrders = 2
  MaxCrashes = 1
INVARIANTS DuplicateHasCause AnswersTrue OneChannelPerInstall
PROPERTIES OrdersArrive
CHECK_DEADLOCK FALSE
