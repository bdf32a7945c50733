SPECIFICATION FairSpec
CONSTANTS
  o1 = o1
  o2 = o2
  c1 = c1
  c2 = c2
  a = a
  b = b
  n1 = n1
  n2 = n2
  n3 = n3
  Orders = {o1, o2}
  Calls = {c1, c2}
  Skus = {a, b}
  Nodes = {n1, n2, n3}
  Null = Null
  Worlds <- MCWorlds
  RuleSets <- MCRuleSets
  MaxAttempts = 2
INVARIANTS UnitsConserved PlanCovers StrategyHonoured FewestLegs CapacityHeld
CHECK_DEADLOCK FALSE
PROPERTIES SourcingEnds
