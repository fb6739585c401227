CONSTANTS
  l1 = l1
  l2 = l2
  l3 = l3
  pr = pr
  t1 = t1
  t2 = t2
  t3 = t3
  t4 = t4
  NoTree = NoTree
  Launch <- TwoLaunches
  Pruner <- OnePruner
  Bwrap <- TwoLaunches
  Rm <- OneRm
  Tree <- ThreeTrees
  SharedLockRetries = 2
  DesignationGateRetries = 2
SPECIFICATION FairSpec
PROPERTIES ReclaimOnlyAbandoned ExclusiveHoldsEnd
CHECK_DEADLOCK FALSE
