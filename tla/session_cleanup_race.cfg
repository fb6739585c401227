CONSTANTS
  l1 = l1
  l2 = l2
  l3 = l3
  pr = pr
  t1 = t1
  t2 = t2
  t3 = t3
  t4 = t4
  NoTree = NoTree
  Launch <- TwoLaunches
  Pruner <- NoPruner
  Bwrap <- TwoLaunches
  Rm <- OneRm
  Tree <- FourTrees
  SharedLockRetries = 2
  DesignationGateRetries = 2
SPECIFICATION Spec
PROPERTIES CleanupSparesSessions
CHECK_DEADLOCK FALSE
SYMMETRY TreeSymmetry
