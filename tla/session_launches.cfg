CONSTANTS
  l1 = l1
  l2 = l2
  l3 = l3
  pr = pr
  t1 = t1
  t2 = t2
  t3 = t3
  t4 = t4
  NoTree = NoTree
  Launch <- ThreeLaunches
  Pruner <- NoPruner
  Bwrap <- TwoLaunches
  Rm <- ThreeLaunches
  Tree <- FourTrees
  SharedLockRetries = 3
  DesignationGateRetries = 3
SPECIFICATION Spec
INVARIANTS TypeOK AtMostOneOwner RootStaysUnderSession
PROPERTIES ConcurrentOnlyBesideLive TeardownTakesIdleTree Refinement
CHECK_DEADLOCK FALSE
SYMMETRY TreeSymmetry
