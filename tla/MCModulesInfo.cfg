CONSTANTS
  m1 = m1
  m2 = m2
  m3 = m3
  Modules <- MCModules
  Infos <- MCInfos
  Roots <- MCRoots
  VecCap = 3
SPECIFICATION FairSpec
CHECK_DEADLOCK FALSE
INVARIANT TypeOK
INVARIANT DepsFirst
INVARIANT OrderExact
INVARIANT CycleIsReal
INVARIANT ValidatedPaths
PROPERTY CallReturns
