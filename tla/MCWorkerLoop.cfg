CONSTANTS
  s1 = s1
  s2 = s2
  l1 = l1
  l2 = l2
  None = None
  Services <- TwoServices
  Loops <- TwoLoops
  MaxIterations = 2
  MaxNoYield = 1
  MaxMalformed = 1
  MaxRuntime = 2
  LeaseTTL = 1
  MaxTime = 2
  MaxStops = 1
  MaxLoopCrashes = 1
SPECIFICATION FairSpec
INVARIANTS
  LoopsTypeOK
  LeaseExcludes
  IterationsAreCounted
  LoopBudget
PROPERTIES
  EveryLoopEnds
CHECK_DEADLOCK FALSE
