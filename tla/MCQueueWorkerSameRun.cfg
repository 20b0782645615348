CONSTANTS
  q1 = q1
  q2 = q2
  r1 = r1
  r2 = r2
  w1 = w1
  w2 = w2
  p1 = p1
  p2 = p2
  Runs <- TwoRuns
  Workers <- TwoWorkers
  Procs <- TwoProcs
  WorkerOf <- OwnIds
  None = None
  Unreserved = Unreserved
  AttemptCap = 100
  Items <- OneItem
  Pollers = {p1, p2}
  Callers = {}
  RequestedRun <- OwnRuns
  CallerRuns <- NoCalls
  Supported = {q1}
  MaxAttempts = 3
  OperatorActions = {}
  MaxRecoveries = 0
  MaxCrashes = 0
SPECIFICATION Spec
INVARIANT SingleHandler
CHECK_DEADLOCK FALSE
