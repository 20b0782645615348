CONSTANTS
  q1 = q1
  r1 = r1
  w1 = w1
  p1 = p1
  Runs = {r1}
  Workers = {w1}
  None = None
  Unreserved = Unreserved
  AttemptCap = 100
  Procs = {p1}
  WorkerOf <- OwnId
  Items = {q1}
  RequestedRun <- OwnRun
  OperatorActions = {}
  MaxRecoveries = 0
  MaxCrashes = 1
SPECIFICATION Spec
INVARIANT GraphWriteIsReported
CHECK_DEADLOCK FALSE
