CONSTANTS
  q1 = q1
  q2 = q2
  r1 = r1
  r2 = r2
  w1 = w1
  w2 = w2
  p1 = p1
  p2 = p2
  None = None
  Runs <- TwoRuns
  Workers <- TwoWorkers
  Procs <- TwoProcs
  WorkerOf <- OwnIds
  Unreserved = Unreserved
  AttemptCap = 100
  Items <- OneItem
  Pollers = {p1}
  Callers = {p2}
  RequestedRun <- OwnRuns
  CallerRuns <- AnyRunCalls
  Supported = {q1}
  MaxAttempts = 2
  OperatorActions = {"recover_dead_letter", "retry_stale", "dead_letter_stale"}
  MaxRecoveries = 1
  MaxCrashes = 1
SPECIFICATION Spec
INVARIANTS
  WorkerTypeOK
  LinkInv
  ClaimInv
  NoStrandedClaim
  RetryBudget
  OneRunHandled
PROPERTIES
  RunsFollowTable
CHECK_DEADLOCK FALSE
