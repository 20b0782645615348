CONSTANTS
  q1 = q1
  r1 = r1
  w1 = w1
  p1 = p1
  p2 = p2
  h1 = h1
  h2 = h2
  None = None
  Unreserved = Unreserved
  Nobody = Nobody
  AttemptCap = 100
  Items = {q1}
  Runs = {r1}
  Workers = {w1}
  Procs <- TwoProcs
  Holders <- TwoProcs
  Hosts = {h1, h2}
  WorkerOf <- SharedId
  HostOf <- OneHost
  RequestedRun <- OneRun
  OperatorActions = {}
  MaxRecoveries = 0
  MaxCrashes = 1
  MaxExpiries = 1
  MaxAttempts = 2
SYMMETRY ProcSymmetry
SPECIFICATION Spec
INVARIANTS
  ScheduledTypeOK
  LeaseIsReturned
  CompletedRunIsPersisted
PROPERTIES
  ExecutesUnderLease
  LedgerSpec
CHECK_DEADLOCK FALSE
