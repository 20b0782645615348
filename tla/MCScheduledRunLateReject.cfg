CONSTANTS
  q1 = q1
  r1 = r1
  w1 = w1
  p1 = p1
  p2 = p2
  h1 = h1
  h2 = h2
  None = None
  Unreserved = Unreserved
  Nobody = Nobody
  AttemptCap = 100
  Items = {q1}
  Runs = {r1}
  Workers = {w1}
  Procs <- TwoProcs
  Holders <- TwoProcs
  Hosts = {h1, h2}
  WorkerOf <- SharedId
  HostOf <- OneHost
  RequestedRun <- OneRun
  OperatorActions = {}
  MaxRecoveries = 0
  MaxCrashes = 0
  MaxExpiries = 0
  MaxAttempts = 2
SPECIFICATION Spec
PROPERTY SettledStays
CHECK_DEADLOCK FALSE
