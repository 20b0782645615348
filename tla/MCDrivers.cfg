CONSTANTS
  q1 = q1
  q2 = q2
  q3 = q3
  r1 = r1
  r2 = r2
  r3 = r3
  w1 = w1
  w2 = w2
  w3 = w3
  w4 = w4
  worker = worker
  loop1 = loop1
  loop2 = loop2
  trigger1 = trigger1
  trigger2 = trigger2
  None = None
  Unreserved = Unreserved
  AttemptCap = 100
  Items <- ThreeItems
  Runs = {r1, r2, r3}
  Workers = {w1, w2, w3, w4}
  Procs <- AllProcs
  WorkerOf <- Ids
  RequestedRun <- OwnRuns
  WorkerProcs = {worker}
  LoopProcs = {loop1, loop2}
  TriggerProcs = {trigger1, trigger2}
  TriggerItems = {q2}
  Fleets <- EveryFleet
  MaxAttempts = 2
  OperatorActions = {"recover_dead_letter", "retry_stale", "dead_letter_stale"}
  MaxRecoveries = 1
  MaxCrashes = 1
SPECIFICATION FairSpec
INVARIANTS
  PollersStrandNoClaim
  CompletedRunIsPersisted
PROPERTIES
  LedgerSpec
  JobSpec
  EveryItemSettles
CHECK_DEADLOCK FALSE
