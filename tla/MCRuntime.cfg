CONSTANTS
  e1 = e1
  e2 = e2
  None = None
  Executions <- TwoExecutions
  MaxLines <- UnequalLines
  MaxTurns = 1
  MaxToolCalls = 0
  MaxRepairs = 1
  MaxCrashes = 1
SPECIFICATION RuntimeFairSpec
INVARIANTS
  RuntimeTypeOK
  LogIsContiguous
  LogIsFenced
  BudgetsHold
  EveryLineIsRecorded
  NoOrphan
  FailureIsRecorded
PROPERTIES
  EveryExecutionEnds
CHECK_DEADLOCK FALSE
