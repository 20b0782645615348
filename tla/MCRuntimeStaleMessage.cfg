CONSTANTS
  e1 = e1
  e2 = e2
  None = None
  Executions <- TwoExecutions
  MaxLines <- UnequalLines
  MaxTurns = 1
  MaxToolCalls = 0
  MaxRepairs = 1
  MaxCrashes = 1
SPECIFICATION RuntimeSpec
PROPERTY OutputIsOwn
CHECK_DEADLOCK FALSE
