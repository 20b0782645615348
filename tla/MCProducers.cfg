CONSTANTS
  cli1 = cli1
  cli2 = cli2
  op1 = op1
  op2 = op2
  mon1 = mon1
  mon2 = mon2
  svc1 = svc1
  svc2 = svc2
  r1 = r1
  a1 = a1
  None = None
  Topics <- ThreeTopics
  MinimumScore = 50
  Clis = {cli1, cli2}
  Operators = {op1, op2}
  Monitors = {mon1, mon2}
  Services = {svc1, svc2}
  Requests = {r1}
  Alerts = {a1}
  Deployments <- Everything
  MaxStagnant = 3
  MaxSecond = 2
  MaxCrashes = 1
SPECIFICATION Spec
INVARIANTS
  ProducersTypeOK
  ReservedIsQueued
  ActedIsAudited
  BatchIsQueued
  SelectionFollowsPressure
CHECK_DEADLOCK FALSE
