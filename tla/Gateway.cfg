SPECIFICATION Spec
CONSTANTS
  c1 = c1
  c2 = c2
  Null = Null
  Caller = {c1, c2}
  Client <- Clients
  Limit <- Limits
  Period <- Periods
  Slack = 0
  MaxRequests = 5
  MaxFailures = 1
  MaxClock = 2
  File <- Demo
  Nacos <- Production
  Offered <- TheRequests
  Bodies <- TheBodies
SYMMETRY Symmetry
CHECK_DEADLOCK FALSE
INVARIANTS
  GatewayTypeOK
  AdmittedWithinLimit
  RefusalsAreEarned
  ServiceInputsAreSound
  DrawOrderIrrelevant
  AnswersTellTheOutcome
  BetsAreAttributed
