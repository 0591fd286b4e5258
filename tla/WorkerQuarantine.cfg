SPECIFICATION WorkerSpec
CONSTANTS
  Owners = {"w1", "w2"}
  YieldOwner = YieldOwner
  NULL = NULL
  Classes = {"c"}
  Followups <- MCFollowups
  ChildClass = "c"
  Events = {}
  Payloads = {}
  LeaseDuration = 1
  RenewDurations = {1}
  Waits = {0}
  Delays = {NULL}
  YieldMin = 1
  AwakenWindow = 1
  MaxLag = 0
  BatchLimit = 1
  LegacyRoutes = {}
  MaxTasks = 1
  MaxTime = 3
  MaxFailures = 1
  Slots = {"s1", "s2", "s3"}
  ProcOf <- MCProcOf
  Outcomes = {"success", "retry"}
  MaxAttempts = 2
  MaxLate = 1

PROPERTIES QuarantinesOwnExecution
CHECK_DEADLOCK FALSE
