SPECIFICATION TokenSpec
CONSTANTS
  Owners = {w1, w2}
  YieldOwner = YieldOwner
  NULL = NULL
  Classes = {"bulk"}
  Followups <- NoFollowups
  ChildClass = "bulk"
  Events = {}
  Payloads = {}
  LeaseDuration = 2
  RenewDurations = {1, 2}
  Waits = {0, 1}
  Delays = {NULL}
  YieldMin = 1
  AwakenWindow = 2
  MaxLag = 2
  BatchLimit = 2
  LegacyRoutes = {"fail", "yield"}
  MaxTasks = 1
  MaxTime = 4
  MaxFailures = 2
INVARIANT DuplicateResolveRejected
CHECK_DEADLOCK FALSE
