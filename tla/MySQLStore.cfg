SPECIFICATION StoreSpec
SYMMETRY Symmetry
CONSTANTS
  Owners = {w1, w2}
  YieldOwner = YieldOwner
  NULL = NULL
  Classes = {"bulk"}
  Followups <- MCNoFollowups
  ChildClass = "bulk"
  Events = {}
  Payloads = {}
  LeaseDuration = 1
  RenewDurations = {1}
  Waits = {0}
  Delays = {NULL}
  YieldMin = 0
  AwakenWindow = 1
  MaxLag = 1
  BatchLimit = 2
  LegacyRoutes = {"complete", "fail", "yield"}
  MaxTasks = 2
  MaxTime = 1
  MaxFailures = 1
  LeaseCalls = {t1, t2}
  ArchiveCalls = {a1, a2}
  MaxOpen = 2
  Priority <- MCPriority
  Limits = {2}
  ClassFilters <- MCOneFilter
PROPERTIES MySQLKeepsContract
CHECK_DEADLOCK FALSE
