SPECIFICATION QueueSpec
SYMMETRY Symmetry
CONSTANTS
  Owners = {w1, w2}
  YieldOwner = YieldOwner
  NULL = NULL
  Classes = {"parent", "leaf"}
  Followups <- MCFollowups
  ChildClass = "leaf"
  Events = {e1}
  Payloads = {p1}
  LeaseDuration = 1
  RenewDurations = {2}
  Waits = {1}
  Delays = {NULL, 1}
  YieldMin = 1
  AwakenWindow = 1
  MaxLag = 0
  BatchLimit = 2
  LegacyRoutes = {"complete", "fail", "yield"}
  MaxTasks = 3
  MaxTime = 3
  MaxFailures = 2
  Priority <- MCPriority
  ScoreScale = 10
  Limits = {1, 2}
  ClassFilters <- MCFilters
  LateYields = FALSE
 
PROPERTIES NothingTakenBack RedisKeepsContract
CHECK_DEADLOCK FALSE
