SPECIFICATION QueueSpec

CONSTANTS
  Owners = {w1}
  YieldOwner = YieldOwner
  NULL = NULL
  Classes = {"parent", "leaf"}
  Followups <- MCFollowups
  ChildClass = "leaf"
  Events = {e1}
  Payloads = {p1}
  LeaseDuration = 1
  RenewDurations = {2}
  Waits = {1}
  Delays = {NULL, 1}
  YieldMin = 1
  AwakenWindow = 1
  MaxLag = 0
  BatchLimit = 2
  LegacyRoutes = {"complete", "fail", "yield"}
  MaxTasks = 2
  MaxTime = 2
  MaxFailures = 2
  Priority <- MCPriority
  ScoreScale = 10
  Limits = {1, 2}
  ClassFilters <- MCFilters
  LateYields = TRUE
INVARIANTS NeverInBoth
CHECK_DEADLOCK FALSE
