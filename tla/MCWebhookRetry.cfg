SPECIFICATION Spec
CONSTANTS
  NULL = NULL
  MaxTime = 4
  WebhookRequests = {"q1"}
  s3 = s3
  Slots = {s1, s2, s3}
  Procs = {"p1", "p2"}
  ProcOf <- MCProcOf
  RetryForever = {"q1"}
  Malformed = {}
  Lease = 3
  DeliveryTimeout = 1
  WriteDelay = 1
  RetryBackoff = 2
  BreakerWindow = 2
  BreakerThreshold = 2
  MaxStatusChanges = 0
  Triggers = {1}
  Schedulers = {t1, t2}
  Failing = {}
  CycleLimit = 1
  MaxNow = 2
  MaxVersion = 2
  MaxEpoch = 5
  Collectors = {c1}
  GcRows = {1}
  Retentions = {1, Indefinite}
  Indefinite = Indefinite
  Lanes = {l1}
  Commands = {k1}
  LeaseTicks = 2
  GapTicks = 1
  RunTicks = 1
  RunRows = 2
  BatchRows = 1
  IntervalTicks = 2
  MaxShift = 1
  MaxAge = 3
PROPERTIES RetrySpaced
CHECK_DEADLOCK FALSE
