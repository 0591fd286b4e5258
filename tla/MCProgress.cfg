SPECIFICATION ProgressSpec
CONSTANTS
  NULL = NULL
  MaxTime = 3
  Owners = {w1}
  YieldOwner = YieldOwner
  Classes = {"c"}
  Followups <- MCFollowups
  ChildClass = "c"
  Events = {"bad", "e1"}
  Payloads = {p1}
  Mails = {"m1"}
  Mailings = {"p"}
  Deadline <- MCDeadline
  MailerKeys <- MCMailerKeys
  Gated = {"p"}
  Specs <- MCSpecs
  MaxRetries = 0
  MaxAttempts = 2
  StaleAfter = 1
  RetryUnit = 1
  Requests = {"q1"}
  SlotLimit = 1
  LeaseDuration = 1
  RenewDurations = {1}
  Waits = {0}
  Delays = {NULL}
  YieldMin = 1
  AwakenWindow = 1
  MaxLag = 0
  BatchLimit = 1
  LegacyRoutes = {}
  MaxTasks = 2
  MaxFailures = 0
  Relays = {r1, r2}
  EventOrder <- MCEventOrder
  BadEvents = {"bad"}
  BatchSize = 2
  Triggers = {1, 2}
  Schedulers = {s1, s2}
  Failing = {1}
  CycleLimit = 1
  MaxNow = 1
  MaxVersion = 1
  MaxEpoch = 3
  Collectors = {"c1"}
  GcRows = {1}
  Retentions = {1, Indefinite}
  Indefinite = Indefinite
  Lanes = {l1}
  Commands = {}
  LeaseTicks = 2
  GapTicks = 1
  RunTicks = 1
  RunRows = 2
  BatchRows = 1
  IntervalTicks = 2
  MaxShift = 1
  MaxAge = 3
PROPERTIES RelayDelivers DueFires GarbageCollected EventuallySettled
CHECK_DEADLOCK FALSE
