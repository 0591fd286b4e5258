SPECIFICATION Spec
SYMMETRY Symmetry
CONSTANTS
  NULL = NULL
  MaxTime = 2
  PHIDs = {1, 2}
  MaxRev = 2
  Published <- MCPublished
  Targets = {"old", "new"}
  Relays = {"x1", "x2"}
  RelayTargets <- MCRelayTargets
  Workers = {"w1", "w2"}
  WorkerTarget <- MCWorkerTarget
  LeaseTTL = 2
  MaxTries = 1
  MaxEpoch = 2
  Generation = "new"
  Runners = {r1, r2}
  MaxSteps = 3
  Classes = {"task", "wiki"}
  Catalogs <- MCCatalogs
  SourceRows <- MCSourceRows
  Scanners = {s1, s2}
  PageRows = 2
  ScanTTL = 2
  MaxScans = 2
  Hosts = {1, 2}
  Requests = {q1, q2}
  Cooldowns <- MCCooldowns
  MaxFailures = 2
  Sessions = {"s1"}
  Data = {"a", "b"}
  Clients = {"c1", "c2"}
  Sweeper = "sweeper"
  Deleters = {"d1", "d2"}
  Lifetime = 1
  MaxChunks = 2
  MaxFails = 1
  BlobHandles = {"b1"}
  MaxRows = 2
  Backoff <- MCBackoff
  Engines <- MCEngines
  MaxBody = 4
  Fetches = {1, 2, 3}
  Addresses = {"pub1", "pub2", "private"}
  Public = {"pub1", "pub2"}
  Slots = 2
  MaxHops = 1
INVARIANTS ScanComplete EngineHonest DeletesOnlyGarbage WriteFallsThrough DialsChecked
PROPERTIES ProjectionFaithful RebuildComplete UploadsDurable
CHECK_DEADLOCK FALSE
