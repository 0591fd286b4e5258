SPECIFICATION LiveSpec
CONSTANTS
  NULL = NULL
  MaxTime = 2
  Sessions = {"s1"}
  Data = {"a"}
  Clients = {"c1", "c2"}
  Sweeper = "sweeper"
  Deleters = {"d1", "d2"}
  Lifetime = 1
  MaxChunks = 1
  MaxFails = 1
  BlobHandles = {"b1"}
  MaxRows = 1
  Backoff <- MCBackoff
  Conns = {"c1", "c2"}
  Instances = {"i1"}
  Topics = {"t1"}
  Msgs = {"m1"}
  Bytes <- MCBytes
  MaxInstances = 1
  HistorySize = 1
  HistoryBytes = 1
  HistoryAge = 1
  QueueFrames = 1
  QueueBytes = 1
  MaxTopics = 1
  MaxFrames <- MCFrames
  ImageRequests = {"r1", "r2", "r3"}
  ImageKeys = {"k1", "k3"}
  ResultBytes <- MCSize
  Slots = 1
  CacheBudget = 2
  CacheEntries = 2
  CacheTTL = 2
  Attempts = {"a1", "a2", "a3"}
  GiteaEvents <- MCGiteaEvents
  SentAs <- MCSentAs
  MaxRestarts = 1
  Ports = 3
PROPERTIES FilesSettle DeadConnectionLeaves EveryRequestAnswered BridgeComments StopsTogether
CHECK_DEADLOCK FALSE
