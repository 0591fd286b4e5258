SPECIFICATION Spec
CONSTANTS
  NULL = NULL
  MaxTime = 4
  Mails = {m1}
  Mailings = {"p", "q"}
  Deadline <- MCDeadline
  MailerKeys <- MCMailerKeys
  Gated = {"p"}
  Specs <- MCSpecs
  MaxRetries = 0
  MaxAttempts = 2
  StaleAfter = 2
  RetryUnit = 1
  Requests = {r1, r2}
  SlotLimit = 2
  EffectIds = {"e1"}
  Digests = {"d1", "d2"}
  Callers = {c1, c2}
  ResolveAfter = 2
  Messages = {"a", "b"}
  KeyOf <- MCKeyOf
  Relayers = {l1, l2}
  RelayLease = 2
  RetryWait = 1
  MaxRelays = 3
  RetentionDays = 1
  Objects = {o1, o2, o3}
  Projectors = {p1, p2}
  PageSize = 2
  MaxChanges = 4
  Conns = {"c1", "c2"}
  Instances = {"i1", "i2"}
  Topics = {"t1"}
  Msgs = {"m1"}
  Bytes <- MCBytes
  MaxInstances = 1
  HistorySize = 1
  HistoryBytes = 1
  HistoryAge = 1
  QueueFrames = 2
  QueueBytes = 1
  MaxTopics = 1
  MaxFrames <- MCFrames
  Servers = {"s1", "s2"}
  PeersOf <- MCPeers
  RelayFrames = 1
  Modes = {"required", "fallback", "off"}
  MaxPosts = 2
  MaxStarts <- MCStarts
  Writes = {"w1", "w2"}
  MaxDepth = 3
  MaxTries = 2
  PoolUsers = {"u1", "u2", "u3"}
  Nodes = {"master", "replica"}
  Applications = {"a", "b"}
  ClusterFiles <- MCClusterFiles
  Inspected <- MCInspected
  NodeSchemas <- MCNodeSchemas
  MaxDelay = 30
  Clients = {"x", "y", "z"}
  Rps = 1
  Burst = 3
  MaxVisitors = 2
  Retention = 3
  EvictEvery = 2
  ImageRequests = {"i1", "i2", "i3"}
  ImageKeys = {"k1", "k2", "k3"}
  ResultBytes <- MCSize
  Slots = 1
  CacheBudget = 3
  CacheEntries = 2
  CacheTTL = 2
  DiffChars <- MCChars
  MaxText = 4
  MaxCells = 9
  ProseChars <- MCChars
  MaxProse = 5
  MaxEditDistance = 3
INVARIANTS MailRecordsAgree AnswersHold CursorCovers HubDelivers ClusterDescribed BucketsExact CacheTransparent DiffCorrect ProseCorrect
PROPERTIES MailImplementsLedger EffectsImplementLedger HandedOverOnce  ProxyTransparent
CHECK_DEADLOCK FALSE
