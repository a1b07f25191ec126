SPECIFICATION Spec
CONSTANTS
  u1 = u1  u2 = u2  d1 = d1  w1 = w1  w2 = w2
  crawl = crawl  None = None
  URL = {u1, u2}  Domain = {d1}  HostOf <- MCOneHost
  Worker = {w2}  CapsOf <- MCCrawlOnly  Capability = {crawl}
  Driver = "sqlite"  TicksPerSecond = 2
  LeaseTTL = 6  HeartbeatExtend = 1  DefaultBackoff = 1  MaxAttempts = 1
  MaxConcurrent = 0  AllowAutoDomains = TRUE  LinkSets <- MCLinkSets
  Batches = {2}  Priorities = {1}  Delays = {4}  Widths = {1, 2}  DefaultDelay = 4
  RequeueFilters = {}  OperatorEdits = {"active", "width"}
  MaxTime = 4  LastReserve = 4  MaxWait = 1  ReservesPerWorker = 2
  MaxCalls = 2  LeaseBound = 1
INVARIANTS TypeOK
PROPERTIES PoliteUpToSlack SettledIsFinal
