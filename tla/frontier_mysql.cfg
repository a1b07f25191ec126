SPECIFICATION FairSpec
CONSTANTS
  u1 = u1  u2 = u2  d1 = d1  w1 = w1  w2 = w2
  crawl = crawl  None = None
  URL = {u1}  Domain = {d1}  HostOf <- MCOneURL
  Worker = {w1, w2}  CapsOf <- MCCaps  Capability = {crawl}
  Driver = "mysql"  TicksPerSecond = 2
  LeaseTTL = 1  HeartbeatExtend = 1  DefaultBackoff = 1  MaxAttempts = 2
  MaxConcurrent = 1  AllowAutoDomains = FALSE  LinkSets <- MCNoLinks
  Batches = {1}  Priorities = {0}  Delays <- MCDelays  Widths = {1}  DefaultDelay = 0
  RequeueFilters <- MCLeased  OperatorEdits = {"delay", "need"}
  MaxTime = 4  LastReserve = 1  MaxWait = 4  ReservesPerWorker = 1
  MaxCalls = 2  LeaseBound = 2
INVARIANTS LeaseShape
PROPERTIES NoStolenLease EveryLeaseEnds
