SPECIFICATION Spec
CONSTANTS
  u1 = u1  u2 = u2  d1 = d1  w1 = w1  w2 = w2
  crawl = crawl  None = None
  URL = {u1, u2}  Domain = {d1}  HostOf <- MCOneHost
  Worker = {w1, w2}  CapsOf <- MCAnyCaps  Capability = {crawl}
  Driver = "mysql"  TicksPerSecond = 2
  LeaseTTL = 1  HeartbeatExtend = 1  DefaultBackoff = 1  MaxAttempts = 2
  MaxConcurrent = 0  AllowAutoDomains = FALSE  LinkSets <- MCNoLinks
  Batches = {1}  Priorities = {0}  Delays = {0}  Widths = {1}  DefaultDelay = 0
  RequeueFilters = {}  OperatorEdits = {}
  MaxTime = 4  LastReserve = 4  MaxWait = 4  ReservesPerWorker = 1
  MaxCalls = 2  LeaseBound = 2
PROPERTY FailSparesOthers
