SPECIFICATION Spec
CONSTANTS
  u1 = u1  u2 = u2  d1 = d1  w1 = w1  w2 = w2
  crawl = crawl  None = None
  URL = {u1, u2}  Domain = {d1}  HostOf <- MCOneHost
  Worker = {w1, w2}  CapsOf <- MCAnyCaps  Capability = {crawl}
  Driver = "sqlite"  TicksPerSecond = 2
  LeaseTTL = 1  HeartbeatExtend = 1  DefaultBackoff = 1  MaxAttempts = 2
  MaxConcurrent = 1  AllowAutoDomains = FALSE  LinkSets <- MCNoLinks
  Batches = {2}  Priorities = {0}  Delays = {0}  Widths = {2}  DefaultDelay = 0
  RequeueFilters <- MCAnyStatus  OperatorEdits = {}
  MaxTime = 3  LastReserve = 1  MaxWait = 1  ReservesPerWorker = 1
  MaxCalls = 2  LeaseBound = 2
SYMMETRY WorkersAndURLs
INVARIANTS LeaseShape LeaseBounded HeldWithinCap
PROPERTIES ImplementsLeaseQueue
