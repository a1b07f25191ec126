SPECIFICATION IngestSpec
CONSTANTS
  u1 = u1  d1 = d1  w1 = w1  None = None
  old = old  new = new  strip = strip
  URL = {u1}  Domain = {d1}  HostOf <- MCHost
  Worker = {w1}  CapsOf <- MCCaps  Capability = {}
  Driver = "sqlite"  TicksPerSecond = 1
  LeaseTTL = 0  HeartbeatExtend = 0  DefaultBackoff = 0  MaxAttempts = 1
  MaxConcurrent = 0  AllowAutoDomains = FALSE  LinkSets <- MCLinkSets
  Batches = {1}  Priorities = {0}  Delays = {0}  Widths = {1}  DefaultDelay = 0
  RequeueFilters <- MCRequeueAny  OperatorEdits = {}
  MaxTime = 1  LastReserve = 1  MaxWait = 1  ReservesPerWorker = 1
  MaxCalls = 2  LeaseBound = 2
  Body = {old, new}  TypeOf <- MCOneExtension  Trigger = {strip}  Fires <- MCOneTrigger
  Migrating = TRUE  DeleteSrc = TRUE
SYMMETRY Bodies
INVARIANTS IngestTypeOK DoneIsStored BytesAreLostToTwinsOnly FiredOncePerAcceptance
PROPERTIES ImplementsFrontier
