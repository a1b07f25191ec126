SPECIFICATION Spec
CONSTANTS
  page = page  file = file  w1 = w1  None = None
  strip = strip  convert = convert  blank = blank  words = words
  Object = {file, page}  Crawled = {file}  OutputOf <- MCOutput
  Kind = {strip, convert}  Internal = {strip}  Triggered = {strip}
  Followers = {None, strip}  Text = {blank, words}  Blank = blank
  Worker = {w1}  CapsOf <- MCCaps
  TicksPerSecond = 1  LeaseTTL = 0  HeartbeatExtend = 0  MaxAttempts = 2
  MaxConcurrent = 1  Requests <- MCRequests  Batches = {1}
  RequeueFilters <- MCRequeue  Backfills = {convert}
  MaxJobs = 2  MaxTime = 1  LastReserve = 1  MaxCalls = 2  LeaseBound = 2
INVARIANTS TypeOK LeaseShape DoneIsStored
PROPERTIES SettledIsFinal OnlyFailuresStrand ImplementsLeaseQueue
