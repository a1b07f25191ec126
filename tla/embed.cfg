SPECIFICATION Spec
CONSTANTS
  w1 = w1  w2 = w2  words = words  size = size  site = site  None = None
  MaxDocs = 1  Text = {words}  Size = {size}  Pieces <- MCPieces
  Coll = {site}  Default = Default  Hints = {site}  Worker = {w1, w2}
  TicksPerSecond = 1  LeaseTTL = 0  MaxAttempts = 2  MaxConcurrent = 1  Batches = {1}
  PageSize = 1  Limits = {0}  RequeueFilters <- MCRequeue
  MaxChunks = 2  MaxTime = 1  LastBegin = 0  MaxCalls = 2  LeaseBound = 2
SYMMETRY MCSymmetry
INVARIANTS LeaseShape EmbeddedIsSearchable
PROPERTIES SettledIsFinal ImplementsLeaseQueue
