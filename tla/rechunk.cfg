SPECIFICATION Spec
CONSTANTS
  words = words  more = more  size = size  site = site  None = None
  MaxDocs = 2  Text = {words, more}  Size = {size}  Pieces <- MCPieces
  Coll = {site}  Default = Default  Hints = {site, None}  Worker = {}
  TicksPerSecond = 1  LeaseTTL = 0  MaxAttempts = 2  MaxConcurrent = 1  Batches = {1}
  PageSize = 1  Limits = {0, 1}  RequeueFilters = {}
  MaxChunks = 4  MaxTime = 0  LastBegin = 0  MaxCalls = 2  LeaseBound = 1
INVARIANTS TypeOK ChunksAreOneCut
