SPECIFICATION Spec
CONSTANTS
  DefaultTokens = 2  TokenCounts = {0, 1, 2, 3, 4, 5, 6, 7}
  CoreSizes <- MCCoreSizes  Overlaps <- MCOverlaps  NoSplit = NoSplit
  PageCounts = {0, 1, 3}  PageWidth = 2
  BatchSizes = {1, 4, 5}  SubBatch = 2  Fleet = 2  NoJob = NoJob
  PerPage = 2  Block = 3  MaxIdleRounds = 2  Caps = {0, 2}
  Sites = {0, 1, 2, 3, 4, 5, 8, 14, 15}  MaxAdded = 2  MaxPast = 1  NoWalk = NoWalk
INVARIANTS SplitMatchesContract EveryTokenHasOneCore VectorsMatchTexts WalkIsComplete
PROPERTIES PostedIsWhole WalkEnds
