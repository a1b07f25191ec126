SPECIFICATION Spec
CONSTANTS
  j1 = j1  j2 = j2  j3 = j3  Job = {j1, j2}  None = None
  LeaseTTL = 1  HeartbeatExtend = 1  Batch = 2  Names = 1  AdmittedBound = 2  StaleBound = 1
  Conc = 1  Programs <- AllPrograms
INVARIANTS TypeOK InHandIsBounded WaitsAreForCalls
PROPERTIES BanEndsLeases EveryJobIsDropped StopsInTheEnd
