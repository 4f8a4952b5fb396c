CONSTANTS
  Schedule <- MCSchedule
  Call <- MCCall
  ReqId <- MCReqId
  None = None
  TokenLimits = {0, 2}
  \* A workload draws its lengths itself, all of them small.
  HugeLimits = {}
SPECIFICATION CellSpec
INVARIANTS RowIsTheWholeCell ValidRunsAreWhole
PROPERTY CellEnds
\* A cell that has ended has nothing left to do.
CHECK_DEADLOCK FALSE
