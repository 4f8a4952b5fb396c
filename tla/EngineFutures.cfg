CONSTANTS
  Call = {c1, c2}
  ReqId = {r1, r2}
  None = None
  TokenLimits = {0, 2, 9}
  HugeLimits = {9}
SPECIFICATION FairSpec
\* A dead engine that has answered every call has nothing left to do.
CHECK_DEADLOCK FALSE
PROPERTY EveryFutureResolves
