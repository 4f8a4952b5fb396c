CONSTANTS
  Call = {c1, c2}
  ReqId = {r1, r2}
  None = None
  TokenLimits = {2, 9}
  HugeLimits = {9}
SPECIFICATION ServerSpec
INVARIANT AnswerMatchesOutcome
PROPERTIES EveryClientAnswered AbandonedRequestsRetire
\* A dead engine whose handlers have all ended has nothing left to do.
CHECK_DEADLOCK FALSE
