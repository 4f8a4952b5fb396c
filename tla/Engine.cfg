CONSTANTS
  Call = {c1, c2, c3}
  ReqId = {r1, r2}
  None = None
  TokenLimits = {0, 3, 9}
  HugeLimits = {9}
SPECIFICATION FairSpec
INVARIANTS TokensThenOneFinish LiveHasItsStream NoPutAfterFinalDrain
PROPERTIES OnlyTheRaisingCallHangs EveryAnsweredStreamEnds StopEndsThread
\* A dead engine that has answered every call has nothing left to do.
CHECK_DEADLOCK FALSE
