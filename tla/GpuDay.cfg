CONSTANTS
  Intercepts <- AnyIntercept
  Slopes <- AnySlope
  Curvatures <- AnyCurvature
  Latencies = {0, 1, 5, 10, 14}
  PerToken = {0, 1, 2, 5}
  RatioNum = 5
  RatioDen = 4
  MaxTokens = 13
  Errors = {4, 5, 6}
  GridSize = 6
SPECIFICATION DaySpec
INVARIANTS CrossoverIsSmallest LowerEdgeIsSmallest UpperEdgeIsLast NoConfigAroundABadFit CommitIsOneSession SpotPointsAscend
PROPERTY SessionEnds
\* A session that has ended has nothing left to do.
CHECK_DEADLOCK FALSE
