CONSTANTS
  Intercepts = {9, 20, 40}
  Slopes <- FallingSlope
  Curvatures = {1}
  Latencies = {1, 14}
  PerToken = {1, 5, 10}
  RatioNum = 5
  RatioDen = 4
  MaxTokens = 13
SPECIFICATION Spec
INVARIANT BandHasNoGap
CHECK_DEADLOCK FALSE
