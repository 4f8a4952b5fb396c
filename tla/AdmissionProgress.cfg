CONSTANTS
  ReqId = {r1, r2, r3}
  NumBlocks = 4
  BlockSize = 2
  MaxBatch = 3
  PromptLens = {1, 2}
  TokenLimits = {5}
  MaxSubmissions = 3
SPECIFICATION OrderedSpec
PROPERTY AdmissionImpliesProgress
