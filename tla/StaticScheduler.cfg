CONSTANTS
  ReqId = {r1, r2}
  NumBlocks = 3
  BlockSize = 2
  MaxBatch = 2
  PromptLens = {1, 2}
  TokenLimits = {1, 4}
  MaxSubmissions = 3
SPECIFICATION StaticFairSpec
INVARIANT BatchAdmittedTogether
PROPERTIES PartialBatchesDrain FullBatchIsServed
