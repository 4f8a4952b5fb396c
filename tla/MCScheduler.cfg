CONSTANTS
  ReqId = {r1, r2, r3}
  NumBlocks = 4
  BlockSize = 2
  MaxBatch = 3
  PromptLens = {1, 2, 7}
  TokenLimits = {0, 1, 5}
  MaxSubmissions = 3
SPECIFICATION OrderedSpec
INVARIANTS TypeOK BlockConservation NoCallRaises SlotForEveryToken StreamedOnce StrictFifo FreshNotPreempted HeadFitsEmptyCache
PROPERTIES EveryRequestFinishes Lifecycle
