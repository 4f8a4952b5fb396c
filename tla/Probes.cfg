CONSTANTS
  ReqId = {r1, r2, r3}
  NumBlocks = 8
  BlockSize = 16
  MaxBatch = 2
  PromptLens = {20, 63}
  TokenLimits = {1, 3}
  MaxSubmissions = 3
  Modes = {"server", "prefill", "decode", "mixed", "smoke"}
  Batch = 2
  Target = 30
  K = 8
  Lengths <- MCLengths
  Context = 14
  Joining = 10
SPECIFICATION DrivenSpec
INVARIANTS RecordsAccount PrefillTokensAccounted ScrapeCoversFinished ProbesMeasureAsLabelled
PROPERTY ProbesEnd
\* A probe stops when its script is done, the server when nothing is live.
CHECK_DEADLOCK FALSE
