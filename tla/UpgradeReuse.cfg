SPECIFICATION Spec
CONSTANTS
  Items = {i1, i2}
  Runners = {r1, r2}
  NoRunner = NoRunner
  Backend = "json"
  MaxAttempts = 2
  MaxIterations = 2
  MaxNoProgress = 2
  RetryBlocked = FALSE
  ReusePipeline = TRUE
  MaxGen = 0
  MaxDisruptions = 0
PROPERTY SucceededFinal
