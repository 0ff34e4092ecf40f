SPECIFICATION Spec
CONSTANTS
  j1 = j1
  j2 = j2
  w1 = w1
  w2 = w2
  NoWorker = NoWorker
  Jobs <- OneJob
  Workers <- TwoWorkers
  Store = "sqlite"
  Concurrency = 1
  StoreFaults = FALSE
  MaxGen = 2
  MaxDisruptions = 0
PROPERTY ClaimsClaimable
