SPECIFICATION Spec
CONSTANTS
  j1 = j1
  j2 = j2
  w1 = w1
  w2 = w2
  NoWorker = NoWorker
  Jobs <- OneJob
  Workers <- TwoWorkers
  Store = "sqlite"
  Concurrency = 2
  StoreFaults = TRUE
  MaxGen = 3
  MaxDisruptions = 2
INVARIANT TokensUnique
PROPERTY OutcomeUndoneBy
