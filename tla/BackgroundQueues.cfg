SPECIFICATION QueuesFairSpec
CONSTANTS
  Items = {i1, i2}
  Runners = {r1, r2}
  NoRunner = NoRunner
  Backend = "json"
  MaxAttempts = 2
  MaxIterations = 3
  MaxNoProgress = 2
  RetryBlocked = FALSE
  ReusePipeline = FALSE
  MaxGen = 0
  MaxDisruptions = 2
  N = 2
  Processors = {p1, p2}
  NoProc = NoProc
  Deployments <- AllDeployments
  PoisonBudget = 2
  MaxMishaps = 2
  NTasks = 1
  TaskWorkers = {w1, w2}
  MaxInterventions = 1
  MaxCrashes = 2
CHECK_DEADLOCK FALSE
INVARIANTS QueueTypesOK CompletedMeansDone AttemptsBounded
           SettledHonestly DuplicatesBounded PoisonBounded
           ExclusiveClaims OutcomeEvidenced
PROPERTIES CountsAttempts WorkSettled DeliversAtLeastOnce EventuallySettled TasksSettle
