SPECIFICATION ProcessFairSpec
CONSTANTS
  Concurrency = 12
  MaxSignals = 1
  Threads = {t1, t2, t3}
  Threshold = 3
  MaxTries = 2
  MaxFailures = 5
  ToolKinds = {"edit", "plan"}
  MaxSteps = 2
  MaxRetries = 1
  MaxPerStep = 2
  MaxCalls = 3
  MaxTurns = 2
  MaxSwitches = 1
CHECK_DEADLOCK FALSE
INVARIANTS ProcessTypesOK FailClosed LogWellFormed
PROPERTIES SignalStops BreakerCloses InterruptHeld TurnEnds
