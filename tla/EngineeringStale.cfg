SPECIFICATION TasksSpec
CONSTANTS
  NTasks = 1
  TaskWorkers = {w1, w2}
  MaxInterventions = 0
  MaxCrashes = 0
CHECK_DEADLOCK FALSE
PROPERTY StaleRejected
