SPECIFICATION Spec
CONSTANTS
  Concurrency = 1
  MaxSignals = 1
INVARIANT NoHandlerDeadlock
