--------------------------- MODULE CircuitBreaker ---------------------------
(***************************************************************************)
(* core/resilience.py: the retry decorator over a module-level breaker     *)
(* that the threads of a process share without a lock.                     *)
(*                                                                         *)
(* A step is what a thread does between two calls into other code (the     *)
(* protected function, time.monotonic, sleep): elsewhere the interpreter   *)
(* may run another thread.  The clock is reduced to whether reset_timeout  *)
(* has passed since _opened_at.                                            *)
(***************************************************************************)
EXTENDS Naturals, FiniteSets

CONSTANTS
  Threads,
  Threshold,    \* failure_threshold
  MaxTries,     \* max_attempts of retry
  MaxFailures   \* bound: calls of the dependency that fail

ASSUME BreakerAssumption ==
  Threshold \in Nat \ {0} /\ MaxTries \in Nat \ {0} /\ MaxFailures \in Nat

VARIABLES
  bstate, failures,  \* _state; _failures, counted up to the threshold
  elapsed,           \* reset_timeout has passed since _opened_at
  caller,            \* each thread: control state, attempts made in this call
  faults             \* calls of the dependency that failed so far (bound)

breakerVars == <<bstate, failures, elapsed, caller, faults>>

At(t, pc) == caller[t].pc = pc
Goto(t, pc) == caller' = [caller EXCEPT ![t].pc = pc]
Leave(t) == caller' = [caller EXCEPT ![t] = [pc |-> "idle", tries |-> 0]]

\* The decorated function is called.
Begin(t) ==
  /\ At(t, "idle")
  /\ Goto(t, "before")
  /\ UNCHANGED <<bstate, failures, elapsed, faults>>

\* before_call: the state is tested; an open one leads to the clock.
BeforeCall(t) ==
  /\ At(t, "before")
  /\ IF bstate = "open" THEN Goto(t, "clock")
     ELSE caller' = [caller EXCEPT ![t] = [pc |-> "call", tries |-> @.tries + 1]]
  /\ UNCHANGED <<bstate, failures, elapsed, faults>>

\* Mutant: an open circuit stays open.
ClockNeverOpens(t) ==
  /\ At(t, "clock")
  /\ Leave(t)
  /\ UNCHANGED <<bstate, failures, elapsed, faults>>

\* The clock is read: half_open, whatever the state is by now, or
\* CircuitOpenError, which ends the retries.
Clock(t) ==
  /\ At(t, "clock")
  /\ \/ /\ elapsed
        /\ bstate' = "half_open"
        /\ caller' = [caller EXCEPT ![t] = [pc |-> "call", tries |-> @.tries + 1]]
     \/ /\ ~elapsed
        /\ Leave(t) /\ UNCHANGED bstate
  /\ UNCHANGED <<failures, elapsed, faults>>

\* The call returns: on_success.
Succeeds(t) ==
  /\ At(t, "call")
  /\ bstate' = "closed" /\ failures' = 0
  /\ Leave(t)
  /\ UNCHANGED <<elapsed, faults>>

\* It raises a ZCoderError: on_failure, up to the clock.
Fails(t) ==
  /\ At(t, "call") /\ faults < MaxFailures
  /\ LET n == IF failures < Threshold THEN failures + 1 ELSE failures
     IN /\ failures' = n
        /\ \/ /\ (bstate = "half_open" \/ n >= Threshold)
              /\ bstate' = "open"
              /\ Goto(t, "stamp")
           \/ /\ bstate # "half_open" /\ n < Threshold
              /\ UNCHANGED bstate
              /\ Goto(t, "failed")
  /\ faults' = faults + 1
  /\ UNCHANGED elapsed

\* _opened_at = now
Stamp(t) ==
  /\ At(t, "stamp")
  /\ elapsed' = FALSE
  /\ Goto(t, "failed")
  /\ UNCHANGED <<bstate, failures, faults>>

\* Mutant: the last attempt is retried, too.
FailedForever(t) ==
  /\ At(t, "failed")
  /\ (Goto(t, "before") \/ Leave(t))
  /\ UNCHANGED <<bstate, failures, elapsed, faults>>

\* Sleep and try again, or raise: the last attempt, or not retryable.
Failed(t) ==
  /\ At(t, "failed")
  /\ \/ caller[t].tries < MaxTries /\ Goto(t, "before")
     \/ Leave(t)
  /\ UNCHANGED <<bstate, failures, elapsed, faults>>

\* Any other exception passes through: the breaker hears nothing.
Escapes(t) ==
  /\ At(t, "call") /\ faults < MaxFailures
  /\ Leave(t)
  /\ faults' = faults + 1
  /\ UNCHANGED <<bstate, failures, elapsed>>

TimeoutElapses ==
  /\ ~elapsed /\ elapsed' = TRUE
  /\ UNCHANGED <<bstate, failures, caller, faults>>

-----------------------------------------------------------------------------
BreakerInit ==
  /\ bstate = "closed" /\ failures = 0
  /\ elapsed = TRUE    \* _opened_at = 0.0
  /\ caller = [t \in Threads |-> [pc |-> "idle", tries |-> 0]]
  /\ faults = 0

CallerStep(t) ==
  \/ Begin(t) \/ BeforeCall(t) \/ Clock(t) \/ Stamp(t) \/ Failed(t)
  \/ Succeeds(t) \/ Fails(t) \/ Escapes(t)

BreakerNext ==
  \/ \E t \in Threads : CallerStep(t)
  \/ TimeoutElapses

BreakerSpec == BreakerInit /\ [][BreakerNext]_breakerVars

\* Callers keep calling and time passes; MaxFailures ends every outage.
BreakerFairness ==
  /\ \A t \in Threads : WF_breakerVars(CallerStep(t))
  /\ WF_breakerVars(TimeoutElapses)

BreakerFairSpec == BreakerSpec /\ BreakerFairness

-----------------------------------------------------------------------------
\* Type invariant; tries: no call of a decorated function asks the dependency
\* more than max_attempts times.
BreakerTypeOK ==
  /\ bstate \in {"closed", "open", "half_open"}
  /\ failures \in 0..Threshold
  /\ elapsed \in BOOLEAN /\ faults \in 0..MaxFailures
  /\ caller \in [Threads -> [pc : {"idle", "before", "clock", "call", "stamp", "failed"},
                             tries : 0..MaxTries]]

\* An outage that has ended is forgotten: as long as someone calls, the
\* breaker ends up closed for good, whatever the threads did to its fields
\* while it was opening.
BreakerCloses == <>[](bstate = "closed")
=============================================================================
