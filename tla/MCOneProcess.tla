---------------------------- MODULE MCOneProcess ----------------------------
(***************************************************************************)
(* What interleaves inside one process, for TLC: the coroutines of a code  *)
(* agent's connection, the threads behind a circuit breaker, a worker's    *)
(* signal handlers.  They share nothing: a behaviour is one of the three,  *)
(* chosen at the start.                                                    *)
(***************************************************************************)
EXTENDS WorkerSignals, CircuitBreaker, CodeAgent

VARIABLE process    \* "worker", "breaker" or "agent"

\* What stands still has one initial state.
ProcessInit ==
  /\ process \in {"worker", "breaker", "agent"}
  /\ Init /\ BreakerInit /\ AgentInit
  /\ process # "agent" => mode = "default"

WorkerRuns  == process = "worker" /\ UNCHANGED <<process, breakerVars, agentVars>>
BreakerRuns == process = "breaker" /\ UNCHANGED <<process, vars, agentVars>>
AgentRuns   == process = "agent" /\ UNCHANGED <<process, vars, breakerVars>>

ProcessNext ==
  \/ WorkerRuns /\ Next
  \/ BreakerRuns /\ BreakerNext
  \/ AgentRuns /\ AgentNext

\* The fairness of each specification, where it is the one that runs.
ProcessFairness ==
  /\ WF_vars(process = "worker" /\ Handler) /\ WF_vars(process = "worker" /\ MainThread)
  /\ \A t \in Threads : WF_breakerVars(process = "breaker" /\ CallerStep(t))
  /\ WF_breakerVars(process = "breaker" /\ TimeoutElapses)
  /\ WF_agentVars(process = "agent" /\ TurnStep)

ProcessFairSpec ==
  /\ ProcessInit /\ [][ProcessNext]_<<process, vars, breakerVars, agentVars>>
  /\ ProcessFairness

\* The type invariants of the three; a retried call makes at most max_attempts
\* attempts, and no approval is pending that nobody waits for.
ProcessTypesOK == TypeOK /\ BreakerTypeOK /\ AgentTypeOK
=============================================================================
