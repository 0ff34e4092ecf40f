------------------------- MODULE MCBackgroundQueues -------------------------
(***************************************************************************)
(* The work that background processes take from durable records, for TLC:  *)
(* upgrade items in a JSON ledger, messages in an outbox, engineering      *)
(* tasks.  They share nothing: a behaviour is one of the three, chosen at  *)
(* the start.  Messages and tasks are ordered by creation.                 *)
(***************************************************************************)
EXTENDS UpgradePipeline, Outbox, EngineeringTasks

\* Unserialised PostgreSQL processors, and schedulers over SQLite; batches of
\* the whole queue and of less.
Processor(n) == [dialect |-> "postgres", leased |-> FALSE, maxMessages |-> n]
Scheduler(n) == [dialect |-> "sqlite", leased |-> TRUE, maxMessages |-> n]
AllDeployments == {Processor(n) : n \in 1..N} \cup {Scheduler(n) : n \in 1..N}

VARIABLE queue    \* "ledger", "outbox" or "tasks"

outboxState == <<outboxVars, deployment>>
queueVars   == <<queue, vars, outboxState, engVars>>

\* A queue that stands still has one initial state.
QueuesInit ==
  /\ queue \in {"ledger", "outbox", "tasks"} /\ Init /\ OutboxInit /\ TasksInit
  /\ queue # "tasks" => engStore = "sqlite"
  /\ queue # "outbox" => deployment = Scheduler(N)

LedgerRuns == queue = "ledger" /\ UNCHANGED <<queue, outboxState, engVars>>
OutboxRuns == queue = "outbox" /\ UNCHANGED <<queue, vars, engVars>>
TasksRun   == queue = "tasks" /\ UNCHANGED <<queue, vars, outboxState>>

QueuesNext ==
  \/ LedgerRuns /\ JsonNext
  \/ OutboxRuns /\ OutboxNext
  \/ TasksRun /\ TasksNext

\* JsonFairness, OutboxFairness and TasksFairness, each where its queue runs.
QueuesFairness ==
  /\ \A r \in Runners :
       /\ WF_vars(queue = "ledger" /\ Owed(r))
       /\ WF_vars(queue = "ledger" /\ OperatorUnlocks(r))
  /\ \A p \in Processors :
       /\ WF_outboxVars(queue = "outbox" /\ Cycle(p))
       /\ WF_outboxVars(queue = "outbox" /\ CycleUnlocked(p))
  /\ \A w \in TaskWorkers : WF_engVars(queue = "tasks" /\ WorkerStep(w))
  /\ \A t \in Tasks : WF_engVars(queue = "tasks" /\ TaskLeaseExpires(t))

QueuesFairSpec == QueuesInit /\ [][QueuesNext]_queueVars /\ QueuesFairness

\* The type invariants of the three; a worker holds a task exactly while it is
\* busy with one.
QueueTypesOK == TypeOK /\ OutboxTypeOK /\ TasksTypeOK
=============================================================================
