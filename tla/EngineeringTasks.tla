-------------------------- MODULE EngineeringTasks --------------------------
(***************************************************************************)
(* EngineeringWorker processes draining the tasks of an engineering store, *)
(* and the EngineeringOrchestrator writing the same rows.                  *)
(*   "sqlite"    claim_task leases a task and advances claim_generation;   *)
(*               save_task is INSERT OR REPLACE without those columns, so  *)
(*               every save puts them back to 0 (an expired lease);        *)
(*   "postgres"  claim_task takes CREATED tasks only; there is no lease.   *)
(* No save is compared with the claim it belongs to: claim_task does not   *)
(* even return the generation.  Every store call is one transaction.       *)
(***************************************************************************)
EXTENDS Naturals, FiniteSets

CONSTANTS
  NTasks,            \* tasks 1..NTasks in order of creation
  TaskWorkers,
  MaxInterventions,  \* bound: orchestrator calls on existing tasks
  MaxCrashes         \* bound: dying workers and failing store calls

ASSUME TasksAssumption ==
  NTasks \in Nat \ {0} /\ MaxInterventions \in Nat /\ MaxCrashes \in Nat

VARIABLES
  engStore,        \* which store the processes share; never changes
  task,            \* the rows: [status, gen, lease]
  attemptRows,     \* statuses of the attempt rows of each task
  checkpoints,     \* tasks that have a checkpoint row
  wk,              \* each worker: control state, task in hand, outcome, its generation
  orch,            \* task start_task is busy with, and how far it is
  lapsed,          \* tasks whose lease ever ran out (history)
  written,         \* tasks whose status the orchestrator ever rewrote (history)
  declared,        \* the ones of these that still have that status (history)
  interventions, crashes

engVars == <<engStore, task, attemptRows, checkpoints, wk, orch, lapsed, written, declared,
             interventions, crashes>>

Tasks == 1..NTasks
Outcomes == {"SUCCEEDED", "FAILED"}
\* Nobody claims these.
Withdrawn == {"CANCELLED", "PAUSED", "WAITING_APPROVAL"}
TaskStatus == {"ABSENT", "CREATED", "RUNNING"} \cup Outcomes \cup Withdrawn

NoTask == 0
\* Mutant: the worker keeps hold of a task it is done with.
FreeHolding(w) == [wk[w] EXCEPT !.pc = "idle"]

\* run_once has returned.
Free(w) == [wk[w] EXCEPT !.pc = "idle", !.task = NoTask, !.gen = 0]
Gone == [pc |-> "exited", task |-> NoTask, outcome |-> "FAILED", gen |-> 0]
WkGoto(w, pc) == wk' = [wk EXCEPT ![w].pc = pc]

\* save_task
Saved(t, status) ==
  [task EXCEPT ![t] =
     IF engStore = "sqlite" THEN [status |-> status, gen |-> 0, lease |-> "expired"]
                            ELSE [@ EXCEPT !.status = status]]

-----------------------------------------------------------------------------
(***************************************************************************)
(* EngineeringOrchestrator.                                                *)
(***************************************************************************)
CreateTask(t) ==
  /\ task[t].status = "ABSENT"
  /\ \A u \in Tasks : u < t => task[u].status # "ABSENT"
  /\ task' = Saved(t, "CREATED")
  /\ UNCHANGED <<engStore, attemptRows, checkpoints, wk, orch, lapsed, written, declared, interventions, crashes>>

\* get_task, and save_task with another status, whoever is on the task.
Rewrites(t, status) ==
  /\ task[t].status # "ABSENT"
  /\ interventions < MaxInterventions /\ interventions' = interventions + 1
  /\ task' = Saved(t, status)
  /\ written' = written \cup {t} /\ declared' = declared \cup {t}

\* update_task_status: any status, from any status.
UpdateTaskStatus(t, status) ==
  /\ Rewrites(t, status)
  /\ UNCHANGED <<engStore, attemptRows, checkpoints, wk, orch, lapsed, crashes>>

\* start_task: the status first, then the attempt row.
StartTask(t) ==
  /\ orch = NoTask
  /\ Rewrites(t, "RUNNING")
  /\ orch' = t
  /\ UNCHANGED <<engStore, attemptRows, checkpoints, wk, lapsed, crashes>>

StartTaskAttempt ==
  /\ orch # NoTask
  /\ attemptRows' = [attemptRows EXCEPT ![orch] = @ \cup {"PENDING"}]
  /\ orch' = NoTask
  /\ UNCHANGED <<engStore, task, checkpoints, wk, lapsed, written, declared, interventions, crashes>>

-----------------------------------------------------------------------------
(***************************************************************************)
(* EngineeringWorker.run: run_once until nothing is claimable.             *)
(***************************************************************************)
\* Mutant: any RUNNING task may be claimed.
ClaimableAnyLease(t) == task[t].status \in {"CREATED", "RUNNING"}

\* Mutant: a task with an expired lease is not taken over.
ClaimableCreated(t) == task[t].status = "CREATED"

\* WHERE clause of claim_task.
ClaimableTask(t) ==
  \/ task[t].status = "CREATED"
  \/ engStore = "sqlite" /\ task[t].status = "RUNNING" /\ task[t].lease = "expired"

\* claim_task: the oldest claimable task, in one transaction.
ClaimTask(w, t) ==
  /\ wk[w].pc = "idle"
  /\ ClaimableTask(t) /\ \A u \in Tasks : ClaimableTask(u) => t <= u
  /\ LET g == IF engStore = "sqlite" THEN task[t].gen + 1 ELSE 0
     IN /\ task' = [task EXCEPT ![t] = [status |-> "RUNNING", gen |-> g,
                                        lease |-> IF engStore = "sqlite" THEN "live" ELSE @.lease]]
        /\ wk' = [wk EXCEPT ![w] = [@ EXCEPT !.pc = "handle", !.task = t, !.gen = g]]
  /\ declared' = declared \ {t}
  /\ UNCHANGED <<engStore, attemptRows, checkpoints, orch, lapsed, written, interventions, crashes>>

\* Nothing is claimable: the process ends.
Drained(w) ==
  /\ wk[w].pc = "idle"
  /\ \A t \in Tasks : ~ClaimableTask(t)
  /\ wk' = [wk EXCEPT ![w] = Gone]
  /\ UNCHANGED <<engStore, task, attemptRows, checkpoints, orch, lapsed, written, declared, interventions, crashes>>

\* Mutant: the task is settled before its attempt is recorded.
HandlerEndsSaved(w, outcome) ==
  /\ wk[w].pc = "handle"
  /\ wk' = [wk EXCEPT ![w].pc = "attempt", ![w].outcome = outcome]
  /\ task' = Saved(wk[w].task, outcome)
  /\ UNCHANGED <<engStore, attemptRows, checkpoints, orch, lapsed, written, declared, interventions, crashes>>

\* handler(task) returns or raises.
HandlerEnds(w, outcome) ==
  /\ wk[w].pc = "handle"
  /\ wk' = [wk EXCEPT ![w].pc = "attempt", ![w].outcome = outcome]
  /\ UNCHANGED <<engStore, task, attemptRows, checkpoints, orch, lapsed, written, declared, interventions, crashes>>

\* create_attempt
RecordAttempt(w) ==
  /\ wk[w].pc = "attempt"
  /\ attemptRows' = [attemptRows EXCEPT ![wk[w].task] = @ \cup {wk[w].outcome}]
  /\ WkGoto(w, IF wk[w].outcome = "SUCCEEDED" THEN "checkpoint" ELSE "save")
  /\ UNCHANGED <<engStore, task, checkpoints, orch, lapsed, written, declared, interventions, crashes>>

\* save_checkpoint
RecordCheckpoint(w) ==
  /\ wk[w].pc = "checkpoint"
  /\ checkpoints' = checkpoints \cup {wk[w].task}
  /\ WkGoto(w, "save")
  /\ UNCHANGED <<engStore, task, attemptRows, orch, lapsed, written, declared, interventions, crashes>>

\* save_task: the row gets this worker's outcome, whoever holds it by now;
\* run goes on, or ends at max_tasks.
SaveOutcome(w) ==
  /\ wk[w].pc = "save"
  /\ task' = Saved(wk[w].task, wk[w].outcome)
  /\ \E next \in {Free(w), Gone} : wk' = [wk EXCEPT ![w] = next]
  /\ declared' = declared \ {wk[w].task}
  /\ UNCHANGED <<engStore, attemptRows, checkpoints, orch, lapsed, written, interventions, crashes>>

\* The process dies, or a store call raises out of run_once and ends it.
WorkerDies(w) ==
  /\ wk[w].pc # "exited"
  /\ crashes < MaxCrashes /\ crashes' = crashes + 1
  /\ wk' = [wk EXCEPT ![w] = Gone]
  /\ UNCHANGED <<engStore, task, attemptRows, checkpoints, orch, lapsed, written, declared, interventions>>

\* Another process is started in its place (external), when there is work.
StartWorker(w) ==
  /\ wk[w].pc = "exited"
  /\ \E t \in Tasks : ClaimableTask(t)
  /\ wk' = [wk EXCEPT ![w].pc = "idle"]
  /\ UNCHANGED <<engStore, task, attemptRows, checkpoints, orch, lapsed, written, declared, interventions, crashes>>

\* Time passes: lease_expires_at is behind.
TaskLeaseExpires(t) ==
  /\ engStore = "sqlite" /\ task[t].status = "RUNNING" /\ task[t].lease = "live"
  /\ task' = [task EXCEPT ![t].lease = "expired"]
  /\ lapsed' = lapsed \cup {t}
  /\ UNCHANGED <<engStore, attemptRows, checkpoints, wk, orch, written, declared, interventions, crashes>>

-----------------------------------------------------------------------------
TasksInit ==
  /\ engStore \in {"sqlite", "postgres"}
  /\ task = [t \in Tasks |-> [status |-> "ABSENT", gen |-> 0, lease |-> "expired"]]
  /\ attemptRows = [t \in Tasks |-> {}]
  /\ checkpoints = {}
  /\ wk = [w \in TaskWorkers |-> Gone]
  /\ orch = NoTask /\ lapsed = {} /\ written = {} /\ declared = {}
  /\ interventions = 0 /\ crashes = 0

WorkerStep(w) ==
  \/ \E t \in Tasks : ClaimTask(w, t)
  \/ Drained(w) \/ RecordAttempt(w) \/ RecordCheckpoint(w) \/ SaveOutcome(w) \/ StartWorker(w)
  \/ \E o \in Outcomes : HandlerEnds(w, o)

TasksNext ==
  \/ \E w \in TaskWorkers : WorkerStep(w) \/ WorkerDies(w)
  \/ \E t \in Tasks :
       \/ CreateTask(t) \/ StartTask(t) \/ TaskLeaseExpires(t)
       \/ \E s \in TaskStatus \ {"ABSENT"} : UpdateTaskStatus(t, s)
  \/ StartTaskAttempt

TasksSpec == TasksInit /\ [][TasksNext]_engVars

\* Workers are scheduled and replaced, handlers return, time passes.
TasksFairness ==
  /\ \A w \in TaskWorkers : WF_engVars(WorkerStep(w))
  /\ \A t \in Tasks : WF_engVars(TaskLeaseExpires(t))

TasksFairSpec == TasksSpec /\ TasksFairness

-----------------------------------------------------------------------------
Working(w, t) == wk[w].task = t /\ wk[w].pc # "exited"

\* Type invariant.
TasksTypeOK ==
  /\ engStore \in {"sqlite", "postgres"}
  /\ task \in [Tasks -> [status : TaskStatus, gen : Nat, lease : {"live", "expired"}]]
  /\ attemptRows \in [Tasks -> SUBSET (Outcomes \cup {"PENDING"})]
  /\ checkpoints \subseteq Tasks
  /\ wk \in [TaskWorkers -> [pc : {"idle", "handle", "attempt", "checkpoint", "save", "exited"},
                             task : Tasks \cup {NoTask}, outcome : Outcomes, gen : Nat]]
  /\ \A w \in TaskWorkers :
       wk[w].pc \in {"handle", "attempt", "checkpoint", "save"} <=> wk[w].task # NoTask
  /\ orch \in Tasks \cup {NoTask}
  /\ lapsed \subseteq Tasks /\ written \subseteq Tasks /\ declared \subseteq written
  /\ interventions \in 0..MaxInterventions /\ crashes \in 0..MaxCrashes

\* A claim has come loose: its lease ran out, which only SQLite has, or the
\* orchestrator rewrote the status under it, which either store lets it.
Loose(t) == (engStore = "sqlite" /\ t \in lapsed) \/ t \in written

\* Two workers are on one task only after a lease ran out or the orchestrator
\* rewrote the status: over PostgreSQL, after the latter alone.  (claim_task)
ExclusiveClaims ==
  \A v, w \in TaskWorkers : \A t \in Tasks :
    Working(v, t) /\ Working(w, t) /\ v # w => Loose(t)

\* An outcome that the orchestrator did not declare is never recorded without
\* its evidence, whatever dies on the way and whatever was declared before: an
\* attempt of that outcome and, for a success, a checkpoint.
\* (the order of the store calls in run_once)
OutcomeEvidenced ==
  \A t \in Tasks : task[t].status \in Outcomes /\ t \notin declared =>
    /\ task[t].status \in attemptRows[t]
    /\ task[t].status = "SUCCEEDED" => t \in checkpoints

\* A task is not lost with its worker: over SQLite every task that is created
\* or running is eventually settled, whoever died holding it.
TasksSettle ==
  \A t \in Tasks :
    (engStore = "sqlite" /\ task[t].status \in {"CREATED", "RUNNING"})
      ~> task[t].status \in Outcomes \cup Withdrawn

\* What claim_task's docstring says of the generation it advances: a claimer
\* that has been superseded does not decide the task.
StaleRejected ==
  [][\A w \in TaskWorkers : \A t \in Tasks :
       (wk[w].pc = "save" /\ wk'[w].pc # "save" /\ wk[w].task = t
        /\ task[t].status = "RUNNING" /\ task[t].gen > wk[w].gen)
         => task'[t] = task[t]]_engVars
=============================================================================
