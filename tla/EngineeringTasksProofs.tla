----------------------- MODULE EngineeringTasksProofs -----------------------
(***************************************************************************)
(* Proofs about EngineeringTasks, for any number of tasks, workers,        *)
(* interventions and crashes and for either store: types; then that a task *)
(* in hand cannot be claimed again, hence exclusion; then that an outcome  *)
(* travels with its evidence, and that a worker is late only when its      *)
(* claim came loose.                                                       *)
(***************************************************************************)
EXTENDS EngineeringTasks, TLAPS

TaskRow == [status : TaskStatus, gen : Nat, lease : {"live", "expired"}]
WorkerState == [pc : {"idle", "handle", "attempt", "checkpoint", "save", "exited"},
                task : Tasks \cup {NoTask}, outcome : Outcomes, gen : Nat]

USE DEF Outcomes, Withdrawn, TaskStatus, NoTask, TaskRow, WorkerState

\* save_task keeps the rows well typed, in either store.
LEMMA SavedType ==
  ASSUME task \in [Tasks -> TaskRow],
         NEW t \in Tasks, NEW s \in TaskStatus
  PROVE  /\ Saved(t, s) \in [Tasks -> TaskRow]
         /\ Saved(t, s)[t].status = s
         /\ \A u \in Tasks : u # t => Saved(t, s)[u] = task[u]
BY DEF Saved

\* A worker that has saved has no task in hand, whether it goes on or ends.
LEMMA SaveFrees ==
  ASSUME wk \in [TaskWorkers -> WorkerState], NEW w \in TaskWorkers, SaveOutcome(w)
  PROVE  /\ wk' \in [TaskWorkers -> WorkerState]
         /\ wk'[w].pc \in {"idle", "exited"} /\ wk'[w].task = NoTask
         /\ \A v \in TaskWorkers : v # w => wk'[v] = wk[v]
<1>1. PICK next \in {Free(w), Gone} : wk' = [wk EXCEPT ![w] = next]
  BY DEF SaveOutcome
<1>2. /\ Free(w) \in WorkerState /\ Free(w).pc = "idle" /\ Free(w).task = NoTask
      /\ Gone \in WorkerState /\ Gone.pc = "exited" /\ Gone.task = NoTask
  BY DEF Free, Gone
<1>3. next \in WorkerState /\ next.pc \in {"idle", "exited"} /\ next.task = NoTask
  BY <1>2
<1> QED BY <1>1, <1>3

LEMMA TasksStart == TasksInit => TasksTypeOK
BY TasksAssumption DEF TasksInit, TasksTypeOK, Gone, Tasks

\* Every step of the workers and the orchestrator keeps the state well typed.
LEMMA TasksStep ==
  ASSUME TasksTypeOK, [TasksNext]_engVars
  PROVE  TasksTypeOK'
<1> USE TasksAssumption DEF TasksTypeOK
<1>0. NoTask \notin Tasks
  BY DEF Tasks
<1>1. ASSUME NEW t \in Tasks, CreateTask(t) PROVE TasksTypeOK'
  BY <1>1, SavedType DEF CreateTask
<1>2. ASSUME NEW t \in Tasks, NEW s \in TaskStatus, UpdateTaskStatus(t, s) PROVE TasksTypeOK'
  <2>1. Saved(t, s) \in [Tasks -> TaskRow] /\ task' = Saved(t, s)
    BY <1>2, SavedType DEF UpdateTaskStatus, Rewrites
  <2> QED BY <1>2, <2>1 DEF UpdateTaskStatus, Rewrites
<1>3. ASSUME NEW t \in Tasks, StartTask(t) PROVE TasksTypeOK'
  BY <1>3, SavedType DEF StartTask, Rewrites
<1>4. CASE StartTaskAttempt
  BY <1>4 DEF StartTaskAttempt
<1>5. ASSUME NEW w \in TaskWorkers, NEW t \in Tasks, ClaimTask(w, t) PROVE TasksTypeOK'
  <2> DEFINE g == IF engStore = "sqlite" THEN task[t].gen + 1 ELSE 0
  <2>1. g \in Nat
    OBVIOUS
  <2> HIDE DEF g
  <2>2. /\ wk' = [wk EXCEPT ![w] = [@ EXCEPT !.pc = "handle", !.task = t, !.gen = g]]
        /\ task' = [task EXCEPT ![t] =
                      [status |-> "RUNNING", gen |-> g,
                       lease |-> IF engStore = "sqlite" THEN "live" ELSE @.lease]]
        /\ declared' = declared \ {t}
        /\ UNCHANGED <<engStore, attemptRows, checkpoints, orch, lapsed, written, interventions, crashes>>
    BY <1>5, Zenon DEF ClaimTask, g
  <2>3. wk' \in [TaskWorkers -> WorkerState]
    BY <2>1, <2>2
  <2> QED BY <1>0, <2>1, <2>2, <2>3
<1>6. ASSUME NEW w \in TaskWorkers, Drained(w) PROVE TasksTypeOK'
  BY <1>6 DEF Drained, Gone
<1>7. ASSUME NEW w \in TaskWorkers, NEW o \in Outcomes, HandlerEnds(w, o) PROVE TasksTypeOK'
  <2>1. wk' = [wk EXCEPT ![w] = [@ EXCEPT !.pc = "attempt", !.outcome = o]]
    BY <1>7, Zenon DEF HandlerEnds
  <2> QED BY <1>7, <2>1 DEF HandlerEnds
<1>8. ASSUME NEW w \in TaskWorkers, RecordAttempt(w) PROVE TasksTypeOK'
  BY <1>8 DEF RecordAttempt, WkGoto
<1>9. ASSUME NEW w \in TaskWorkers, RecordCheckpoint(w) PROVE TasksTypeOK'
  BY <1>9 DEF RecordCheckpoint, WkGoto
<1>10. ASSUME NEW w \in TaskWorkers, SaveOutcome(w) PROVE TasksTypeOK'
  <2>1. wk[w].task \in Tasks /\ wk[w].outcome \in TaskStatus
    BY <1>10 DEF SaveOutcome
  <2>2. task' \in [Tasks -> TaskRow]
    BY <1>10, <2>1, SavedType DEF SaveOutcome
  <2>3. /\ wk' \in [TaskWorkers -> WorkerState]
        /\ wk'[w].pc \in {"idle", "exited"} /\ wk'[w].task = NoTask
        /\ \A v \in TaskWorkers : v # w => wk'[v] = wk[v]
    BY <1>10, SaveFrees
  <2> QED BY <1>10, <2>2, <2>3 DEF SaveOutcome
<1>11. ASSUME NEW w \in TaskWorkers, WorkerDies(w) PROVE TasksTypeOK'
  BY <1>11 DEF WorkerDies, Gone
<1>12. ASSUME NEW w \in TaskWorkers, StartWorker(w) PROVE TasksTypeOK'
  <2>1. wk[w].task = NoTask
    BY <1>12 DEF StartWorker
  <2>2. wk' \in [TaskWorkers -> WorkerState]
    BY <1>12 DEF StartWorker
  <2>3. wk'[w].pc = "idle" /\ wk'[w].task = NoTask /\ \A v \in TaskWorkers : v # w => wk'[v] = wk[v]
    BY <1>12, <2>1 DEF StartWorker
  <2> QED BY <1>12, <2>2, <2>3 DEF StartWorker
<1>13. ASSUME NEW t \in Tasks, TaskLeaseExpires(t) PROVE TasksTypeOK'
  BY <1>13 DEF TaskLeaseExpires
<1>14. CASE UNCHANGED engVars
  BY <1>14 DEF engVars
<1> QED BY <1>1, <1>2, <1>3, <1>4, <1>5, <1>6, <1>7, <1>8, <1>9, <1>10, <1>11, <1>12,
           <1>13, <1>14 DEF TasksNext, WorkerStep

\* Every reachable state of the tasks and their workers is well typed.
THEOREM TasksTypeCorrect == TasksSpec => []TasksTypeOK
BY TasksStart, TasksStep, PTL DEF TasksSpec

-----------------------------------------------------------------------------
\* A task in a worker's hands cannot be claimed from it before the claim comes
\* loose.
TasksHeld ==
  \A w \in TaskWorkers : \A t \in Tasks : Working(w, t) =>
    Loose(t) \/ (task[t].status # "ABSENT" /\ ~ClaimableTask(t))

\* What a worker is about to save is already recorded as an attempt and, for
\* a success, as a checkpoint.
EvidenceFirst ==
  \A w \in TaskWorkers :
    /\ wk[w].pc \in {"checkpoint", "save"} => wk[w].outcome \in attemptRows[wk[w].task]
    /\ wk[w].pc = "save" /\ wk[w].outcome = "SUCCEEDED" => wk[w].task \in checkpoints

TasksInv == TasksTypeOK /\ TasksHeld /\ ExclusiveClaims /\ EvidenceFirst /\ OutcomeEvidenced

\* A loose claim stays loose: nothing is taken out of the two histories.
LEMMA LooseStays ==
  ASSUME [TasksNext]_engVars
  PROVE  \A t \in Tasks : Loose(t) => Loose(t)'
<1>1. engStore' = engStore /\ lapsed \subseteq lapsed' /\ written \subseteq written'
  <2>1. CASE TasksNext
    BY <2>1 DEF TasksNext, WorkerStep, CreateTask, Rewrites, UpdateTaskStatus, StartTask,
                StartTaskAttempt, ClaimTask, Drained, HandlerEnds, RecordAttempt, RecordCheckpoint,
                SaveOutcome, WorkerDies, StartWorker, TaskLeaseExpires
  <2>2. CASE UNCHANGED engVars
    BY <2>2 DEF engVars
  <2> QED BY <2>1, <2>2
<1> QED BY <1>1 DEF Loose

\* A step that touches no worker and no claimable row keeps exclusion; so
\* does one that frees a worker.
LEMMA HeldKept ==
  ASSUME TasksHeld, ExclusiveClaims, \A t \in Tasks : Loose(t) => Loose(t)',
         \A w \in TaskWorkers : \A t \in Tasks : Working(w, t)' => Working(w, t),
         \A t \in Tasks : task[t].status # "ABSENT" /\ ~ClaimableTask(t) =>
           Loose(t)' \/ (task[t].status # "ABSENT" /\ ~ClaimableTask(t))'
  PROVE  TasksHeld' /\ ExclusiveClaims'
<1>1. TasksHeld'
  BY DEF TasksHeld
<1>2. ExclusiveClaims'
  BY DEF ExclusiveClaims
<1> QED BY <1>1, <1>2

\* What every step does about exclusion.
LEMMA HeldStep ==
  ASSUME TasksTypeOK, TasksTypeOK', TasksHeld, ExclusiveClaims, [TasksNext]_engVars
  PROVE  TasksHeld' /\ ExclusiveClaims'
<1> USE LooseStays DEF TasksTypeOK
<1>1. ASSUME NEW t \in Tasks, CreateTask(t) PROVE TasksHeld' /\ ExclusiveClaims'
  <2>1. /\ task[t].status = "ABSENT" /\ UNCHANGED <<engStore, wk>>
        /\ \A u \in Tasks : u # t => task'[u] = task[u]
    BY <1>1, SavedType DEF CreateTask
  <2> QED BY <2>1, HeldKept DEF Working, ClaimableTask
<1>2. ASSUME NEW t \in Tasks, NEW s \in TaskStatus, Rewrites(t, s), UNCHANGED <<engStore, wk>>
      PROVE  TasksHeld' /\ ExclusiveClaims'
  <2>1. task' = Saved(t, s) /\ Loose(t)'
    BY <1>2 DEF Rewrites, Loose
  <2>2. \A u \in Tasks : u # t => task'[u] = task[u]
    BY <2>1, SavedType
  <2> QED BY <1>2, <2>1, <2>2, HeldKept DEF Working, ClaimableTask
<1>3. ASSUME NEW t \in Tasks, StartTask(t) \/ \E s \in TaskStatus : UpdateTaskStatus(t, s)
      PROVE  TasksHeld' /\ ExclusiveClaims'
  BY <1>2, <1>3 DEF StartTask, UpdateTaskStatus
<1>4. CASE StartTaskAttempt
  BY <1>4, HeldKept DEF StartTaskAttempt, Working, ClaimableTask
<1>5. ASSUME NEW w \in TaskWorkers, NEW t \in Tasks, ClaimTask(w, t)
      PROVE  TasksHeld' /\ ExclusiveClaims'
  <2>1. /\ wk'[w].task = t
        /\ \A v \in TaskWorkers : v # w => wk'[v] = wk[v]
        /\ task'[t].status = "RUNNING" /\ (engStore = "sqlite" => task'[t].lease = "live")
        /\ \A u \in Tasks : u # t => task'[u] = task[u]
        /\ UNCHANGED engStore
    BY <1>5 DEF ClaimTask
  <2>2. ClaimableTask(t)
    BY <1>5 DEF ClaimTask
  <2>3. (task[t].status # "ABSENT" /\ ~ClaimableTask(t))'
    BY <2>1 DEF ClaimableTask
  <2>4. \A u \in Tasks : u # t => ClaimableTask(u)' = ClaimableTask(u)
    BY <2>1 DEF ClaimableTask
  <2>5. \A v \in TaskWorkers : \A u \in Tasks :
          Working(v, u)' => Working(v, u) \/ (v = w /\ u = t)
    BY <2>1 DEF Working
  <2>6. \A v \in TaskWorkers : Working(v, t) => Loose(t)
    BY <2>2 DEF TasksHeld
  <2>7. TasksHeld'
    BY <2>1, <2>3, <2>4, <2>5 DEF TasksHeld
  <2>8. ExclusiveClaims'
    BY <2>1, <2>5, <2>6 DEF ExclusiveClaims
  <2> QED BY <2>7, <2>8
<1>6. ASSUME NEW w \in TaskWorkers,
             \/ Drained(w) \/ (\E o \in Outcomes : HandlerEnds(w, o)) \/ RecordAttempt(w)
             \/ RecordCheckpoint(w) \/ WorkerDies(w) \/ StartWorker(w)
      PROVE  TasksHeld' /\ ExclusiveClaims'
  <2>1. /\ \A v \in TaskWorkers : v # w => wk'[v] = wk[v]
        /\ wk'[w].task = wk[w].task \/ wk'[w].task = NoTask
        /\ wk[w].pc # "exited" \/ wk'[w].task = NoTask
        /\ UNCHANGED <<engStore, task>>
    BY <1>6 DEF Drained, HandlerEnds, RecordAttempt, RecordCheckpoint, WorkerDies, StartWorker,
                WkGoto, Gone
  <2>2. \A v \in TaskWorkers : \A t \in Tasks : Working(v, t)' => Working(v, t)
    BY <2>1 DEF Working, Tasks
  <2> QED BY <2>1, <2>2, HeldKept DEF ClaimableTask
<1>7. ASSUME NEW w \in TaskWorkers, SaveOutcome(w) PROVE TasksHeld' /\ ExclusiveClaims'
  <2>1. wk[w].task \in Tasks /\ wk[w].outcome \in Outcomes
    BY <1>7 DEF SaveOutcome
  <2>2. /\ \A v \in TaskWorkers : v # w => wk'[v] = wk[v]
        /\ wk'[w].task = NoTask
        /\ task' = Saved(wk[w].task, wk[w].outcome)
        /\ UNCHANGED engStore
    BY <1>7, SaveFrees DEF SaveOutcome
  <2>a. NoTask \notin Tasks
    BY DEF Tasks
  <2>3. \A v \in TaskWorkers : \A t \in Tasks : Working(v, t)' => Working(v, t)
    BY <2>a, <2>2 DEF Working
  <2>4. /\ task'[wk[w].task].status \in Outcomes
        /\ \A u \in Tasks : u # wk[w].task => task'[u] = task[u]
    <3>1. wk[w].outcome \in TaskStatus
      BY <2>1
    <3>2. /\ Saved(wk[w].task, wk[w].outcome)[wk[w].task].status = wk[w].outcome
          /\ \A u \in Tasks : u # wk[w].task => Saved(wk[w].task, wk[w].outcome)[u] = task[u]
      BY <2>1, <3>1, SavedType
    <3> QED BY <2>1, <2>2, <3>2
  <2>5. \A t \in Tasks : task[t].status # "ABSENT" /\ ~ClaimableTask(t) =>
          (task[t].status # "ABSENT" /\ ~ClaimableTask(t))'
    <3> SUFFICES ASSUME NEW t \in Tasks, task[t].status # "ABSENT", ~ClaimableTask(t)
                 PROVE  (task[t].status # "ABSENT" /\ ~ClaimableTask(t))'
      OBVIOUS
    <3>1. CASE t = wk[w].task
      BY <3>1, <2>4 DEF ClaimableTask
    <3>2. CASE t # wk[w].task
      BY <3>2, <2>2, <2>4 DEF ClaimableTask
    <3> QED BY <3>1, <3>2
  <2> QED BY <2>2, <2>3, <2>5, HeldKept
<1>8. ASSUME NEW t \in Tasks, TaskLeaseExpires(t) PROVE TasksHeld' /\ ExclusiveClaims'
  <2>1. engStore = "sqlite" /\ UNCHANGED <<engStore, wk>> /\ Loose(t)'
    BY <1>8 DEF TaskLeaseExpires, Loose
  <2>2. \A u \in Tasks : u # t => task'[u] = task[u]
    BY <1>8 DEF TaskLeaseExpires
  <2> QED BY <2>1, <2>2, HeldKept DEF Working, ClaimableTask
<1>9. CASE UNCHANGED engVars
  BY <1>9, HeldKept DEF engVars, Working, ClaimableTask
<1> QED BY <1>1, <1>2, <1>3, <1>4, <1>5, <1>6, <1>7, <1>8, <1>9 DEF TasksNext, WorkerStep

\* Evidence survives a step that keeps what is recorded, gives no worker
\* something new to save, and gives no task a new outcome.
LEMMA EvidenceKept ==
  ASSUME EvidenceFirst, OutcomeEvidenced, checkpoints \subseteq checkpoints',
         \A t \in Tasks : attemptRows[t] \subseteq attemptRows'[t],
         \A w \in TaskWorkers : wk[w].pc \in {"checkpoint", "save"} => wk[w].task \in Tasks,
         \A w \in TaskWorkers : wk'[w] = wk[w] \/ wk'[w].pc \notin {"checkpoint", "save"},
         \A t \in Tasks : 
           \/ task'[t].status = task[t].status /\ (t \in declared => t \in declared')
           \/ task'[t].status \notin Outcomes \/ t \in declared'
  PROVE  EvidenceFirst' /\ OutcomeEvidenced'
<1>1. EvidenceFirst'
  BY DEF EvidenceFirst
<1>2. OutcomeEvidenced'
  BY DEF OutcomeEvidenced
<1> QED BY <1>1, <1>2

\* What every step does about evidence.
LEMMA EvidenceStep ==
  ASSUME TasksTypeOK, EvidenceFirst, OutcomeEvidenced, [TasksNext]_engVars
  PROVE  EvidenceFirst' /\ OutcomeEvidenced'
<1> USE DEF TasksTypeOK
<1>0. \A w \in TaskWorkers : wk[w].pc \in {"checkpoint", "save"} => wk[w].task \in Tasks
  OBVIOUS
<1>1. ASSUME NEW t \in Tasks, NEW s \in TaskStatus, s \in Outcomes => t \in declared',
             declared \subseteq declared', task' = Saved(t, s),
             UNCHANGED <<attemptRows, checkpoints, wk>>
      PROVE  EvidenceFirst' /\ OutcomeEvidenced'
  <2>1. task'[t].status = s /\ \A u \in Tasks : u # t => task'[u] = task[u]
    BY <1>1, SavedType
  <2> QED BY <1>0, <1>1, <2>1, EvidenceKept
<1>2. CASE StartTaskAttempt
  BY <1>0, <1>2, EvidenceKept DEF StartTaskAttempt
<1>3. ASSUME NEW w \in TaskWorkers, NEW t \in Tasks, ClaimTask(w, t)
      PROVE  EvidenceFirst' /\ OutcomeEvidenced'
  BY <1>0, <1>3, EvidenceKept DEF ClaimTask
<1>4. ASSUME NEW w \in TaskWorkers,
             \/ Drained(w) \/ (\E o \in Outcomes : HandlerEnds(w, o))
             \/ WorkerDies(w) \/ StartWorker(w)
      PROVE  EvidenceFirst' /\ OutcomeEvidenced'
  <2>1. /\ \A v \in TaskWorkers : v # w => wk'[v] = wk[v]
        /\ wk'[w].pc \notin {"checkpoint", "save"}
        /\ UNCHANGED <<task, attemptRows, checkpoints, declared>>
    BY <1>4 DEF Drained, HandlerEnds, WorkerDies, StartWorker, Gone
  <2> QED BY <1>0, <2>1, EvidenceKept
<1>5. ASSUME NEW w \in TaskWorkers, RecordAttempt(w) PROVE EvidenceFirst' /\ OutcomeEvidenced'
  <2>1. /\ wk[w].task \in Tasks
        /\ attemptRows'[wk[w].task] = attemptRows[wk[w].task] \cup {wk[w].outcome}
        /\ \A t \in Tasks : attemptRows[t] \subseteq attemptRows'[t]
        /\ wk'[w].task = wk[w].task /\ wk'[w].outcome = wk[w].outcome
        /\ wk'[w].pc = "save" => wk[w].outcome # "SUCCEEDED"
        /\ \A v \in TaskWorkers : v # w => wk'[v] = wk[v]
        /\ UNCHANGED <<task, checkpoints, declared>>
    BY <1>5 DEF RecordAttempt, WkGoto
  <2>2. EvidenceFirst'
    BY <1>0, <2>1 DEF EvidenceFirst
  <2>3. OutcomeEvidenced'
    BY <2>1 DEF OutcomeEvidenced
  <2> QED BY <2>2, <2>3
<1>6. ASSUME NEW w \in TaskWorkers, RecordCheckpoint(w) PROVE EvidenceFirst' /\ OutcomeEvidenced'
  <2>1. /\ wk[w].task \in Tasks /\ wk[w].pc = "checkpoint"
        /\ checkpoints' = checkpoints \cup {wk[w].task}
        /\ wk'[w].task = wk[w].task /\ wk'[w].outcome = wk[w].outcome
        /\ \A v \in TaskWorkers : v # w => wk'[v] = wk[v]
        /\ UNCHANGED <<task, attemptRows, declared>>
    BY <1>6 DEF RecordCheckpoint, WkGoto
  <2>2. EvidenceFirst'
    BY <2>1 DEF EvidenceFirst
  <2>3. OutcomeEvidenced'
    BY <2>1 DEF OutcomeEvidenced
  <2> QED BY <2>2, <2>3
<1>7. ASSUME NEW w \in TaskWorkers, SaveOutcome(w) PROVE EvidenceFirst' /\ OutcomeEvidenced'
  <2>1. /\ wk[w].task \in Tasks /\ wk[w].outcome \in Outcomes /\ wk[w].pc = "save"
        /\ \A v \in TaskWorkers : v # w => wk'[v] = wk[v]
        /\ wk'[w].pc \in {"idle", "exited"}
        /\ declared' = declared \ {wk[w].task}
        /\ UNCHANGED <<attemptRows, checkpoints>>
    BY <1>7, SaveFrees DEF SaveOutcome
  <2>2. /\ task'[wk[w].task].status = wk[w].outcome
        /\ \A u \in Tasks : u # wk[w].task => task'[u] = task[u]
    BY <1>7, <2>1, SavedType DEF SaveOutcome
  <2>3. EvidenceFirst'
    BY <2>1 DEF EvidenceFirst
  <2>4. /\ wk[w].outcome \in attemptRows[wk[w].task]
        /\ wk[w].outcome = "SUCCEEDED" => wk[w].task \in checkpoints
    BY <2>1 DEF EvidenceFirst
  <2>5. OutcomeEvidenced'
    BY <2>1, <2>2, <2>4 DEF OutcomeEvidenced
  <2> QED BY <2>3, <2>5
<1>8. ASSUME NEW t \in Tasks, TaskLeaseExpires(t) PROVE EvidenceFirst' /\ OutcomeEvidenced'
  BY <1>0, <1>8, EvidenceKept DEF TaskLeaseExpires
<1>9. CASE UNCHANGED engVars
  BY <1>0, <1>9, EvidenceKept DEF engVars
<1> QED BY <1>1, <1>2, <1>3, <1>4, <1>5, <1>6, <1>7, <1>8, <1>9
        DEF TasksNext, WorkerStep, CreateTask, Rewrites, UpdateTaskStatus, StartTask

\* The inductive invariant, for either store.
THEOREM TasksInvariant == TasksSpec => []TasksInv
<1>1. TasksInit => TasksInv
  <2> SUFFICES ASSUME TasksInit PROVE TasksInv
    OBVIOUS
  <2>1. TasksTypeOK
    BY TasksStart
  <2>2. TasksHeld /\ ExclusiveClaims
    BY DEF TasksInit, TasksHeld, ExclusiveClaims, Working, Gone
  <2>3. EvidenceFirst /\ OutcomeEvidenced
    BY DEF TasksInit, EvidenceFirst, OutcomeEvidenced, Gone
  <2> QED BY <2>1, <2>2, <2>3 DEF TasksInv
<1>2. TasksInv /\ TasksTypeOK' /\ [TasksNext]_engVars => TasksInv'
  BY HeldStep, EvidenceStep DEF TasksInv
<1> QED BY <1>1, <1>2, TasksTypeCorrect, PTL DEF TasksSpec

\* Two workers are on one task only after a lease ran out or the orchestrator
\* rewrote the status: over PostgreSQL, after the latter alone.  (claim_task)
THEOREM ClaimsAreExclusive == TasksSpec => []ExclusiveClaims
BY TasksInvariant, PTL DEF TasksInv

\* No outcome but a declared one is recorded without its attempt and, for a
\* success, its checkpoint, wherever a worker dies and whatever status the
\* orchestrator writes.  (the order of the calls in run_once)
THEOREM OutcomesAreEvidenced == TasksSpec => []OutcomeEvidenced
BY TasksInvariant, PTL DEF TasksInv

-----------------------------------------------------------------------------
(***************************************************************************)
(* What is true of the saves nobody compares with their claims: only when  *)
(* the claim came loose is there a worker that has been superseded, or one *)
(* still at work on a task that has its outcome.                           *)
(***************************************************************************)
Superseded(w, t) == Working(w, t) /\ task[t].gen > wk[w].gen
Overdue(w, t) == Working(w, t) /\ task[t].status \in Outcomes

LateOnlyLoose ==
  \A w \in TaskWorkers : \A t \in Tasks : Superseded(w, t) \/ Overdue(w, t) => Loose(t)

\* A row written by save_task has the status saved and no newer generation.
LEMMA SavedGen ==
  ASSUME task \in [Tasks -> TaskRow], NEW t \in Tasks, NEW s \in TaskStatus, task' = Saved(t, s)
  PROVE  /\ task'[t].status = s /\ task'[t].gen <= task[t].gen /\ task'[t].gen \in Nat
         /\ \A u \in Tasks : u # t => task'[u] = task[u]
BY DEF Saved

\* Nobody becomes late by a step that gives no worker a task and no row whose
\* claim is not loose an outcome or a newer generation.
LEMMA LateKept ==
  ASSUME TasksTypeOK, LateOnlyLoose, \A t \in Tasks : Loose(t) => Loose(t)',
         \A w \in TaskWorkers : \A t \in Tasks : Working(w, t)' => Working(w, t) /\ wk'[w].gen = wk[w].gen,
         \A t \in Tasks : Loose(t)' \/ /\ task'[t].status \in Outcomes => task[t].status \in Outcomes
                                       /\ task'[t].gen \in Nat /\ task'[t].gen <= task[t].gen
  PROVE  LateOnlyLoose'
<1> SUFFICES ASSUME NEW w \in TaskWorkers, NEW t \in Tasks, (Superseded(w, t) \/ Overdue(w, t))',
                    ~Loose(t)'
             PROVE  FALSE
  BY DEF LateOnlyLoose
<1>1. wk[w].gen \in Nat /\ task[t].gen \in Nat
  BY DEF TasksTypeOK
<1>2. Superseded(w, t) \/ Overdue(w, t)
  BY <1>1 DEF Superseded, Overdue
<1> QED BY <1>2 DEF LateOnlyLoose

\* A worker saves the task it is on and no other.  (run_once)
LEMMA SavesItsTask ==
  ASSUME TasksTypeOK, NEW w \in TaskWorkers, SaveOutcome(w)
  PROVE  /\ wk[w].task \in Tasks /\ wk[w].outcome \in TaskStatus /\ Working(w, wk[w].task)
         /\ \A u \in Tasks : u # wk[w].task => task'[u] = task[u]
<1>1. wk[w].task \in Tasks /\ wk[w].outcome \in TaskStatus /\ Working(w, wk[w].task)
  BY DEF SaveOutcome, TasksTypeOK, Working
<1>2. task \in [Tasks -> TaskRow] /\ task' = Saved(wk[w].task, wk[w].outcome)
  BY DEF SaveOutcome, TasksTypeOK
<1> QED BY <1>1, <1>2, SavedType

LEMMA LateStep ==
  ASSUME TasksInv, LateOnlyLoose, [TasksNext]_engVars
  PROVE  LateOnlyLoose'
<1>t. TasksTypeOK /\ task \in [Tasks -> TaskRow] /\ wk \in [TaskWorkers -> WorkerState] /\ NoTask \notin Tasks
  BY DEF TasksInv, TasksTypeOK, Tasks
<1>l. \A t \in Tasks : Loose(t) => Loose(t)'
  BY LooseStays
<1>1. ASSUME NEW t \in Tasks, NEW s \in TaskStatus, s \in Outcomes => Loose(t)',
             task' = Saved(t, s), UNCHANGED wk
      PROVE  LateOnlyLoose'
  <2>1. /\ task'[t].status = s /\ task'[t].gen <= task[t].gen /\ task'[t].gen \in Nat
        /\ \A u \in Tasks : u # t => task'[u] = task[u]
    BY <1>1, <1>t, SavedGen
  <2>2. \A u \in Tasks : task[u].gen \in Nat
    BY <1>t
  <2>3. \A u \in Tasks : Loose(u)' \/ /\ task'[u].status \in Outcomes => task[u].status \in Outcomes
                                      /\ task'[u].gen \in Nat /\ task'[u].gen <= task[u].gen
    BY <1>1, <2>1, <2>2
  <2>4. \A w \in TaskWorkers : \A u \in Tasks : Working(w, u)' => Working(w, u) /\ wk'[w].gen = wk[w].gen
    BY <1>1 DEF Working
  <2> QED BY <1>l, <1>t, <2>3, <2>4, LateKept
<1>2. ASSUME NEW w \in TaskWorkers, NEW t \in Tasks, ClaimTask(w, t) PROVE LateOnlyLoose'
  <2> DEFINE g == IF engStore = "sqlite" THEN task[t].gen + 1 ELSE 0
  <2>1. g \in Nat
    BY <1>t
  <2>2. /\ wk'[w].task = t /\ wk'[w].gen = g /\ task'[t].status = "RUNNING" /\ task'[t].gen = g
        /\ ClaimableTask(t)
        /\ \A v \in TaskWorkers : v # w => wk'[v] = wk[v]
        /\ \A u \in Tasks : u # t => task'[u] = task[u]
    BY <1>2, <1>t DEF ClaimTask
  <2> HIDE DEF g
  <2> SUFFICES ASSUME NEW v \in TaskWorkers, NEW u \in Tasks, (Superseded(v, u) \/ Overdue(v, u))'
               PROVE  Loose(u)'
    BY DEF LateOnlyLoose
  <2>3. CASE u = t
    <3>1. v # w
      BY <2>1, <2>2, <2>3 DEF Superseded, Overdue
    <3>2. Working(v, t)
      BY <2>2, <2>3, <3>1 DEF Superseded, Overdue, Working
    <3> QED BY <1>l, <2>2, <2>3, <3>2 DEF TasksInv, TasksHeld
  <2>4. CASE u # t
    <3>1. v # w
      BY <2>2, <2>4 DEF Superseded, Overdue, Working
    <3>2. Superseded(v, u) \/ Overdue(v, u)
      BY <2>2, <2>4, <3>1 DEF Superseded, Overdue, Working
    <3> QED BY <1>l, <3>2 DEF LateOnlyLoose
  <2> QED BY <2>3, <2>4
<1>3. ASSUME NEW w \in TaskWorkers, SaveOutcome(w) PROVE LateOnlyLoose'
  <2> DEFINE t == wk[w].task
  <2>1. t \in Tasks /\ Working(w, t)
    BY <1>3, <1>t, SavesItsTask
  <2>2. \A u \in Tasks : u # t => task'[u] = task[u]
    BY <1>3, <1>t, SavesItsTask
  <2>3. /\ \A v \in TaskWorkers : v # w => wk'[v] = wk[v]
        /\ wk'[w].task = NoTask
    BY <1>3, <1>t, SaveFrees
  <2> HIDE DEF t
  <2> SUFFICES ASSUME NEW v \in TaskWorkers, NEW u \in Tasks, (Superseded(v, u) \/ Overdue(v, u))'
               PROVE  Loose(u)'
    BY DEF LateOnlyLoose
  <2>4. v # w /\ Working(v, u) /\ wk'[v] = wk[v]
    BY <1>t, <2>3 DEF Superseded, Overdue, Working
  <2>5. CASE u = t
    BY <1>l, <2>1, <2>4, <2>5 DEF TasksInv, ExclusiveClaims
  <2>6. CASE u # t
    <3>1. Superseded(v, u) \/ Overdue(v, u)
      BY <2>2, <2>4, <2>6 DEF Superseded, Overdue
    <3> QED BY <1>l, <3>1 DEF LateOnlyLoose
  <2> QED BY <2>5, <2>6
<1>4. ASSUME NEW w \in TaskWorkers,
             \/ Drained(w) \/ (\E o \in Outcomes : HandlerEnds(w, o)) \/ RecordAttempt(w)
             \/ RecordCheckpoint(w) \/ WorkerDies(w) \/ StartWorker(w)
      PROVE  LateOnlyLoose'
  <2>1. /\ \A v \in TaskWorkers : v # w => wk'[v] = wk[v]
        /\ (wk'[w].task = wk[w].task /\ wk'[w].gen = wk[w].gen) \/ wk'[w].task = NoTask
        /\ wk[w].pc # "exited" \/ wk'[w].task = NoTask
        /\ UNCHANGED task
    BY <1>4, <1>t DEF Drained, HandlerEnds, RecordAttempt, RecordCheckpoint, WorkerDies, StartWorker,
                WkGoto, Gone, TasksTypeOK
  <2>2. \A v \in TaskWorkers : \A u \in Tasks : Working(v, u)' => Working(v, u) /\ wk'[v].gen = wk[v].gen
    BY <1>t, <2>1 DEF Working
  <2>3. \A u \in Tasks : task[u].gen \in Nat /\ task[u].gen <= task[u].gen
    BY <1>t
  <2> QED BY <1>l, <1>t, <2>1, <2>2, <2>3, LateKept
<1>5. CASE StartTaskAttempt \/ UNCHANGED engVars
  <2>1. UNCHANGED <<task, wk>>
    BY <1>5 DEF StartTaskAttempt, engVars
  <2> QED BY <1>l, <2>1 DEF LateOnlyLoose, Superseded, Overdue, Working
<1>6. ASSUME NEW t \in Tasks, TaskLeaseExpires(t) PROVE LateOnlyLoose'
  <2>1. /\ \A u \in Tasks : task'[u].status = task[u].status /\ task'[u].gen = task[u].gen /\ task[u].gen \in Nat
        /\ UNCHANGED wk
    BY <1>6, <1>t DEF TaskLeaseExpires
  <2>2. \A v \in TaskWorkers : \A u \in Tasks : Working(v, u)' => Working(v, u) /\ wk'[v].gen = wk[v].gen
    BY <2>1 DEF Working
  <2>3. \A u \in Tasks : task'[u].gen \in Nat /\ task'[u].gen <= task[u].gen
    BY <2>1
  <2> QED BY <1>l, <1>t, <2>1, <2>2, <2>3, LateKept
<1>7. ASSUME NEW t \in Tasks, NEW s \in TaskStatus, Rewrites(t, s), UNCHANGED wk PROVE LateOnlyLoose'
  BY <1>1, <1>7 DEF Rewrites, Loose
<1>8. ASSUME NEW t \in Tasks,
             CreateTask(t) \/ StartTask(t) \/ \E s \in TaskStatus : UpdateTaskStatus(t, s)
      PROVE  LateOnlyLoose'
  BY <1>1, <1>7, <1>8 DEF CreateTask, StartTask, UpdateTaskStatus
<1> QED BY <1>2, <1>3, <1>4, <1>5, <1>6, <1>8 DEF TasksNext, WorkerStep

\* A worker is superseded, or at work on a task that is already decided, only
\* once that task's lease ran out (SQLite) or the orchestrator rewrote its
\* status (either store).  (claim_task, save_task, update_task_status)
THEOREM LateWorkersLoose == TasksSpec => []LateOnlyLoose
<1>1. TasksInit => LateOnlyLoose
  BY DEF TasksInit, LateOnlyLoose, Superseded, Overdue, Working, Gone
<1>2. TasksInv /\ LateOnlyLoose /\ [TasksNext]_engVars => LateOnlyLoose'
  BY LateStep
<1> QED BY <1>1, <1>2, TasksInvariant, PTL DEF TasksSpec

\* A recorded outcome changes only by the orchestrator's hand, or by a worker
\* whose claim had come loose: over PostgreSQL a task the orchestrator never
\* rewrote keeps its outcome.  (save_task, start_task, update_task_status)
OutcomeKept ==
  [][\A t \in Tasks : task[t].status \in Outcomes /\ task'[t].status # task[t].status =>
       interventions' # interventions \/ Loose(t)]_engVars

\* OutcomeKept holds for either store, whoever dies and however leases run out.
\* (EngineeringWorker.run_once, EngineeringOrchestrator)
THEOREM OutcomesAreKept == TasksSpec => OutcomeKept
<1>1. TasksInv /\ LateOnlyLoose /\ [TasksNext]_engVars =>
        [\A t \in Tasks : task[t].status \in Outcomes /\ task'[t].status # task[t].status =>
           interventions' # interventions \/ Loose(t)]_engVars
  <2> SUFFICES ASSUME TasksInv, LateOnlyLoose, TasksNext, NEW t \in Tasks,
                      task[t].status \in Outcomes, task'[t].status # task[t].status
               PROVE  interventions' # interventions \/ Loose(t)
    OBVIOUS
  <2>t. task \in [Tasks -> TaskRow] /\ interventions \in Nat
    BY TasksAssumption DEF TasksInv, TasksTypeOK
  <2>1. ASSUME NEW u \in Tasks, CreateTask(u) PROVE FALSE
    <3>1. task[u].status = "ABSENT" /\ \A x \in Tasks : x # u => task'[x] = task[x]
      BY <2>1, <2>t, SavedType DEF CreateTask
    <3> QED BY <3>1
  <2>2. ASSUME NEW u \in Tasks, StartTask(u) \/ \E s \in TaskStatus : UpdateTaskStatus(u, s)
        PROVE  interventions' # interventions
    BY <2>2, <2>t DEF StartTask, UpdateTaskStatus, Rewrites
  <2>3. ASSUME NEW w \in TaskWorkers, NEW u \in Tasks, ClaimTask(w, u) PROVE FALSE
    <3>1. ClaimableTask(u) /\ \A x \in Tasks : x # u => task'[x] = task[x]
      BY <2>3, <2>t DEF ClaimTask
    <3> QED BY <3>1 DEF ClaimableTask
  <2>4. ASSUME NEW w \in TaskWorkers, SaveOutcome(w) PROVE Loose(t)
    <3>1. /\ wk[w].task \in Tasks /\ Working(w, wk[w].task)
          /\ \A x \in Tasks : x # wk[w].task => task'[x] = task[x]
      BY <2>4, SavesItsTask DEF TasksInv
    <3>2. wk[w].task = t
      BY <3>1
    <3> QED BY <3>1, <3>2 DEF LateOnlyLoose, Overdue
  <2>5. ASSUME NEW u \in Tasks, TaskLeaseExpires(u) PROVE FALSE
    BY <2>5, <2>t DEF TaskLeaseExpires
  <2>6. ASSUME NEW w \in TaskWorkers,
               \/ Drained(w) \/ (\E o \in Outcomes : HandlerEnds(w, o)) \/ RecordAttempt(w)
               \/ RecordCheckpoint(w) \/ WorkerDies(w) \/ StartWorker(w)
        PROVE  FALSE
    BY <2>6 DEF Drained, HandlerEnds, RecordAttempt, RecordCheckpoint, WorkerDies, StartWorker
  <2>7. CASE StartTaskAttempt
    BY <2>7 DEF StartTaskAttempt
  <2> QED BY <2>1, <2>2, <2>3, <2>4, <2>5, <2>6, <2>7 DEF TasksNext, WorkerStep
<1> QED BY <1>1, TasksInvariant, LateWorkersLoose, PTL DEF TasksSpec, OutcomeKept
=============================================================================
