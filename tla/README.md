# A TLA+ model of zcoder's coordination

zcoder is a coding-agent platform.  Most of its code talks to model providers
or draws user interfaces; the part that can be wrong in ways no unit test shows
is the part that coordinates: processes through durable rows (the job queue and
its workers, the public API, the continuous-engineering pipeline, the outbox,
quotas, engineering tasks), and threads or coroutines inside one process (a
worker's signal handlers, the circuit breaker, a code agent's connection).
This directory models those, checks them with TLC and proves the safety part of
what the runs check with TLAPS, for every value of the constants.

Paths below are relative to `src/src/zcoder/` of the repository.

## 1. Inventory

| Component | State | Operations | Hard behaviour | What makes it correct |
|---|---|---|---|---|
| Job stores: `domain/services/control_plane.py` (SQLite), `infrastructure/stores/postgres.py`, `infrastructure/stores/enterprise_postgres.py` (tenant) | a `jobs` row: status, owner, claim generation, lease expiry | enqueue, cancel, claim, mutate, renew, reconcile | concurrent claims, expiry under a live worker, late writes, a two-step claim in SQLite | tokens are unique; only the latest claimant settles a job; settled is final |
| Worker: `worker/process.py` | main loop, `_active_jobs`, `_stop_event` with its own lock, `_state` under `_state_lock`, a thread per job and a renewal thread | claim, start, run, record, renew, drain, force-release, stop | signals at any bytecode, a drain racing a finishing job, the same job twice in one process | a stopped worker owns nothing; a signal stops it, unless it falls inside a lock its handler takes |
| API v1: `api/public/v1.py` over `enterprise_postgres.py` | answers cached per replica, `tenant_job_idempotency` rows | submit, cancel, replay a cached answer | several replicas, repeated requests, lost commits, restarts | one job per key; every answer is true and inside its caller's authority |
| Tenant quotas: `enterprise_postgres.py`, `services/admission_gates.py` | `tenant_quotas` rows | check and reserve | concurrent callers, a row that does not exist yet, calls that raise after the commit | the row accounts for every admission |
| Upgrade loop and pipeline: `services/upgrade_loop.py`, `services/continuous_engineering.py` | items with state and attempts, iteration and no-progress counters, `_items_by_id` | load, restore, discover, pick, implement and validate, checkpoint, report | crash between an attempt and its checkpoint; memory that outlives a run | attempts are bounded; success is final; COMPLETED means done |
| Ledgers: `services/upgrade_state.py` (a JSON file), `services/upgrade_store_ledger.py` (a row per item) | records, checkpoint history, fence generation | restore_or_register, load_resumable, record_checkpoint | non-atomic loads and checkpoints | the ledger moves forward only |
| Leases: `services/upgrade_lease.py`, `upgrade_postgres_lease.py`, `upgrade_postgres_fence.py`, `upgrade_postgres_runtime.py` | lock file, or advisory lock and token | acquire, acquire_token, release | a file that survives its owner, a session that dies before its owner | at most one runner's writes are accepted |
| Engineering worker and stores: `services/engineering_worker.py`, `services/engineering_orchestrator.py`, `infrastructure/stores/*_engineering.py` | tasks, attempts, checkpoints, leases (SQLite only) | claim, run, record; create, start, update | unfenced saves, three transactions per outcome, an orchestrator writing the same rows | exclusive claims until a lease runs out or the orchestrator rewrites a status; no outcome of a worker without evidence; no task lost |
| Outbox: `process_outbox` of the stores, `infrastructure/stores/postgres_outbox.py`, `domain/services/outbox_policy.py` | message status and attempts | enqueue, drain a batch | the handler's effect is outside the transaction; batches overlap | settled is final and honest; duplicates and poison attempts are bounded; nothing is left behind |
| Maintenance scheduler and campaign: `services/maintenance_scheduler.py`, `maintenance_campaign*.py` | one lease per cycle, one pipeline for all cycles | cycle: lease, campaign, enqueue, drain, release | a cycle failing at any point | the next cycle makes up for it |
| Resilience: `core/resilience.py` | `_state`, `_failures`, `_opened_at`, without a lock | before_call, on_success, on_failure, retry | threads between each other's reads | an outage is forgotten when it is over |
| Code agent connection: `agent/codeagent/loop.py`, `web.py`, `permissions.py` | the log, `running`, `_interrupted`, the pending approval, mode and rules | prompt, run, ask, decide, interrupt, disconnect | two coroutines sharing fields across every await | approvals fail closed; the log stays well formed unless a turn is cut off; an interrupt holds; every turn ends |
| HTTP server, webhook inbox, policy engine, deployment and backup, agent sessions and hooks, remote orchestration, GitHub orchestration, portfolio scheduling, messaging, authentication, artifacts, observability, local stack, interfaces, registries, zgpu | little or no coordination state of their own | | | see section 7 |

Interactions.  A worker calls one store; workers meet only in its rows, and the
API's replicas write the same tenant rows.  The scheduler takes its own lease,
calls the pipeline (which takes the run lease of its ledger), enqueues one
summary in the outbox and drains it.  The fence generation lives in the ledger's
control row, so a checkpoint and a fence meet in one row.  The quota gate stands
in front of submissions; the code agent and the breaker live inside one process.

PROJECT.json lists every component with its status, and every hazard with the
properties that would show it going wrong.

## 2. Plan

Done, in this order: JobQueue with FencedJobs, WorkerSignals, UpgradePipeline,
Outbox, ApiSubmit with KeyedJobs, TenantQuota, EngineeringTasks, CircuitBreaker,
CodeAgent; the proofs of everything a passing run checks that is not liveness
(section 6); abstract specifications of the ledgers, the outbox and the quota
with the proofs that the code implements them; and theorems that say how far the
six findings reach.  Not covered: the composition of the scheduler's two leases
with UpgradePipeline and Outbox, for the deployment that drains a SQLite outbox
under a PostgreSQL advisory lock.

## 3. Modules

| Module | Role |
|---|---|
| `FencedJobs` | abstract: a job is posted, granted under growing tokens, settled at most once |
| `JobQueue`, `JobQueueProofs` | the three stores and the worker processes |
| `WorkerSignals` | one worker at the grain of signal handlers |
| `KeyedJobs` | abstract: a job and its key appear in one step, a binding is for ever |
| `ApiSubmit`, `ApiSubmitProofs` | replicas of the API over one tenant's tables |
| `AtomicQuota` | abstract: comparing with the limit and adding are one step |
| `TenantQuota`, `TenantQuotaProofs` | concurrent reservations on one quota row |
| `AttemptLedger` | abstract: a ledger counts attempts, one item at a time, and success is final |
| `UpgradePipeline`, `UpgradePipelineProofs` | the pipeline, its two ledgers and its leases |
| `EngineeringTasks`, `EngineeringTasksProofs` | workers and orchestrator over the two engineering stores |
| `AtLeastOnce` | abstract: a pending message is handed over, recorded as delivered or failed, settled once |
| `Outbox`, `OutboxProofs` | the outbox in its two dialects and the scheduler's cycles |
| `CircuitBreaker` | threads on one breaker, under the retry decorator |
| `CodeAgent` | one connection: turn task and message handler |
| `OneProcessProofs` | proofs about CodeAgent, CircuitBreaker and WorkerSignals |
| `SharedPostgresProofs` | the three systems on one PostgreSQL database |
| `MC*` | instances for TLC: small sets, symmetry, what runs beside what |

Definitions whose comment starts with "Mutant" are deliberately wrong variants
of the definition after them; they are not part of any specification.  Each
shows that some property would notice that mistake.

### JobQueue

The table is four functions of the job: `status`, `claimed_by`, `gen` (the
claim generation) and `lease` ("live" or "expired": a lease may expire at any
moment, so nothing depends on clocks).  A worker's main thread has a program
counter (`down`, `loop`, `claim`, `selected`, `starting`, `drain`, `release`,
`stopped`); each job thread is a record with its token and phase.  `active` is
`_active_jobs`: one entry per job id, overwritten by a second claim of the same
job and popped by whichever thread ends first.  `snap` is the list the forced
release iterates over.

One SQL transaction is one step.  PostgreSQL claims are one step, SQLite's are
two (`ClaimSelect`, `ClaimUpdate`): Python's sqlite3 opens a transaction at the
first write, so the SELECT is outside it.  `Fenced` is the WHERE clause of the
outcome writes; only the tenant store's has a status test.  `StoreFaults` lets
any store call raise, with its transaction rolled back or committed: the COMMIT
may have landed when the connection fails.  A claim then has a token that nobody
was told (`ClaimRaises`), and a thread whose SUCCEEDED is in the table goes on
to write FAILED (`MarkSucceeded`, `Unconfirmed`), which the tenant store's status
test refuses and the other two accept.  A worker restarted after a crash keeps its id, which is
what a configured worker id does and is the harder case.

`AbstractSpec` is FencedJobs with the status and the generation of each row: the
workers, leases and owners are what the refinement hides.

### WorkerSignals

CPython runs a signal handler on the main thread between two bytecodes.  The
module keeps a stack of handler frames over the main thread's position, `_state`,
`_stop_event` and the two locks, neither of them reentrant: `_state_lock`, and the
one inside the event, which `set` and `wait` take (`evlock`).  `WaitEnters`,
`WaitTests`, `WaitWakes` and `WaitReturns` are the steps of `_stop_event.wait`: it
holds the event's lock while it tests the flag and again once it wakes, and not
while it sleeps.  The heartbeat thread takes that lock too, for a moment and with
no handler on its stack, so it is left out.

### ApiSubmit

`handle_request` runs to its end on its server's event loop, so a replica has
one request in hand (`srv`: where it is, the request, the job id it holds);
statements of several replicas interleave.  `Refuse`, `Replay` and `Route` are
the code up to the route: authorization first, then the cache of answers, which
is per process and dies with it.  `Select`, `Insert` and `Commit` are the
statements of `enqueue_job` under READ COMMITTED.  Inserting a key that another
open transaction has inserted waits for that transaction; a loser deletes the
job it has inserted in its own transaction, which is why the job only becomes
visible at `Commit`.  `CommitUnconfirmed` commits and its client never learns; `StatementFails` and
`ServerCrash` roll back.
`WorkerMoves` stands for the workers of JobQueue: a claim, an outcome, a forced
release.  SUCCEEDED and FAILED are one status, `FINISHED`: no statement of the API
tells them apart.  `answers` records every
answer that named a job; the properties are about it.

`SubmitsAtomically` is KeyedJobs under the mapping: rows are the committed jobs
with the key they were posted under, a key is bound to the job of its
idempotency row.

### TenantQuota

One row: absent, or `current` units.  `SELECT ... FOR UPDATE` locks an existing
row and nothing when there is none, so the first reservations go to `InsertRow`
without a comparison and meet at the primary key.  `leaked` counts what was
written for calls that raised afterwards.

`ReservesAtomically` is AtomicQuota with the row's existence, `current` and
`granted`: a reservation takes effect at its write, confirmed or not.  That is what
the docstring of `check_and_reserve_quota` says, and a first reservation above the
limit breaks it (QuotaFirst).  What holds of every reservation is QuotaRespected:
the limit is passed by a first one alone, and nothing is admitted after it.

### UpgradePipeline

`lstate` and `lattempts` are the ledger, `gen` the fence generation of its
control row.  `istate` and `iattempts` are what a runner knows of the items of
its current run.  VALIDATING is folded into RUNNING: both are positions inside
one attempt and neither is written.  The JSON ledger loads and checkpoints in
one atomic replace; the row-per-item ledger does it item by item (`todo`), each
write checked against the fence.  A stale write raises: inside discovery the
loop catches it and halts, anywhere else it ends the run.

`ReusePipeline` distinguishes the two deployments of the pipeline object.  The
command line runs it once.  The maintenance scheduler keeps one object for all
its cycles, and `_items_by_id` is never cleared, so every checkpoint also writes
the items of earlier runs as this process remembers them: `kstate`,
`kattempts`.  The combination with `retry_blocked` is excluded by an assumption.

Rollback is not modelled: the pipeline passes none.  A regression is, because
the loop accepts any validator.

`CountsAttempts` is AttemptLedger with `lstate` and `lattempts`, the same for both
ledgers: copies, leases, fences and half-written checkpoints are what the
refinement hides.  A JSON checkpoint is one abstract step, a row-per-item one a
step for each row.  LedgerForward, that no record goes back, is a consequence
and a theorem of its own.

### EngineeringTasks

`engStore` is chosen at the start.  Over SQLite `claim_task` leases a task and
advances its generation; `save_task` is an INSERT OR REPLACE that names neither
column, so every save puts them back to their defaults, which is an expired
lease.  Over PostgreSQL there is neither: only CREATED tasks are claimed.  A
worker passes through handle, attempt, checkpoint and save, one store
transaction each, and may die or have the call fail at any of them.  The
orchestrator creates tasks, starts them (`start_task` is two transactions) and
`update_task_status` writes any status at all, whatever a worker is doing: it may
hand a running task to a second worker, or record an outcome that nobody worked
for.  A worker stops when nothing is claimable or after its `max_tasks`.

Three histories say how far that reaches: `lapsed` are the tasks whose lease ever
ran out, `written` those whose status the orchestrator ever rewrote, `declared`
the ones of these that still have the status it wrote.  A claim is `Loose` when
its task is in `written` or, over SQLite, in `lapsed`.

### Outbox

A processor selects a batch (`rows`, with the attempts it `read`), calls the
handler for the oldest row, updates that row inside its transaction (`bstatus`,
`battempts`) and commits the batch at the end.  In PostgreSQL the selected rows
stay locked until then and others skip them; in SQLite nothing is locked before
the first UPDATE, which takes the database's write lock.  The failure branch
writes the count it read plus one.  `deployment` is chosen at the start: the
dialect, the batch size, and whether the scheduler's lock file serialises the
processors.

`DeliversAtLeastOnce` is AtLeastOnce with the table and the handler's effects: a
batch in progress is hidden, its effects are not, and its COMMIT is one abstract
step.  TerminalFinal, that a settled message stays settled, is a consequence and
a theorem of its own.

### CircuitBreaker

A step is what a thread does between two calls into other code; in between, the
interpreter may run another thread.  `on_failure` is therefore two steps around
`time.monotonic()` (`Fails`, `Stamp`), and so is `before_call` of an open
breaker (`BeforeCall`, `Clock`).  The clock is one bit: has the
reset timeout passed since `_opened_at`.

### CodeAgent

A step is what a coroutine does between two awaits.  `turn` is where the turn
task awaits; `calls` are the tool calls of the step still to be answered;
`prompt` is the future in `Connection.pending`, which may hold a result before
the task that waits for it runs again.  `Handle` is the message handler: prompts,
interrupts, decisions, modes, rules, disconnects.

A step of the loop may take several requests to the model: a summary of earlier
turns when the context is nearly full (`compact`), the request itself (`chat`), its
retries after a delay (`sleep`), and one summary and one more request when the
provider says the context is too long (`shrink`).  The flag of an interrupt is
read between some of these and not between others.  `TurnRaises` is the `except
Exception` of `run_turn`: an exception outside `_execute`, such as that of
`public_args` on arguments that are no object, ends the turn with its calls in the
log.  `said`, `ran`, `lost` (calls a cut-off turn left unanswered), `stopAsked` and
`late` (requests begun after an interrupt) are history for the properties.

## 4. Runs

Three runs put specifications side by side that share no state: a variable that
never changes (`tables`, `queue`, `process`) says which of them a behaviour
belongs to, and the others stay in their initial state.  The properties are
those of the parts; nothing about their interaction is claimed.
Between them these runs take every action of every part.  UpgradePipeline is in
two: SharedPostgres has the row-per-item ledger and its fence, BackgroundQueues the
JSON ledger (`JsonNext`: all steps but those of the other ledger).

| Run | Instance | Shows |
|---|---|---|
| JobQueueTenant | 1 job, 2 workers of 2 jobs, 3 generations, 2 disruptions, failing statements | types, fencing, terminal statuses final, refinement of FencedJobs |
| JobQueuePostgres | 2 jobs, 2 workers of 1 job, 2 generations, 1 disruption, fairness | stopped workers own nothing; a signalled worker stops; an abandoned job is taken over |
| JobQueueSqlite | as Tenant | unique tokens with the two-step claim; an outcome is undone by a forced release, a pending claim or an unconfirmed success, and by nothing else |
| SharedPostgres: upgrades | the row-per-item ledger with retry_blocked, 2 items, 2 runners, 3 generations, 1 disruption | fence tokens unique, the writer up to date, refinement of AttemptLedger, with the session lost under a live runner |
| SharedPostgres: jobs | 2 replicas, 1 key, 2 payloads, organization-wide and project scopes, 3 requests, 1 fault | answers agree, stay in scope, cancellations hold, no replica waits for ever, refinement of KeyedJobs |
| SharedPostgres: quota | 3 callers, amounts 1, 2, 4 against a limit of 3, 4 reservations, 1 fault | the row accounts for every admission; only a first reservation passes the limit |
| BackgroundQueues: ledger | the JSON ledger, 2 items, 2 runners, 2 attempts, 3 iterations, 2 disruptions, fairness | refinement of AttemptLedger, honest COMPLETED, bounded attempts, registered work is settled |
| BackgroundQueues: outbox | 2 messages, 2 processors, batches of 1 and 2, 2 attempts, 2 disruptions; PostgreSQL without and SQLite with a lock file; fairness | refinement of AtLeastOnce, settled is honest, duplicates and poison attempts bounded, nothing left behind |
| BackgroundQueues: tasks | 1 task, 2 workers, 1 intervention, 2 crashes, both stores, fairness | claims exclusive until they come loose, outcomes with evidence unless declared, no task lost over SQLite |
| OneProcess: worker | 12 jobs, 1 signal, fairness | a signal that finds the main thread outside the event's lock leads to STOPPED |
| OneProcess: breaker | 3 threads, threshold 3, 2 attempts per call, 5 failures, fairness | retries bounded, an outage forgotten |
| OneProcess: agent | tools of the kinds edit and plan, 2 steps of up to 2 calls, 1 retry, 3 calls, 2 prompts, 1 change of mode or rules, fairness | approvals fail closed, calls are answered once unless their turn was cut off, nothing is acted upon after an interrupt and 2 requests at most are made, every turn ends |

Why the bounds are enough.  Three generations let a worker be superseded by
another and then claim the job again itself, the longest chain the fencing
argument distinguishes.  Two attempts separate "retry" from "give up"; two items
or messages let one be overtaken; two batches overlap in every way two
processors can.  Three requests are a submission, its repetition to the other
replica and a cancellation; two replicas are a winner and a loser of one key;
two payloads are a repetition and a conflict.  The amounts fit under the limit
once, several times and never; three callers are the holder of the lock, one
that waits and one that has read nothing yet.  Three threads at threshold three
can each supply one of the failures that open the breaker and a fourth failure
can reopen it from half_open.  Two calls per step let an interrupt fall between
them, two turns let a stale flag reach the next prompt and give a summary
something to replace; one retry is enough to be asleep when the interrupt comes.
The kinds edit and plan meet every verdict, allow, ask and deny; exec only meets
them in other modes.  For the safety
properties the bounds only matter as evidence that the proved formulas are about
something: section 6 has them for all bounds.  Liveness rests on the bounds
alone.

Deadlock is checked except in SharedPostgres, BackgroundQueues, OneProcess and the
violating runs EngineeringStale and QuotaFirst.  There the bounds are used up in
the end (generations, requests, reservations, prompts) or a queue is drained, and
a behaviour rightly stops; SomeoneProceeds, WorkSettled, EventuallySettled,
TasksSettle and TurnEnds say what may not stop.

Symmetry (of items, runners, replicas and payloads) is used in SharedPostgres
only, which checks no liveness.

Runs that end in a violation state what the repository says of the code, and
show how the code does otherwise; PROJECT.json quotes the lines.

| Run | What happens |
|---|---|
| JobQueueRelease | PostgreSQL store: the deadline of a drain passes after a job recorded SUCCEEDED and before its thread left `_active_jobs`; the forced release writes READY over it |
| JobQueueSqliteClaim | SQLite: a job settled between the SELECT and the UPDATE of a claim is claimed |
| WorkerSignalOnce | one signal while the main thread is inside `_stop_event.wait` with the event's lock; the handler's `set()` waits for its own thread |
| UpgradeReuse | two scheduler processes: the one writes its memory of an item over the other's SUCCEEDED |
| EngineeringStale | SQLite: a worker whose lease ran out saves its outcome over the claim of the next one |
| QuotaFirst | the first reservation of a metric is inserted without a comparison and passes the limit |

What the properties deliberately do not say, because the code does not do it:

* a lease that expires under a running job lets a second worker execute it at
  the same time; fencing makes the late outcome harmless, not the execution
  (FinishedByLatest, not "executed once");
* the concurrency limit of a worker is not a property: with more than one job
  at a time, a worker that re-claims its own expired job keeps one
  `_active_jobs` entry for two threads and counts them as one;
* an outcome is not final in the plain stores: besides what the two findings
  show, a SUCCEEDED whose COMMIT was not confirmed is overwritten by the FAILED
  of the same execution.  OutcomeUndoneBy lists the ways, FinishedByLatest excepts
  the unconfirmed one;
* units of a quota that were reserved by a call which raised after its commit are
  never given back (`leaked`);
* a cached cancellation is told again without asking the table; CancelHonoured
  shows that it is still true then;
* an attempt is counted in memory and persisted by the checkpoint after it, so
  a crash in between gives it back: AttemptsBounded has a term for that;
* CountsAttempts is checked and proved for a process per run (`~ReusePipeline`),
  so it does not see what UpgradeReuse shows; SuccessIsFinal does;
* `acquire_token` looks at the control row only, so a runner whose advisory
  session has dropped still advances the generation; WriterUpToDate and
  CountsAttempts show that the ledger survives this, the factor two in
  AttemptsBounded is what it costs;
* the outbox delivers at least once: DuplicatesBounded has a term for every
  lost transaction;
* DeliversAtLeastOnce for the SQLite outbox rests on the lock file.  Under a lease
  that can be lost while a drain goes on, the unconditional UPDATE of the
  failure branch would write over what another processor has settled;
* over PostgreSQL an engineering task whose worker dies stays RUNNING: nothing
  claims it again, so TasksSettle is about SQLite.  It also needs the failing
  calls to be finite: a result that `json.dumps` always rejects would be claimed,
  run and lost for ever;
* ExclusiveClaims and OutcomeEvidenced except what the orchestrator has rewritten.
  `update_task_status` neither looks at the claim nor leaves evidence;
* a signal at any moment: SignalStops excepts one that finds the main thread inside
  the event's lock, which is the finding of WorkerSignalOnce, and is checked for
  one signal: a second one that interrupts the holder of `_state_lock` blocks in the
  same way, which NoHandlerDeadlock also rules out and the code does not;
* in half_open every thread that calls is let through: the single trial call of
  the breaker's docstring is not enforced between threads.  BreakerCloses holds
  all the same;
* an interrupt that arrives after a prompt and before the first step of `run`
  is forgotten, because `run` clears the flag: InterruptHeld is about turns
  that have begun.  Neither does it stop the model at once: a retry that sleeps
  and a step that is being summarised for make their request all the same, and
  one that is too long a summary more.  What they bring is not acted upon.  A change of mode while an approval is pending does not
  withdraw the question: FailClosed is about the user's word, not the mode;
* a disconnect or an exception in the middle of a step leaves tool calls without
  results in the log: LogWellFormed says that exactly those have none, also when
  the next prompt sends them.  `validate_args` means to tell the model of arguments
  that are no object, but `public_args` raises on them first, outside `_execute`.

## 5. Fairness

* JobQueue: the main thread of a started worker is scheduled, an orchestrator
  restarts dead workers, leases that nobody renews expire.  Nothing is promised
  about jobs, so DrainTerminates covers jobs that hang.  AbandonedRecovered has
  the promise as its premise (`JobsEnd`): a job behind one that hangs for ever
  in every worker is not recovered.  Renewals, cancellations, faults and crashes
  are never owed.
* WorkerSignals: the main thread runs, handlers included, and `_stop_event.wait`
  returns at its timeout.  Jobs owe nothing.
* UpgradePipeline: a runner is started again and again (cron or scheduler), its
  callbacks return, an operator removes the lock file of a dead runner.  No
  outcome is promised, and neither are new discoveries.
* Outbox: cycles follow each other and handlers return or raise; either way.
* EngineeringTasks: workers are scheduled, handlers end, a worker is started
  when there is work, leases run out.  The orchestrator owes nothing.  Crashes and
  failing calls are finite (`MaxCrashes`), a premise of TasksSettle.
* CircuitBreaker: threads are scheduled and keep calling, time passes.
  `MaxFailures` is here the end of the outage, a premise of BreakerCloses and
  not only a bound.
* CodeAgent: the event loop schedules the turn task; models answer or fail,
  delays, hooks and tools end, a prompt has its timeout (`permission_timeout`).  The
  user owes nothing, so TurnEnds covers a user who never answers.

The composite runs take each fairness condition where its part is the one that
runs.

## 6. Proofs

Every theorem is about all values of the constants, the sets of jobs, workers,
runners, items, replicas, messages and threads included.  What is assumed are the
named assumptions of the modules, which TLC evaluates on every run: bounds,
thresholds and limits are numbers and, where the code validates them so,
positive (`BoundAssumption`, `PolicyAssumption`, `OutboxAssumption`,
`TasksAssumption`, `ApiAssumption`, `QuotaAssumption`, `BreakerAssumption`,
`AgentAssumption`, `SignalAssumption`); a store or ledger is one of those that
exist (`StoreAssumption`, `BackendAssumption`); SQL NULL is no worker, no lock
holder is no runner (`WorkerAssumption`, `RunnerAssumption`); a table has
finitely many rows (`JobsAssumption`).

Some theorems carry a hypothesis, because the code only keeps the promise there:

| Hypothesis | Theorems | Why |
|---|---|---|
| `Store = "tenant"` | TenantImplements, TenantTerminal | the other stores' fenced write has no status test: JobQueueRelease |
| `Concurrency = 1 /\ ~StoreFaults` | StoppedIsReleased | a release that raises is given up; two threads of one job share an entry of `_active_jobs` |
| `~ReusePipeline` | the UpgradePipeline theorems from WriterInvariant on | a pipeline object that outlives its run writes its memory over the ledger: UpgradeReuse |
| `~ReusePipeline \/ Single` | SuccessIsFinal | two processes that keep their pipeline objects: UpgradeReuse; one alone is safe (`Single`) |
| `signals <= 1`, and `~InWait` for the event's lock (in the formula) | OneSignalIsSafe | a second signal inside `_state_lock`; one signal inside `wait`: WorkerSignalOnce |
| no amount passes the limit | ReservationIsAtomic | the unchecked first reservation: QuotaFirst |
| `Loose(t)` (in the formula) | LateWorkersLoose, OutcomesAreKept | a lease that ran out: EngineeringStale; a status rewritten by the orchestrator |
| `Serialised` | the theorems of OutboxProofs | processors of a SQLite outbox are serialised by the scheduler's lock file; true of the deployments that BackgroundQueues checks |

The theorems are about the specification of each part.  `SharedPromises`,
`QueuesPromises` and `ProcessPromises` carry them over to the specifications that
the runs SharedPostgres, BackgroundQueues and OneProcess check: a step of a
composite is a step or a stutter of every part (`EachOnItsOwn`, `EachQueueAlone`,
`EachPartAlone`), and a step of JsonNext is one of Next.

Each finding has a theorem that bounds it: the mistake needs exactly what the
violating run has.  OutcomesAreUndoneBy (JobQueueRelease, JobQueueSqliteClaim),
OneSignalIsSafe (WorkerSignalOnce), SuccessIsFinal
(UpgradeReuse), LateWorkersLoose and OutcomesAreKept (EngineeringStale),
ReservationIsAtomic and QuotaIsRespected (QuotaFirst).

`JobQueueProofs` covers every set of jobs and workers, every concurrency and
every bound, with and without store faults, for the three stores.

1. `TypeCorrect`: TypeOK is inductive; its one part that is not a type,
   `picked[w][2] < MaxGen` at a pending SQLite claim, is needed because the
   UPDATE does not test the bound again.
2. `FencingCorrect`: TokensUnique and FinishedByLatest are not inductive alone.
   A claim issues `gen + 1`; that it is fresh needs `TokensIssued` (no thread's
   token is ahead of its row).  `Enqueue` resets `gen` to 0; that no thread has
   a token of that job needs `AbsentFresh`.  `SelectedSqlite` keeps the two-step
   claim away from the stores that lock.  Each action either removes threads,
   moves one to another phase, writes an outcome, or claims a row with or without
   its worker learning of it; five lemmas (`FewerFencing`, `MovedFencing`,
   `OutcomeFencing`, `ClaimFencing`, `TakeFencing`) cover the cases and `FencingStep`
   cites them per action.  A thread that goes on to write FAILED after a success
   that was not confirmed is the one holder of a finished job's token with
   something left to write (`Unconfirmed`).
3. `TokensAreUnique`, `LatestFinishes`: from 2.
4. `TenantImplements`: every step of JobQueue over the tenant store is a step
   of FencedJobs or leaves status and generation alone (`TenantStep`).
5. `TenantTerminal`: the action property, from the same case analysis.
6. `StoppedIsReleased`: StoppedReleased only looks at stopped workers.  `SoloInv`
   follows a worker's one thread from the claim on: it is in `_active_jobs` with
   its token, so in the list of the forced release (`snap`), for as long as the
   row is its own; and no step gives a thread back a row it has lost
   (`OwnsOnlyLost`).
   `OutcomesAreUndoneBy`: of all the writes that could hit a finished row, those of
   job threads are restricted by FinishedByLatest to the FAILED of an unconfirmed
   success, and claims by their guard to the UPDATE of a SQLite claim, which does
   not look again; what is left is the forced release.  The tenant store's status
   test excludes all three.

`ApiSubmitProofs` covers every number of replicas, keys, payloads and projects.

7. `TransactionsOwn`: that a commit refines one step of KeyedJobs needs its job
   id to be new and its key to be unbound at that moment, two statements after
   they were found so.  `Owned` is what keeps them so: an open transaction has a
   job id that no row and no other transaction has, and once it has inserted a
   key, nobody else has that key, committed or not.  Select can only reserve a
   fresh id (`ReserveStep`), Insert enters `commit` only when no other
   transaction is there with the key (`InsertStep`), everything else leaves rows
   and reservations alone or gives one up (`QuietStep`).
8. `SubmissionIsAtomic`: `CommitStep` maps a commit, confirmed or not, to Post or
   PostKeyed; all other steps stutter.
9. `AnswersInvariant`: the properties speak of answers given; what makes a
   replayed answer true is that everything a replica has cached or has in hand
   is true of the tables already (`TrueAnswer`, in `CachesTrue`, `InHandTrue`)
   and that the tables only settle (`Settles`): a row keeps its scope, payload
   and key, an outcome is final.  `AnswersAlwaysAgree`, `AnswersStayInScope`,
   `CancellationsAreHonoured` follow; `ApiTypeCorrect` adds the counters.
   `NeverAllWait`: SomeoneProceeds says that `CanStep` is what enables a server's
   next step, which only TLC can check, and that while a request is in hand
   CanStep holds of some server (`NotAllWait`), which is proved.  An INSERT of a
   key waits for a transaction that waits for nobody.  A new job needs an unused
   id: `IdsSuffice` counts the ids of rows and open transactions and the requests
   still to be routed, together no more than the requests that arrived, so that
   the bound on ids, which uuid4 does not have, never blocks anybody.

`TenantQuotaProofs` covers every set of callers, every amount and limit.

10. `QuotaInvariant`: QuotaExact and QuotaRespected are inductive only together
    with the row lock (in QuotaTypeOK: who is at `check` or `commit` holds it,
    alone) and `RowInv`: an absent row counts nothing, and whoever is about to
    write an existing row has compared its amount with the value that is still
    there.  `QuotaIsExact`, `QuotaIsRespected` follow.  `ReservationIsAtomic`: the
    write of the row is the abstract step, its comparison still valid by RowInv;
    every other statement stutters.  The INSERT compares nothing, so the theorem
    supposes that no single amount passes the limit.

`UpgradePipelineProofs` covers every set of items and runners, both ledgers.

11. `UpgradeTypeCorrect` (invariant `UpgradeTypeInv`): attempts stay below their bound because whatever is
    pending, in the ledger or in a copy, has an attempt left (`Room`).
12. `FenceTokens`: no token is ahead of the control row, so a new one is fresh.
    `UpgradeTokensUnique` follows, and with it that two runners whose writes the
    ledger accepts (`Writer`) are one.
13. `WriterInvariant`: what that one runner knows.  Each item of its copy is as
    the ledger has it (`InSync`) or is the one attempt it has yet to save
    (`Ahead`), and what it has yet to load or save is there to be loaded or
    saved.  Runners without the ledger's favour may know anything.  It survives
    the steps of others because they cannot write while it is the writer, and
    its own because each writes what it knows.  `WriterIsUpToDate` and
    `LedgerOnlyForward` follow.  `LedgerCountsAttempts`: with what the writer knows
    in step with the ledger, each of its writes changes at most the one item that
    is Ahead, by one attempt; rows written before the fence was lost are steps
    of their own.  `SuccessIsFinal` with a kept pipeline object needs another
    invariant, because WriterInv fails there: with a single process `SoleInv` says
    that what it remembers of a SUCCEEDED record is SUCCEEDED or nothing.
14. `CompletedIsDone`: over the lock file, `AccountedInv` says that what a run
    has not taken up needs no work and what a closing run reports it has
    written.
15. `AttemptsAreBounded`: by counting.  `JsonAttemptsBounded`: executions of an
    item are the attempts of its record and one per disruption, or one more
    that is being saved.  `FencedAttemptsBounded`: a lost session costs nothing
    when it is lost; it leaves a runner that may displace the writer and may be
    displaced itself, and each such runner may cost one attempt.  `Risk` counts
    them, at most two per session lost, and `FencedCounted` balances executions,
    risk and disruptions: an item's executions and the risk together never pass
    its recorded attempts and twice the disruptions, or one more that its writer
    has yet to save.  The run checks the bound over the JSON ledger; the theorem
    is for both.

`EngineeringTasksProofs` covers every number of tasks, workers and crashes.

16. `TasksInvariant`: ExclusiveClaims needs that a task in a worker's hands is
    not claimable until its claim comes loose (`TasksHeld`); once loose, it stays
    so (`LooseStays`).  OutcomeEvidenced needs that what a worker is about to save is
    already recorded as an attempt and, for a success, as a checkpoint
    (`EvidenceFirst`): the order of the calls in `run_once`.  A save
    ends what the orchestrator has declared, so an outcome written after a declared
    one needs its evidence again.  `LateWorkersLoose` adds that a worker which was
    superseded, or whose task has an outcome already, has a loose claim;
    `OutcomesAreKept` follows.  `TasksTypeCorrect`, `ClaimsAreExclusive` and
    `OutcomesAreEvidenced` are parts of the invariant.

`OutboxProofs` covers every number of messages and processors, every batch size.

17. `BatchesAreApart`: a row that a batch holds is held by no other, is still
    PENDING and has the attempts that the batch has read (`Fresh`).  In PostgreSQL
    the row locks make it so, in SQLite the lock file (`LeaseInv`); hence the
    COMMIT is no lost update.  `SettledIsFinal` follows, and `OutboxDelivers`: the
    handler's effect is a HandOver of a row that is still PENDING, the COMMIT a
    Settle of rows whose counts are the table's.
18. `CountsAgree`: handler calls and the attempts in the table differ by the
    batches that were lost and by what a batch has done and not committed
    (`CountInv`).  `SettledTruly`, `DuplicatesAreBounded`, `PoisonIsBounded` follow.
    `QueuesTypeCorrect` and `QueuesPromises` are the composite with the JSON ledger
    and the engineering tasks.

`OneProcessProofs` covers every number of calls, threads and signals.

19. `AgentInvariant`: the calls owed an answer are those of the current step,
    each once, and only the first may have run (`CallsInv`); so every call in
    the log is answered once, or is one of those, or was lost with its turn and
    has no answer (`LogInv`), and a word of the user is about the first
    (`ApprovalInv`).  An interrupt of a turn that has begun is in the flag until
    the turn is over (`StopInv`).  `PromptsFailClosed` and `LogIsWellFormed` follow.
    `InterruptIsHeld` counts the requests after an interrupt by where the turn is
    (`LateInv`): none yet at `compact` and `sleep`, one at most at `chat`, and no way
    back to those once the flag is read.
20. `BreakerTypeCorrect`: the number of attempts in a call is bounded because
    whoever has not begun one has one left (`TriesInv`).  `ProcessTypeCorrect` adds
    the worker, whose stack has a frame per signal at most (`FramesInv`).
21. `ShutdownInvariant`: before the first signal the main thread is in its loop,
    outside the lock, so that the first handler finds it free; the main thread
    goes on to the lock only when no handler is on the stack.  The event's lock
    is held by that handler or inside `wait` (`EventLockInv`).  `OneSignalIsSafe`
    follows, and `ClosedIsStopped`: past the final state change nothing makes a
    worker DRAINING again.

`SharedPostgresProofs`: `SharedTypesCorrect`, the inductive invariants of 7, 9, 10
and 11 side by side, each a stutter under the others' steps; `SharedPromises`, the
same for what is proved of each.

FencedCounted, the least obvious of these invariants, was model-checked before its
proof (3 runners, 1 item, 2 disruptions, 4 generations); with a factor smaller
than two TLC finds it violated, so the bound is the best of its form.

Only model-checked: liveness (AbandonedRecovered, DrainTerminates, SignalStops,
WorkSettled, EventuallySettled, TasksSettle, BreakerCloses, TurnEnds), and
the part of SomeoneProceeds that is about ENABLED; both are out of the prover's
reach.  Every other property of a passing run is stated by a theorem.

## 7. Not modelled

Left out of modelled components: wall-clock time (expiry is a choice), worker
heartbeats and metrics, payloads and costs, the content of an item's
implementation and of a tool's result, tenants other than one (row level
security separates them in the database), the checkpoint history, what a
code agent's summary says, the resumption of its session, `claim_task` by id (no caller passes
one), the outbox without a failure budget (no worker runs it so).

Left out altogether: the components that PROJECT.json lists as not modelled,
each with its reason.  They are most of the repository's roughly 69 000 lines,
and the model covers under 4 % of them.  That share cannot grow to a third
without leaving what a model checker can say something about: the bulk is
argument parsing and dispatch (`main.py`), wrappers that format requests to
remote APIs (`agent/orchestration`, `agent/capabilities`, `agent/enterprise`,
`agent/tools`), terminal and desktop interfaces, dashboards, launchers of local
services, static model registries, and the numeric simulator of `zgpu`.  Such
code keeps no state between calls, or one process's cache of what a service
answered; a state machine written for it would restate its assignments.  Of the
places where two actors do meet, the webhook inbox, usage events, audit rows and
API keys are single statements that the database decides; what else was found,
in a table, a file, a lock or an attribute shared across an await, is in one of
the modules above.
