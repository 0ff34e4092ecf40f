------------------------------ MODULE JobQueue ------------------------------
(***************************************************************************)
(* The durable job queue and the worker processes that drain it.           *)
(*                                                                         *)
(* The table: the `jobs` rows of one of the three stores a Worker selects  *)
(* in _setup_store (worker/process.py):                                    *)
(*   "sqlite"    ControlPlaneStore          (domain/services)              *)
(*   "postgres"  PostgresControlPlaneStore  (infrastructure/stores)        *)
(*   "tenant"    EnterprisePostgresStore    (infrastructure/stores)        *)
(* The processes: each worker has a main thread (claim, start, drain,      *)
(* force-release, stop) and one thread per started job (run, record the    *)
(* outcome, leave _active_jobs).  Every SQL transaction is one step; what  *)
(* a worker does between two transactions is another.                      *)
(*                                                                         *)
(* Wall-clock leases are abstracted to "live" or "expired": a lease may    *)
(* expire at any moment, so no property here leans on clock agreement      *)
(* between hosts (every store compares lease_expires_at with the client's  *)
(* own time.time()).                                                       *)
(***************************************************************************)
EXTENDS Naturals, FiniteSets

CONSTANTS
  Jobs,            \* job ids
  Workers,         \* worker ids
  NoWorker,        \* SQL NULL in claimed_by
  Store,           \* which of the three stores the fleet is attached to
  Concurrency,     \* Worker.concurrency
  StoreFaults,     \* TRUE: a call may raise, rolled back or already committed
  MaxGen,          \* bound: claim_generation stays below it
  MaxDisruptions   \* bound: SIGTERMs and process crashes in one behaviour

StoreKinds == {"sqlite", "postgres", "tenant"}

ASSUME StoreAssumption == Store \in StoreKinds
ASSUME BoundAssumption ==
  /\ Concurrency \in Nat \ {0}
  /\ MaxGen \in Nat
  /\ MaxDisruptions \in Nat
  /\ StoreFaults \in BOOLEAN
ASSUME WorkerAssumption == NoWorker \notin Workers
ASSUME JobsAssumption == IsFiniteSet(Jobs)

VARIABLES
  status, claimed_by, gen, lease,  \* the columns of the jobs table
  threads,  \* job threads alive in some process: [worker, job, token, phase]
  active,   \* Worker._active_jobs: worker -> (job id -> token, 0 when absent)
  pc,       \* control state of each worker's main thread
  stop,     \* Worker._stop_event
  picked,   \* the row a SQLite claim has SELECTed and not yet UPDATEd
  snap,     \* list(self._active_jobs.items()) being force-released
  disruptions

jobs == <<status, claimed_by, gen, lease>>
vars == <<jobs, threads, active, pc, stop, picked, snap, disruptions>>

\* The statuses this queue moves a job through; "ABSENT": no such row.
Finished == {"SUCCEEDED", "FAILED"}
Terminal == Finished \cup {"CANCELLED"}
Status   == {"ABSENT", "READY", "RUNNING"} \cup Terminal
Tokens   == 1..MaxGen
Leases   == {"live", "expired"}
Phases   == {"claimed", "run", "succeed", "fail", "pop"}
PCs      == {"down", "loop", "claim", "selected", "starting", "drain",
             "release", "stopped"}

Thread == [worker : Workers, job : Jobs, token : Tokens, phase : Phases]

NoActive == [j \in Jobs |-> 0]
ActiveJobs(w) == {j \in Jobs : active[w][j] # 0}
ThreadsOf(w)  == {t \in threads : t.worker = w}

\* The threads once t has moved on to another phase.
Moved(t, phase) ==
  (threads \ {t}) \cup {[worker |-> t.worker, job |-> t.job, token |-> t.token,
                         phase |-> phase]}

\* After _shutdown_gracefully the connection pool is closed, and every later
\* call through it raises.  ControlPlaneStore has no close(): it opens a
\* connection per call.
StoreOpen(w) == Store = "sqlite" \/ pc[w] # "stopped"

-----------------------------------------------------------------------------
(***************************************************************************)
(* SQL statements on one row.                                              *)
(***************************************************************************)
\* Mutant: expired RUNNING rows are not claimable.
ReadyOnly(j) == status[j] = "READY"

\* WHERE clause of the claim's SELECT, the same in the three stores.
Claimable(j) ==
  \/ status[j] = "READY"
  \/ status[j] = "RUNNING" /\ lease[j] = "expired"

\* Mutants: the generation is advanced twice; a takeover keeps it.
ClaimRowBy(w, j, g) ==
  /\ status' = [status EXCEPT ![j] = "RUNNING"]
  /\ claimed_by' = [claimed_by EXCEPT ![j] = w]
  /\ gen' = [gen EXCEPT ![j] = g]
  /\ lease' = [lease EXCEPT ![j] = "live"]
  /\ threads' = threads \cup {[worker |-> w, job |-> j, token |-> g,
                               phase |-> "claimed"]}
ClaimRowTwice(w, j) == ClaimRowBy(w, j, gen[j] + 2)
ClaimRowReuse(w, j) ==
  ClaimRowBy(w, j, IF status[j] = "RUNNING" THEN gen[j] ELSE gen[j] + 1)

\* The claim's UPDATE.
TakeRow(w, j) ==
  /\ status' = [status EXCEPT ![j] = "RUNNING"]
  /\ claimed_by' = [claimed_by EXCEPT ![j] = w]
  /\ gen' = [gen EXCEPT ![j] = gen[j] + 1]
  /\ lease' = [lease EXCEPT ![j] = "live"]

\* The UPDATE, and the token it returns to the worker.
ClaimRow(w, j) ==
  /\ TakeRow(w, j)
  /\ threads' = threads \cup {[worker |-> w, job |-> j, token |-> gen[j] + 1,
                               phase |-> "claimed"]}

\* Mutants: a write matched by job id alone; no status test in the tenant store.
FencedById(j, w, token) == Store = "tenant" => status[j] = "RUNNING"
FencedAnyStatus(j, w, token) == claimed_by[j] = w /\ gen[j] = token

\* WHERE clause of mutate_with_fencing / mutate_job_scoped.  Only the tenant
\* store also asks for status = 'RUNNING'.
Fenced(j, w, token) ==
  /\ claimed_by[j] = w
  /\ gen[j] = token
  /\ Store = "tenant" => status[j] = "RUNNING"

\* mutate_with_fencing / mutate_job_scoped: a rejected write changes no row.
Mutate(j, w, token, s) ==
  /\ status' = IF Fenced(j, w, token) THEN [status EXCEPT ![j] = s] ELSE status
  /\ UNCHANGED <<claimed_by, gen, lease>>

\* WHERE clause of renew_lease, the same in both PostgreSQL stores.
Renewable(j, w, token) ==
  claimed_by[j] = w /\ gen[j] = token /\ status[j] = "RUNNING"

-----------------------------------------------------------------------------
(***************************************************************************)
(* Clients and the passage of time.                                        *)
(***************************************************************************)
\* Mutant: an upsert in place of the INSERT.
EnqueueUpsert(j) ==
  /\ status[j] \in {"ABSENT", "READY", "RUNNING"}
  /\ status' = [status EXCEPT ![j] = "READY"]
  /\ claimed_by' = [claimed_by EXCEPT ![j] = NoWorker]
  /\ gen' = [gen EXCEPT ![j] = 0]
  /\ lease' = [lease EXCEPT ![j] = "expired"]
  /\ UNCHANGED <<threads, active, pc, stop, picked, snap, disruptions>>

\* enqueue_job: a new row, READY, never claimed, lease_expires_at = 0.
Enqueue(j) ==
  /\ status[j] = "ABSENT"
  /\ status' = [status EXCEPT ![j] = "READY"]
  /\ claimed_by' = [claimed_by EXCEPT ![j] = NoWorker]
  /\ gen' = [gen EXCEPT ![j] = 0]
  /\ lease' = [lease EXCEPT ![j] = "expired"]
  /\ UNCHANGED <<threads, active, pc, stop, picked, snap, disruptions>>

\* EnterprisePostgresStore.cancel_job: the row is locked, and left alone when
\* it is already in one of the three terminal statuses.
CancelJob(j) ==
  /\ Store = "tenant"
  /\ status[j] \notin Terminal \cup {"ABSENT"}
  /\ status' = [status EXCEPT ![j] = "CANCELLED"]
  /\ UNCHANGED <<claimed_by, gen, lease, threads, active, pc, stop, picked, snap, disruptions>>

\* The clock passes lease_expires_at.
LeaseExpires(j) ==
  /\ status[j] = "RUNNING" /\ lease[j] = "live"
  /\ lease' = [lease EXCEPT ![j] = "expired"]
  /\ UNCHANGED <<status, claimed_by, gen, threads, active, pc, stop, picked, snap, disruptions>>

\* PostgresControlPlaneStore.reconcile_expired_leases: one UPDATE over every
\* expired RUNNING row.  The generation is kept, the owner is erased.
Reconcile ==
  LET expired == {j \in Jobs : status[j] = "RUNNING" /\ lease[j] = "expired"}
  IN /\ Store = "postgres"
     /\ expired # {}
     /\ status' = [j \in Jobs |-> IF j \in expired THEN "READY" ELSE status[j]]
     /\ claimed_by' = [j \in Jobs |-> IF j \in expired THEN NoWorker
                                                      ELSE claimed_by[j]]
     /\ UNCHANGED <<gen, lease, threads, active, pc, stop, picked, snap,
                    disruptions>>

-----------------------------------------------------------------------------
(***************************************************************************)
(* The main thread of a worker: Worker.run.                                *)
(***************************************************************************)
\* A fresh process enters its loop: _active_jobs is empty, _stop_event clear.
Run(w) ==
  /\ pc[w] = "down"
  /\ pc' = [pc EXCEPT ![w] = "loop"]
  /\ UNCHANGED <<jobs, threads, active, stop, picked, snap, disruptions>>

\* The head of the loop: leave it on stop, go on to the claim below the
\* concurrency limit.  At the limit it sleeps, which changes nothing.
LoopTop(w) ==
  /\ pc[w] = "loop"
  /\ \/ stop[w] /\ pc' = [pc EXCEPT ![w] = "drain"]
     \/ /\ ~stop[w]
        /\ Cardinality(ActiveJobs(w)) < Concurrency
        /\ pc' = [pc EXCEPT ![w] = "claim"]
  /\ UNCHANGED <<jobs, threads, active, stop, picked, snap, disruptions>>

\* SELECT ... FOR UPDATE SKIP LOCKED and UPDATE in one transaction.
ClaimLocked(w, j) ==
  /\ Store # "sqlite"
  /\ pc[w] = "claim"
  /\ Claimable(j)
  /\ gen[j] < MaxGen
  /\ ClaimRow(w, j)
  /\ pc' = [pc EXCEPT ![w] = "starting"]
  /\ UNCHANGED <<active, stop, picked, snap, disruptions>>

\* SQLite: the SELECT runs outside any transaction ...
ClaimSelect(w, j) ==
  /\ Store = "sqlite"
  /\ pc[w] = "claim"
  /\ Claimable(j)
  /\ gen[j] < MaxGen
  /\ picked' = [picked EXCEPT ![w] = <<j, gen[j]>>]
  /\ pc' = [pc EXCEPT ![w] = "selected"]
  /\ UNCHANGED <<jobs, threads, active, stop, snap, disruptions>>

\* ... and the UPDATE compares the generation alone.
ClaimUpdate(w) ==
  LET j == picked[w][1]
  IN /\ pc[w] = "selected"
     /\ picked' = [picked EXCEPT ![w] = <<>>]
     /\ \/ /\ gen[j] = picked[w][2]
           /\ ClaimRow(w, j)
           /\ pc' = [pc EXCEPT ![w] = "starting"]
        \/ /\ gen[j] # picked[w][2]
           /\ pc' = [pc EXCEPT ![w] = "loop"]
           /\ UNCHANGED <<jobs, threads>>
     /\ UNCHANGED <<active, stop, snap, disruptions>>

\* No row is claimable: back off and go round the loop.
ClaimNothing(w) ==
  /\ pc[w] = "claim"
  /\ ~\E j \in Jobs : Claimable(j) /\ gen[j] < MaxGen
  /\ pc' = [pc EXCEPT ![w] = "loop"]
  /\ UNCHANGED <<jobs, threads, active, stop, picked, snap, disruptions>>

\* The rows the claim's UPDATE may be about to take.
Taking(w, j) ==
  /\ gen[j] < MaxGen
  /\ \/ Store # "sqlite" /\ pc[w] = "claim" /\ Claimable(j)
     \/ pc[w] = "selected" /\ picked[w] = <<j, gen[j]>>

\* The claim raises: log, back off, go round the loop.  It is rolled back, or
\* its COMMIT has landed and the row waits for its lease to run out, RUNNING
\* with a token nobody was told.
ClaimRaises(w) ==
  /\ StoreFaults
  /\ pc[w] \in {"claim", "selected"}
  /\ picked' = [picked EXCEPT ![w] = <<>>]
  /\ pc' = [pc EXCEPT ![w] = "loop"]
  /\ \/ UNCHANGED jobs
     \/ \E j \in Jobs : Taking(w, j) /\ TakeRow(w, j)
  /\ UNCHANGED <<threads, active, stop, snap, disruptions>>

\* _start_job: _active_jobs[job.id] is assigned, whatever it held before.
StartJob(w, t) ==
  /\ pc[w] = "starting"
  /\ t.worker = w /\ t.phase = "claimed"
  /\ active' = [active EXCEPT ![w][t.job] = t.token]
  /\ threads' = Moved(t, "run")
  /\ pc' = [pc EXCEPT ![w] = "loop"]
  /\ UNCHANGED <<jobs, stop, picked, snap, disruptions>>

\* Mutants: no deadline on the wait; nothing left for the force-release.
EndWaitNoDeadline(w) ==
  /\ pc[w] = "drain"
  /\ active[w] = NoActive
  /\ pc' = [pc EXCEPT ![w] = "release"]
  /\ snap' = [snap EXCEPT ![w] = active[w]]
  /\ UNCHANGED <<jobs, threads, active, stop, picked, disruptions>>
EndWaitForgets(w) ==
  /\ pc[w] = "drain"
  /\ pc' = [pc EXCEPT ![w] = "release"]
  /\ UNCHANGED <<jobs, threads, active, stop, picked, snap, disruptions>>

\* _shutdown_gracefully: the wait ends when _active_jobs is empty or at the
\* deadline, with whatever is still in it.
EndWait(w) ==
  /\ pc[w] = "drain"
  /\ pc' = [pc EXCEPT ![w] = "release"]
  /\ snap' = [snap EXCEPT ![w] = active[w]]
  /\ UNCHANGED <<jobs, threads, active, stop, picked, disruptions>>

\* The force-release loop: one fenced write of READY per remaining entry; an
\* exception, before or after the COMMIT, is logged and the loop goes on.
ForceRelease(w, j) ==
  /\ pc[w] = "release"
  /\ snap[w][j] # 0
  /\ snap' = [snap EXCEPT ![w][j] = 0]
  /\ \/ Mutate(j, w, snap[w][j], "READY")
     \/ StoreFaults /\ UNCHANGED jobs
  /\ UNCHANGED <<threads, active, pc, stop, picked, disruptions>>

\* STOPPED, and the store is closed.
Stop(w) ==
  /\ pc[w] = "release"
  /\ snap[w] = NoActive
  /\ pc' = [pc EXCEPT ![w] = "stopped"]
  /\ UNCHANGED <<jobs, threads, active, stop, picked, snap, disruptions>>

\* Job threads are not daemons: the process lives until the last one ends.
Exit(w) ==
  /\ pc[w] = "stopped"
  /\ ThreadsOf(w) = {}
  /\ pc' = [pc EXCEPT ![w] = "down"]
  /\ active' = [active EXCEPT ![w] = NoActive]
  /\ stop' = [stop EXCEPT ![w] = FALSE]
  /\ UNCHANGED <<jobs, threads, picked, snap, disruptions>>

\* SIGTERM or SIGINT: _begin_drain.
Sigterm(w) ==
  /\ pc[w] \notin {"down", "stopped"}
  /\ ~stop[w]
  /\ disruptions < MaxDisruptions
  /\ disruptions' = disruptions + 1
  /\ stop' = [stop EXCEPT ![w] = TRUE]
  /\ UNCHANGED <<jobs, threads, active, pc, picked, snap>>

\* The process dies with all its threads; its rows stay as they are.
Crash(w) ==
  /\ pc[w] # "down"
  /\ disruptions < MaxDisruptions
  /\ disruptions' = disruptions + 1
  /\ pc' = [pc EXCEPT ![w] = "down"]
  /\ threads' = threads \ ThreadsOf(w)
  /\ active' = [active EXCEPT ![w] = NoActive]
  /\ picked' = [picked EXCEPT ![w] = <<>>]
  /\ snap' = [snap EXCEPT ![w] = NoActive]
  /\ stop' = [stop EXCEPT ![w] = FALSE]
  /\ UNCHANGED jobs

-----------------------------------------------------------------------------
(***************************************************************************)
(* A job thread: Worker._execute_job.                                      *)
(***************************************************************************)
\* _run_job_runtime returns, or raises.
RuntimeReturns(t) ==
  /\ t.phase = "run"
  /\ threads' = Moved(t, "succeed")
  /\ UNCHANGED <<jobs, active, pc, stop, picked, snap, disruptions>>

RuntimeRaises(t) ==
  /\ t.phase = "run"
  /\ threads' = Moved(t, "fail")
  /\ UNCHANGED <<jobs, active, pc, stop, picked, snap, disruptions>>

\* _mutate_job(SUCCEEDED); accepted or rejected, the thread goes on to its
\* finally block.  An exception sends it to the FAILED write instead, also one
\* that the call raises when its COMMIT has landed.
MarkSucceeded(t) ==
  /\ t.phase = "succeed"
  /\ \/ /\ StoreOpen(t.worker)
        /\ Mutate(t.job, t.worker, t.token, "SUCCEEDED")
        /\ \/ threads' = Moved(t, "pop")
           \/ StoreFaults /\ threads' = Moved(t, "fail")
     \/ /\ StoreFaults \/ ~StoreOpen(t.worker)
        /\ threads' = Moved(t, "fail")
        /\ UNCHANGED jobs
  /\ UNCHANGED <<active, pc, stop, picked, snap, disruptions>>

\* _mutate_job(FAILED); an exception, before or after the COMMIT, is logged.
MarkFailed(t) ==
  /\ t.phase = "fail"
  /\ threads' = Moved(t, "pop")
  /\ \/ StoreOpen(t.worker) /\ Mutate(t.job, t.worker, t.token, "FAILED")
     \/ (StoreFaults \/ ~StoreOpen(t.worker)) /\ UNCHANGED jobs
  /\ UNCHANGED <<active, pc, stop, picked, snap, disruptions>>

\* finally: _active_jobs.pop(job.id), whichever thread's entry that is.
Finish(t) ==
  /\ t.phase = "pop"
  /\ threads' = threads \ {t}
  /\ active' = [active EXCEPT ![t.worker][t.job] = 0]
  /\ UNCHANGED <<jobs, pc, stop, picked, snap, disruptions>>

\* _lease_renew_loop: an extension is fenced and needs status RUNNING.  A
\* rejected one is logged, and the job runs on.  ControlPlaneStore has no
\* renew_lease, so a SQLite lease is never extended.  The renewer is stopped
\* without waiting for a call in flight, so one may land in any later phase.
RenewLease(t) ==
  /\ Store # "sqlite"
  /\ t.phase # "claimed"
  /\ StoreOpen(t.worker)
  /\ Renewable(t.job, t.worker, t.token)
  /\ lease' = [lease EXCEPT ![t.job] = "live"]
  /\ UNCHANGED <<status, claimed_by, gen, threads, active, pc, stop, picked, snap, disruptions>>

-----------------------------------------------------------------------------
Init ==
  /\ status = [j \in Jobs |-> "ABSENT"]
  /\ claimed_by = [j \in Jobs |-> NoWorker]
  /\ gen = [j \in Jobs |-> 0]
  /\ lease = [j \in Jobs |-> "expired"]
  /\ threads = {}
  /\ active = [w \in Workers |-> NoActive]
  /\ pc = [w \in Workers |-> "down"]
  /\ stop = [w \in Workers |-> FALSE]
  /\ picked = [w \in Workers |-> <<>>]
  /\ snap = [w \in Workers |-> NoActive]
  /\ disruptions = 0

TableStep == \/ \E j \in Jobs : Enqueue(j) \/ CancelJob(j) \/ LeaseExpires(j)
             \/ Reconcile

MainStep(w) ==
  \/ Run(w) \/ LoopTop(w) \/ ClaimUpdate(w) \/ ClaimNothing(w)
  \/ ClaimRaises(w) \/ EndWait(w) \/ Stop(w) \/ Exit(w)
  \/ \E j \in Jobs : ClaimLocked(w, j) \/ ClaimSelect(w, j) \/ ForceRelease(w, j)
  \/ \E t \in threads : StartJob(w, t)

Disrupt(w) == Sigterm(w) \/ Crash(w)

ThreadStep(t) ==
  RuntimeReturns(t) \/ RuntimeRaises(t) \/ MarkSucceeded(t) \/ MarkFailed(t) \/ Finish(t)

Next == \/ TableStep
        \/ \E w \in Workers : MainStep(w) \/ Disrupt(w)
        \/ \E t \in threads : ThreadStep(t) \/ RenewLease(t)

Spec == Init /\ [][Next]_vars

\* What the deployment gives: the orchestrator restarts workers, their main
\* threads are scheduled, time passes.  Nothing is promised about jobs, which
\* may hang for ever, nor are renewals, cancellations, faults or disruptions
\* ever owed.
FairSpec ==
  /\ Spec
  /\ \A w \in Workers : WF_vars(MainStep(w))
  /\ \A j \in Jobs : WF_vars(LeaseExpires(j))

-----------------------------------------------------------------------------
\* The shapes of the table with the threads that hold its tokens, and of the
\* processes' own state.
TableType ==
  /\ status \in [Jobs -> Status]
  /\ claimed_by \in [Jobs -> Workers \cup {NoWorker}]
  /\ gen \in [Jobs -> 0..MaxGen]
  /\ lease \in [Jobs -> Leases]
  /\ threads \subseteq Thread

ProcessType ==
  /\ active \in [Workers -> [Jobs -> 0..MaxGen]]
  /\ pc \in [Workers -> PCs]
  /\ stop \in [Workers -> BOOLEAN]
  /\ snap \in [Workers -> [Jobs -> 0..MaxGen]]
  /\ disruptions \in 0..MaxDisruptions

\* A claim in progress refers to a row it may still take.
PickedType ==
  /\ picked \in [Workers -> {<<>>} \cup (Jobs \X (0..MaxGen))]
  /\ \A w \in Workers : pc[w] = "selected" =>
       picked[w] \in Jobs \X (0..MaxGen) /\ picked[w][2] < MaxGen

\* Type invariant.
TypeOK == TableType /\ ProcessType /\ PickedType

\* Fencing tokens are unique: whatever expires, crashes, restarts or is
\* reclaimed, no two executions of one job, in any two processes, ever carry
\* the same token.  (claim_job_with_fencing, claim_job_scoped)
TokensUnique ==
  \A t, u \in threads : t.job = u.job /\ t.token = u.token => t = u

\* The success of a thread may be in the table without the thread knowing:
\* the call raised, and the thread is about to write FAILED.
Unconfirmed(t) == StoreFaults /\ t.phase = "fail" /\ status[t.job] = "SUCCEEDED"

\* A finished job is finished by its latest execution: when the row says
\* SUCCEEDED or FAILED, no execution that holds the row's generation is still
\* running or about to write, but for the one whose own success was committed
\* and not confirmed.  (mutate_with_fencing, mutate_job_scoped)
FinishedByLatest ==
  \A t \in threads :
    (status[t.job] \in Finished /\ t.token = gen[t.job])
      => t.phase = "pop" \/ Unconfirmed(t)

\* The inductive strengthening of the two invariants above: no token runs
\* ahead of its row, a row not yet inserted has issued none, and only a SQLite
\* claim is ever caught between its SELECT and its UPDATE.
TokensIssued   == \A t \in threads : t.token <= gen[t.job]
AbsentFresh    == \A j \in Jobs : status[j] = "ABSENT" => gen[j] = 0
SelectedSqlite == \A w \in Workers : pc[w] = "selected" => Store = "sqlite"
FencingInv ==
  /\ TokensUnique
  /\ FinishedByLatest
  /\ TokensIssued
  /\ AbsentFresh
  /\ SelectedSqlite

\* A worker that has stopped gave its jobs up: no thread it leaves behind
\* still owns a RUNNING row.  (_shutdown_gracefully; one job at a time and no
\* store fault)
StoppedReleased ==
  \A t \in threads :
    pc[t.worker] = "stopped" =>
      ~ (status[t.job] = "RUNNING" /\ claimed_by[t.job] = t.worker
         /\ gen[t.job] = t.token)

\* A terminal status is final: no claim, reconciliation, late write or forced
\* release takes a job out of SUCCEEDED, FAILED or CANCELLED.
TerminalStable ==
  [][\A j \in Jobs : status[j] \in Terminal
                     => status'[j] = status[j]]_vars

\* The ways out of an outcome: the forced release of the worker that recorded
\* it; a SQLite claim that had selected the job before; and the FAILED write of
\* the execution whose success was committed and not confirmed.
ReleaseUndoes(j) ==
  /\ Store # "tenant" /\ status'[j] = "READY"
  /\ \E w \in Workers : pc[w] = "release" /\ claimed_by[j] = w /\ snap[w][j] = gen[j]
ClaimUndoes(j) ==
  /\ Store = "sqlite" /\ status'[j] = "RUNNING"
  /\ \E w \in Workers : pc[w] = "selected" /\ picked[w] = <<j, gen[j]>>
FailureUndoes(j) ==
  /\ Store # "tenant" /\ status'[j] = "FAILED"
  /\ \E t \in threads : /\ t.job = j /\ t.token = gen[j] /\ t.worker = claimed_by[j]
                        /\ Unconfirmed(t)

\* A recorded outcome is undone in these three ways and in no other: never by
\* an execution that was superseded, a takeover, a reconciliation or an
\* expiry.  (mutate_with_fencing, mutate_job_scoped)
OutcomeUndoneBy ==
  [][\A j \in Jobs : status[j] \in Finished /\ status'[j] # status[j]
                     => ReleaseUndoes(j) \/ ClaimUndoes(j) \/ FailureUndoes(j)]_vars

\* A claim takes only a job that is claimable at the moment it is taken.
ClaimsClaimable ==
  [][\A j \in Jobs : gen'[j] > gen[j] => Claimable(j)]_vars

\* A job left RUNNING by an execution that is gone (crash, failed write) is
\* eventually taken over or moved on, if running jobs end: every worker may be
\* busy otherwise.  The claim generation is bounded, so the promise is made
\* below the bound.
JobsEnd == \A t \in Thread : WF_vars(t \in threads /\ ThreadStep(t))
Recovered ==
  \A j \in Jobs : \A g \in 1..(MaxGen - 1) :
    (/\ status[j] = "RUNNING" /\ gen[j] = g
     /\ ~\E t \in threads : t.job = j /\ t.token = g)
    ~> ~(status[j] = "RUNNING" /\ gen[j] = g)
AbandonedRecovered == JobsEnd => Recovered

\* SIGTERM is always answered: a signalled worker stops, whatever its jobs do.
DrainTerminates ==
  \A w \in Workers : stop[w] ~> pc[w] \in {"stopped", "down"}

\* The tenant store implements the abstract queue of FencedJobs.
Abstract == INSTANCE FencedJobs WITH Jobs <- Jobs, status <- status, gen <- gen
AbstractSpec == Abstract!Spec
=============================================================================
