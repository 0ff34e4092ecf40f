--------------------------- MODULE UpgradePipeline ---------------------------
(***************************************************************************)
(* Continuous engineering: ContinuousEngineeringPipeline.run               *)
(* (services/continuous_engineering.py) drives ContinuousUpgradeLoop       *)
(* (services/upgrade_loop.py) under an exclusive run lease and keeps its   *)
(* progress in a durable ledger.  Two deployments:                         *)
(*   "json"      JsonUpgradeLedger, one file replaced atomically, and      *)
(*               UpgradeRunLease, a lock file created with O_EXCL;         *)
(*   "postgres"  EngineeringStoreUpgradeLedger, one row per work item and  *)
(*               a control row, behind FencedUpgradeEngineeringStore;      *)
(*               PostgresFencedRunLease: a session advisory lock, then a   *)
(*               fence generation taken from the control row.              *)
(*                                                                         *)
(* A runner is a process that calls run again and again.  Each ledger      *)
(* transaction is a step; what a runner knows between two of them is its   *)
(* own copy (_items_by_id and the loop's _items).                          *)
(***************************************************************************)
EXTENDS Naturals, FiniteSets

CONSTANTS
  Items,           \* work items, one per fingerprint
  Runners,         \* runner processes
  NoRunner,        \* the lease is free
  Backend,         \* "json" or "postgres"
  MaxAttempts,     \* UpgradeWorkItem.max_attempts
  MaxIterations,   \* LoopPolicy.max_iterations
  MaxNoProgress,   \* LoopPolicy.max_no_progress_iterations
  RetryBlocked,    \* ContinuousEngineeringPipeline.retry_blocked
  ReusePipeline,   \* one pipeline object for all of a process's runs, as in the
                   \* maintenance scheduler; FALSE: a process per run, as in the CLI
  MaxGen,          \* bound: fence generations issued (postgres)
  MaxDisruptions   \* bound: crashes, lost sessions, interrupts, failed calls

ASSUME BackendAssumption == Backend \in {"json", "postgres"}
ASSUME PolicyAssumption ==
  /\ MaxAttempts \in Nat \ {0} /\ MaxIterations \in Nat \ {0}
  /\ MaxNoProgress \in Nat \ {0} /\ RetryBlocked \in BOOLEAN
  /\ ReusePipeline \in BOOLEAN /\ (ReusePipeline => ~RetryBlocked)
  /\ MaxGen \in Nat /\ MaxDisruptions \in Nat
ASSUME RunnerAssumption == NoRunner \notin Runners

VARIABLES
  lstate, lattempts,  \* the ledger: state and attempts of each record
  gen,                \* fence_generation of the control row, 0 when absent
  lockOwner,          \* who created the lock file / holds the advisory lock
  token,              \* PostgresFencedRunLease._token, 0 when None
  pc,                 \* where each runner is
  istate, iattempts,  \* each runner's copy of the items of its current run
  kstate, kattempts,  \* what _items_by_id holds of the runner's earlier runs
  iter, noProgress,   \* the loop's counters
  final,              \* the loop's final_state, then the report's state
  todo,               \* items a non-atomic load or checkpoint has yet to save
  execs,              \* calls of implement per item, over all runs since its
                      \* attempts were last given back (history)
  disruptions

ledger == <<lstate, lattempts>>
local  == <<istate, iattempts, iter, noProgress, final>>
kept   == <<kstate, kattempts>>
vars   == <<ledger, gen, lockOwner, token, pc, local, kept, todo, execs, disruptions>>

WorkStates == {"NONE", "PENDING", "RUNNING", "BLOCKED", "SUCCEEDED"}
Finals     == {"RUNNING", "HALTED", "COMPLETED", "BUDGET_EXHAUSTED"}
PCs == {"idle", "locked", "load", "loading", "seed", "discover", "execute",
        "checkpoint", "closing", "report", "release"}

\* The history counter saturates one above what AttemptsBounded allows.
ExecCap == MaxAttempts + 2 * MaxDisruptions + 1

Known(r)   == {i \in Items : istate[r][i] # "NONE" \/ kstate[r][i] # "NONE"}
Pending(r) == {i \in Items : istate[r][i] = "PENDING"}
Blocked(r) == {i \in Items : istate[r][i] = "BLOCKED"}

\* _items_by_id: this run's copy of an item hides an earlier run's.
ItemState(r, i) == IF istate[r][i] # "NONE" THEN istate[r][i] ELSE kstate[r][i]
ItemAttempts(r, i) == IF istate[r][i] # "NONE" THEN iattempts[r][i] ELSE kattempts[r][i]

\* What load_resumable and restore_or_register give back: everything but
\* SUCCEEDED, and BLOCKED only on request, with its attempts reset.
Resumable(i) ==
  \/ lstate[i] = "PENDING"
  \/ lstate[i] = "BLOCKED" /\ RetryBlocked
RestoredAttempts(i) == IF lstate[i] = "PENDING" THEN lattempts[i] ELSE 0
Recount(S) == execs' = [i \in Items |->
                 IF i \in S /\ lstate[i] = "BLOCKED" /\ RetryBlocked THEN 0 ELSE execs[i]]

\* blocked_item_ids
BlockedRecords == {i \in Items : lstate[i] = "BLOCKED"}

Goto(r, l) == pc' = [pc EXCEPT ![r] = l]

\* _assert_generation: a write is accepted while its token is the current one.
Current(r) == Backend = "json" \/ token[r] = gen

-----------------------------------------------------------------------------
(***************************************************************************)
(* The run lease.                                                          *)
(***************************************************************************)
\* What pg_try_advisory_lock answers, and open with O_EXCL.
LeaseFree == lockOwner = NoRunner

\* UpgradeRunLease.acquire / PostgresAdvisoryRunLease.acquire.  A held lease
\* raises: nothing changes.
Acquire(r) ==
  /\ pc[r] = "idle"
  /\ LeaseFree
  /\ Backend = "postgres" => gen < MaxGen
  /\ lockOwner' = r
  /\ Goto(r, IF Backend = "json" THEN "load" ELSE "locked")
  /\ UNCHANGED <<kept, ledger, gen, token, local, todo, execs, disruptions>>

\* PostgresUpgradeFence.acquire_token: lock the control row, advance it.  It
\* runs on its own connection and does not look at the advisory lock.
AcquireToken(r) ==
  /\ pc[r] = "locked"
  /\ gen < MaxGen
  /\ gen' = gen + 1
  /\ token' = [token EXCEPT ![r] = gen + 1]
  /\ Goto(r, "load")
  /\ UNCHANGED <<kept, ledger, lockOwner, local, todo, execs, disruptions>>

\* acquire_token raises: the advisory lease is rolled back.
TokenFails(r) ==
  /\ pc[r] = "locked"
  /\ disruptions < MaxDisruptions \/ gen = MaxGen
  /\ disruptions' = IF gen = MaxGen THEN disruptions ELSE disruptions + 1
  /\ lockOwner' = IF lockOwner = r THEN NoRunner ELSE lockOwner
  /\ Goto(r, "idle")
  /\ UNCHANGED <<kept, ledger, gen, token, local, todo, execs>>

\* The runner forgets the run.
EndRun(r) ==
  /\ token' = [token EXCEPT ![r] = 0]
  /\ istate' = [istate EXCEPT ![r] = [i \in Items |-> "NONE"]]
  /\ iattempts' = [iattempts EXCEPT ![r] = [i \in Items |-> 0]]
  /\ iter' = [iter EXCEPT ![r] = 0]
  /\ noProgress' = [noProgress EXCEPT ![r] = 0]
  /\ final' = [final EXCEPT ![r] = "RUNNING"]
  /\ todo' = [todo EXCEPT ![r] = {}]
  /\ Goto(r, "idle")

\* The process ends with the run, or goes on: then _items_by_id is not cleared
\* (a run's items entered it when its loop began).
Forget(r) ==
  /\ kstate' = [kstate EXCEPT ![r] = [i \in Items |-> "NONE"]]
  /\ kattempts' = [kattempts EXCEPT ![r] = [i \in Items |-> 0]]
Keep(r) ==
  IF iter[r] = 0 THEN UNCHANGED kept
  ELSE /\ kstate' = [kstate EXCEPT ![r] = [i \in Items |-> ItemState(r, i)]]
       /\ kattempts' = [kattempts EXCEPT ![r] = [i \in Items |-> ItemAttempts(r, i)]]

\* The lease's __exit__, after a report or an exception alike.  A runner that
\* lost its session holds nothing, and is only told so.
Release(r) ==
  /\ pc[r] = "release"
  /\ EndRun(r)
  /\ IF ReusePipeline THEN Keep(r) ELSE Forget(r)
  /\ lockOwner' = IF lockOwner = r THEN NoRunner ELSE lockOwner
  /\ UNCHANGED <<ledger, gen, execs, disruptions>>

\* The process dies.  The lock file stays; the session's lock does not.
Crash(r) ==
  /\ pc[r] # "idle"
  /\ disruptions < MaxDisruptions
  /\ disruptions' = disruptions + 1
  /\ EndRun(r) /\ Forget(r)
  /\ lockOwner' = IF Backend = "postgres" /\ lockOwner = r THEN NoRunner
                                                           ELSE lockOwner
  /\ UNCHANGED <<ledger, gen, execs>>

\* An exception leaves run without a report and unwinds through the lease.
RunRaises(r) ==
  /\ Goto(r, "release")
  /\ final' = [final EXCEPT ![r] = "RUNNING"]

\* KeyboardInterrupt, or a ledger call that raises, outside discovery:
\* no checkpoint is written.  (In a process that goes on, only the latter.)
Interrupt(r) ==
  /\ pc[r] \notin {"idle", "locked", "release"}
  /\ ReusePipeline => pc[r] # "execute"
  /\ disruptions < MaxDisruptions
  /\ disruptions' = disruptions + 1
  /\ RunRaises(r)
  /\ UNCHANGED <<kept, ledger, gen, lockOwner, token, istate, iattempts, iter, noProgress, todo, execs>>

\* The advisory lock's session drops; the runner does not notice.
SessionLost(r) ==
  /\ Backend = "postgres"
  /\ lockOwner = r /\ pc[r] # "idle"
  /\ disruptions < MaxDisruptions
  /\ disruptions' = disruptions + 1
  /\ lockOwner' = NoRunner
  /\ UNCHANGED <<kept, ledger, gen, token, pc, local, todo, execs>>

\* An operator removes the lock file of a runner that is gone (external).
OperatorUnlocks(r) ==
  /\ Backend = "json"
  /\ lockOwner = r /\ pc[r] = "idle"
  /\ lockOwner' = NoRunner
  /\ UNCHANGED <<kept, ledger, gen, token, pc, local, todo, execs, disruptions>>

-----------------------------------------------------------------------------
(***************************************************************************)
(* load_resumable and restore_or_register.                                 *)
(***************************************************************************)
\* JsonUpgradeLedger.load_resumable: one read, and one write if any BLOCKED
\* record was reset.
LoadAll(r) ==
  /\ pc[r] = "load" /\ Backend = "json"
  /\ lstate' = [i \in Items |-> IF Resumable(i) THEN "PENDING" ELSE lstate[i]]
  /\ lattempts' = [i \in Items |-> IF Resumable(i) THEN RestoredAttempts(i)
                                                   ELSE lattempts[i]]
  /\ istate' = [istate EXCEPT ![r] =
       [i \in Items |-> IF Resumable(i) THEN "PENDING" ELSE "NONE"]]
  /\ iattempts' = [iattempts EXCEPT ![r] =
       [i \in Items |-> IF Resumable(i) THEN RestoredAttempts(i) ELSE 0]]
  /\ Recount(Items)
  /\ Goto(r, "seed")
  /\ UNCHANGED <<kept, gen, lockOwner, token, iter, noProgress, final, todo, disruptions>>

\* EngineeringStoreUpgradeLedger.load_resumable: list the rows ...
ListTasks(r) ==
  /\ pc[r] = "load" /\ Backend = "postgres"
  /\ todo' = [todo EXCEPT ![r] = {i \in Items : Resumable(i)}]
  /\ Goto(r, "loading")
  /\ UNCHANGED <<kept, ledger, gen, lockOwner, token, local, execs, disruptions>>

\* Mutant: a restored item starts its attempts over.
AdoptFresh(r, i, attempts) ==
  /\ istate' = [istate EXCEPT ![r][i] = IF @ = "NONE" THEN "PENDING" ELSE @]
  /\ iattempts' = [iattempts EXCEPT ![r][i] = 0]

\* A record enters the runner's copy.  An item the loop already has keeps its
\* state there; only the copy a checkpoint writes takes the ledger's attempts.
Adopt(r, i, attempts) ==
  /\ istate' = [istate EXCEPT ![r][i] = IF @ = "NONE" THEN "PENDING" ELSE @]
  /\ iattempts' = [iattempts EXCEPT ![r][i] = attempts]

\* ... and save each one back as PENDING, under the fence.
LoadItem(r, i) ==
  /\ pc[r] = "loading" /\ i \in todo[r] /\ Current(r)
  /\ lstate' = [lstate EXCEPT ![i] = "PENDING"]
  /\ lattempts' = [lattempts EXCEPT ![i] = RestoredAttempts(i)]
  /\ Adopt(r, i, RestoredAttempts(i))
  /\ Recount({i})
  /\ todo' = [todo EXCEPT ![r] = @ \ {i}]
  /\ UNCHANGED <<kept, gen, lockOwner, token, pc, iter, noProgress, final, disruptions>>

EndLoad(r) ==
  /\ pc[r] = "loading" /\ todo[r] = {}
  /\ Goto(r, "seed")
  /\ UNCHANGED <<kept, ledger, gen, lockOwner, token, local, todo, execs, disruptions>>

\* Mutant: a new discovery overwrites whatever the ledger has.
RestoreOverwrites(r, i) ==
  /\ pc[r] \in {"seed", "discover"} /\ Current(r)
  /\ lstate' = [lstate EXCEPT ![i] = "PENDING"]
  /\ lattempts' = [lattempts EXCEPT ![i] = 0]
  /\ Adopt(r, i, 0)
  /\ UNCHANGED <<kept, gen, lockOwner, token, pc, iter, noProgress, final, todo, execs, disruptions>>

\* restore_or_register of one seed item, or of one a work source yields.  A
\* terminal record gives None, which is the same as not being yielded.
Restore(r, i) ==
  /\ pc[r] \in {"seed", "discover"} /\ Current(r)
  /\ lstate[i] = "NONE" \/ Resumable(i)
  /\ lstate' = [lstate EXCEPT ![i] = "PENDING"]
  /\ lattempts' = [lattempts EXCEPT ![i] = RestoredAttempts(i)]
  /\ Adopt(r, i, RestoredAttempts(i))
  /\ Recount({i})
  /\ UNCHANGED <<kept, gen, lockOwner, token, pc, iter, noProgress, final, todo, disruptions>>

\* A fenced write with an old token raises StalePostgresUpgradeFenceError.
\* Inside discovery the loop catches it; anywhere else it ends the run.
StaleWrite(r) ==
  /\ ~Current(r)
  /\ pc[r] \in {"loading", "seed", "checkpoint", "closing"}
  /\ pc[r] = "loading" => todo[r] # {}
  /\ RunRaises(r)
  /\ UNCHANGED <<kept, ledger, gen, lockOwner, token, istate, iattempts, iter, noProgress, todo, execs,
                 disruptions>>

-----------------------------------------------------------------------------
(***************************************************************************)
(* ContinuousUpgradeLoop.run.                                              *)
(***************************************************************************)
\* _emit_checkpoint starts: the JSON ledger writes at once, the other one
\* saves the known items one by one.
BeginCheckpoint(r, l) ==
  /\ Goto(r, l)
  /\ todo' = [todo EXCEPT ![r] = Known(r)]

\* The for loop over iterations starts.
BeginLoop(r) ==
  /\ pc[r] = "seed"
  /\ iter' = [iter EXCEPT ![r] = 1]
  /\ Goto(r, "discover")
  /\ UNCHANGED <<kept, ledger, gen, lockOwner, token, istate, iattempts, noProgress, final, todo,
                 execs, disruptions>>

\* discover() raises, for its own reasons or because the fence is stale.
DiscoverFails(r) ==
  /\ pc[r] = "discover"
  /\ \/ ~Current(r) /\ UNCHANGED disruptions
     \/ /\ disruptions < MaxDisruptions
        /\ disruptions' = disruptions + 1
  /\ final' = [final EXCEPT ![r] = "HALTED"]
  /\ BeginCheckpoint(r, "closing")
  /\ UNCHANGED <<kept, ledger, gen, lockOwner, token, istate, iattempts, iter, noProgress, execs>>

\* _next_pending finds nothing.
NothingPending(r) ==
  /\ pc[r] = "discover"
  /\ Pending(r) = {}
  /\ final' = [final EXCEPT ![r] = IF Blocked(r) # {} THEN "HALTED" ELSE "COMPLETED"]
  /\ BeginCheckpoint(r, "closing")
  /\ UNCHANGED <<kept, ledger, gen, lockOwner, token, istate, iattempts, iter, noProgress, execs,
                 disruptions>>

\* Mutant: the attempt is not counted.
PickUncounted(r, i) ==
  /\ pc[r] = "discover"
  /\ i \in Pending(r)
  /\ istate' = [istate EXCEPT ![r][i] = "RUNNING"]
  /\ execs' = [execs EXCEPT ![i] = IF @ < ExecCap THEN @ + 1 ELSE @]
  /\ Goto(r, "execute")
  /\ UNCHANGED <<kept, ledger, gen, lockOwner, token, iattempts, iter, noProgress, final, todo,
                 disruptions>>

\* Mutant: an item that has failed once is never selected again.
PickOnce(r, i) ==
  /\ pc[r] = "discover"
  /\ i \in Pending(r) /\ iattempts[r][i] = 0
  /\ istate' = [istate EXCEPT ![r][i] = "RUNNING"]
  /\ iattempts' = [iattempts EXCEPT ![r][i] = @ + 1]
  /\ execs' = [execs EXCEPT ![i] = IF @ < ExecCap THEN @ + 1 ELSE @]
  /\ Goto(r, "execute")
  /\ UNCHANGED <<kept, ledger, gen, lockOwner, token, iter, noProgress, final, todo, disruptions>>

\* The next pending item (priority, then a random id: any of them) is RUNNING,
\* and its attempt is counted, in memory only.
Pick(r, i) ==
  /\ pc[r] = "discover"
  /\ i \in Pending(r)
  /\ istate' = [istate EXCEPT ![r][i] = "RUNNING"]
  /\ iattempts' = [iattempts EXCEPT ![r][i] = @ + 1]
  /\ execs' = [execs EXCEPT ![i] = IF @ < ExecCap THEN @ + 1 ELSE @]
  /\ Goto(r, "execute")
  /\ UNCHANGED <<kept, ledger, gen, lockOwner, token, iter, noProgress, final, todo, disruptions>>

\* implement or validate raises, or validation does not pass: PENDING again,
\* or BLOCKED when its attempts are used up; halt on too little progress.
AttemptFails(r, i) ==
  /\ pc[r] = "execute"
  /\ istate[r][i] = "RUNNING"
  /\ istate' = [istate EXCEPT ![r][i] =
       IF iattempts[r][i] >= MaxAttempts THEN "BLOCKED" ELSE "PENDING"]
  /\ noProgress' = [noProgress EXCEPT ![r] = @ + 1]
  /\ final' = [final EXCEPT ![r] = IF noProgress[r] + 1 >= MaxNoProgress THEN "HALTED" ELSE @]
  /\ BeginCheckpoint(r, "checkpoint")
  /\ UNCHANGED <<kept, ledger, gen, lockOwner, token, iattempts, iter, execs, disruptions>>

\* Validation reports a regression: BLOCKED at once, and the loop halts.
Regression(r, i) ==
  /\ pc[r] = "execute"
  /\ istate[r][i] = "RUNNING"
  /\ istate' = [istate EXCEPT ![r][i] = "BLOCKED"]
  /\ noProgress' = [noProgress EXCEPT ![r] = @ + 1]
  /\ final' = [final EXCEPT ![r] = "HALTED"]
  /\ BeginCheckpoint(r, "checkpoint")
  /\ UNCHANGED <<kept, ledger, gen, lockOwner, token, iattempts, iter, execs, disruptions>>

AttemptSucceeds(r, i) ==
  /\ pc[r] = "execute"
  /\ istate[r][i] = "RUNNING"
  /\ istate' = [istate EXCEPT ![r][i] = "SUCCEEDED"]
  /\ noProgress' = [noProgress EXCEPT ![r] = 0]
  /\ BeginCheckpoint(r, "checkpoint")
  /\ UNCHANGED <<kept, ledger, gen, lockOwner, token, iattempts, iter, final, execs, disruptions>>

\* After a checkpoint: the next iteration; or, on a break or after the last
\* one, the final state and the closing checkpoint; or, after that, the report.
EndCheckpoint(r) ==
  \/ /\ pc[r] = "checkpoint"
     /\ final[r] = "RUNNING" /\ iter[r] < MaxIterations
     /\ iter' = [iter EXCEPT ![r] = @ + 1]
     /\ Goto(r, "discover")
     /\ todo' = [todo EXCEPT ![r] = {}]
     /\ UNCHANGED final
  \/ /\ pc[r] = "checkpoint"
     /\ final[r] # "RUNNING" \/ iter[r] = MaxIterations
     /\ final' = [final EXCEPT ![r] =
          CASE @ # "RUNNING"      -> @
            [] Pending(r) # {}    -> "BUDGET_EXHAUSTED"
            [] Blocked(r) # {}    -> "HALTED"
            [] OTHER              -> "COMPLETED"]
     /\ BeginCheckpoint(r, "closing")
     /\ UNCHANGED iter
  \/ /\ pc[r] = "closing"
     /\ Goto(r, "report")
     /\ todo' = [todo EXCEPT ![r] = {}]
     /\ UNCHANGED <<iter, final>>

\* JsonUpgradeLedger.record_checkpoint: every item and the checkpoint history
\* in one os.replace.
WriteLedger(r) ==
  /\ pc[r] \in {"checkpoint", "closing"} /\ Backend = "json"
  /\ lstate' = [i \in Items |-> IF i \in Known(r) THEN ItemState(r, i) ELSE lstate[i]]
  /\ lattempts' = [i \in Items |-> IF i \in Known(r) THEN ItemAttempts(r, i) ELSE lattempts[i]]
  /\ EndCheckpoint(r)
  /\ UNCHANGED <<kept, gen, lockOwner, token, istate, iattempts, noProgress, execs, disruptions>>

\* Mutant: an upsert that does not look at the fence generation.
SaveItemUnfenced(r, i) ==
  /\ pc[r] \in {"checkpoint", "closing"} /\ Backend = "postgres"
  /\ i \in todo[r]
  /\ lstate' = [lstate EXCEPT ![i] = ItemState(r, i)]
  /\ lattempts' = [lattempts EXCEPT ![i] = ItemAttempts(r, i)]
  /\ todo' = [todo EXCEPT ![r] = @ \ {i}]
  /\ UNCHANGED <<kept, gen, lockOwner, token, pc, local, execs, disruptions>>

\* EngineeringStoreUpgradeLedger.record_checkpoint: one fenced upsert per item
\* and then the control row, which keeps the writer's generation.
SaveItem(r, i) ==
  /\ pc[r] \in {"checkpoint", "closing"} /\ Backend = "postgres"
  /\ i \in todo[r] /\ Current(r)
  /\ lstate' = [lstate EXCEPT ![i] = ItemState(r, i)]
  /\ lattempts' = [lattempts EXCEPT ![i] = ItemAttempts(r, i)]
  /\ todo' = [todo EXCEPT ![r] = @ \ {i}]
  /\ UNCHANGED <<kept, gen, lockOwner, token, pc, local, execs, disruptions>>

\* Mutant: the control row is rewritten without its generation.
SaveControlDropsGeneration(r) ==
  /\ pc[r] \in {"checkpoint", "closing"} /\ Backend = "postgres"
  /\ todo[r] = {} /\ Current(r)
  /\ gen' = 0
  /\ EndCheckpoint(r)
  /\ UNCHANGED <<kept, ledger, lockOwner, token, istate, iattempts, noProgress, execs, disruptions>>

SaveControl(r) ==
  /\ pc[r] \in {"checkpoint", "closing"} /\ Backend = "postgres"
  /\ todo[r] = {} /\ Current(r)
  /\ gen' = token[r]
  /\ EndCheckpoint(r)
  /\ UNCHANGED <<kept, ledger, lockOwner, token, istate, iattempts, noProgress, execs, disruptions>>

\* Mutant: blocked records of earlier runs are not looked at.
ReportIgnoresBlocked(r) ==
  /\ pc[r] = "report"
  /\ Goto(r, "release")
  /\ UNCHANGED <<kept, ledger, gen, lockOwner, token, local, todo, execs, disruptions>>

\* _run_locked: a COMPLETED report becomes HALTED when the ledger still has
\* blocked records.
Report(r) ==
  /\ pc[r] = "report"
  /\ final' = [final EXCEPT ![r] =
       IF @ = "COMPLETED" /\ BlockedRecords # {} THEN "HALTED" ELSE @]
  /\ Goto(r, "release")
  /\ UNCHANGED <<kept, ledger, gen, lockOwner, token, istate, iattempts, iter, noProgress, todo, execs,
                 disruptions>>

-----------------------------------------------------------------------------
Init ==
  /\ lstate = [i \in Items |-> "NONE"]
  /\ lattempts = [i \in Items |-> 0]
  /\ gen = 0
  /\ lockOwner = NoRunner
  /\ token = [r \in Runners |-> 0]
  /\ pc = [r \in Runners |-> "idle"]
  /\ istate = [r \in Runners |-> [i \in Items |-> "NONE"]]
  /\ iattempts = [r \in Runners |-> [i \in Items |-> 0]]
  /\ kstate = istate /\ kattempts = iattempts
  /\ iter = [r \in Runners |-> 0]
  /\ noProgress = [r \in Runners |-> 0]
  /\ final = [r \in Runners |-> "RUNNING"]
  /\ todo = [r \in Runners |-> {}]
  /\ execs = [i \in Items |-> 0]
  /\ disruptions = 0

\* Steps of every deployment; of the JSON ledger with its lock file; of the
\* row-per-item ledger with its fence.
CommonStep(r) ==
  \/ Acquire(r) \/ Release(r) \/ BeginLoop(r) \/ NothingPending(r) \/ Report(r)
  \/ DiscoverFails(r) \/ Crash(r) \/ Interrupt(r)
  \/ \E i \in Items :
       Restore(r, i) \/ Pick(r, i) \/ AttemptFails(r, i) \/ Regression(r, i) \/ AttemptSucceeds(r, i)
JsonStep(r) == LoadAll(r) \/ WriteLedger(r) \/ OperatorUnlocks(r)
PostgresStep(r) ==
  \/ AcquireToken(r) \/ TokenFails(r) \/ SessionLost(r)
  \/ ListTasks(r) \/ EndLoad(r) \/ SaveControl(r) \/ StaleWrite(r)
  \/ \E i \in Items : LoadItem(r, i) \/ SaveItem(r, i)

Next == \E r \in Runners : CommonStep(r) \/ JsonStep(r) \/ PostgresStep(r)

Spec == Init /\ [][Next]_vars

\* Without the steps a JSON deployment does not have.
JsonNext == \E r \in Runners : CommonStep(r) \/ JsonStep(r)

\* The steps a runner owes: it is run again and again, its callbacks return,
\* and discovery ends.  Nobody owes it new work or an outcome it would like.
Owed(r) ==
  \/ Acquire(r) \/ Release(r) \/ LoadAll(r) \/ BeginLoop(r)
  \/ NothingPending(r) \/ WriteLedger(r) \/ Report(r)
  \/ \E i \in Items :
       Pick(r, i) \/ AttemptFails(r, i) \/ Regression(r, i) \/ AttemptSucceeds(r, i)

JsonFairness ==
  \A r \in Runners : WF_vars(Owed(r)) /\ WF_vars(OperatorUnlocks(r))

-----------------------------------------------------------------------------
\* Type invariant.
TypeOK ==
  /\ lstate \in [Items -> WorkStates]
  /\ lattempts \in [Items -> 0..MaxAttempts]
  /\ gen \in 0..MaxGen
  /\ lockOwner \in Runners \cup {NoRunner}
  /\ token \in [Runners -> 0..MaxGen]
  /\ pc \in [Runners -> PCs]
  /\ istate \in [Runners -> [Items -> WorkStates]]
  /\ iattempts \in [Runners -> [Items -> 0..MaxAttempts]]
  /\ kstate \in [Runners -> [Items -> WorkStates]]
  /\ kattempts \in [Runners -> [Items -> 0..MaxAttempts]]
  /\ iter \in [Runners -> 0..MaxIterations]
  /\ noProgress \in [Runners -> 0..MaxIterations]
  /\ final \in [Runners -> Finals]
  /\ todo \in [Runners -> SUBSET Items]
  /\ execs \in [Items -> 0..ExecCap]
  /\ disruptions \in 0..MaxDisruptions

\* Fence tokens are unique: no two runners ever hold the same generation, so
\* at most one of them can write.  (PostgresUpgradeFence.acquire_token,
\* save_task)
TokensUnique ==
  \A r, s \in Runners : token[r] # 0 /\ token[r] = token[s] => r = s

\* The runner whose writes would be accepted works on the ledger as it is: an
\* item it is not executing or saving has the attempts the ledger records.
\* This is what makes reading a row and saving it in two transactions safe.
WriterUpToDate ==
  \A r \in Runners : \A i \in Items :
    (/\ pc[r] \in {"seed", "discover"} /\ Current(r)
     /\ Backend = "postgres" => token[r] # 0
     /\ istate[r][i] # "NONE")
    => /\ lattempts[i] = iattempts[r][i]
       /\ istate[r][i] = lstate[i] \/ (RetryBlocked /\ istate[r][i] = "BLOCKED")

\* A run reports COMPLETED only when nothing is left: every record of the
\* ledger is SUCCEEDED.  (the JSON ledger, whose lease is held to the end)
CompletedMeansDone ==
  \A r \in Runners :
    (Backend = "json" /\ pc[r] = "release" /\ final[r] = "COMPLETED")
    => \A i \in Items : lstate[i] \in {"NONE", "SUCCEEDED"}

\* The ledger only moves forward, whoever writes it and whatever was lost: a
\* SUCCEEDED item stays so, a BLOCKED one leaves that state only on request,
\* and consumed attempts are given back to a blocked item only.
LedgerForward ==
  [][\A i \in Items :
       /\ lstate[i] # "NONE" => lstate'[i] # "NONE"
       /\ lstate[i] = "SUCCEEDED" => lstate'[i] = "SUCCEEDED"
       /\ lstate[i] = "BLOCKED" /\ lstate'[i] # "BLOCKED" => RetryBlocked
       /\ lattempts'[i] < lattempts[i] => RetryBlocked /\ lstate[i] = "BLOCKED"]_vars

\* Whoever writes it and in however many transactions, the ledger is the
\* attempt counter of AttemptLedger: a checkpoint records one attempt of one
\* pending item, and no copy a runner keeps ever undoes or repeats another's.
\* (record_checkpoint, restore_or_register, load_resumable of both ledgers)
Ledger == INSTANCE AttemptLedger WITH state <- lstate, attempts <- lattempts
CountsAttempts == Ledger!Spec

\* Terminal success: an item recorded as SUCCEEDED is never put back to work.
SucceededFinal ==
  [][\A i \in Items : lstate[i] = "SUCCEEDED" => lstate'[i] = "SUCCEEDED"]_vars

\* However runs are cut off and taken over, a disruption lets only so many
\* executions of an item go uncounted: one under the lock file; two under the
\* advisory lock, where a session lost before the token is taken makes both
\* the new owner and the old one stale in turn.
LostPerDisruption == IF Backend = "json" THEN 1 ELSE 2
AttemptsBounded ==
  \A i \in Items : execs[i] <= MaxAttempts + LostPerDisruption * disruptions

\* Registered work is eventually settled by the runs that follow: an attempt
\* is made in every run, failed ones are remembered, and a lock file left by
\* a crash holds the work up only until an operator removes it.
WorkSettled ==
  \A i \in Items :
    lstate[i] = "PENDING" ~> lstate[i] \in {"SUCCEEDED", "BLOCKED"}
=============================================================================
