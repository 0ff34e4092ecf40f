------------------------------- MODULE Outbox -------------------------------
(***************************************************************************)
(* The transactional outbox and the scheduler cycles that fill and drain   *)
(* it.                                                                     *)
(*   "sqlite"    ControlPlaneStore.process_outbox: the SELECT runs outside *)
(*               any transaction, the first UPDATE takes the database's    *)
(*               write lock, and the whole batch commits at the end;       *)
(*   "postgres"  process_postgres_outbox_once: SELECT ... FOR UPDATE SKIP  *)
(*               LOCKED, rows stay locked until the batch commits.         *)
(* A processor calls its handler between the SELECT and the COMMIT, so the *)
(* handler's effect is outside the transaction that records it.            *)
(*                                                                         *)
(* A deployment's leased says what serialises the processors: nothing, or  *)
(* the lock file that MaintenanceScheduler.run_cycle takes for each cycle. *)
(***************************************************************************)
EXTENDS Naturals, FiniteSets

CONSTANTS
  N,               \* messages ever enqueued, 1..N in order of creation
  Processors,
  NoProc,
  Deployments,     \* [dialect, leased, maxMessages]: the ones to consider
  PoisonBudget,    \* max_attempts: the failures a message is allowed
  MaxMishaps       \* bound: crashes and failing statements

ASSUME OutboxAssumption ==
  /\ N \in Nat \ {0} /\ PoisonBudget \in Nat \ {0}
  /\ MaxMishaps \in Nat
  /\ Deployments \subseteq [dialect : {"sqlite", "postgres"}, leased : BOOLEAN,
                         maxMessages : Nat \ {0}]
  /\ NoProc \notin Processors

VARIABLES
  deployment,          \* the one that is running: it never changes
  status, attempts,    \* the outbox table
  at,                  \* where each processor is
  rows,                \* rows SELECTed and not yet handled
  read,                \* attempts as SELECTed
  outcome,             \* what the handler did with the oldest of rows
  bstatus, battempts,  \* uncommitted UPDATEs ("none": row not updated)
  writer,              \* holder of the SQLite write lock
  leaseOwner,
  calls, deliveries,   \* handler calls, and those that succeeded (history)
  mishaps

table  == <<status, attempts>>
batch  == <<rows, read, outcome, bstatus, battempts>>
outboxVars == <<table, at, batch, writer, leaseOwner, calls, deliveries, mishaps>>

Dialect == deployment.dialect
Leased  == deployment.leased
MaxMessages == deployment.maxMessages    \* the batch budget

Messages == 1..N
Terminal == {"DELIVERED", "DEAD"}
Statuses == {"ABSENT", "PENDING"} \cup Terminal
Places == {"idle", "campaign", "select", "handle", "commit", "release"}

\* The history counters saturate one above what the properties allow.
CallCap == PoisonBudget + MaxMishaps + 1

\* Rows a PostgreSQL batch holds locked: selected, handled or not.
LockedRows(p) == {m \in Messages : m \in rows[p] \/ bstatus[p][m] # "none"}
OldestOf(S) == CHOOSE m \in S : \A n \in S : m <= n
FirstOf(S, k) == {m \in S : Cardinality({n \in S : n <= m}) <= k}

MoveTo(p, l) == at' = [at EXCEPT ![p] = l]
DropBatch(p) ==
  /\ rows' = [rows EXCEPT ![p] = {}]
  /\ read' = [read EXCEPT ![p] = [m \in Messages |-> 0]]
  /\ outcome' = [outcome EXCEPT ![p] = "none"]
  /\ bstatus' = [bstatus EXCEPT ![p] = [m \in Messages |-> "none"]]
  /\ battempts' = [battempts EXCEPT ![p] = [m \in Messages |-> 0]]
  /\ writer' = IF writer = p THEN NoProc ELSE writer

-----------------------------------------------------------------------------
(***************************************************************************)
(* The table's writers other than a drain.                                 *)
(***************************************************************************)
\* INSERT of the next message; SQLite waits for the write lock.
Insert ==
  LET absent == {m \in Messages : status[m] = "ABSENT"}
  IN /\ absent # {}
     /\ Dialect = "sqlite" => writer = NoProc
     /\ status' = [status EXCEPT ![OldestOf(absent)] = "PENDING"]
     /\ UNCHANGED attempts

\* enqueue_outbox by any other caller.
EnqueueOutbox ==
  /\ Insert
  /\ UNCHANGED <<at, batch, writer, leaseOwner, calls, deliveries, mishaps>>

\* run_cycle: the lease first, if there is one; a held lease skips the cycle.
BeginCycle(p) ==
  /\ at[p] = "idle"
  /\ leaseOwner = NoProc
  /\ leaseOwner' = IF Leased THEN p ELSE NoProc
  /\ MoveTo(p, IF Leased THEN "campaign" ELSE "select")
  /\ UNCHANGED <<table, batch, writer, calls, deliveries, mishaps>>

\* campaign_runner: one campaign, one summary message; no more than N.
Campaign(p) ==
  /\ at[p] = "campaign"
  /\ \/ Insert
     \/ (\A m \in Messages : status[m] # "ABSENT") /\ UNCHANGED table
  /\ MoveTo(p, "select")
  /\ UNCHANGED <<batch, writer, leaseOwner, calls, deliveries, mishaps>>

\* The campaign or its enqueue raises: the cycle is over, nothing is drained.
CampaignFails(p) ==
  /\ at[p] = "campaign"
  /\ mishaps < MaxMishaps
  /\ mishaps' = mishaps + 1
  /\ MoveTo(p, "release")
  /\ UNCHANGED <<table, batch, writer, leaseOwner, calls, deliveries>>

-----------------------------------------------------------------------------
(***************************************************************************)
(* process_outbox.                                                         *)
(***************************************************************************)
\* Mutant: FOR UPDATE SKIP LOCKED is missing.
EligibleUnlocked(p) == {m \in Messages : status[m] = "PENDING"}

\* Mutant: a message that has failed is not selected again.
EligibleOnce(p) ==
  {m \in Messages :
     /\ status[m] = "PENDING" /\ attempts[m] = 0
     /\ Dialect = "postgres" => \A q \in Processors \ {p} : m \notin LockedRows(q)}

\* WHERE status = 'PENDING' [AND attempts < max_attempts]; PostgreSQL skips
\* what another batch has locked.
Eligible(p) ==
  {m \in Messages :
     /\ status[m] = "PENDING"
     /\ Dialect = "postgres" =>
          /\ attempts[m] < PoisonBudget
          /\ \A q \in Processors \ {p} : m \notin LockedRows(q)}

\* The oldest max_messages of them.
Select(p) ==
  /\ at[p] = "select"
  /\ rows' = [rows EXCEPT ![p] = FirstOf(Eligible(p), MaxMessages)]
  /\ read' = [read EXCEPT ![p] = attempts]
  /\ MoveTo(p, IF Eligible(p) = {} THEN "commit" ELSE "handle")
  /\ UNCHANGED <<table, outcome, bstatus, battempts, writer, leaseOwner, calls, deliveries,
                 mishaps>>

\* handler(action, payload) returns or raises.
Handle(p, ok) ==
  LET m == OldestOf(rows[p])
  IN /\ at[p] = "handle" /\ outcome[p] = "none"
     /\ outcome' = [outcome EXCEPT ![p] = IF ok THEN "ok" ELSE "raised"]
     /\ calls' = [calls EXCEPT ![m] = IF @ < CallCap THEN @ + 1 ELSE @]
     /\ deliveries' = [deliveries EXCEPT ![m] = IF ok /\ @ < CallCap THEN @ + 1 ELSE @]
     /\ UNCHANGED <<table, at, rows, read, bstatus, battempts, writer, leaseOwner, mishaps>>

\* transition_after_failure
AfterFailure(n) == IF n + 1 >= PoisonBudget THEN "DEAD" ELSE "PENDING"

\* The UPDATE that records the outcome, in the batch's transaction.  The
\* failure branch writes the attempts it READ, plus one.
Update(p) ==
  LET m == OldestOf(rows[p])
      ok == outcome[p] = "ok"
  IN /\ at[p] = "handle" /\ outcome[p] # "none"
     /\ Dialect = "sqlite" => writer \in {NoProc, p}
     /\ writer' = IF Dialect = "sqlite" THEN p ELSE writer
     /\ bstatus' = [bstatus EXCEPT ![p][m] = IF ok THEN "DELIVERED" ELSE AfterFailure(read[p][m])]
     /\ battempts' = [battempts EXCEPT ![p][m] =
          IF ok THEN read[p][m] ELSE read[p][m] + 1]
     /\ rows' = [rows EXCEPT ![p] = @ \ {m}]
     /\ outcome' = [outcome EXCEPT ![p] = "none"]
     /\ MoveTo(p, IF rows[p] = {m} THEN "commit" ELSE "handle")
     /\ UNCHANGED <<table, read, leaseOwner, calls, deliveries, mishaps>>

\* The UPDATE raises (SQLite: "database is locked").  SQLite's UPDATE of a
\* delivered message stands inside the handler's try: it goes on as a failed
\* delivery.  Any other one ends the call.
UpdateRaises(p) ==
  /\ at[p] = "handle" /\ outcome[p] # "none"
  /\ mishaps < MaxMishaps
  /\ mishaps' = mishaps + 1
  /\ \/ /\ Dialect = "sqlite" /\ outcome[p] = "ok"
        /\ outcome' = [outcome EXCEPT ![p] = "raised"]
        /\ UNCHANGED <<at, rows, read, bstatus, battempts, writer>>
     \/ /\ ~(Dialect = "sqlite" /\ outcome[p] = "ok")
        /\ DropBatch(p)
        /\ MoveTo(p, "release")
  /\ UNCHANGED <<table, leaseOwner, calls, deliveries>>

\* Mutant: failed deliveries are not counted.
CommitUncounted(p) ==
  /\ at[p] = "commit"
  /\ status' = [m \in Messages |-> IF bstatus[p][m] # "none" THEN bstatus[p][m] ELSE status[m]]
  /\ DropBatch(p)
  /\ MoveTo(p, "release")
  /\ UNCHANGED <<attempts, leaseOwner, calls, deliveries, mishaps>>

\* Mutant: rows the batch did not touch are put back as PENDING.
CommitRequeues(p) ==
  /\ at[p] = "commit"
  /\ status' = [m \in Messages |->
       CASE bstatus[p][m] # "none" -> bstatus[p][m]
         [] status[m] = "ABSENT" -> "ABSENT"
         [] OTHER -> "PENDING"]
  /\ attempts' = [m \in Messages |->
       IF bstatus[p][m] \in {"PENDING", "DEAD"} THEN battempts[p][m] ELSE attempts[m]]
  /\ DropBatch(p)
  /\ MoveTo(p, "release")
  /\ UNCHANGED <<leaseOwner, calls, deliveries, mishaps>>

\* Mutant: every row of the batch is marked DELIVERED.
CommitWhole(p) ==
  /\ at[p] = "commit"
  /\ status' = [m \in Messages |-> IF bstatus[p][m] # "none" THEN "DELIVERED" ELSE status[m]]
  /\ attempts' = [m \in Messages |-> IF bstatus[p][m] # "none" THEN battempts[p][m] ELSE attempts[m]]
  /\ DropBatch(p)
  /\ MoveTo(p, "release")
  /\ UNCHANGED <<leaseOwner, calls, deliveries, mishaps>>

\* COMMIT of the whole batch.  (A DELIVERED update leaves attempts alone: a
\* concurrent SQLite batch may have changed them.)
Commit(p) ==
  /\ at[p] = "commit"
  /\ status' = [m \in Messages |-> IF bstatus[p][m] # "none" THEN bstatus[p][m] ELSE status[m]]
  /\ attempts' = [m \in Messages |->
       IF bstatus[p][m] \in {"PENDING", "DEAD"} THEN battempts[p][m] ELSE attempts[m]]
  /\ DropBatch(p)
  /\ MoveTo(p, "release")
  /\ UNCHANGED <<leaseOwner, calls, deliveries, mishaps>>

\* A malformed payload, or a lost connection: rollback, the cycle has failed.
Rollback(p) ==
  /\ at[p] \in {"select", "handle", "commit"}
  /\ mishaps < MaxMishaps
  /\ mishaps' = mishaps + 1
  /\ DropBatch(p)
  /\ MoveTo(p, "release")
  /\ UNCHANGED <<table, leaseOwner, calls, deliveries>>

\* finally: lease.release()
EndCycle(p) ==
  /\ at[p] = "release"
  /\ leaseOwner' = NoProc
  /\ MoveTo(p, "idle")
  /\ UNCHANGED <<table, batch, writer, calls, deliveries, mishaps>>

\* The process dies: its transaction is rolled back; a lock file stays.
ProcessorCrash(p) ==
  /\ at[p] # "idle"
  /\ mishaps < MaxMishaps
  /\ mishaps' = mishaps + 1
  /\ DropBatch(p)
  /\ MoveTo(p, "idle")
  /\ UNCHANGED <<table, leaseOwner, calls, deliveries>>

\* An operator removes the lock file of a process that is gone (external).
CycleUnlocked(p) ==
  /\ leaseOwner = p /\ at[p] = "idle"
  /\ leaseOwner' = NoProc
  /\ UNCHANGED <<table, at, batch, writer, calls, deliveries, mishaps>>

-----------------------------------------------------------------------------
OutboxInit ==
  /\ deployment \in Deployments
  /\ status = [m \in Messages |-> "ABSENT"]
  /\ attempts = [m \in Messages |-> 0]
  /\ at = [p \in Processors |-> "idle"]
  /\ rows = [p \in Processors |-> {}]
  /\ read = [p \in Processors |-> [m \in Messages |-> 0]]
  /\ outcome = [p \in Processors |-> "none"]
  /\ bstatus = [p \in Processors |-> [m \in Messages |-> "none"]]
  /\ battempts = [p \in Processors |-> [m \in Messages |-> 0]]
  /\ writer = NoProc
  /\ leaseOwner = NoProc
  /\ calls = [m \in Messages |-> 0]
  /\ deliveries = [m \in Messages |-> 0]
  /\ mishaps = 0

Cycle(p) ==
  \/ BeginCycle(p) \/ Campaign(p) \/ Select(p) \/ Update(p) \/ Commit(p)
  \/ EndCycle(p)
  \/ \E ok \in BOOLEAN : Handle(p, ok)

Disrupt(p) ==
  CampaignFails(p) \/ UpdateRaises(p) \/ Rollback(p) \/ ProcessorCrash(p)

OutboxNext ==
  /\ \/ EnqueueOutbox
     \/ \E p \in Processors : Cycle(p) \/ Disrupt(p) \/ CycleUnlocked(p)
  /\ UNCHANGED deployment

OutboxSpec == OutboxInit /\ [][OutboxNext]_<<outboxVars, deployment>>

\* Whoever drains the outbox does so again and again, and handlers return.
OutboxFairness ==
  \A p \in Processors : WF_outboxVars(Cycle(p)) /\ WF_outboxVars(CycleUnlocked(p))

OutboxFairSpec == OutboxSpec /\ OutboxFairness

-----------------------------------------------------------------------------
\* Type invariant.
OutboxTypeOK ==
  /\ deployment \in Deployments
  /\ status \in [Messages -> Statuses]
  /\ attempts \in [Messages -> 0..PoisonBudget]
  /\ at \in [Processors -> Places]
  /\ rows \in [Processors -> SUBSET Messages]
  /\ read \in [Processors -> [Messages -> 0..PoisonBudget]]
  /\ outcome \in [Processors -> {"none", "ok", "raised"}]
  /\ bstatus \in [Processors -> [Messages -> {"none", "PENDING"} \cup Terminal]]
  /\ battempts \in [Processors -> [Messages -> 0..PoisonBudget]]
  /\ writer \in Processors \cup {NoProc}
  /\ leaseOwner \in Processors \cup {NoProc}
  /\ calls \in [Messages -> 0..CallCap] /\ deliveries \in [Messages -> 0..CallCap]
  /\ mishaps \in 0..MaxMishaps

\* DELIVERED and DEAD are final: no batch, however late it commits, puts a
\* settled message back or settles it the other way.  (process_outbox)
TerminalFinal ==
  [][\A m \in Messages : status[m] \in Terminal => status'[m] = status[m]]_outboxVars

\* A settled message was really settled: DELIVERED only after a handler call
\* that succeeded, DEAD only after max_attempts calls.  (process_outbox,
\* transition_after_failure)
SettledHonestly ==
  \A m \in Messages :
    /\ status[m] = "DELIVERED" => deliveries[m] >= 1
    /\ status[m] = "DEAD" => calls[m] >= PoisonBudget

\* A message is delivered again only because a transaction was lost: never
\* more than once plus the number of crashes, rollbacks and failed updates.
DuplicatesBounded ==
  \A m \in Messages : deliveries[m] <= 1 + mishaps

\* A poison message costs at most max_attempts calls, plus one for every
\* transaction that was lost with its count.
PoisonBounded ==
  \A m \in Messages : calls[m] <= PoisonBudget + mishaps

\* However batches overlap and whatever is lost, the table is that of
\* AtLeastOnce: a message is handed over only while it is pending, and a
\* commit records only what was pending and, if delivered, handed over.
\* (process_outbox, process_postgres_outbox_once)
Queue == INSTANCE AtLeastOnce WITH failures <- attempts, MaxAttempts <- PoisonBudget
DeliversAtLeastOnce == Queue!Spec

\* No message is left behind: each is delivered or retired, also behind a
\* message that always fails, and whatever crashed on the way.
EventuallySettled ==
  \A m \in Messages : status[m] = "PENDING" ~> status[m] \in Terminal
=============================================================================
