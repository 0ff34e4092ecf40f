---------------------------- MODULE TenantQuota ----------------------------
(***************************************************************************)
(* One metric of one tenant: DurableQuotaGate.check_and_reserve over       *)
(* EnterprisePostgresStore.check_and_reserve_quota, called by several      *)
(* processes.  The row is created by the first reservation; after that     *)
(* SELECT ... FOR UPDATE serialises the callers until each one commits.    *)
(***************************************************************************)
EXTENDS Naturals, FiniteSets

CONSTANTS
  Callers, NoCaller,
  Amounts,          \* requested_amount, in whole units
  Limit,            \* limit_value the callers pass
  MaxReservations,  \* bound: calls in one behaviour
  MaxQuotaFaults    \* bound: lost connections

ASSUME QuotaAssumption ==
  /\ Amounts \subseteq Nat \ {0} /\ Limit \in Nat
  /\ MaxReservations \in Nat /\ MaxQuotaFaults \in Nat
  /\ NoCaller \notin Callers

VARIABLES
  exists, current,  \* the row of tenant_quotas, committed
  locker,           \* who holds its row lock
  call,             \* each caller: control state and amount
  granted, leaked,  \* units admitted; units written for a call that raised (history)
  grants,           \* writes of the row (history)
  reservations, qfaults

quotaVars == <<exists, current, locker, call, granted, leaked, grants, reservations, qfaults>>

CallPCs == {"idle", "select", "insert", "check", "commit"}
CallAt(c, pc) == call[c].pc = pc
CallGoto(c, pc) == call' = [call EXCEPT ![c].pc = pc]
CallReturn(c) == call' = [call EXCEPT ![c] = [pc |-> "idle", amount |-> 0]]
UnlockRow(c) == locker' = IF locker = c THEN NoCaller ELSE locker

\* check_and_reserve: the queue depth first (external); backpressure or a
\* failing probe ends the call here.
Reserve(c, a) ==
  /\ CallAt(c, "idle")
  /\ reservations < MaxReservations
  /\ reservations' = reservations + 1
  /\ \/ call' = [call EXCEPT ![c] = [pc |-> "select", amount |-> a]]
     \/ UNCHANGED call
  /\ UNCHANGED <<exists, current, locker, granted, leaked, grants, qfaults>>

\* Mutant: SELECT without FOR UPDATE.
SelectUnlocked(c) ==
  /\ CallAt(c, "select")
  /\ CallGoto(c, IF exists THEN "check" ELSE "insert")
  /\ UNCHANGED <<exists, current, locker, granted, leaked, grants, reservations, qfaults>>

\* SELECT ... FOR UPDATE: waits for the row's lock; nothing to lock yet at first.
SelectRow(c) ==
  /\ CallAt(c, "select")
  /\ \/ ~exists /\ CallGoto(c, "insert") /\ UNCHANGED locker
     \/ exists /\ locker = NoCaller /\ locker' = c /\ CallGoto(c, "check")
  /\ UNCHANGED <<exists, current, granted, leaked, grants, reservations, qfaults>>

\* Mutant: the INSERT's collision is taken for success.
InsertRowTwice(c) ==
  /\ CallAt(c, "insert")
  /\ \/ /\ exists /\ CallReturn(c) /\ UNCHANGED <<locker, leaked>>
        /\ granted' = granted + call[c].amount
     \/ /\ ~exists /\ locker = NoCaller /\ locker' = c /\ CallGoto(c, "commit")
        /\ UNCHANGED <<granted, leaked>>
  /\ UNCHANGED <<exists, current, grants, reservations, qfaults>>

\* INSERT of the first reservation, unchecked.  The primary key makes a second
\* first caller wait; once the row is committed its INSERT raises and the
\* gate answers backend_error.
InsertRow(c) ==
  /\ CallAt(c, "insert")
  /\ \/ exists /\ CallReturn(c) /\ UNCHANGED locker
     \/ ~exists /\ locker = NoCaller /\ locker' = c /\ CallGoto(c, "commit")
  /\ UNCHANGED <<exists, current, granted, leaked, grants, reservations, qfaults>>

\* Mutant: the reservation is not counted in the comparison.
CheckLimitPast(c) ==
  /\ CallAt(c, "check")
  /\ \/ current > Limit /\ CallReturn(c) /\ UnlockRow(c)
     \/ current <= Limit /\ CallGoto(c, "commit") /\ UNCHANGED locker
  /\ UNCHANGED <<exists, current, granted, leaked, grants, reservations, qfaults>>

\* curr + requested_amount > lim: quota_exceeded; else the UPDATE.
CheckLimit(c) ==
  /\ CallAt(c, "check")
  /\ \/ current + call[c].amount > Limit /\ CallReturn(c) /\ UnlockRow(c)
     \/ current + call[c].amount <= Limit /\ CallGoto(c, "commit") /\ UNCHANGED locker
  /\ UNCHANGED <<exists, current, granted, leaked, grants, reservations, qfaults>>

\* current_value + requested_amount, or the first row.
WriteRow(c) ==
  /\ exists' = TRUE
  /\ current' = current + call[c].amount
  /\ grants' = grants + 1

\* COMMIT; the caller is admitted with a reservation.
CommitRow(c) ==
  /\ CallAt(c, "commit")
  /\ WriteRow(c)
  /\ granted' = granted + call[c].amount
  /\ CallReturn(c) /\ UnlockRow(c)
  /\ UNCHANGED <<leaked, reservations, qfaults>>

\* The connection or the caller's process is lost: rolled back, or committed
\* with nobody to know.  There is no refund.
QuotaFault(c) ==
  /\ ~CallAt(c, "idle")
  /\ qfaults < MaxQuotaFaults /\ qfaults' = qfaults + 1
  /\ CallReturn(c) /\ UnlockRow(c)
  /\ \/ UNCHANGED <<exists, current, leaked, grants>>
     \/ CallAt(c, "commit") /\ WriteRow(c) /\ leaked' = leaked + call[c].amount
  /\ UNCHANGED <<granted, reservations>>

-----------------------------------------------------------------------------
QuotaInit ==
  /\ exists = FALSE /\ current = 0 /\ locker = NoCaller
  /\ call = [c \in Callers |-> [pc |-> "idle", amount |-> 0]]
  /\ granted = 0 /\ leaked = 0 /\ grants = 0 /\ reservations = 0 /\ qfaults = 0

CallStep(c) == SelectRow(c) \/ InsertRow(c) \/ CheckLimit(c) \/ CommitRow(c)

QuotaNext ==
  \E c \in Callers : CallStep(c) \/ QuotaFault(c) \/ \E a \in Amounts : Reserve(c, a)

QuotaSpec == QuotaInit /\ [][QuotaNext]_quotaVars

-----------------------------------------------------------------------------
\* Type invariant; the row is locked by who is about to write it, alone.
QuotaTypeOK ==
  /\ exists \in BOOLEAN /\ current \in Nat
  /\ locker \in Callers \cup {NoCaller}
  /\ call \in [Callers -> [pc : CallPCs, amount : Amounts \cup {0}]]
  /\ \A c \in Callers : call[c].pc \in {"check", "commit"} <=> locker = c
  /\ granted \in Nat /\ leaked \in Nat /\ grants \in Nat
  /\ reservations \in 0..MaxReservations /\ qfaults \in 0..MaxQuotaFaults

\* Whatever the callers do at once, the row accounts for every admission: it
\* is the sum of the admitted reservations and of those whose commit was not
\* confirmed.  (check_and_reserve_quota, DurableQuotaGate.check_and_reserve)
QuotaExact == current = granted + leaked

\* However callers interleave, the limit is passed only by a first reservation,
\* which is not compared with it; then nothing more is ever admitted.
\* (check_and_reserve_quota: the INSERT branch, FOR UPDATE)
QuotaRespected == current > Limit => grants = 1

\* What the docstring of check_and_reserve_quota says: a reservation checks the
\* quota and takes from it in one atomic step, that of AtomicQuota.
OneStep == INSTANCE AtomicQuota WITH used <- current, admitted <- granted
ReservesAtomically == OneStep!Spec
=============================================================================
