------------------------- MODULE TenantQuotaProofs -------------------------
(***************************************************************************)
(* Proofs about TenantQuota, for any callers, amounts and limit.  The row  *)
(* lock is what everything rests on: the caller at "commit" is alone there *)
(* and what it compared with the limit is still what it adds to; so its    *)
(* write is the one step of AtomicQuota, if it was compared at all.        *)
(***************************************************************************)
EXTENDS TenantQuota, TLAPS

\* The strengthening: the counters of an absent row are zero, and a caller
\* about to write an existing row has room for its amount.
RowInv ==
  /\ ~exists => current = 0 /\ grants = 0
  /\ \A c \in Callers : CallAt(c, "commit") /\ exists => current + call[c].amount <= Limit

QuotaInv == QuotaTypeOK /\ RowInv /\ QuotaExact /\ QuotaRespected

\* The initial state satisfies the invariant.  (no row yet)
LEMMA QuotaInit_Inv == QuotaInit => QuotaInv
<1> SUFFICES ASSUME QuotaInit PROVE QuotaInv
  OBVIOUS
<1>1. call \in [Callers -> [pc : CallPCs, amount : Amounts \cup {0}]]
      /\ \A c \in Callers : call[c].pc = "idle"
  BY DEF QuotaInit, CallPCs
<1>2. \A c \in Callers : call[c].pc \in {"check", "commit"} <=> locker = c
  BY <1>1, QuotaAssumption DEF QuotaInit
<1>3. 0 \in 0..MaxReservations /\ 0 \in 0..MaxQuotaFaults
  BY QuotaAssumption
<1>4. QuotaTypeOK
  BY <1>1, <1>2, <1>3 DEF QuotaInit, QuotaTypeOK
<1> QED
  BY <1>1, <1>4, QuotaAssumption DEF QuotaInit, QuotaInv, RowInv, QuotaExact, QuotaRespected, CallAt

\* A caller that waits, compares or is refused leaves the row alone.
\* (check_and_reserve_quota, up to its write)
LEMMA ReadersKeep ==
  ASSUME QuotaInv, NEW c \in Callers,
         \/ SelectRow(c) \/ InsertRow(c) \/ CheckLimit(c)
         \/ \E a \in Amounts : Reserve(c, a)
  PROVE  QuotaInv'
<1> USE QuotaAssumption DEF QuotaInv, QuotaTypeOK, RowInv, QuotaExact, QuotaRespected, CallPCs, CallAt,
        CallGoto, CallReturn, UnlockRow
<1>1. CASE SelectRow(c)
  BY <1>1 DEF SelectRow
<1>2. CASE InsertRow(c)
  BY <1>2 DEF InsertRow
<1>3. CASE CheckLimit(c)
  BY <1>3 DEF CheckLimit
<1>4. ASSUME NEW a \in Amounts, Reserve(c, a) PROVE QuotaInv'
  BY <1>4 DEF Reserve
<1> QED BY <1>1, <1>2, <1>3, <1>4

\* When c's call ends, c is idle, the others are where they were, and the row
\* is locked by another or by nobody.  (DurableQuotaGate.check_and_reserve)
LEMMA Returns ==
  ASSUME QuotaTypeOK, NEW c \in Callers, CallReturn(c), UnlockRow(c)
  PROVE  /\ call' \in [Callers -> [pc : CallPCs, amount : Amounts \cup {0}]]
         /\ call'[c].pc = "idle"
         /\ \A d \in Callers \ {c} : call'[d] = call[d]
         /\ locker' \in Callers \cup {NoCaller}
         /\ \A d \in Callers : call'[d].pc \in {"check", "commit"} <=> locker' = d
<1>1. call'[c] = [pc |-> "idle", amount |-> 0] /\ \A d \in Callers \ {c} : call'[d] = call[d]
  BY DEF QuotaTypeOK, CallReturn
<1>2. call' \in [Callers -> [pc : CallPCs, amount : Amounts \cup {0}]]
  BY DEF QuotaTypeOK, CallReturn, CallPCs
<1>3. locker' \in Callers \cup {NoCaller} /\ locker' # c
  BY QuotaAssumption DEF QuotaTypeOK, UnlockRow
<1>4. ASSUME NEW d \in Callers PROVE call'[d].pc \in {"check", "commit"} <=> locker' = d
  BY <1>1, <1>3, QuotaAssumption DEF QuotaTypeOK, UnlockRow
<1> QED BY <1>1, <1>2, <1>3, <1>4

\* The one caller at "commit" writes the row, and its amount fits.
LEMMA Writes ==
  ASSUME QuotaInv, NEW c \in Callers, CallAt(c, "commit"), WriteRow(c)
  PROVE  /\ exists' = TRUE /\ current' \in Nat /\ grants' \in Nat
         /\ current' = current + call[c].amount /\ call[c].amount \in Nat
         /\ current' > Limit => grants' = 1
         /\ \A d \in Callers \ {c} : ~CallAt(d, "commit")
<1>1. call[c].amount \in Nat
  <2>1. call[c] \in [pc : CallPCs, amount : Amounts \cup {0}]
    BY DEF QuotaInv, QuotaTypeOK
  <2>2. call[c].amount \in Amounts \cup {0}
    BY <2>1
  <2>3. \A a \in Amounts \cup {0} : a \in Nat
    BY QuotaAssumption
  <2> QED BY <2>2, <2>3
<1>2. \A d \in Callers \ {c} : ~CallAt(d, "commit")
  BY DEF QuotaInv, QuotaTypeOK, CallAt
<1> QED
  BY <1>1, <1>2, QuotaAssumption DEF QuotaInv, QuotaTypeOK, RowInv, QuotaRespected, WriteRow

\* Ending a call, with or without its write, keeps the invariant: what the
\* call is worth is added to granted or to leaked, or it was rolled back.
LEMMA WriterKeeps ==
  ASSUME QuotaInv, NEW c \in Callers, CommitRow(c) \/ QuotaFault(c)
  PROVE  QuotaInv'
<1>1. QuotaTypeOK /\ CallReturn(c) /\ UnlockRow(c)
  BY DEF CommitRow, QuotaFault, QuotaInv
<1>2. reservations' \in 0..MaxReservations /\ qfaults' \in 0..MaxQuotaFaults
  BY QuotaAssumption DEF QuotaInv, QuotaTypeOK, CommitRow, QuotaFault
<1>3. /\ call' \in [Callers -> [pc : CallPCs, amount : Amounts \cup {0}]]
      /\ locker' \in Callers \cup {NoCaller}
      /\ \A d \in Callers : call'[d].pc \in {"check", "commit"} <=> locker' = d
  BY <1>1, Returns
<1>4. call'[c].pc = "idle" /\ \A d \in Callers \ {c} : call'[d] = call[d]
  BY <1>1, Returns
<1>5. ASSUME CallAt(c, "commit"), WriteRow(c),
             \/ granted' = granted + call[c].amount /\ leaked' = leaked
             \/ leaked' = leaked + call[c].amount /\ granted' = granted
      PROVE  QuotaInv'
  <2>1. /\ exists' = TRUE /\ current' \in Nat /\ grants' \in Nat
        /\ current' = current + call[c].amount /\ call[c].amount \in Nat
        /\ current' > Limit => grants' = 1
        /\ \A d \in Callers \ {c} : ~CallAt(d, "commit")
    BY <1>5, Writes
  <2>2. granted \in Nat /\ leaked \in Nat /\ current = granted + leaked
    BY DEF QuotaInv, QuotaTypeOK, QuotaExact
  <2>3. granted' \in Nat /\ leaked' \in Nat /\ current' = granted' + leaked'
    BY <1>5, <2>1, <2>2
  <2>4. \A d \in Callers : call'[d].pc # "commit"
    BY <1>4, <2>1 DEF CallAt
  <2> QED
    BY <1>2, <1>3, <2>1, <2>3, <2>4
       DEF QuotaInv, QuotaTypeOK, RowInv, QuotaExact, QuotaRespected, CallAt
<1>6. ASSUME UNCHANGED <<exists, current, granted, leaked, grants>>
      PROVE  QuotaInv'
  <2>1. QuotaTypeOK'
    BY <1>2, <1>3, <1>6 DEF QuotaInv, QuotaTypeOK
  <2>2. RowInv'
    BY <1>4, <1>6 DEF QuotaInv, RowInv, CallAt
  <2> QED BY <1>6, <2>1, <2>2 DEF QuotaInv, QuotaExact, QuotaRespected
<1> QED BY <1>5, <1>6 DEF CommitRow, QuotaFault

LEMMA QuotaStep ==
  ASSUME QuotaInv, [QuotaNext]_quotaVars
  PROVE  QuotaInv'
<1>1. CASE UNCHANGED quotaVars
  BY <1>1 DEF quotaVars, QuotaInv, QuotaTypeOK, RowInv, QuotaExact, QuotaRespected, CallAt
<1>2. CASE QuotaNext
  BY <1>2, ReadersKeep, WriterKeeps DEF QuotaNext, CallStep
<1> QED BY <1>1, <1>2

\* The invariant holds in every reachable state.
THEOREM QuotaInvariant == QuotaSpec => []QuotaInv
BY QuotaInit_Inv, QuotaStep, PTL DEF QuotaSpec

\* The row accounts for every admission, however many callers compete for it
\* and whatever connections are lost.  (check_and_reserve_quota)
THEOREM QuotaIsExact == QuotaSpec => []QuotaExact
BY QuotaInvariant, PTL DEF QuotaInv

\* Only an unchecked first reservation passes the limit, for any limit and any
\* amounts.  (the INSERT branch of check_and_reserve_quota)
THEOREM QuotaIsRespected == QuotaSpec => []QuotaRespected
BY QuotaInvariant, PTL DEF QuotaInv

-----------------------------------------------------------------------------
(***************************************************************************)
(* The refinement of AtomicQuota.                                          *)
(***************************************************************************)

\* A call under way is for one of the amounts.  (requested_amount)
CallAmounts == \A c \in Callers : ~CallAt(c, "idle") => call[c].amount \in Amounts

\* The amount is passed once and kept until the call ends.
LEMMA AmountsKept ==
  ASSUME QuotaInv, CallAmounts, [QuotaNext]_quotaVars
  PROVE  CallAmounts'
<1>0. call \in [Callers -> [pc : CallPCs, amount : Amounts \cup {0}]]
  BY DEF QuotaInv, QuotaTypeOK
<1>1. ASSUME NEW c \in Callers, NEW p \in CallPCs, CallGoto(c, p), ~CallAt(c, "idle") PROVE CallAmounts'
  BY <1>0, <1>1 DEF CallGoto, CallAmounts, CallAt
<1>2. ASSUME NEW c \in Callers, CallReturn(c) PROVE CallAmounts'
  BY <1>0, <1>2 DEF CallReturn, CallAmounts, CallAt
<1>3. ASSUME NEW c \in Callers, NEW a \in Amounts, Reserve(c, a) PROVE CallAmounts'
  BY <1>0, <1>3 DEF Reserve, CallAmounts, CallAt
<1>4. ASSUME NEW c \in Callers, CallStep(c) \/ QuotaFault(c) PROVE CallAmounts'
  <2>1. CASE SelectRow(c)
    BY <1>1, <2>1 DEF SelectRow, CallAt, CallPCs
  <2>2. CASE InsertRow(c)
    BY <1>1, <1>2, <2>2 DEF InsertRow, CallAt, CallPCs
  <2>3. CASE CheckLimit(c)
    BY <1>1, <1>2, <2>3 DEF CheckLimit, CallAt, CallPCs
  <2>4. CASE CommitRow(c) \/ QuotaFault(c)
    BY <1>2, <2>4 DEF CommitRow, QuotaFault
  <2> QED BY <1>4, <2>1, <2>2, <2>3, <2>4 DEF CallStep
<1>5. CASE UNCHANGED quotaVars
  BY <1>5 DEF quotaVars, CallAmounts, CallAt
<1> QED BY <1>3, <1>4, <1>5 DEF QuotaNext

\* The write is the whole reservation: its commit is Admit, one whose
\* confirmation is lost is Lose, and every other statement is a stutter.
LEMMA QuotaStepIsOne ==
  ASSUME \A a \in Amounts : a <= Limit, QuotaInv, CallAmounts, [QuotaNext]_quotaVars
  PROVE  [OneStep!Next]_<<current, granted>>
<1>1. ASSUME NEW c \in Callers, CallAt(c, "commit"), WriteRow(c),
             granted' = granted + call[c].amount \/ UNCHANGED granted
      PROVE  OneStep!Next
  <2>1. call[c].amount \in Amounts
    BY <1>1 DEF CallAmounts, CallAt
  <2>2. current + call[c].amount <= Limit
    <3>1. CASE exists
      BY <1>1, <3>1 DEF QuotaInv, RowInv
    <3>2. CASE ~exists
      <4>1. current = 0 /\ call[c].amount \in Nat
        BY <2>1, <3>2, QuotaAssumption DEF QuotaInv, RowInv
      <4> QED BY <2>1, <4>1
    <3> QED BY <3>1, <3>2
  <2>3. OneStep!Take(call[c].amount)
    BY <1>1, <2>2 DEF OneStep!Take, WriteRow
  <2> QED
    BY <1>1, <2>1, <2>3 DEF OneStep!Next, OneStep!Admit, OneStep!Lose
<1>2. ASSUME NEW c \in Callers, CommitRow(c) PROVE OneStep!Next
  BY <1>1, <1>2 DEF CommitRow
<1>3. ASSUME NEW c \in Callers, QuotaFault(c)
      PROVE  OneStep!Next \/ UNCHANGED <<current, granted>>
  BY <1>1, <1>3 DEF QuotaFault
<1>4. ASSUME NEW c \in Callers, SelectRow(c) \/ InsertRow(c) \/ CheckLimit(c)
                                \/ \E a \in Amounts : Reserve(c, a)
      PROVE  UNCHANGED <<current, granted>>
  BY <1>4 DEF SelectRow, InsertRow, CheckLimit, Reserve
<1>5. CASE UNCHANGED quotaVars
  BY <1>5 DEF quotaVars
<1> QED BY <1>2, <1>3, <1>4, <1>5 DEF QuotaNext, CallStep

\* Reservations made statement by statement, by any number of callers and with
\* connections lost anywhere, are reservations that check and add in one step,
\* as long as no caller asks for more than the limit at once.  What the run
\* QuotaFirst breaks takes such an amount.  (check_and_reserve_quota)
THEOREM ReservationIsAtomic ==
  (\A a \in Amounts : a <= Limit) => (QuotaSpec => ReservesAtomically)
<1> SUFFICES ASSUME \A a \in Amounts : a <= Limit PROVE QuotaSpec => ReservesAtomically
  OBVIOUS
<1>1. QuotaInit => CallAmounts
  BY DEF QuotaInit, CallAmounts, CallAt
<1>2. QuotaInit => OneStep!Init
  BY DEF QuotaInit, OneStep!Init
<1>3. QuotaInv /\ CallAmounts /\ [QuotaNext]_quotaVars => CallAmounts'
  BY AmountsKept
<1>4. QuotaInv /\ CallAmounts /\ [QuotaNext]_quotaVars => [OneStep!Next]_<<current, granted>>
  BY QuotaStepIsOne
<1> QED
  BY <1>1, <1>2, <1>3, <1>4, QuotaInvariant, PTL DEF QuotaSpec, ReservesAtomically, OneStep!Spec
=============================================================================
