--------------------------- MODULE JobQueueProofs ---------------------------
(***************************************************************************)
(* Proofs about JobQueue, for any jobs, workers, store, concurrency and    *)
(* bounds.  Types first; then fencing: tokens are unique and a finished    *)
(* job was finished by its latest execution; then, for the tenant store,   *)
(* that terminal statuses are final and the queue implements FencedJobs;   *)
(* then which steps can undo an outcome, and what a worker that stops      *)
(* leaves behind.                                                          *)
(***************************************************************************)
EXTENDS JobQueue, FiniteSetTheorems, TLAPS

USE DEF Status, Finished, Terminal, Leases, Phases, PCs, Tokens, Thread, NoActive

\* The set of threads after one of them changes phase is still well typed.
LEMMA MovedType ==
  ASSUME threads \subseteq Thread, NEW t \in threads, NEW p \in Phases
  PROVE  Moved(t, p) \subseteq Thread
BY DEF Moved

\* A fenced write keeps the table well typed.
LEMMA MutateType ==
  ASSUME TableType, NEW j \in Jobs, NEW w, NEW g, NEW s \in Status,
         Mutate(j, w, g, s), threads' \subseteq Thread
  PROVE  TableType'
BY DEF TableType, Mutate

\* So does a claim, below the generation bound, confirmed or not.
LEMMA ClaimRowType ==
  ASSUME TableType, NEW w \in Workers, NEW j \in Jobs, gen[j] < MaxGen,
         ClaimRow(w, j) \/ (TakeRow(w, j) /\ UNCHANGED threads)
  PROVE  TableType'
BY BoundAssumption DEF TableType, ClaimRow, TakeRow

\* Every step of the queue and its workers keeps the state well typed.
THEOREM TypeCorrect == Spec => []TypeOK
<1>1. Init => TypeOK
  BY BoundAssumption DEF Init, TypeOK, TableType, ProcessType, PickedType
<1>2. TypeOK /\ [Next]_vars => TypeOK'
  <2> SUFFICES ASSUME TypeOK, [Next]_vars PROVE TypeOK'
    OBVIOUS
  <2>0. TableType /\ ProcessType /\ PickedType
    BY DEF TypeOK
  <2>1. ASSUME NEW j \in Jobs, Enqueue(j) PROVE TypeOK'
    <3>1. TableType'
      BY <2>0, <2>1, BoundAssumption DEF TableType, Enqueue
    <3>2. ProcessType'
      BY <2>0, <2>1 DEF ProcessType, Enqueue
    <3>3. PickedType'
      BY <2>0, <2>1 DEF PickedType, ProcessType, Enqueue
    <3> QED BY <3>1, <3>2, <3>3 DEF TypeOK
  <2>2. ASSUME NEW j \in Jobs, CancelJob(j) PROVE TypeOK'
    <3>1. TableType'
      BY <2>0, <2>2 DEF TableType, CancelJob
    <3>2. ProcessType'
      BY <2>0, <2>2 DEF ProcessType, CancelJob
    <3>3. PickedType'
      BY <2>0, <2>2 DEF PickedType, ProcessType, CancelJob
    <3> QED BY <3>1, <3>2, <3>3 DEF TypeOK
  <2>3. ASSUME NEW j \in Jobs, LeaseExpires(j) PROVE TypeOK'
    <3>1. TableType'
      BY <2>0, <2>3 DEF TableType, LeaseExpires
    <3>2. ProcessType'
      BY <2>0, <2>3 DEF ProcessType, LeaseExpires
    <3>3. PickedType'
      BY <2>0, <2>3 DEF PickedType, ProcessType, LeaseExpires
    <3> QED BY <3>1, <3>2, <3>3 DEF TypeOK
  <2>4. CASE Reconcile
    <3>1. TableType'
      BY <2>0, <2>4 DEF TableType, Reconcile
    <3>2. ProcessType'
      BY <2>0, <2>4 DEF ProcessType, Reconcile
    <3>3. PickedType'
      BY <2>0, <2>4 DEF PickedType, ProcessType, Reconcile
    <3> QED BY <3>1, <3>2, <3>3 DEF TypeOK
  <2>5. ASSUME NEW w \in Workers, Run(w) PROVE TypeOK'
    <3>1. TableType'
      BY <2>0, <2>5 DEF TableType, Run, jobs
    <3>2. ProcessType'
      BY <2>0, <2>5 DEF ProcessType, Run
    <3>3. PickedType'
      BY <2>0, <2>5 DEF PickedType, ProcessType, Run
    <3> QED BY <3>1, <3>2, <3>3 DEF TypeOK
  <2>6. ASSUME NEW w \in Workers, LoopTop(w) PROVE TypeOK'
    <3>1. TableType'
      BY <2>0, <2>6 DEF TableType, LoopTop, jobs
    <3>2. ProcessType'
      BY <2>0, <2>6 DEF ProcessType, LoopTop
    <3>3. PickedType'
      BY <2>0, <2>6 DEF PickedType, ProcessType, LoopTop
    <3> QED BY <3>1, <3>2, <3>3 DEF TypeOK
  <2>7. ASSUME NEW w \in Workers, NEW j \in Jobs, ClaimLocked(w, j) PROVE TypeOK'
    <3>1. TableType'
      BY <2>0, <2>7, ClaimRowType DEF ClaimLocked
    <3>2. ProcessType'
      BY <2>0, <2>7 DEF ProcessType, ClaimLocked
    <3>3. PickedType'
      BY <2>0, <2>7 DEF PickedType, ProcessType, ClaimLocked
    <3> QED BY <3>1, <3>2, <3>3 DEF TypeOK
  <2>8. ASSUME NEW w \in Workers, NEW j \in Jobs, ClaimSelect(w, j) PROVE TypeOK'
    <3>1. TableType'
      BY <2>0, <2>8 DEF TableType, ClaimSelect, jobs
    <3>2. ProcessType'
      BY <2>0, <2>8 DEF ProcessType, ClaimSelect
    <3>3. PickedType'
      BY <2>0, <2>8 DEF PickedType, ProcessType, ClaimSelect, TableType
    <3> QED BY <3>1, <3>2, <3>3 DEF TypeOK
  <2>9. ASSUME NEW w \in Workers, ClaimUpdate(w) PROVE TypeOK'
    <3>a. picked[w] \in Jobs \X (0..MaxGen) /\ picked[w][2] < MaxGen
      BY <2>0, <2>9 DEF PickedType, ClaimUpdate
    <3>b. picked[w][1] \in Jobs
      BY <3>a
    <3>1. TableType'
      BY <2>0, <2>9, <3>a, <3>b, ClaimRowType DEF TableType, ClaimUpdate, jobs
    <3>2. ProcessType'
      BY <2>0, <2>9 DEF ProcessType, ClaimUpdate
    <3>3. PickedType'
      BY <2>0, <2>9 DEF PickedType, ProcessType, ClaimUpdate
    <3> QED BY <3>1, <3>2, <3>3 DEF TypeOK
  <2>10. ASSUME NEW w \in Workers, ClaimNothing(w) PROVE TypeOK'
    <3>1. TableType'
      BY <2>0, <2>10 DEF TableType, ClaimNothing, jobs
    <3>2. ProcessType'
      BY <2>0, <2>10 DEF ProcessType, ClaimNothing
    <3>3. PickedType'
      BY <2>0, <2>10 DEF PickedType, ProcessType, ClaimNothing
    <3> QED BY <3>1, <3>2, <3>3 DEF TypeOK
  <2>11. ASSUME NEW w \in Workers, ClaimRaises(w) PROVE TypeOK'
    <3>1. TableType'
      <4>1. CASE UNCHANGED jobs
        BY <2>0, <2>11, <4>1 DEF TableType, ClaimRaises, jobs
      <4>2. ASSUME NEW j \in Jobs, Taking(w, j), TakeRow(w, j) PROVE TableType'
        BY <2>0, <2>11, <4>2, ClaimRowType DEF ClaimRaises, Taking
      <4> QED BY <2>11, <4>1, <4>2 DEF ClaimRaises
    <3>2. ProcessType'
      BY <2>0, <2>11 DEF ProcessType, ClaimRaises
    <3>3. PickedType'
      BY <2>0, <2>11 DEF PickedType, ProcessType, ClaimRaises
    <3> QED BY <3>1, <3>2, <3>3 DEF TypeOK
  <2>12. ASSUME NEW w \in Workers, NEW t \in threads, StartJob(w, t) PROVE TypeOK'
    <3>1. TableType'
      BY <2>0, <2>12, MovedType DEF TableType, StartJob, jobs
    <3>2. ProcessType'
      BY <2>0, <2>12, BoundAssumption DEF ProcessType, StartJob, TableType
    <3>3. PickedType'
      BY <2>0, <2>12 DEF PickedType, ProcessType, StartJob
    <3> QED BY <3>1, <3>2, <3>3 DEF TypeOK
  <2>13. ASSUME NEW w \in Workers, EndWait(w) PROVE TypeOK'
    <3>1. TableType'
      BY <2>0, <2>13 DEF TableType, EndWait, jobs
    <3>2. ProcessType'
      BY <2>0, <2>13, BoundAssumption DEF ProcessType, EndWait
    <3>3. PickedType'
      BY <2>0, <2>13 DEF PickedType, ProcessType, EndWait
    <3> QED BY <3>1, <3>2, <3>3 DEF TypeOK
  <2>14. ASSUME NEW w \in Workers, NEW j \in Jobs, ForceRelease(w, j) PROVE TypeOK'
    <3>1. TableType'
      BY <2>0, <2>14, MutateType DEF TableType, ForceRelease, jobs
    <3>2. ProcessType'
      BY <2>0, <2>14, BoundAssumption DEF ProcessType, ForceRelease
    <3>3. PickedType'
      BY <2>0, <2>14 DEF PickedType, ProcessType, ForceRelease
    <3> QED BY <3>1, <3>2, <3>3 DEF TypeOK
  <2>15. ASSUME NEW w \in Workers, Stop(w) PROVE TypeOK'
    <3>1. TableType'
      BY <2>0, <2>15 DEF TableType, Stop, jobs
    <3>2. ProcessType'
      BY <2>0, <2>15 DEF ProcessType, Stop
    <3>3. PickedType'
      BY <2>0, <2>15 DEF PickedType, ProcessType, Stop
    <3> QED BY <3>1, <3>2, <3>3 DEF TypeOK
  <2>16. ASSUME NEW w \in Workers, Exit(w) PROVE TypeOK'
    <3>1. TableType'
      BY <2>0, <2>16 DEF TableType, Exit, jobs
    <3>2. ProcessType'
      BY <2>0, <2>16, BoundAssumption DEF ProcessType, Exit
    <3>3. PickedType'
      BY <2>0, <2>16 DEF PickedType, ProcessType, Exit
    <3> QED BY <3>1, <3>2, <3>3 DEF TypeOK
  <2>17. ASSUME NEW w \in Workers, Sigterm(w) PROVE TypeOK'
    <3>1. TableType'
      BY <2>0, <2>17 DEF TableType, Sigterm, jobs
    <3>2. ProcessType'
      BY <2>0, <2>17, BoundAssumption DEF ProcessType, Sigterm
    <3>3. PickedType'
      BY <2>0, <2>17 DEF PickedType, ProcessType, Sigterm
    <3> QED BY <3>1, <3>2, <3>3 DEF TypeOK
  <2>18. ASSUME NEW w \in Workers, Crash(w) PROVE TypeOK'
    <3>1. TableType'
      BY <2>0, <2>18 DEF TableType, Crash, jobs, ThreadsOf
    <3>2. ProcessType'
      BY <2>0, <2>18, BoundAssumption DEF ProcessType, Crash
    <3>3. PickedType'
      BY <2>0, <2>18 DEF PickedType, ProcessType, Crash
    <3> QED BY <3>1, <3>2, <3>3 DEF TypeOK
  <2>19. ASSUME NEW t \in threads, RuntimeReturns(t) PROVE TypeOK'
    <3>1. TableType'
      BY <2>0, <2>19, MovedType DEF TableType, RuntimeReturns, jobs
    <3>2. ProcessType'
      BY <2>0, <2>19 DEF ProcessType, RuntimeReturns
    <3>3. PickedType'
      BY <2>0, <2>19 DEF PickedType, ProcessType, RuntimeReturns
    <3> QED BY <3>1, <3>2, <3>3 DEF TypeOK
  <2>20. ASSUME NEW t \in threads, RuntimeRaises(t) PROVE TypeOK'
    <3>1. TableType'
      BY <2>0, <2>20, MovedType DEF TableType, RuntimeRaises, jobs
    <3>2. ProcessType'
      BY <2>0, <2>20 DEF ProcessType, RuntimeRaises
    <3>3. PickedType'
      BY <2>0, <2>20 DEF PickedType, ProcessType, RuntimeRaises
    <3> QED BY <3>1, <3>2, <3>3 DEF TypeOK
  <2>21. ASSUME NEW t \in threads, MarkSucceeded(t) PROVE TypeOK'
    <3>a. t.job \in Jobs
      BY <2>0 DEF TableType
    <3>b. threads' \subseteq Thread
      BY <2>0, <2>21, MovedType DEF TableType, MarkSucceeded
    <3>1. TableType'
      BY <2>0, <2>21, <3>a, <3>b, MutateType DEF TableType, MarkSucceeded, jobs
    <3>2. ProcessType'
      BY <2>0, <2>21 DEF ProcessType, MarkSucceeded
    <3>3. PickedType'
      BY <2>0, <2>21 DEF PickedType, ProcessType, MarkSucceeded
    <3> QED BY <3>1, <3>2, <3>3 DEF TypeOK
  <2>22. ASSUME NEW t \in threads, MarkFailed(t) PROVE TypeOK'
    <3>a. t.job \in Jobs
      BY <2>0 DEF TableType
    <3>b. threads' \subseteq Thread
      BY <2>0, <2>22, MovedType DEF TableType, MarkFailed
    <3>1. TableType'
      BY <2>0, <2>22, <3>a, <3>b, MutateType DEF TableType, MarkFailed, jobs
    <3>2. ProcessType'
      BY <2>0, <2>22 DEF ProcessType, MarkFailed
    <3>3. PickedType'
      BY <2>0, <2>22 DEF PickedType, ProcessType, MarkFailed
    <3> QED BY <3>1, <3>2, <3>3 DEF TypeOK
  <2>23. ASSUME NEW t \in threads, Finish(t) PROVE TypeOK'
    <3>1. TableType'
      BY <2>0, <2>23 DEF TableType, Finish, jobs
    <3>2. ProcessType'
      BY <2>0, <2>23, BoundAssumption DEF ProcessType, Finish, TableType
    <3>3. PickedType'
      BY <2>0, <2>23 DEF PickedType, ProcessType, Finish
    <3> QED BY <3>1, <3>2, <3>3 DEF TypeOK
  <2>24. ASSUME NEW t \in threads, RenewLease(t) PROVE TypeOK'
    <3>1. TableType'
      BY <2>0, <2>24 DEF TableType, RenewLease
    <3>2. ProcessType'
      BY <2>0, <2>24 DEF ProcessType, RenewLease
    <3>3. PickedType'
      BY <2>0, <2>24 DEF PickedType, ProcessType, RenewLease
    <3> QED BY <3>1, <3>2, <3>3 DEF TypeOK
  <2>25. CASE UNCHANGED vars
    BY <2>0, <2>25 DEF vars, jobs, TypeOK, TableType, ProcessType, PickedType
  <2> QED
    BY <2>1, <2>2, <2>3, <2>4, <2>5, <2>6, <2>7, <2>8, <2>9, <2>10, <2>11, <2>12, <2>13, <2>14, <2>15, <2>16, <2>17, <2>18, <2>19, <2>20, <2>21, <2>22, <2>23, <2>24, <2>25
       DEF Next, TableStep, MainStep, Disrupt, ThreadStep
<1> QED BY <1>1, <1>2, PTL DEF Spec

-----------------------------------------------------------------------------
(***************************************************************************)
(* Fencing.  Tokens are unique because a claim issues gen + 1 and no live  *)
(* token exceeds gen; a finished job was finished by its latest execution  *)
(* because the fenced write is accepted only from the current token, whose *)
(* one holder then leaves.                                                 *)
(***************************************************************************)
Fencing == TokensUnique /\ FinishedByLatest /\ TokensIssued
USE DEF Fencing

\* Moving one thread between phases that are not "pop" disturbs nothing as
\* long as its row is not finished under its token.
LEMMA MovedFencing ==
  ASSUME TableType, Fencing, NEW t \in threads, NEW p \in Phases,
         threads' = Moved(t, p), UNCHANGED gen,
         \A j \in Jobs : status'[j] = status[j] \/ status'[j] \notin Finished,
         t.phase \notin {"fail", "pop"} \/ p = "pop"
  PROVE  Fencing'
<1> DEFINE m == [worker |-> t.worker, job |-> t.job, token |-> t.token, phase |-> p]
<1>1. threads' = (threads \ {t}) \cup {m}
  BY DEF Moved
<1>2. t \in Thread /\ m.job = t.job /\ m.token = t.token /\ m.phase = p
  BY DEF TableType
<1> HIDE DEF m
<1>3. TokensUnique'
  BY <1>1, <1>2 DEF TokensUnique
<1>4. TokensIssued'
  BY <1>1, <1>2 DEF TokensIssued
<1>5. FinishedByLatest'
  BY <1>1, <1>2 DEF FinishedByLatest, Unconfirmed, TableType
<1> QED BY <1>3, <1>4, <1>5

\* A fenced outcome is accepted only from the one holder of the current
\* token, and that holder has nothing more to write, unless it was not told.
LEMMA OutcomeFencing ==
  ASSUME TableType, Fencing, NEW t \in threads, NEW s \in Status, NEW p,
         t.phase # "pop",
         \/ p = "pop"
         \/ p = "fail" /\ t.phase = "succeed" /\ s = "SUCCEEDED" /\ StoreFaults,
         Mutate(t.job, t.worker, t.token, s), threads' = Moved(t, p)
  PROVE  Fencing'
<1> DEFINE m == [worker |-> t.worker, job |-> t.job, token |-> t.token, phase |-> p]
<1>1. threads' = (threads \ {t}) \cup {m}
  BY DEF Moved
<1>2. t \in Thread /\ m.job = t.job /\ m.token = t.token /\ m.phase = p
  BY DEF TableType
<1> HIDE DEF m
<1>3. TokensUnique'
  BY <1>1, <1>2 DEF TokensUnique
<1>4. TokensIssued'
  BY <1>1, <1>2 DEF TokensIssued, Mutate
<1>5. FinishedByLatest'
  <2> SUFFICES ASSUME NEW u \in threads', u.token = gen[u.job],
                      status'[u.job] \in Finished
               PROVE  u.phase = "pop" \/ Unconfirmed(u)'
    BY DEF FinishedByLatest, Mutate
  <2>0. CASE u = m
    <3>1. CASE Fenced(t.job, t.worker, t.token)
      BY <1>2, <2>0, <3>1 DEF Mutate, Unconfirmed, TableType
    <3>2. CASE ~Fenced(t.job, t.worker, t.token)
      BY <1>2, <2>0, <3>2 DEF Mutate, FinishedByLatest, Unconfirmed
    <3> QED BY <3>1, <3>2
  <2> SUFFICES ASSUME u # m PROVE u.phase = "pop" \/ Unconfirmed(u)'
    BY <2>0
  <2>1. u \in threads /\ u # t /\ u.job \in Jobs
    BY <1>1 DEF TableType
  <2>2. CASE status'[u.job] = status[u.job]
    BY <2>1, <2>2 DEF FinishedByLatest, Unconfirmed
  <2>3. CASE status'[u.job] # status[u.job]
    <3>1. u.job = t.job /\ gen[t.job] = t.token
      BY <1>2, <2>1, <2>3 DEF Mutate, Fenced, TableType
    <3> QED BY <2>1, <3>1 DEF TokensUnique
  <2> QED BY <2>2, <2>3
<1> QED BY <1>3, <1>4, <1>5

\* So does the UPDATE of a claim nobody was told of: its token is held by no
\* thread.
LEMMA TakeFencing ==
  ASSUME TableType, Fencing, NEW w \in Workers, NEW j \in Jobs, TakeRow(w, j), UNCHANGED threads
  PROVE  Fencing'
<1>1. /\ gen[j] \in Nat /\ gen'[j] = gen[j] + 1 /\ status'[j] = "RUNNING"
      /\ \A k \in Jobs : k # j => gen'[k] = gen[k] /\ status'[k] = status[k]
  BY DEF TakeRow, TableType
<1>2. \A t \in threads : t.job \in Jobs /\ t.token \in Nat /\ t.token <= gen[t.job]
  BY BoundAssumption DEF TokensIssued, TableType
<1>3. TokensUnique'
  BY DEF TokensUnique
<1>4. TokensIssued'
  <2> SUFFICES ASSUME NEW t \in threads PROVE t.token <= gen'[t.job]
    BY DEF TokensIssued
  <2>1. gen[t.job] \in Nat
    BY <1>2 DEF TableType
  <2> QED BY <1>1, <1>2, <2>1
<1>5. FinishedByLatest'
  BY <1>1, <1>2 DEF FinishedByLatest, Unconfirmed
<1> QED BY <1>3, <1>4, <1>5

\* A claim issues a token above every live one and reopens the row.
LEMMA ClaimFencing ==
  ASSUME TableType, Fencing, NEW w \in Workers, NEW j \in Jobs, ClaimRow(w, j)
  PROVE  Fencing'
<1> DEFINE n == [worker |-> w, job |-> j, token |-> gen[j] + 1, phase |-> "claimed"]
<1>1. threads' = threads \cup {n}
  BY DEF ClaimRow
<1>2. n.job = j /\ n.token = gen[j] + 1
  OBVIOUS
<1> HIDE DEF n
<1>3. /\ gen[j] \in Nat /\ gen'[j] = gen[j] + 1 /\ status'[j] = "RUNNING"
      /\ \A k \in Jobs : k # j => gen'[k] = gen[k] /\ status'[k] = status[k]
  BY DEF ClaimRow, TakeRow, TableType
<1>4. \A t \in threads : t.job \in Jobs /\ t.token \in Nat /\ t.token <= gen[t.job]
  BY BoundAssumption DEF TokensIssued, TableType
<1>5. TokensUnique'
  BY <1>1, <1>2, <1>3, <1>4 DEF TokensUnique
<1>6. TokensIssued'
  <2> SUFFICES ASSUME NEW t \in threads' PROVE t.token <= gen'[t.job]
    BY DEF TokensIssued
  <2>1. CASE t = n
    BY <1>2, <1>3, <2>1
  <2>2. CASE t \in threads
    <3>1. gen[t.job] \in Nat
      BY <1>4, <2>2 DEF TableType
    <3> QED BY <1>3, <1>4, <2>2, <3>1
  <2> QED BY <1>1, <2>1, <2>2
<1>7. FinishedByLatest'
  BY <1>1, <1>2, <1>3, <1>4 DEF FinishedByLatest, Unconfirmed
<1> QED BY <1>5, <1>6, <1>7

\* Removing threads, and statuses that move to no finished one, disturb nothing.
LEMMA FewerFencing ==
  ASSUME TableType, Fencing, threads' \subseteq threads, UNCHANGED gen,
         \A j \in Jobs : status'[j] = status[j] \/ status'[j] \notin Finished
  PROVE  Fencing'
BY DEF TokensUnique, FinishedByLatest, Unconfirmed, TokensIssued, TableType

\* No step breaks the inductive invariant.
LEMMA FencingStep ==
  ASSUME TypeOK, FencingInv, [Next]_vars
  PROVE  FencingInv'
<1>0. TableType /\ ProcessType /\ PickedType /\ Fencing /\ AbsentFresh /\ SelectedSqlite
  BY DEF TypeOK, FencingInv
<1>1. ASSUME NEW j \in Jobs, Enqueue(j) PROVE FencingInv'
  <2>a. gen' = gen
    BY <1>0, <1>1 DEF Enqueue, AbsentFresh, TableType
  <2>1. Fencing'
    BY <1>0, <1>1, <2>a, FewerFencing DEF Enqueue, TableType
  <2>2. AbsentFresh'
    BY <1>0, <1>1 DEF AbsentFresh, Enqueue, jobs, TableType
  <2>3. SelectedSqlite'
    BY <1>0, <1>1 DEF SelectedSqlite, Enqueue, ProcessType
  <2> QED BY <2>1, <2>2, <2>3 DEF FencingInv
<1>2. ASSUME NEW j \in Jobs, CancelJob(j) PROVE FencingInv'
  <2>1. Fencing'
    BY <1>0, <1>2, FewerFencing DEF CancelJob, jobs, TableType
  <2>2. AbsentFresh'
    BY <1>0, <1>2 DEF AbsentFresh, CancelJob, jobs, TableType
  <2>3. SelectedSqlite'
    BY <1>0, <1>2 DEF SelectedSqlite, CancelJob, ProcessType
  <2> QED BY <2>1, <2>2, <2>3 DEF FencingInv
<1>3. ASSUME NEW j \in Jobs, LeaseExpires(j) PROVE FencingInv'
  <2>1. Fencing'
    BY <1>0, <1>3, FewerFencing DEF LeaseExpires, jobs, TableType
  <2>2. AbsentFresh'
    BY <1>0, <1>3 DEF AbsentFresh, LeaseExpires, jobs, TableType
  <2>3. SelectedSqlite'
    BY <1>0, <1>3 DEF SelectedSqlite, LeaseExpires, ProcessType
  <2> QED BY <2>1, <2>2, <2>3 DEF FencingInv
<1>4. CASE Reconcile
  <2>1. Fencing'
    BY <1>0, <1>4, FewerFencing DEF Reconcile, jobs, TableType
  <2>2. AbsentFresh'
    BY <1>0, <1>4 DEF AbsentFresh, Reconcile, jobs, TableType
  <2>3. SelectedSqlite'
    BY <1>0, <1>4 DEF SelectedSqlite, Reconcile, ProcessType
  <2> QED BY <2>1, <2>2, <2>3 DEF FencingInv
<1>5. ASSUME NEW w \in Workers, Run(w) PROVE FencingInv'
  <2>1. Fencing'
    BY <1>0, <1>5, FewerFencing DEF Run, jobs, TableType
  <2>2. AbsentFresh'
    BY <1>0, <1>5 DEF AbsentFresh, Run, jobs, TableType
  <2>3. SelectedSqlite'
    BY <1>0, <1>5 DEF SelectedSqlite, Run, ProcessType
  <2> QED BY <2>1, <2>2, <2>3 DEF FencingInv
<1>6. ASSUME NEW w \in Workers, LoopTop(w) PROVE FencingInv'
  <2>1. Fencing'
    BY <1>0, <1>6, FewerFencing DEF LoopTop, jobs, TableType
  <2>2. AbsentFresh'
    BY <1>0, <1>6 DEF AbsentFresh, LoopTop, jobs, TableType
  <2>3. SelectedSqlite'
    BY <1>0, <1>6 DEF SelectedSqlite, LoopTop, ProcessType
  <2> QED BY <2>1, <2>2, <2>3 DEF FencingInv
<1>7. ASSUME NEW w \in Workers, NEW j \in Jobs, ClaimLocked(w, j) PROVE FencingInv'
  <2>1. Fencing'
    BY <1>0, <1>7, ClaimFencing DEF ClaimLocked
  <2>2. AbsentFresh'
    BY <1>0, <1>7 DEF AbsentFresh, ClaimLocked, ClaimRow, TakeRow, TableType
  <2>3. SelectedSqlite'
    BY <1>0, <1>7 DEF SelectedSqlite, ClaimLocked, ProcessType
  <2> QED BY <2>1, <2>2, <2>3 DEF FencingInv
<1>8. ASSUME NEW w \in Workers, NEW j \in Jobs, ClaimSelect(w, j) PROVE FencingInv'
  <2>1. Fencing'
    BY <1>0, <1>8, FewerFencing DEF ClaimSelect, jobs, TableType
  <2>2. AbsentFresh'
    BY <1>0, <1>8 DEF AbsentFresh, ClaimSelect, jobs, TableType
  <2>3. SelectedSqlite'
    BY <1>0, <1>8 DEF SelectedSqlite, ClaimSelect, ProcessType
  <2> QED BY <2>1, <2>2, <2>3 DEF FencingInv
<1>9. ASSUME NEW w \in Workers, ClaimUpdate(w) PROVE FencingInv'
  <2>a. picked[w][1] \in Jobs
    BY <1>0, <1>9 DEF PickedType, ClaimUpdate
  <2>1. Fencing'
    BY <1>0, <1>9, <2>a, ClaimFencing, FewerFencing DEF ClaimUpdate, jobs
  <2>2. AbsentFresh'
    BY <1>0, <1>9, <2>a DEF AbsentFresh, ClaimUpdate, ClaimRow, TakeRow, jobs, TableType
  <2>3. SelectedSqlite'
    BY <1>0, <1>9 DEF SelectedSqlite, ClaimUpdate, ProcessType
  <2> QED BY <2>1, <2>2, <2>3 DEF FencingInv
<1>10. ASSUME NEW w \in Workers, ClaimNothing(w) PROVE FencingInv'
  <2>1. Fencing'
    BY <1>0, <1>10, FewerFencing DEF ClaimNothing, jobs, TableType
  <2>2. AbsentFresh'
    BY <1>0, <1>10 DEF AbsentFresh, ClaimNothing, jobs, TableType
  <2>3. SelectedSqlite'
    BY <1>0, <1>10 DEF SelectedSqlite, ClaimNothing, ProcessType
  <2> QED BY <2>1, <2>2, <2>3 DEF FencingInv
<1>11. ASSUME NEW w \in Workers, ClaimRaises(w) PROVE FencingInv'
  <2>1. Fencing'
    <3>1. CASE UNCHANGED jobs
      BY <1>0, <1>11, <3>1, FewerFencing DEF ClaimRaises, jobs, TableType
    <3>2. ASSUME NEW j \in Jobs, TakeRow(w, j) PROVE Fencing'
      BY <1>0, <1>11, <3>2, TakeFencing DEF ClaimRaises
    <3> QED BY <1>11, <3>1, <3>2 DEF ClaimRaises
  <2>2. AbsentFresh'
    BY <1>0, <1>11 DEF AbsentFresh, ClaimRaises, TakeRow, jobs, TableType
  <2>3. SelectedSqlite'
    BY <1>0, <1>11 DEF SelectedSqlite, ClaimRaises, ProcessType
  <2> QED BY <2>1, <2>2, <2>3 DEF FencingInv
<1>12. ASSUME NEW w \in Workers, NEW t \in threads, StartJob(w, t) PROVE FencingInv'
  <2>1. Fencing'
    BY <1>0, <1>12, MovedFencing DEF StartJob, jobs
  <2>2. AbsentFresh'
    BY <1>0, <1>12 DEF AbsentFresh, StartJob, jobs, TableType
  <2>3. SelectedSqlite'
    BY <1>0, <1>12 DEF SelectedSqlite, StartJob, ProcessType
  <2> QED BY <2>1, <2>2, <2>3 DEF FencingInv
<1>13. ASSUME NEW w \in Workers, EndWait(w) PROVE FencingInv'
  <2>1. Fencing'
    BY <1>0, <1>13, FewerFencing DEF EndWait, jobs, TableType
  <2>2. AbsentFresh'
    BY <1>0, <1>13 DEF AbsentFresh, EndWait, jobs, TableType
  <2>3. SelectedSqlite'
    BY <1>0, <1>13 DEF SelectedSqlite, EndWait, ProcessType
  <2> QED BY <2>1, <2>2, <2>3 DEF FencingInv
<1>14. ASSUME NEW w \in Workers, NEW j \in Jobs, ForceRelease(w, j) PROVE FencingInv'
  <2>a. snap[w][j] \in 1..MaxGen
    BY <1>0, <1>14, BoundAssumption DEF ForceRelease, ProcessType
  <2>1. Fencing'
    BY <1>0, <1>14, FewerFencing DEF ForceRelease, Mutate, jobs, TableType
  <2>2. AbsentFresh'
    BY <1>0, <1>14, <2>a DEF AbsentFresh, ForceRelease, Mutate, Fenced, jobs, TableType
  <2>3. SelectedSqlite'
    BY <1>0, <1>14 DEF SelectedSqlite, ForceRelease, ProcessType
  <2> QED BY <2>1, <2>2, <2>3 DEF FencingInv
<1>15. ASSUME NEW w \in Workers, Stop(w) PROVE FencingInv'
  <2>1. Fencing'
    BY <1>0, <1>15, FewerFencing DEF Stop, jobs, TableType
  <2>2. AbsentFresh'
    BY <1>0, <1>15 DEF AbsentFresh, Stop, jobs, TableType
  <2>3. SelectedSqlite'
    BY <1>0, <1>15 DEF SelectedSqlite, Stop, ProcessType
  <2> QED BY <2>1, <2>2, <2>3 DEF FencingInv
<1>16. ASSUME NEW w \in Workers, Exit(w) PROVE FencingInv'
  <2>1. Fencing'
    BY <1>0, <1>16, FewerFencing DEF Exit, jobs, TableType
  <2>2. AbsentFresh'
    BY <1>0, <1>16 DEF AbsentFresh, Exit, jobs, TableType
  <2>3. SelectedSqlite'
    BY <1>0, <1>16 DEF SelectedSqlite, Exit, ProcessType
  <2> QED BY <2>1, <2>2, <2>3 DEF FencingInv
<1>17. ASSUME NEW w \in Workers, Sigterm(w) PROVE FencingInv'
  <2>1. Fencing'
    BY <1>0, <1>17, FewerFencing DEF Sigterm, jobs, TableType
  <2>2. AbsentFresh'
    BY <1>0, <1>17 DEF AbsentFresh, Sigterm, jobs, TableType
  <2>3. SelectedSqlite'
    BY <1>0, <1>17 DEF SelectedSqlite, Sigterm, ProcessType
  <2> QED BY <2>1, <2>2, <2>3 DEF FencingInv
<1>18. ASSUME NEW w \in Workers, Crash(w) PROVE FencingInv'
  <2>1. Fencing'
    BY <1>0, <1>18, FewerFencing DEF Crash, jobs, ThreadsOf, TableType
  <2>2. AbsentFresh'
    BY <1>0, <1>18 DEF AbsentFresh, Crash, jobs, TableType
  <2>3. SelectedSqlite'
    BY <1>0, <1>18 DEF SelectedSqlite, Crash, ProcessType
  <2> QED BY <2>1, <2>2, <2>3 DEF FencingInv
<1>19. ASSUME NEW t \in threads, RuntimeReturns(t) PROVE FencingInv'
  <2>1. Fencing'
    BY <1>0, <1>19, MovedFencing DEF RuntimeReturns, jobs
  <2>2. AbsentFresh'
    BY <1>0, <1>19 DEF AbsentFresh, RuntimeReturns, jobs, TableType
  <2>3. SelectedSqlite'
    BY <1>0, <1>19 DEF SelectedSqlite, RuntimeReturns, ProcessType
  <2> QED BY <2>1, <2>2, <2>3 DEF FencingInv
<1>20. ASSUME NEW t \in threads, RuntimeRaises(t) PROVE FencingInv'
  <2>1. Fencing'
    BY <1>0, <1>20, MovedFencing DEF RuntimeRaises, jobs
  <2>2. AbsentFresh'
    BY <1>0, <1>20 DEF AbsentFresh, RuntimeRaises, jobs, TableType
  <2>3. SelectedSqlite'
    BY <1>0, <1>20 DEF SelectedSqlite, RuntimeRaises, ProcessType
  <2> QED BY <2>1, <2>2, <2>3 DEF FencingInv
<1>21. ASSUME NEW t \in threads, MarkSucceeded(t) PROVE FencingInv'
  <2>a. t.job \in Jobs /\ t.token \in Nat \ {0}
    BY <1>0, <1>21, BoundAssumption DEF TableType
  <2>1. Fencing'
    <3>1. CASE UNCHANGED jobs
      BY <1>0, <1>21, <3>1, MovedFencing DEF MarkSucceeded, jobs
    <3>2. CASE ~UNCHANGED jobs
      <4>1. /\ t.phase = "succeed" /\ Mutate(t.job, t.worker, t.token, "SUCCEEDED")
            /\ threads' = Moved(t, "pop") \/ (StoreFaults /\ threads' = Moved(t, "fail"))
        BY <1>21, <3>2 DEF MarkSucceeded
      <4>2. CASE threads' = Moved(t, "pop")
        BY <1>0, <4>1, <4>2, OutcomeFencing
      <4>3. CASE StoreFaults /\ threads' = Moved(t, "fail")
        BY <1>0, <4>1, <4>3, OutcomeFencing
      <4> QED BY <4>1, <4>2, <4>3
    <3> QED BY <3>1, <3>2
  <2>2. AbsentFresh'
    BY <1>0, <1>21, <2>a DEF AbsentFresh, MarkSucceeded, Mutate, Fenced, jobs, TableType
  <2>3. SelectedSqlite'
    BY <1>0, <1>21 DEF SelectedSqlite, MarkSucceeded, ProcessType
  <2> QED BY <2>1, <2>2, <2>3 DEF FencingInv
<1>22. ASSUME NEW t \in threads, MarkFailed(t) PROVE FencingInv'
  <2>a. t.job \in Jobs /\ t.token \in Nat \ {0}
    BY <1>0, <1>22, BoundAssumption DEF TableType
  <2>1. Fencing'
    <3>1. CASE UNCHANGED jobs
      BY <1>0, <1>22, <3>1, MovedFencing DEF MarkFailed, jobs
    <3>2. CASE ~UNCHANGED jobs
      BY <1>0, <1>22, <3>2, OutcomeFencing DEF MarkFailed
    <3> QED BY <3>1, <3>2
  <2>2. AbsentFresh'
    BY <1>0, <1>22, <2>a DEF AbsentFresh, MarkFailed, Mutate, Fenced, jobs, TableType
  <2>3. SelectedSqlite'
    BY <1>0, <1>22 DEF SelectedSqlite, MarkFailed, ProcessType
  <2> QED BY <2>1, <2>2, <2>3 DEF FencingInv
<1>23. ASSUME NEW t \in threads, Finish(t) PROVE FencingInv'
  <2>1. Fencing'
    BY <1>0, <1>23, FewerFencing DEF Finish, jobs, TableType
  <2>2. AbsentFresh'
    BY <1>0, <1>23 DEF AbsentFresh, Finish, jobs, TableType
  <2>3. SelectedSqlite'
    BY <1>0, <1>23 DEF SelectedSqlite, Finish, ProcessType
  <2> QED BY <2>1, <2>2, <2>3 DEF FencingInv
<1>24. ASSUME NEW t \in threads, RenewLease(t) PROVE FencingInv'
  <2>1. Fencing'
    BY <1>0, <1>24, FewerFencing DEF RenewLease, jobs, TableType
  <2>2. AbsentFresh'
    BY <1>0, <1>24 DEF AbsentFresh, RenewLease, jobs, TableType
  <2>3. SelectedSqlite'
    BY <1>0, <1>24 DEF SelectedSqlite, RenewLease, ProcessType
  <2> QED BY <2>1, <2>2, <2>3 DEF FencingInv
<1>25. CASE UNCHANGED vars
  BY <1>0, <1>25 DEF FencingInv, TokensUnique, FinishedByLatest, Unconfirmed, TokensIssued,
     AbsentFresh, SelectedSqlite, vars, jobs
<1> QED
  BY <1>1, <1>2, <1>3, <1>4, <1>5, <1>6, <1>7, <1>8, <1>9, <1>10, <1>11, <1>12, <1>13, <1>14, <1>15, <1>16, <1>17, <1>18, <1>19, <1>20, <1>21, <1>22, <1>23, <1>24, <1>25
     DEF Next, TableStep, MainStep, Disrupt, ThreadStep

\* The fencing invariant holds in every reachable state of every instance.
THEOREM FencingCorrect == Spec => []FencingInv
<1>1. Init => FencingInv
  BY DEF Init, FencingInv, TokensUnique, FinishedByLatest, TokensIssued,
         AbsentFresh, SelectedSqlite
<1>2. TypeOK /\ FencingInv /\ [Next]_vars => FencingInv'
  BY FencingStep
<1> QED BY <1>1, <1>2, TypeCorrect, PTL DEF Spec

\* No two executions of a job ever share a fencing token (the claim in the
\* three stores).
THEOREM TokensAreUnique == Spec => []TokensUnique
<1>1. FencingInv => TokensUnique
  BY DEF FencingInv
<1> QED BY <1>1, FencingCorrect, PTL

\* A job that says SUCCEEDED or FAILED was finished by the latest execution:
\* the holder of its current token has nothing left to write, or only the
\* FAILED write after its own success was committed and not confirmed (the
\* fenced mutation).
THEOREM LatestFinishes == Spec => []FinishedByLatest
<1>1. FencingInv => FinishedByLatest
  BY DEF FencingInv
<1> QED BY <1>1, FencingCorrect, PTL

-----------------------------------------------------------------------------
(***************************************************************************)
(* The tenant store.  Its fenced write also requires status = 'RUNNING',   *)
(* its claim is one locked transaction and nothing erases an owner, so a   *)
(* terminal status is final and the queue implements FencedJobs.           *)
(***************************************************************************)
\* A fenced write under the tenant store is the end of a grant, or nothing.
LEMMA TenantMutate ==
  ASSUME Store = "tenant", TableType, NEW j \in Jobs, NEW w, NEW g,
         NEW s \in {"SUCCEEDED", "FAILED", "READY"}, Mutate(j, w, g, s)
  PROVE  Abstract!End(j) \/ UNCHANGED <<status, gen>>
BY DEF Mutate, Fenced, Abstract!End, Abstract!Become, TableType

\* Every step under the tenant store is a step of the abstract queue, or
\* leaves its two variables alone.
LEMMA TenantStep ==
  ASSUME Store = "tenant", TypeOK, FencingInv, [Next]_vars
  PROVE  [Abstract!Next]_<<status, gen>>
<1>0. TableType /\ PickedType /\ AbsentFresh /\ SelectedSqlite
  BY DEF TypeOK, FencingInv
<1>1. ASSUME NEW j \in Jobs, Enqueue(j) PROVE Abstract!Post(j)
  BY <1>0, <1>1 DEF Enqueue, AbsentFresh, TableType, Abstract!Post, Abstract!Become
<1>2. ASSUME NEW j \in Jobs, CancelJob(j) PROVE Abstract!Cancel(j)
  BY <1>0, <1>2 DEF CancelJob, TableType, Abstract!Cancel, Abstract!Become
<1>3. ASSUME NEW w \in Workers, NEW j \in Jobs, ClaimLocked(w, j)
      PROVE  Abstract!Grant(j)
  BY <1>0, <1>3 DEF ClaimLocked, ClaimRow, TakeRow, Claimable, Abstract!Grant, Abstract!Become
<1>14. ASSUME NEW w \in Workers, ClaimRaises(w)
       PROVE  (\E j \in Jobs : Abstract!Grant(j)) \/ UNCHANGED <<status, gen>>
  <2>1. ASSUME NEW j \in Jobs, Taking(w, j), TakeRow(w, j) PROVE Abstract!Grant(j)
    BY <1>0, <2>1 DEF Taking, TakeRow, Claimable, SelectedSqlite, Abstract!Grant, Abstract!Become
  <2> QED BY <1>14, <2>1 DEF ClaimRaises, jobs
<1>4. ASSUME NEW w \in Workers, ClaimUpdate(w) PROVE FALSE
  BY <1>0, <1>4 DEF ClaimUpdate, SelectedSqlite
<1>5. ASSUME Reconcile PROVE FALSE
  BY <1>5 DEF Reconcile
<1>6. ASSUME NEW w \in Workers, NEW j \in Jobs, ForceRelease(w, j)
      PROVE  Abstract!End(j) \/ UNCHANGED <<status, gen>>
  BY <1>0, <1>6, TenantMutate DEF ForceRelease, jobs
<1>7. ASSUME NEW t \in threads, MarkSucceeded(t) \/ MarkFailed(t)
      PROVE  t.job \in Jobs /\ (Abstract!End(t.job) \/ UNCHANGED <<status, gen>>)
  <2>1. t.job \in Jobs
    BY <1>0 DEF TableType
  <2> QED BY <1>0, <1>7, <2>1, TenantMutate DEF MarkSucceeded, MarkFailed, jobs
<1>8. ASSUME NEW j \in Jobs, LeaseExpires(j) PROVE UNCHANGED <<status, gen>>
  BY <1>8 DEF LeaseExpires
<1>9. ASSUME NEW w \in Workers,
             \/ Run(w) \/ LoopTop(w) \/ ClaimNothing(w) \/ EndWait(w)
             \/ Stop(w) \/ Exit(w) \/ Sigterm(w) \/ Crash(w)
      PROVE  UNCHANGED <<status, gen>>
  BY <1>9 DEF Run, LoopTop, ClaimNothing, EndWait, Stop, Exit,
              Sigterm, Crash, jobs
<1>10. ASSUME NEW w \in Workers, NEW j \in Jobs, ClaimSelect(w, j)
       PROVE  UNCHANGED <<status, gen>>
  BY <1>10 DEF ClaimSelect, jobs
<1>11. ASSUME NEW w \in Workers, NEW t \in threads, StartJob(w, t)
       PROVE  UNCHANGED <<status, gen>>
  BY <1>11 DEF StartJob, jobs
<1>12. ASSUME NEW t \in threads,
              RuntimeReturns(t) \/ RuntimeRaises(t) \/ Finish(t) \/ RenewLease(t)
       PROVE  UNCHANGED <<status, gen>>
  BY <1>12 DEF RuntimeReturns, RuntimeRaises, Finish, RenewLease, jobs
<1>13. CASE UNCHANGED vars
  BY <1>13 DEF vars, jobs
<1> QED
  BY <1>1, <1>2, <1>3, <1>4, <1>5, <1>6, <1>7, <1>8, <1>9, <1>10, <1>11, <1>12, <1>13, <1>14
     DEF Next, TableStep, MainStep, Disrupt, ThreadStep, Abstract!Next

\* Over the tenant store the queue and its workers, with their crashes,
\* drains, expiries and late writes, implement the abstract queue.
THEOREM TenantImplements == Store = "tenant" /\ Spec => AbstractSpec
<1> SUFFICES ASSUME Store = "tenant" PROVE Spec => AbstractSpec
  OBVIOUS
<1>1. Init => Abstract!Init
  BY DEF Init, Abstract!Init
<1>2. TypeOK /\ FencingInv /\ [Next]_vars => [Abstract!Next]_<<status, gen>>
  BY TenantStep
<1> QED
  BY <1>1, <1>2, TypeCorrect, FencingCorrect, PTL
     DEF Spec, AbstractSpec, Abstract!Spec

\* Over the tenant store no step takes a job out of SUCCEEDED, FAILED or
\* CANCELLED (mutate_job_scoped, cancel_job, claim_job_scoped).
THEOREM TenantTerminal == Store = "tenant" /\ Spec => TerminalStable
<1> SUFFICES ASSUME Store = "tenant" PROVE Spec => TerminalStable
  OBVIOUS
<1>1. TypeOK /\ FencingInv /\ [Next]_vars
      => [\A j \in Jobs : status[j] \in Terminal => status'[j] = status[j]]_vars
  <2> SUFFICES ASSUME TypeOK, FencingInv, [Next]_vars, NEW j \in Jobs,
                      status[j] \in Terminal
               PROVE  status'[j] = status[j]
    OBVIOUS
  <2>1. [Abstract!Next]_<<status, gen>>
    BY TenantStep
  <2>2. status \in [Jobs -> Status]
    BY DEF TypeOK, TableType
  <2> QED
    BY <2>1, <2>2 DEF Abstract!Next, Abstract!Post, Abstract!Grant, Abstract!End,
       Abstract!Cancel, Abstract!Become
<1> QED BY <1>1, TypeCorrect, FencingCorrect, PTL DEF Spec, TerminalStable

-----------------------------------------------------------------------------
(***************************************************************************)
(* How an outcome can be undone.  In every store, SUCCEEDED and FAILED are *)
(* overwritten in three ways only, and not in the tenant store.            *)
(***************************************************************************)
\* A fenced write hits a finished row only with the row's own token.
LEMMA FencedHit ==
  ASSUME TableType, NEW j \in Jobs, NEW k \in Jobs, NEW w, NEW g, NEW st, Mutate(k, w, g, st),
         status[j] \in Finished, status'[j] # status[j]
  PROVE  j = k /\ claimed_by[j] = w /\ gen[j] = g /\ Store # "tenant" /\ status'[j] = st
BY DEF Mutate, Fenced, TableType, Finished

\* Whoever could still write an outcome has lost the row's token, or does not
\* know that it has written it.
LEMMA UndoStep ==
  ASSUME TypeOK, FencingInv, Next, NEW j \in Jobs, status[j] \in Finished, status'[j] # status[j]
  PROVE  ReleaseUndoes(j) \/ ClaimUndoes(j) \/ FailureUndoes(j)
<1>0. TableType /\ PickedType /\ FinishedByLatest /\ SelectedSqlite
  BY DEF TypeOK, FencingInv
<1>1. ASSUME NEW k \in Jobs, Enqueue(k) \/ CancelJob(k) PROVE FALSE
  BY <1>0, <1>1 DEF Enqueue, CancelJob, TableType, Finished, Terminal
<1>2. ASSUME Reconcile PROVE FALSE
  BY <1>0, <1>2 DEF Reconcile, TableType, Finished
<1>3. ASSUME NEW w \in Workers, NEW k \in Jobs, ClaimLocked(w, k) PROVE FALSE
  BY <1>0, <1>3 DEF ClaimLocked, ClaimRow, TakeRow, Claimable, TableType, Finished
<1>4. ASSUME NEW w \in Workers, ClaimUpdate(w) PROVE ClaimUndoes(j)
  <2>1. pc[w] = "selected" /\ Store = "sqlite"
    BY <1>0, <1>4 DEF ClaimUpdate, SelectedSqlite
  <2>2. gen[picked[w][1]] = picked[w][2] /\ ClaimRow(w, picked[w][1])
    BY <1>4 DEF ClaimUpdate, jobs
  <2>3. picked[w][1] = j /\ status'[j] = "RUNNING"
    BY <1>0, <2>2 DEF ClaimRow, TakeRow, TableType
  <2>4. picked[w] = <<j, gen[j]>>
    BY <1>0, <2>1, <2>2, <2>3 DEF PickedType
  <2> QED BY <2>1, <2>3, <2>4 DEF ClaimUndoes
<1>5. ASSUME NEW w \in Workers, NEW k \in Jobs, ForceRelease(w, k) PROVE ReleaseUndoes(j)
  <2>1. pc[w] = "release" /\ Mutate(k, w, snap[w][k], "READY")
    BY <1>5 DEF ForceRelease, jobs
  <2>2. j = k /\ claimed_by[j] = w /\ gen[j] = snap[w][k] /\ Store # "tenant" /\ status'[j] = "READY"
    BY <1>0, <2>1, FencedHit
  <2> QED BY <2>1, <2>2 DEF ReleaseUndoes
<1>6. ASSUME NEW t \in threads, MarkSucceeded(t) \/ MarkFailed(t) PROVE FailureUndoes(j)
  <2>1. t.job \in Jobs /\ t.phase # "pop" /\ (MarkSucceeded(t) => t.phase = "succeed")
    BY <1>0, <1>6 DEF TableType, MarkSucceeded, MarkFailed
  <2>2. PICK st : Mutate(t.job, t.worker, t.token, st) /\ (MarkSucceeded(t) \/ st = "FAILED")
    BY <1>6 DEF MarkSucceeded, MarkFailed, jobs
  <2>3. j = t.job /\ gen[j] = t.token /\ claimed_by[j] = t.worker /\ Store # "tenant" /\ status'[j] = st
    BY <1>0, <2>1, <2>2, FencedHit
  <2>4. Unconfirmed(t)
    BY <1>0, <2>1, <2>3 DEF FinishedByLatest
  <2>5. st = "FAILED"
    BY <2>1, <2>2, <2>4 DEF Unconfirmed
  <2> QED BY <2>3, <2>4, <2>5 DEF FailureUndoes
<1>8. ASSUME NEW w \in Workers, ClaimRaises(w) PROVE ClaimUndoes(j)
  <2>1. PICK k \in Jobs : Taking(w, k) /\ TakeRow(w, k)
    BY <1>8 DEF ClaimRaises, jobs
  <2>2. k = j /\ status'[j] = "RUNNING"
    BY <1>0, <2>1 DEF TakeRow, TableType
  <2>3. pc[w] = "selected" /\ picked[w] = <<j, gen[j]>>
    BY <2>1, <2>2 DEF Taking, Claimable, Finished
  <2> QED BY <1>0, <2>2, <2>3 DEF ClaimUndoes, SelectedSqlite
<1>7. CASE UNCHANGED status
  BY <1>7
<1> QED BY <1>1, <1>2, <1>3, <1>4, <1>5, <1>6, <1>7, <1>8
        DEF Next, TableStep, MainStep, Disrupt, ThreadStep, LeaseExpires, Run, LoopTop, ClaimSelect,
            ClaimNothing, EndWait, Stop, Exit, StartJob, Sigterm, Crash, RuntimeReturns,
            RuntimeRaises, Finish, RenewLease, jobs

\* In every store a recorded outcome is overwritten by the forced release of
\* its own worker, by a SQLite claim that had selected the job already, by the
\* FAILED write of an execution whose success was not confirmed, and by
\* nothing else.  (mutate_with_fencing, mutate_job_scoped)
THEOREM OutcomesAreUndoneBy == Spec => OutcomeUndoneBy
<1>1. TypeOK /\ FencingInv /\ [Next]_vars
      => [\A j \in Jobs : status[j] \in Finished /\ status'[j] # status[j]
                          => ReleaseUndoes(j) \/ ClaimUndoes(j) \/ FailureUndoes(j)]_vars
  BY UndoStep
<1> QED BY <1>1, TypeCorrect, FencingCorrect, PTL DEF Spec, OutcomeUndoneBy

-----------------------------------------------------------------------------
(***************************************************************************)
(* A worker that runs one job at a time and whose store never raises gives *)
(* its job up before it stops.  It has one job thread at most; what that   *)
(* thread holds is in _active_jobs, so in the list the force-release goes  *)
(* through; and nothing gives a thread a row it no longer owns.            *)
(***************************************************************************)
\* The row is the thread's: its lease may be renewed by it.
Owns(t) == status[t.job] = "RUNNING" /\ claimed_by[t.job] = t.worker /\ gen[t.job] = t.token

Solo == \A t, u \in threads : t.worker = u.worker => t = u

\* Where the worker of a thread can be, and what it knows of the thread.
Held(t) ==
  /\ pc[t.worker] \notin {"down", "claim", "selected"}
  /\ t.phase = "claimed" <=> pc[t.worker] = "starting"
  /\ t.phase # "claimed" => active[t.worker][t.job] = t.token
  /\ pc[t.worker] = "release" /\ Owns(t) => snap[t.worker][t.job] = t.token
  /\ pc[t.worker] = "stopped" => ~Owns(t)

SoloInv == Solo /\ \A t \in threads : Held(t)

\* No step makes a live execution the owner of a row again.
LEMMA OwnsOnlyLost ==
  ASSUME TypeOK, FencingInv, Next, NEW t \in threads, Owns(t)'
  PROVE  Owns(t)
<1>0. /\ t.job \in Jobs /\ t.token \in Nat /\ gen[t.job] \in Nat /\ t.token <= gen[t.job]
      /\ TableType /\ AbsentFresh
  BY BoundAssumption DEF TypeOK, TableType, FencingInv, TokensIssued
<1>1. ASSUME NEW w, NEW j \in Jobs, TakeRow(w, j) PROVE Owns(t)
  BY <1>0, <1>1 DEF TakeRow, Owns, TableType
<1>2. ASSUME NEW j \in Jobs, NEW w, NEW g, NEW s \in {"READY", "SUCCEEDED", "FAILED"}, Mutate(j, w, g, s)
      PROVE  Owns(t)
  BY <1>0, <1>2 DEF Mutate, Owns, TableType
<1>3. CASE UNCHANGED jobs
  BY <1>3 DEF jobs, Owns
<1>4. CASE TableStep
  BY <1>0, <1>4 DEF TableStep, Enqueue, CancelJob, LeaseExpires, Reconcile, Owns, TableType
<1>5. ASSUME NEW w \in Workers, MainStep(w) \/ Disrupt(w) PROVE Owns(t)
  <2>1. ASSUME ClaimUpdate(w) PROVE picked[w][1] \in Jobs
    BY <2>1, <1>5 DEF ClaimUpdate, TypeOK, PickedType
  <2> QED BY <1>1, <1>2, <1>3, <1>5, <2>1
          DEF MainStep, Disrupt, Run, LoopTop, ClaimUpdate, ClaimNothing, ClaimRaises, EndWait, Stop, Exit,
              ClaimLocked, ClaimRow, ClaimSelect, ForceRelease, StartJob, Sigterm, Crash
<1>6. ASSUME NEW u \in threads, ThreadStep(u) \/ RenewLease(u) PROVE Owns(t)
  <2>1. u.job \in Jobs
    BY <1>0 DEF TableType
  <2>2. CASE RenewLease(u)
    BY <2>2 DEF RenewLease, Owns
  <2> QED BY <1>2, <1>3, <1>6, <2>1, <2>2
          DEF ThreadStep, RuntimeReturns, RuntimeRaises, MarkSucceeded, MarkFailed, Finish
<1> QED BY <1>4, <1>5, <1>6 DEF Next

\* Steps of the table, and what a worker's main thread does with no claim in it.
LEMMA SoloQuiet ==
  ASSUME TypeOK, FencingInv, SoloInv, Next, threads' = threads,
         \A t \in threads :
           /\ pc'[t.worker] = pc[t.worker]
           /\ active'[t.worker] = active[t.worker] /\ snap'[t.worker] = snap[t.worker]
  PROVE  SoloInv'
<1>1. ASSUME NEW t \in threads PROVE Held(t)'
  BY OwnsOnlyLost DEF SoloInv, Held
<1> QED BY <1>1 DEF SoloInv, Solo

\* A worker that goes on to claim has no thread left.
LEMMA ClaimsAlone ==
  ASSUME TypeOK, SoloInv, Concurrency = 1, NEW w \in Workers, pc[w] = "loop",
         Cardinality(ActiveJobs(w)) < Concurrency
  PROVE  \A t \in threads : t.worker # w
<1>1. ActiveJobs(w) = {}
  <2>1. IsFiniteSet(ActiveJobs(w))
    BY JobsAssumption, FS_Subset DEF ActiveJobs
  <2>2. Cardinality(ActiveJobs(w)) \in Nat
    BY <2>1, FS_CardinalityType
  <2> QED BY <2>1, <2>2, FS_EmptySet
<1> SUFFICES ASSUME NEW t \in threads, t.worker = w PROVE FALSE
  OBVIOUS
<1>2. t.job \in Jobs /\ t.token # 0
  BY BoundAssumption DEF TypeOK, TableType
<1> QED BY <1>1, <1>2 DEF SoloInv, Held, ActiveJobs

\* The main thread of a worker.
LEMMA SoloMain ==
  ASSUME TypeOK, FencingInv, SoloInv, Concurrency = 1, ~StoreFaults, Next,
         NEW w \in Workers, MainStep(w) \/ Disrupt(w)
  PROVE  SoloInv'
<1>t. /\ pc \in [Workers -> PCs] /\ active \in [Workers -> [Jobs -> 0..MaxGen]]
      /\ snap \in [Workers -> [Jobs -> 0..MaxGen]] /\ threads \subseteq Thread
  BY DEF TypeOK, TableType, ProcessType
<1>k. \A t \in threads : t.job \in Jobs /\ t.worker \in Workers /\ t.token \in Nat \ {0}
  BY <1>t, BoundAssumption
<1>h. \A t \in threads : Held(t)
  BY DEF SoloInv
<1>1. CASE Run(w) \/ LoopTop(w) \/ ClaimNothing(w) \/ (\E j \in Jobs : ClaimSelect(w, j))
  <2>1. /\ UNCHANGED <<threads, active, snap>> /\ pc[w] \in {"down", "loop", "claim"}
        /\ \A v \in Workers : v # w => pc'[v] = pc[v]
        /\ pc[w] = "loop" => pc'[w] = "drain" \/ (pc'[w] = "claim" /\ Cardinality(ActiveJobs(w)) < Concurrency)
    BY <1>1, <1>t DEF Run, LoopTop, ClaimNothing, ClaimSelect
  <2>2. ASSUME NEW t \in threads PROVE Held(t)'
    BY <1>k, <1>h, <2>1, ClaimsAlone, OwnsOnlyLost DEF Held
  <2> QED BY <2>1, <2>2 DEF SoloInv, Solo
<1>2. ASSUME NEW j \in Jobs, ClaimRow(w, j), pc[w] \in {"claim", "selected"},
             pc' = [pc EXCEPT ![w] = "starting"], UNCHANGED <<active, snap>>
      PROVE  SoloInv'
  <2>1. PICK n : threads' = threads \cup {n} /\ n.worker = w /\ n.phase = "claimed"
    <3> DEFINE m == [worker |-> w, job |-> j, token |-> gen[j] + 1, phase |-> "claimed"]
    <3>1. threads' = threads \cup {m} /\ m.worker = w /\ m.phase = "claimed"
      BY <1>2 DEF ClaimRow
    <3> QED BY <3>1
  <2>2. \A t \in threads : t.worker # w
    BY <1>h, <1>2 DEF Held
  <2>3. ASSUME NEW t \in threads PROVE Held(t)'
    BY <1>k, <1>h, <1>2, <2>2, OwnsOnlyLost DEF Held
  <2>4. Held(n)'
    BY <1>t, <1>2, <2>1 DEF Held
  <2> QED BY <2>1, <2>2, <2>3, <2>4 DEF SoloInv, Solo
<1>3. CASE (\E j \in Jobs : ClaimLocked(w, j)) \/ ClaimUpdate(w)
  <2>1. ASSUME NEW j \in Jobs, ClaimLocked(w, j) PROVE SoloInv'
    BY <1>2, <2>1 DEF ClaimLocked
  <2>2. CASE ClaimUpdate(w)
    <3>1. picked[w][1] \in Jobs /\ pc[w] = "selected" /\ UNCHANGED <<active, snap>>
      BY <2>2 DEF ClaimUpdate, TypeOK, PickedType
    <3>2. CASE ClaimRow(w, picked[w][1]) /\ pc' = [pc EXCEPT ![w] = "starting"]
      BY <1>2, <3>1, <3>2
    <3>3. CASE pc' = [pc EXCEPT ![w] = "loop"] /\ UNCHANGED <<jobs, threads>>
      <4>1. \A t \in threads : t.worker # w
        BY <1>h, <3>1 DEF Held
      <4> QED BY <1>t, <1>k, <3>1, <3>3, <4>1, SoloQuiet
    <3> QED BY <2>2, <3>2, <3>3 DEF ClaimUpdate
  <2> QED BY <1>3, <2>1, <2>2
<1>4. CASE ClaimRaises(w)
  BY <1>4 DEF ClaimRaises
<1>5. ASSUME NEW t \in threads, StartJob(w, t) PROVE SoloInv'
  <2> DEFINE m == [worker |-> t.worker, job |-> t.job, token |-> t.token, phase |-> "run"]
  <2>1. /\ threads' = (threads \ {t}) \cup {m}
        /\ m.worker = w /\ m.job = t.job /\ m.token = t.token /\ m.phase = "run" /\ t.worker = w
    BY <1>5 DEF StartJob, Moved
  <2> HIDE DEF m
  <2>2. \A u \in threads : u.worker = w => u = t
    BY <2>1 DEF SoloInv, Solo
  <2>3. ASSUME NEW u \in threads, u # t PROVE Held(u)'
    BY <1>t, <1>k, <1>h, <1>5, <2>2, <2>3, OwnsOnlyLost DEF Held, StartJob
  <2>4. Held(m)'
    BY <1>t, <1>k, <1>5, <2>1 DEF Held, StartJob
  <2> QED BY <2>1, <2>2, <2>3, <2>4 DEF SoloInv, Solo
<1>6. CASE EndWait(w)
  <2>1. ASSUME NEW t \in threads PROVE Held(t)'
    BY <1>t, <1>k, <1>h, <1>6, OwnsOnlyLost DEF Held, EndWait
  <2> QED BY <1>6, <2>1 DEF SoloInv, Solo, EndWait
<1>7. ASSUME NEW j \in Jobs, ForceRelease(w, j) PROVE SoloInv'
  <2>1. ASSUME NEW t \in threads PROVE Held(t)'
    <3>1. /\ pc' = pc /\ active' = active /\ pc[w] = "release" /\ Mutate(j, w, snap[w][j], "READY")
          /\ snap' = [snap EXCEPT ![w][j] = 0]
      BY <1>7 DEF ForceRelease
    <3>2. CASE t.worker = w /\ t.job = j
      <4>1. ~Owns(t)'
        <5> SUFFICES ASSUME Owns(t), Owns(t)' PROVE FALSE
          BY OwnsOnlyLost
        <5>1. snap[w][j] = t.token
          BY <1>h, <3>1, <3>2 DEF Held
        <5>2. Fenced(j, w, snap[w][j])
          BY <3>2, <5>1 DEF Owns, Fenced
        <5>3. status'[j] = "READY"
          BY <3>1, <5>2 DEF Mutate, TypeOK, TableType
        <5> QED BY <3>2, <5>3 DEF Owns
      <4> QED BY <1>h, <3>1, <4>1 DEF Held
    <3>3. CASE ~(t.worker = w /\ t.job = j)
      <4>1. snap'[t.worker][t.job] = snap[t.worker][t.job]
        BY <1>t, <1>k, <3>1, <3>3
      <4> QED BY <1>h, <3>1, <4>1, OwnsOnlyLost DEF Held
    <3> QED BY <3>2, <3>3
  <2> QED BY <1>7, <2>1 DEF SoloInv, Solo, ForceRelease
<1>8. CASE Stop(w)
  <2>1. ASSUME NEW t \in threads PROVE Held(t)'
    <3>1. pc[w] = "release" /\ snap[w] = NoActive /\ pc' = [pc EXCEPT ![w] = "stopped"] /\ UNCHANGED <<jobs, active, snap>>
      BY <1>8 DEF Stop
    <3>2. t.worker = w => ~Owns(t)
      BY <1>k, <1>h, <3>1 DEF Held
    <3> QED BY <1>t, <1>k, <1>h, <3>1, <3>2, OwnsOnlyLost DEF Held
  <2> QED BY <1>8, <2>1 DEF SoloInv, Solo, Stop
<1>9. CASE Exit(w) \/ Crash(w)
  <2>1. /\ threads' = threads \ ThreadsOf(w)
        /\ \A v \in Workers : v # w => pc'[v] = pc[v] /\ active'[v] = active[v] /\ snap'[v] = snap[v]
    BY <1>9, <1>t DEF Exit, Crash, ThreadsOf
  <2>2. ASSUME NEW t \in threads' PROVE Held(t)'
    <3>1. t \in threads /\ t.worker # w
      BY <2>1 DEF ThreadsOf
    <3> QED BY <1>k, <1>h, <2>1, <3>1, OwnsOnlyLost DEF Held
  <2> QED BY <2>1, <2>2 DEF SoloInv, Solo
<1>10. CASE Sigterm(w)
  BY <1>10, SoloQuiet DEF Sigterm
<1> QED BY <1>1, <1>3, <1>4, <1>5, <1>6, <1>7, <1>8, <1>9, <1>10 DEF MainStep, Disrupt

\* The job threads.
LEMMA SoloThread ==
  ASSUME TypeOK, FencingInv, SoloInv, Next, NEW t \in threads, ThreadStep(t)
  PROVE  SoloInv'
<1>t. /\ active \in [Workers -> [Jobs -> 0..MaxGen]] /\ threads \subseteq Thread
  BY DEF TypeOK, TableType, ProcessType
<1>h. \A u \in threads : Held(u) /\ u.job \in Jobs /\ u.worker \in Workers
  BY <1>t DEF SoloInv
<1>1. ASSUME NEW p \in Phases \ {"claimed"}, threads' = Moved(t, p), t.phase # "claimed",
             UNCHANGED <<active, pc, snap>>
      PROVE  SoloInv'
  <2> DEFINE m == [worker |-> t.worker, job |-> t.job, token |-> t.token, phase |-> p]
  <2>1. /\ threads' = (threads \ {t}) \cup {m}
        /\ m.worker = t.worker /\ m.job = t.job /\ m.token = t.token /\ m.phase = p
    BY <1>1 DEF Moved
  <2> HIDE DEF m
  <2>2. ASSUME NEW u \in threads PROVE Held(u)'
    BY <1>h, <1>1, OwnsOnlyLost DEF Held
  <2>3. Held(m)'
    BY <1>1, <2>1, <2>2 DEF Held, Owns
  <2> QED BY <2>1, <2>2, <2>3 DEF SoloInv, Solo
<1>2. CASE Finish(t)
  <2>1. \A u \in threads' : u \in threads /\ u # t /\ u.worker # t.worker
    BY <1>2 DEF Finish, SoloInv, Solo
  <2>2. ASSUME NEW u \in threads' PROVE Held(u)'
    BY <1>t, <1>h, <1>2, <2>1, OwnsOnlyLost DEF Held, Finish
  <2> QED BY <2>1, <2>2 DEF SoloInv, Solo
<1> QED BY <1>1, <1>2 DEF ThreadStep, RuntimeReturns, RuntimeRaises, MarkSucceeded, MarkFailed

\* A worker that runs one job at a time, over a store that does not raise,
\* leaves no thread behind that still owns a RUNNING row when it has stopped.
\* (_shutdown_gracefully)
THEOREM StoppedIsReleased == Concurrency = 1 /\ ~StoreFaults => (Spec => []StoppedReleased)
<1> SUFFICES ASSUME Concurrency = 1, ~StoreFaults PROVE Spec => []StoppedReleased
  OBVIOUS
<1>1. Init => SoloInv
  BY DEF Init, SoloInv, Solo
<1>2. TypeOK /\ FencingInv /\ SoloInv /\ [Next]_vars => SoloInv'
  <2> SUFFICES ASSUME TypeOK, FencingInv, SoloInv, [Next]_vars PROVE SoloInv'
    OBVIOUS
  <2>1. CASE UNCHANGED vars
    BY <2>1 DEF vars, jobs, SoloInv, Solo, Held, Owns
  <2>2. CASE TableStep /\ Next
    BY <2>2, SoloQuiet DEF TableStep, Enqueue, CancelJob, LeaseExpires, Reconcile
  <2>3. ASSUME NEW t \in threads, RenewLease(t), Next PROVE SoloInv'
    BY <2>3, SoloQuiet DEF RenewLease
  <2> QED BY <2>1, <2>2, <2>3, SoloMain, SoloThread DEF Next
<1>3. SoloInv => StoppedReleased
  BY DEF SoloInv, Held, Owns, StoppedReleased
<1> QED BY <1>1, <1>2, <1>3, TypeCorrect, FencingCorrect, PTL DEF Spec
=============================================================================
