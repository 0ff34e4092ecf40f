---------------------------- MODULE OutboxProofs ----------------------------
(***************************************************************************)
(* Proofs about Outbox, for any number of messages, processors, batch and  *)
(* poison budgets.  They are for the deployments the code has: processors  *)
(* of a SQLite outbox are serialised by the scheduler's lock file.         *)
(*                                                                         *)
(* A row a batch holds is held by that batch alone, is still PENDING, and  *)
(* has the attempts the batch has read: so the late COMMIT is not a lost   *)
(* update.  What a batch has done and not committed is then the only thing *)
(* in which the counts of handler calls differ from the table.  Both       *)
(* together make every step one of AtLeastOnce, or none.                   *)
(***************************************************************************)
EXTENDS MCBackgroundQueues, UpgradePipelineProofs, EngineeringTasksProofs

USE OutboxAssumption

Serialised == \A d \in Deployments : d.dialect = "sqlite" => d.leased

\* The oldest of some messages is one of them.  (ORDER BY created_at)
LEMMA OldestIsOne ==
  ASSUME NEW S, S \subseteq Messages, S # {}
  PROVE  OldestOf(S) \in S /\ \A n \in S : OldestOf(S) <= n
<1> DEFINE R == OpToRel(<, Nat)
<1>1. IsWellFoundedOn(R, Nat)
  BY NatLessThanWellFounded
<1>2. ASSUME NEW x \in Nat, NEW y \in Nat PROVE x < y => <<x, y>> \in R
  BY DEF OpToRel
<1> HIDE DEF R
<1>3. S \subseteq Nat
  BY DEF Messages
<1>4. PICK x \in S : \A y \in S : ~(<<y, x>> \in R)
  BY <1>1, <1>3, WFMin
<1>5. ASSUME NEW y \in S PROVE x <= y
  <2>1. x \in Nat /\ y \in Nat
    BY <1>3
  <2>2. ~(y < x)
    BY <1>2, <1>4, <2>1, Zenon
  <2> QED BY <2>1, <2>2
<1> QED BY <1>5, Zenon DEF OldestOf

\* A batch takes eligible rows, and some if there are any.  (LIMIT)
LEMMA FirstOfSome ==
  ASSUME NEW S, S \subseteq Messages, NEW k \in Nat \ {0}
  PROVE  FirstOf(S, k) \subseteq S /\ (S # {} => FirstOf(S, k) # {})
<1>1. FirstOf(S, k) \subseteq S
  BY DEF FirstOf
<1>2. ASSUME S # {} PROVE FirstOf(S, k) # {}
  <2> DEFINE o == OldestOf(S)
  <2>1. o \in S /\ \A n \in S : o <= n
    BY <1>2, OldestIsOne
  <2>2. \A n \in S : n \in Nat
    BY DEF Messages
  <2>3. {n \in S : n <= o} = {o}
    BY <2>1, <2>2
  <2>4. Cardinality({n \in S : n <= o}) = 1
    BY <2>3, FS_Singleton
  <2>5. o \in FirstOf(S, k)
    BY <2>1, <2>4 DEF FirstOf
  <2> QED BY <2>5
<1> QED BY <1>1, <1>2

-----------------------------------------------------------------------------
\* The rows a batch has selected or updated.
Holds(p, m) == m \in rows[p] \/ bstatus[p][m] # "none"

\* A lock file serialises the cycles that take it.
LeaseInv ==
  /\ Dialect = "sqlite" => Leased
  /\ \A p \in Processors : IF Leased THEN at[p] # "idle" => leaseOwner = p
                                     ELSE leaseOwner = NoProc /\ at[p] # "campaign"

\* What a processor has in its hands in each place of its cycle.
Shape(p) ==
  /\ at[p] \in {"idle", "campaign", "select", "release"} =>
       rows[p] = {} /\ outcome[p] = "none" /\ \A m \in Messages : bstatus[p][m] = "none"
  /\ at[p] = "handle" => rows[p] # {}
  /\ at[p] = "commit" => rows[p] = {} /\ outcome[p] = "none"

\* A row in a batch is the batch's alone and is as the batch has read it.
Fresh(p, m) ==
  Holds(p, m) =>
    /\ status[m] = "PENDING" /\ read[p][m] = attempts[m]
    /\ m \in rows[p] => bstatus[p][m] = "none"
    /\ bstatus[p][m] \in {"PENDING", "DEAD"} => battempts[p][m] = attempts[m] + 1
    /\ bstatus[p][m] = "PENDING" => battempts[p][m] < PoisonBudget
    /\ bstatus[p][m] = "DEAD" => battempts[p][m] = PoisonBudget
    /\ \A q \in Processors : q # p => ~Holds(q, m)

\* Only a message whose attempts are used up is DEAD.
Budget(m) ==
  IF status[m] = "DEAD" THEN attempts[m] = PoisonBudget ELSE attempts[m] < PoisonBudget

BatchInv ==
  /\ LeaseInv /\ \A p \in Processors : Shape(p)
  /\ \A p \in Processors : \A m \in Messages : Fresh(p, m)
  /\ \A m \in Messages : Budget(m)

\* The moves of p leave the other processors as they are.
OthersStay(p) ==
  \A q \in Processors : q # p =>
    /\ at'[q] = at[q] /\ rows'[q] = rows[q] /\ read'[q] = read[q] /\ outcome'[q] = outcome[q]
    /\ bstatus'[q] = bstatus[q] /\ battempts'[q] = battempts[q]

LEMMA OneProcessorMoves ==
  ASSUME OutboxTypeOK, NEW p \in Processors, Cycle(p) \/ Disrupt(p) \/ CycleUnlocked(p)
  PROVE  OthersStay(p)
<1> USE DEF OthersStay, OutboxTypeOK, MoveTo, batch
<1>1. CASE BeginCycle(p) \/ Campaign(p) \/ EndCycle(p) \/ CampaignFails(p) \/ CycleUnlocked(p)
  BY <1>1 DEF BeginCycle, Campaign, EndCycle, CampaignFails, CycleUnlocked
<1>2. CASE Select(p) \/ Update(p) \/ \E ok \in BOOLEAN : Handle(p, ok)
  BY <1>2 DEF Select, Update, Handle
<1>3. CASE Commit(p) \/ Rollback(p) \/ ProcessorCrash(p) \/ UpdateRaises(p)
  BY <1>3 DEF Commit, Rollback, ProcessorCrash, UpdateRaises, DropBatch
<1> QED BY <1>1, <1>2, <1>3 DEF Cycle, Disrupt

\* A processor that drops its batch holds nothing.
LEMMA Dropped ==
  ASSUME OutboxTypeOK, NEW p \in Processors, DropBatch(p)
  PROVE  /\ rows'[p] = {} /\ outcome'[p] = "none" /\ \A m \in Messages : bstatus'[p][m] = "none"
         /\ rows' \in [Processors -> SUBSET Messages]
         /\ read' \in [Processors -> [Messages -> 0..PoisonBudget]]
         /\ outcome' \in [Processors -> {"none", "ok", "raised"}]
         /\ bstatus' \in [Processors -> [Messages -> {"none", "PENDING"} \cup Terminal]]
         /\ battempts' \in [Processors -> [Messages -> 0..PoisonBudget]]
         /\ writer' \in Processors \cup {NoProc}
BY DEF DropBatch, OutboxTypeOK

\* It is enough to look at the batch of the processor that moves, if it keeps
\* its hands off the rows of the others.
LEMMA BatchStep ==
  ASSUME OutboxTypeOK, BatchInv, NEW p \in Processors, OthersStay(p), UNCHANGED deployment,
         LeaseInv', Shape(p)',
         \A m \in Messages : Fresh(p, m)' /\ Budget(m)',
         \A q \in Processors : \A m \in Messages : q # p /\ Holds(q, m) =>
           status'[m] = status[m] /\ attempts'[m] = attempts[m] /\ ~Holds(p, m)'
  PROVE  BatchInv'
<1>1. ASSUME NEW q \in Processors, q # p PROVE Shape(q)'
  BY <1>1 DEF BatchInv, Shape, OthersStay
<1>2. ASSUME NEW q \in Processors, q # p, NEW m \in Messages PROVE Fresh(q, m)'
  <2>1. Fresh(q, m)
    BY DEF BatchInv
  <2>2. /\ rows'[q] = rows[q] /\ bstatus'[q] = bstatus[q] /\ read'[q] = read[q] /\ battempts'[q] = battempts[q]
        /\ \A r \in Processors : r # p => (Holds(r, m)' <=> Holds(r, m))
    BY <1>2 DEF OthersStay, Holds
  <2>3. SUFFICES ASSUME Holds(q, m)'
                 PROVE  Fresh(q, m)'
    BY DEF Fresh
  <2>4. Holds(q, m) /\ ~Holds(p, m)' /\ status'[m] = status[m] /\ attempts'[m] = attempts[m]
    BY <1>2, <2>2, <2>3
  <2>5. \A r \in Processors : r # q => ~Holds(r, m)'
    BY <1>2, <2>1, <2>2, <2>4 DEF Fresh
  <2> QED BY <2>1, <2>2, <2>4, <2>5 DEF Fresh
<1> QED BY <1>1, <1>2 DEF BatchInv

\* A message is registered.
LEMMA InsertBatch ==
  ASSUME OutboxTypeOK, BatchInv, Insert
  PROVE  /\ status' \in [Messages -> Statuses] /\ attempts' = attempts
         /\ \A m \in Messages : Budget(m)'
         /\ \A m \in Messages : status[m] # "ABSENT" => status'[m] = status[m]
         /\ \A m \in Messages : status'[m] = status[m] \/ (status[m] = "ABSENT" /\ status'[m] = "PENDING")
<1> DEFINE o == OldestOf({m \in Messages : status[m] = "ABSENT"})
<1>1. o \in Messages /\ status[o] = "ABSENT" /\ status' = [status EXCEPT ![o] = "PENDING"] /\ attempts' = attempts
  <2>1. o \in {m \in Messages : status[m] = "ABSENT"}
    BY OldestIsOne DEF Insert
  <2> QED BY <2>1 DEF Insert
<1> HIDE DEF o
<1> QED BY <1>1 DEF OutboxTypeOK, BatchInv, Budget, Statuses

\* Steps that touch nobody's batch.
LEMMA LeaseSteps ==
  ASSUME OutboxTypeOK, BatchInv, NEW p \in Processors, UNCHANGED deployment,
         BeginCycle(p) \/ Campaign(p) \/ CampaignFails(p) \/ EndCycle(p) \/ CycleUnlocked(p)
  PROVE  OutboxTypeOK' /\ BatchInv'
<1> USE DEF MoveTo
<1>0. OthersStay(p)
  BY OneProcessorMoves DEF Cycle, Disrupt
<1>1. /\ UNCHANGED <<rows, read, outcome, bstatus, battempts, calls, deliveries, writer>>
      /\ mishaps' \in 0..MaxMishaps /\ leaseOwner' \in Processors \cup {NoProc}
      /\ at' \in [Processors -> Places] /\ at'[p] \in {"idle", "campaign", "select", "release"}
      /\ at[p] \in {"idle", "campaign", "release"}
      /\ UNCHANGED <<status, attempts>> \/ Insert
  <2> USE DEF OutboxTypeOK, Places, batch, table
  <2>1. CASE BeginCycle(p)
    BY <2>1 DEF BeginCycle
  <2>2. CASE Campaign(p)
    BY <2>2 DEF Campaign
  <2>3. CASE CampaignFails(p)
    BY <2>3 DEF CampaignFails
  <2>4. CASE EndCycle(p) \/ CycleUnlocked(p)
    BY <2>4 DEF EndCycle, CycleUnlocked
  <2> QED BY <2>1, <2>2, <2>3, <2>4
<1>2. /\ status' \in [Messages -> Statuses] /\ attempts' = attempts
      /\ \A m \in Messages : Budget(m)' /\ (status[m] # "ABSENT" => status'[m] = status[m])
  BY <1>1, InsertBatch DEF BatchInv, Budget, OutboxTypeOK
<1>3. OutboxTypeOK'
  BY <1>1, <1>2 DEF OutboxTypeOK
<1>4. LeaseInv'
  BY <1>0, <1>1 DEF BeginCycle, Campaign, CampaignFails, EndCycle, CycleUnlocked, BatchInv, LeaseInv,
     OthersStay, OutboxTypeOK, Leased, Dialect
<1>5. Shape(p)' /\ \A m \in Messages : Fresh(p, m)' /\ ~Holds(p, m)'
  BY <1>1 DEF BatchInv, Shape, Fresh, Holds
<1>6. \A q \in Processors : \A m \in Messages : Holds(q, m) => status'[m] = status[m] /\ attempts'[m] = attempts[m]
  BY <1>2 DEF BatchInv, Fresh
<1> QED BY <1>0, <1>2, <1>3, <1>4, <1>5, <1>6, BatchStep

\* SELECT: what it returns is nobody else's.
LEMMA SelectStep ==
  ASSUME OutboxTypeOK, BatchInv, NEW p \in Processors, UNCHANGED deployment, Select(p)
  PROVE  OutboxTypeOK' /\ BatchInv'
<1> USE DEF MoveTo
<1>0. OthersStay(p)
  BY OneProcessorMoves DEF Cycle
<1>1. MaxMessages \in Nat \ {0} /\ Eligible(p) \subseteq Messages
  BY DEF OutboxTypeOK, MaxMessages, Eligible
<1>2. /\ rows'[p] \subseteq Eligible(p) /\ (Eligible(p) # {} => rows'[p] # {})
      /\ rows' \in [Processors -> SUBSET Messages] /\ read'[p] = attempts
      /\ read' \in [Processors -> [Messages -> 0..PoisonBudget]]
      /\ at[p] = "select" /\ at'[p] = IF Eligible(p) = {} THEN "commit" ELSE "handle"
      /\ UNCHANGED <<status, attempts, outcome, bstatus, battempts, writer, leaseOwner>>
  BY <1>1, FirstOfSome DEF Select, OutboxTypeOK, table
<1>3. OutboxTypeOK'
  BY <1>2 DEF Select, OutboxTypeOK, Places, table
<1>4. LeaseInv'
  BY <1>0, <1>2 DEF BatchInv, LeaseInv, OthersStay, Leased, Dialect, OutboxTypeOK, Places
<1>5. outcome[p] = "none" /\ \A m \in Messages : bstatus[p][m] = "none"
  BY <1>2 DEF BatchInv, Shape
<1>6. ASSUME NEW m \in Messages, m \in Eligible(p), NEW q \in Processors, q # p PROVE ~Holds(q, m)
  <2>1. CASE Dialect = "sqlite"
    <3>1. at[q] = "idle"
      BY <1>2, <1>6, <2>1 DEF BatchInv, LeaseInv
    <3> QED BY <3>1 DEF BatchInv, Shape, Holds
  <2>2. CASE Dialect = "postgres"
    BY <1>6, <2>2 DEF Eligible, LockedRows, Holds
  <2> QED BY <2>1, <2>2 DEF OutboxTypeOK, Dialect
<1>7. Shape(p)'
  BY <1>2, <1>5 DEF Shape
<1>8. \A m \in Messages : Holds(p, m)' => m \in Eligible(p)
  BY <1>2, <1>5 DEF Holds
<1>9. \A m \in Messages : Fresh(p, m)' /\ Budget(m)'
  <2> SUFFICES ASSUME NEW m \in Messages PROVE Fresh(p, m)' /\ Budget(m)'
    OBVIOUS
  <2>1. Budget(m)'
    BY <1>2 DEF BatchInv, Budget
  <2>2. ASSUME NEW q \in Processors, q # p, Holds(p, m)' PROVE ~Holds(q, m)'
    BY <1>0, <1>6, <1>8, <2>2 DEF Holds, OthersStay
  <2>3. Holds(p, m)' => status[m] = "PENDING"
    BY <1>8 DEF Eligible
  <2> QED BY <1>2, <1>5, <2>1, <2>2, <2>3 DEF Fresh
<1> QED BY <1>0, <1>2, <1>3, <1>4, <1>6, <1>7, <1>8, <1>9, BatchStep

\* The row a processor is about to handle, or has handled.
LEMMA HandledRow ==
  ASSUME OutboxTypeOK, BatchInv, NEW p \in Processors, at[p] = "handle"
  PROVE  LET o == OldestOf(rows[p])
         IN  /\ o \in Messages /\ o \in rows[p] /\ Holds(p, o) /\ bstatus[p][o] = "none"
             /\ status[o] = "PENDING" /\ read[p][o] = attempts[o] /\ attempts[o] < PoisonBudget
<1>1. rows[p] \subseteq Messages /\ rows[p] # {}
  BY DEF OutboxTypeOK, BatchInv, Shape
<1>2. OldestOf(rows[p]) \in rows[p]
  BY <1>1, OldestIsOne
<1> QED BY <1>1, <1>2 DEF BatchInv, Fresh, Budget, Holds

\* A handler call is counted, up to the cap.
LEMMA HandlerCounts ==
  ASSUME OutboxTypeOK, NEW p \in Processors, NEW ok \in BOOLEAN, Handle(p, ok), OldestOf(rows[p]) \in Messages
  PROVE  LET o == OldestOf(rows[p])
         IN  /\ calls' \in [Messages -> 0..CallCap] /\ deliveries' \in [Messages -> 0..CallCap]
             /\ calls'[o] = IF calls[o] < CallCap THEN calls[o] + 1 ELSE calls[o]
             /\ ~ok => deliveries'[o] = deliveries[o]
             /\ ok => deliveries'[o] = IF deliveries[o] < CallCap THEN deliveries[o] + 1 ELSE deliveries[o]
             /\ \A m \in Messages : m # o => calls'[m] = calls[m] /\ deliveries'[m] = deliveries[m]
<1> DEFINE o == OldestOf(rows[p])
<1>1. /\ calls \in [Messages -> 0..CallCap] /\ deliveries \in [Messages -> 0..CallCap] /\ CallCap \in Nat
      /\ o \in Messages
  BY DEF OutboxTypeOK, CallCap
<1>2. /\ calls' = [calls EXCEPT ![o] = IF calls[o] < CallCap THEN calls[o] + 1 ELSE calls[o]]
      /\ deliveries' = [deliveries EXCEPT ![o] = IF ok /\ deliveries[o] < CallCap THEN deliveries[o] + 1 ELSE deliveries[o]]
  BY DEF Handle
<1> HIDE DEF o
<1>3. CASE ok
  <2>1. deliveries' = [deliveries EXCEPT ![o] = IF deliveries[o] < CallCap THEN deliveries[o] + 1 ELSE deliveries[o]]
    BY <1>2, <1>3
  <2> QED BY <1>1, <1>2, <1>3, <2>1 DEF o
<1>4. CASE ~ok
  <2>1. deliveries' = [deliveries EXCEPT ![o] = deliveries[o]]
    BY <1>2, <1>4
  <2> QED BY <1>1, <1>2, <1>4, <2>1 DEF o
<1> QED BY <1>3, <1>4

\* The handler, and the UPDATE that records what it did.
LEMMA HandleSteps ==
  ASSUME OutboxTypeOK, BatchInv, NEW p \in Processors, UNCHANGED deployment,
         Update(p) \/ \E ok \in BOOLEAN : Handle(p, ok)
  PROVE  OutboxTypeOK' /\ BatchInv'
<1> USE DEF MoveTo
<1> DEFINE o == OldestOf(rows[p])
<1>0. OthersStay(p) /\ at[p] = "handle"
  BY OneProcessorMoves DEF Cycle, Update, Handle
<1>1. /\ o \in Messages /\ o \in rows[p] /\ Holds(p, o) /\ bstatus[p][o] = "none"
      /\ status[o] = "PENDING" /\ read[p][o] = attempts[o] /\ attempts[o] < PoisonBudget
  BY <1>0, HandledRow
<1>t. /\ attempts \in [Messages -> 0..PoisonBudget] /\ rows \in [Processors -> SUBSET Messages]
      /\ at \in [Processors -> Places] /\ outcome \in [Processors -> {"none", "ok", "raised"}]
      /\ bstatus \in [Processors -> [Messages -> {"none", "PENDING"} \cup Terminal]]
      /\ battempts \in [Processors -> [Messages -> 0..PoisonBudget]]
      /\ calls \in [Messages -> 0..CallCap] /\ deliveries \in [Messages -> 0..CallCap] /\ CallCap \in Nat
  BY DEF OutboxTypeOK, CallCap
<1>h. \A m \in Messages : Fresh(p, m) /\ Budget(m)
  BY DEF BatchInv
<1>2. ASSUME NEW ok \in BOOLEAN, Handle(p, ok) PROVE OutboxTypeOK' /\ BatchInv'
  <2>1. /\ UNCHANGED <<status, attempts, at, rows, read, bstatus, battempts, writer, leaseOwner, mishaps>>
        /\ outcome'[p] # "none"
    BY <1>2, <1>t DEF Handle, table
  <2>2. OutboxTypeOK'
    <3>1. outcome' \in [Processors -> {"none", "ok", "raised"}]
      BY <1>t, <1>2 DEF Handle
    <3>2. calls' \in [Messages -> 0..CallCap] /\ deliveries' \in [Messages -> 0..CallCap]
      BY <1>1, <1>2, <1>t, HandlerCounts
    <3> QED BY <2>1, <3>1, <3>2 DEF OutboxTypeOK, CallCap
  <2>3. LeaseInv' /\ Shape(p)'
    BY <1>0, <2>1 DEF BatchInv, LeaseInv, Shape, Leased, Dialect
  <2>4. \A m \in Messages : Fresh(p, m)' /\ Budget(m)'
    BY <1>h, <2>1 DEF Fresh, Budget, Holds
  <2>5. \A q \in Processors : \A m \in Messages : q # p /\ Holds(q, m) => ~Holds(p, m)'
    BY <2>1 DEF BatchInv, Fresh, Holds
  <2> QED BY <1>0, <2>1, <2>2, <2>3, <2>4, <2>5, BatchStep
<1>3. CASE Update(p)
  <2>1. /\ rows'[p] = rows[p] \ {o} /\ outcome'[p] = "none"
        /\ bstatus'[p][o] = IF outcome[p] = "ok" THEN "DELIVERED" ELSE AfterFailure(attempts[o])
        /\ battempts'[p][o] = IF outcome[p] = "ok" THEN attempts[o] ELSE attempts[o] + 1
        /\ \A m \in Messages : m # o => bstatus'[p][m] = bstatus[p][m] /\ battempts'[p][m] = battempts[p][m]
        /\ at'[p] = IF rows[p] = {o} THEN "commit" ELSE "handle"
        /\ UNCHANGED <<status, attempts, read, leaseOwner, calls, deliveries, mishaps>>
    BY <1>1, <1>3, <1>t DEF Update, table
  <2>2. OutboxTypeOK'
    <3>1. /\ rows' \in [Processors -> SUBSET Messages] /\ outcome' \in [Processors -> {"none", "ok", "raised"}]
          /\ at' \in [Processors -> Places] /\ writer' \in Processors \cup {NoProc}
      BY <1>3, <1>t DEF Update, Places, OutboxTypeOK
    <3>2. bstatus' \in [Processors -> [Messages -> {"none", "PENDING"} \cup Terminal]]
      BY <1>3, <1>t DEF Update, AfterFailure, Terminal
    <3>3. battempts' \in [Processors -> [Messages -> 0..PoisonBudget]]
      BY <1>1, <1>3, <1>t DEF Update
    <3> QED BY <2>1, <3>1, <3>2, <3>3 DEF OutboxTypeOK
  <2>3. LeaseInv' /\ Shape(p)'
    BY <1>0, <1>1, <2>1 DEF BatchInv, LeaseInv, OthersStay, Shape, Leased, Dialect
  <2>4. ASSUME NEW m \in Messages PROVE (Holds(p, m)' => Holds(p, m)) /\ Fresh(p, m)' /\ Budget(m)'
    <3>1. Holds(p, m)' => Holds(p, m)
      BY <1>1, <2>1 DEF Holds
    <3>2. ASSUME NEW q \in Processors, q # p, Holds(p, m)' PROVE ~Holds(q, m)'
      BY <1>0, <1>h, <3>1, <3>2 DEF Fresh, Holds, OthersStay
    <3>3. Budget(m)'
      BY <1>h, <2>1 DEF Budget
    <3>4. CASE m = o
      <4>1. m \notin rows'[p] /\ status'[m] = "PENDING" /\ read'[p][m] = attempts'[m] /\ attempts'[m] = attempts[m]
        BY <1>1, <1>t, <2>1, <3>4
      <4>2. attempts[m] \in 0..PoisonBudget /\ attempts[m] < PoisonBudget
        BY <1>1, <1>t, <3>4
      <4>3. CASE outcome[p] = "ok"
        BY <2>1, <3>1, <3>2, <3>3, <3>4, <4>1, <4>3 DEF Fresh
      <4>4. CASE outcome[p] # "ok"
        <5>1. bstatus'[p][m] = AfterFailure(attempts[m]) /\ battempts'[p][m] = attempts[m] + 1
          BY <2>1, <3>4, <4>4
        <5>2. CASE attempts[m] + 1 >= PoisonBudget
          BY <3>1, <3>2, <3>3, <4>1, <4>2, <5>1, <5>2 DEF Fresh, AfterFailure
        <5>3. CASE ~(attempts[m] + 1 >= PoisonBudget)
          BY <3>1, <3>2, <3>3, <4>1, <4>2, <5>1, <5>3 DEF Fresh, AfterFailure
        <5> QED BY <5>2, <5>3
      <4> QED BY <4>3, <4>4
    <3>5. CASE m # o
      BY <1>h, <2>1, <3>1, <3>2, <3>3, <3>5 DEF Fresh
    <3> QED BY <3>1, <3>4, <3>5
  <2>5. \A q \in Processors : \A m \in Messages : q # p /\ Holds(q, m) => ~Holds(p, m)'
    BY <2>4 DEF BatchInv, Fresh
  <2> QED BY <1>0, <2>1, <2>2, <2>3, <2>4, <2>5, BatchStep
<1> QED BY <1>2, <1>3

\* Whatever ends the batch without its COMMIT leaves the table as it was.
LEMMA LostBatch ==
  ASSUME OutboxTypeOK, BatchInv, NEW p \in Processors, UNCHANGED deployment,
         UpdateRaises(p) \/ Rollback(p) \/ ProcessorCrash(p)
  PROVE  OutboxTypeOK' /\ BatchInv'
<1> USE DEF MoveTo
<1>0. OthersStay(p) /\ at[p] # "idle"
  BY OneProcessorMoves DEF Disrupt, UpdateRaises, Rollback, ProcessorCrash
<1>1. /\ UNCHANGED <<status, attempts, leaseOwner, calls, deliveries>>
      /\ mishaps' \in 0..MaxMishaps
  BY DEF UpdateRaises, Rollback, ProcessorCrash, OutboxTypeOK, table
<1>h. \A m \in Messages : Fresh(p, m) /\ Budget(m)
  BY DEF BatchInv
<1>2. CASE DropBatch(p) /\ at[p] # "idle" /\ (MoveTo(p, "idle") \/ (MoveTo(p, "release") /\ at[p] # "campaign"))
  <2>1. /\ rows'[p] = {} /\ outcome'[p] = "none" /\ \A m \in Messages : bstatus'[p][m] = "none"
        /\ at'[p] \in {"idle", "release"} /\ at' \in [Processors -> Places]
    BY <1>2, Dropped DEF OutboxTypeOK, Places
  <2>2. OutboxTypeOK'
    BY <1>1, <1>2, <2>1, Dropped DEF OutboxTypeOK, CallCap
  <2>3. LeaseInv' /\ Shape(p)'
    BY <1>0, <1>1, <1>2, <2>1 DEF BatchInv, LeaseInv, OthersStay, Shape, Leased, Dialect
  <2>4. \A m \in Messages : Fresh(p, m)' /\ Budget(m)' /\ ~Holds(p, m)'
    BY <1>h, <1>1, <2>1 DEF Fresh, Budget, Holds
  <2> QED BY <1>0, <1>1, <2>2, <2>3, <2>4, BatchStep
<1>3. CASE /\ at[p] = "handle" /\ outcome[p] = "ok" /\ outcome' = [outcome EXCEPT ![p] = "raised"]
           /\ UNCHANGED <<at, rows, read, bstatus, battempts, writer>>
  <2>1. OutboxTypeOK'
    BY <1>1, <1>3 DEF OutboxTypeOK, CallCap
  <2>2. LeaseInv' /\ Shape(p)'
    BY <1>1, <1>3 DEF BatchInv, LeaseInv, Shape, Leased, Dialect
  <2>3. \A m \in Messages : Fresh(p, m)' /\ Budget(m)'
    BY <1>h, <1>1, <1>3 DEF Fresh, Budget, Holds
  <2>4. \A q \in Processors : \A m \in Messages : q # p /\ Holds(q, m) => ~Holds(p, m)'
    BY <1>3 DEF BatchInv, Fresh, Holds
  <2> QED BY <1>0, <1>1, <2>1, <2>2, <2>3, <2>4, BatchStep
<1> QED BY <1>2, <1>3 DEF UpdateRaises, Rollback, ProcessorCrash

\* What a COMMIT writes, row by row.
LEMMA CommitRows ==
  ASSUME OutboxTypeOK, BatchInv, NEW p \in Processors, Commit(p), NEW m \in Messages
  PROVE  /\ status'[m] \in Statuses /\ attempts'[m] \in 0..PoisonBudget /\ Budget(m)'
         /\ ~Holds(p, m) => status'[m] = status[m] /\ attempts'[m] = attempts[m]
         /\ Holds(p, m) => status[m] = "PENDING" /\ status'[m] = bstatus[p][m] /\ bstatus[p][m] # "none"
         /\ bstatus[p][m] = "DELIVERED" => attempts'[m] = attempts[m]
         /\ bstatus[p][m] \in {"PENDING", "DEAD"} => attempts'[m] = attempts[m] + 1
<1>1. /\ status'[m] = IF bstatus[p][m] # "none" THEN bstatus[p][m] ELSE status[m]
      /\ attempts'[m] = IF bstatus[p][m] \in {"PENDING", "DEAD"} THEN battempts[p][m] ELSE attempts[m]
      /\ rows[p] = {} /\ Fresh(p, m) /\ Budget(m)
  BY DEF Commit, BatchInv, Shape
<1>2. /\ status[m] \in Statuses /\ attempts[m] \in 0..PoisonBudget /\ battempts[p][m] \in 0..PoisonBudget
      /\ bstatus[p][m] \in {"none", "PENDING"} \cup Terminal
  BY DEF OutboxTypeOK
<1>3. Holds(p, m) <=> bstatus[p][m] # "none"
  BY <1>1 DEF Holds
<1>4. CASE bstatus[p][m] = "none"
  <2>1. status'[m] = status[m] /\ attempts'[m] = attempts[m] /\ ~Holds(p, m)
    BY <1>1, <1>3, <1>4
  <2>2. Budget(m)'
    BY <1>1, <2>1 DEF Budget
  <2> QED BY <1>2, <1>4, <2>1, <2>2
<1>5. CASE bstatus[p][m] # "none"
  <2>1. /\ status[m] = "PENDING" /\ attempts[m] < PoisonBudget /\ status'[m] = bstatus[p][m] /\ Holds(p, m)
        /\ bstatus[p][m] \in {"PENDING", "DEAD"} => battempts[p][m] = attempts[m] + 1
        /\ bstatus[p][m] = "PENDING" => battempts[p][m] < PoisonBudget
        /\ bstatus[p][m] = "DEAD" => battempts[p][m] = PoisonBudget
    BY <1>1, <1>3, <1>5 DEF Fresh, Budget
  <2>2. CASE bstatus[p][m] = "DELIVERED"
    BY <1>1, <1>2, <2>1, <2>2 DEF Budget, Statuses, Terminal
  <2>3. CASE bstatus[p][m] = "PENDING"
    BY <1>1, <1>2, <2>1, <2>3 DEF Budget, Statuses
  <2>4. CASE bstatus[p][m] = "DEAD"
    BY <1>1, <1>2, <2>1, <2>4 DEF Budget, Statuses, Terminal
  <2> QED BY <1>2, <1>5, <2>2, <2>3, <2>4 DEF Terminal
<1> QED BY <1>4, <1>5

LEMMA CommitStep ==
  ASSUME OutboxTypeOK, BatchInv, NEW p \in Processors, UNCHANGED deployment, Commit(p)
  PROVE  OutboxTypeOK' /\ BatchInv'
<1> USE DEF MoveTo
<1>0. OthersStay(p) /\ DropBatch(p) /\ at[p] = "commit"
  BY OneProcessorMoves DEF Cycle, Commit
<1>1. /\ rows'[p] = {} /\ outcome'[p] = "none" /\ \A m \in Messages : bstatus'[p][m] = "none"
      /\ at'[p] = "release" /\ at' \in [Processors -> Places]
      /\ UNCHANGED <<leaseOwner, calls, deliveries, mishaps>>
  BY <1>0, Dropped DEF Commit, OutboxTypeOK, Places
<1>2. status' \in [Messages -> Statuses] /\ attempts' \in [Messages -> 0..PoisonBudget]
  <2>1. \A m \in Messages : status'[m] \in Statuses /\ attempts'[m] \in 0..PoisonBudget
    BY CommitRows
  <2> QED BY <2>1 DEF Commit
<1>3. OutboxTypeOK'
  BY <1>0, <1>1, <1>2, Dropped DEF OutboxTypeOK, CallCap
<1>4. LeaseInv' /\ Shape(p)'
  BY <1>0, <1>1 DEF BatchInv, LeaseInv, OthersStay, Shape, Leased, Dialect
<1>5. \A m \in Messages : Fresh(p, m)' /\ ~Holds(p, m)'
  BY <1>1 DEF Fresh, Holds
<1>6. \A m \in Messages : Budget(m)'
  BY CommitRows
<1>7. ASSUME NEW q \in Processors, NEW m \in Messages, q # p, Holds(q, m)
      PROVE  status'[m] = status[m] /\ attempts'[m] = attempts[m]
  <2>1. ~Holds(p, m)
    BY <1>7 DEF BatchInv, Fresh
  <2> QED BY <2>1, CommitRows
<1> QED BY <1>0, <1>3, <1>4, <1>5, <1>6, <1>7, BatchStep

\* enqueue_outbox, by whoever.
LEMMA EnqueueStep ==
  ASSUME OutboxTypeOK, BatchInv, UNCHANGED deployment, EnqueueOutbox
  PROVE  OutboxTypeOK' /\ BatchInv'
<1>1. /\ status' \in [Messages -> Statuses] /\ attempts' = attempts
      /\ \A m \in Messages : Budget(m)' /\ (status[m] # "ABSENT" => status'[m] = status[m])
  BY InsertBatch DEF EnqueueOutbox
<1>2. UNCHANGED <<at, rows, read, outcome, bstatus, battempts, writer, leaseOwner, calls, deliveries, mishaps>>
  BY DEF EnqueueOutbox, batch
<1>3. OutboxTypeOK'
  BY <1>1, <1>2 DEF OutboxTypeOK, CallCap
<1>4. LeaseInv' /\ \A p \in Processors : Shape(p)'
  BY <1>2 DEF BatchInv, LeaseInv, Shape, Leased, Dialect
<1>5. \A p \in Processors : \A m \in Messages : Fresh(p, m)'
  BY <1>1, <1>2 DEF BatchInv, Fresh, Holds
<1> QED BY <1>1, <1>3, <1>4, <1>5 DEF BatchInv

\* The batches stay apart from each other, whatever step is taken.
LEMMA NextBatch ==
  ASSUME OutboxTypeOK, BatchInv, OutboxNext
  PROVE  OutboxTypeOK' /\ BatchInv'
<1>1. CASE EnqueueOutbox
  BY <1>1, EnqueueStep DEF OutboxNext
<1>2. ASSUME NEW p \in Processors, Cycle(p) \/ Disrupt(p) \/ CycleUnlocked(p) PROVE OutboxTypeOK' /\ BatchInv'
  <2>1. UNCHANGED deployment
    BY DEF OutboxNext
  <2> QED BY <1>2, <2>1, LeaseSteps, SelectStep, HandleSteps, LostBatch, CommitStep DEF Cycle, Disrupt
<1> QED BY <1>1, <1>2 DEF OutboxNext

LEMMA SameBatch ==
  ASSUME OutboxTypeOK, BatchInv, UNCHANGED <<outboxVars, deployment>>
  PROVE  OutboxTypeOK' /\ BatchInv'
<1>1. UNCHANGED <<deployment, status, attempts, at, rows, read, outcome, bstatus, battempts, writer, leaseOwner,
                  calls, deliveries, mishaps>>
  BY DEF outboxVars, table, batch
<1>2. OutboxTypeOK'
  BY <1>1 DEF OutboxTypeOK, CallCap
<1>3. BatchInv'
  BY <1>1 DEF BatchInv, LeaseInv, Shape, Fresh, Holds, Budget, Leased, Dialect
<1> QED BY <1>2, <1>3

LEMMA InitBatch ==
  ASSUME Serialised, OutboxInit
  PROVE  OutboxTypeOK /\ BatchInv
<1>1. OutboxTypeOK
  BY DEF OutboxInit, OutboxTypeOK, Statuses, Places, CallCap
<1>2. LeaseInv
  BY DEF OutboxInit, LeaseInv, Serialised, Dialect, Leased
<1>3. \A p \in Processors : Shape(p) /\ \A m \in Messages : Fresh(p, m) /\ ~Holds(p, m)
  BY DEF OutboxInit, Shape, Fresh, Holds
<1>4. \A m \in Messages : Budget(m)
  BY DEF OutboxInit, Budget
<1> QED BY <1>1, <1>2, <1>3, <1>4 DEF BatchInv

\* A row that a batch holds is that batch's alone, is PENDING, and is as the
\* batch has read it, until the batch ends.  (process_outbox,
\* process_postgres_outbox_once)
THEOREM BatchesAreApart == Serialised => (OutboxSpec => [](OutboxTypeOK /\ BatchInv))
<1> SUFFICES ASSUME Serialised PROVE OutboxSpec => [](OutboxTypeOK /\ BatchInv)
  OBVIOUS
<1>1. OutboxInit => OutboxTypeOK /\ BatchInv
  BY InitBatch
<1>2. OutboxTypeOK /\ BatchInv /\ [OutboxNext]_<<outboxVars, deployment>> => (OutboxTypeOK /\ BatchInv)'
  BY NextBatch, SameBatch
<1> QED BY <1>1, <1>2, PTL DEF OutboxSpec

-----------------------------------------------------------------------------
\* Only rows that are PENDING change.
LEMMA SettledStays ==
  ASSUME OutboxTypeOK, BatchInv, OutboxNext, NEW m \in Messages, status[m] \in Terminal
  PROVE  status'[m] = status[m]
<1>1. CASE EnqueueOutbox
  BY <1>1, InsertBatch DEF EnqueueOutbox, Terminal
<1>2. ASSUME NEW p \in Processors, Cycle(p) \/ Disrupt(p) \/ CycleUnlocked(p) PROVE status'[m] = status[m]
  <2>1. CASE Campaign(p)
    BY <2>1, InsertBatch DEF Campaign, Terminal, table
  <2>2. CASE Commit(p)
    BY <2>2, CommitRows DEF Terminal
  <2>3. CASE BeginCycle(p) \/ Select(p) \/ Update(p) \/ EndCycle(p) \/ \E ok \in BOOLEAN : Handle(p, ok)
    BY <2>3 DEF BeginCycle, Select, Update, EndCycle, Handle, table
  <2>4. CASE Disrupt(p) \/ CycleUnlocked(p)
    BY <2>4 DEF Disrupt, CampaignFails, UpdateRaises, Rollback, ProcessorCrash, CycleUnlocked, table
  <2> QED BY <1>2, <2>1, <2>2, <2>3, <2>4 DEF Cycle
<1> QED BY <1>1, <1>2 DEF OutboxNext

\* DELIVERED and DEAD are final, however late a batch commits.
\* (process_outbox)
THEOREM SettledIsFinal == Serialised => (OutboxSpec => TerminalFinal)
<1> SUFFICES ASSUME Serialised PROVE OutboxSpec => TerminalFinal
  OBVIOUS
<1>1. OutboxTypeOK /\ BatchInv /\ [OutboxNext]_<<outboxVars, deployment>>
        => [\A m \in Messages : status[m] \in Terminal => status'[m] = status[m]]_outboxVars
  <2>1. ASSUME OutboxTypeOK, BatchInv, OutboxNext PROVE \A m \in Messages : status[m] \in Terminal => status'[m] = status[m]
    BY <2>1, SettledStays
  <2> QED BY <2>1
<1> QED BY <1>1, BatchesAreApart, PTL DEF OutboxSpec, TerminalFinal

-----------------------------------------------------------------------------
\* A handler call (a delivery) that no commit has recorded yet.
Called(p, m) == (outcome[p] # "none" /\ m = OldestOf(rows[p])) \/ bstatus[p][m] # "none"
Delivered(p, m) == (outcome[p] = "ok" /\ m = OldestOf(rows[p])) \/ bstatus[p][m] = "DELIVERED"

AnyCalled(m) == \E p \in Processors : Called(p, m)
AnyDelivered(m) == \E p \in Processors : Delivered(p, m)

\* Calls are the attempts in the table, one for each batch that was lost, and
\* one that is not an attempt: the one under way, or the one that delivered.
CallsInv(m) ==
  /\ attempts[m] <= calls[m]
  /\ AnyCalled(m) => attempts[m] + 1 <= calls[m]
  /\ calls[m] <= attempts[m] + mishaps + 1
  /\ status[m] # "DELIVERED" /\ ~AnyCalled(m) => calls[m] <= attempts[m] + mishaps

\* The same for the calls that delivered.
DeliveriesInv(m) ==
  /\ status[m] = "DELIVERED" \/ AnyDelivered(m) => 1 <= deliveries[m]
  /\ deliveries[m] <= mishaps + 1
  /\ status[m] # "DELIVERED" /\ ~AnyDelivered(m) => deliveries[m] <= mishaps

CountInv == \A m \in Messages : CallsInv(m) /\ DeliveriesInv(m)

\* Only the holder of a row calls the handler with it.
LEMMA CallersHold ==
  ASSUME OutboxTypeOK, BatchInv, NEW p \in Processors, NEW m \in Messages
  PROVE  (Delivered(p, m) => Called(p, m)) /\ (Called(p, m) => Holds(p, m))
<1>1. Delivered(p, m) => Called(p, m)
  BY DEF Delivered, Called
<1>2. outcome[p] # "none" => OldestOf(rows[p]) \in rows[p]
  <2>1. outcome[p] # "none" => at[p] = "handle"
    BY DEF OutboxTypeOK, Places, BatchInv, Shape
  <2> QED BY <2>1, HandledRow
<1> QED BY <1>1, <1>2 DEF Called, Holds

LEMMA OneCaller ==
  ASSUME OutboxTypeOK, BatchInv, NEW p \in Processors, NEW m \in Messages, Holds(p, m)
  PROVE  \A q \in Processors : q # p => ~Called(q, m) /\ ~Delivered(q, m)
BY CallersHold DEF BatchInv, Fresh

LEMMA OthersCall ==
  ASSUME NEW p \in Processors, OthersStay(p), NEW m \in Messages
  PROVE  \A q \in Processors : q # p => (Called(q, m)' <=> Called(q, m)) /\ (Delivered(q, m)' <=> Delivered(q, m))
BY DEF OthersStay, Called, Delivered

\* Counts that nobody touches stay right.
LEMMA CountsKept ==
  ASSUME OutboxTypeOK, OutboxTypeOK', NEW m \in Messages, CallsInv(m), DeliveriesInv(m),
         calls'[m] = calls[m], deliveries'[m] = deliveries[m], attempts'[m] = attempts[m],
         mishaps <= mishaps', (status'[m] = "DELIVERED") <=> (status[m] = "DELIVERED"),
         AnyCalled(m)' <=> AnyCalled(m), AnyDelivered(m)' <=> AnyDelivered(m)
  PROVE  CallsInv(m)' /\ DeliveriesInv(m)'
<1>1. /\ attempts[m] \in Nat /\ calls[m] \in Nat /\ deliveries[m] \in Nat /\ mishaps \in Nat /\ mishaps' \in Nat
  BY DEF OutboxTypeOK, CallCap
<1> QED BY <1>1 DEF CallsInv, DeliveriesInv

LEMMA QuietStep ==
  ASSUME OutboxTypeOK, OutboxTypeOK', BatchInv, CountInv, NEW p \in Processors,
         BeginCycle(p) \/ Campaign(p) \/ CampaignFails(p) \/ EndCycle(p) \/ CycleUnlocked(p) \/ Select(p) \/ Update(p)
  PROVE  CountInv'
<1>0. OthersStay(p)
  BY OneProcessorMoves DEF Cycle, Disrupt
<1> SUFFICES ASSUME NEW m \in Messages PROVE CallsInv(m)' /\ DeliveriesInv(m)'
  BY DEF CountInv
<1>1. /\ UNCHANGED <<calls, deliveries>> /\ mishaps <= mishaps'
  BY DEF BeginCycle, Campaign, CampaignFails, EndCycle, CycleUnlocked, Select, Update, OutboxTypeOK
<1>2. attempts'[m] = attempts[m] /\ ((status'[m] = "DELIVERED") <=> (status[m] = "DELIVERED"))
  <2>1. CASE Campaign(p)
    BY <2>1, InsertBatch DEF Campaign, table
  <2>2. CASE ~Campaign(p)
    BY <2>2 DEF BeginCycle, CampaignFails, EndCycle, CycleUnlocked, Select, Update, table
  <2> QED BY <2>1, <2>2
<1>3. (Called(p, m)' <=> Called(p, m)) /\ (Delivered(p, m)' <=> Delivered(p, m))
  <2>1. CASE Update(p)
    <3> DEFINE o == OldestOf(rows[p])
    <3>1. o \in Messages /\ bstatus[p][o] = "none"
      BY <2>1, HandledRow DEF Update
    <3>2. /\ outcome'[p] = "none" /\ outcome[p] # "none"
          /\ bstatus'[p][o] = IF outcome[p] = "ok" THEN "DELIVERED" ELSE AfterFailure(read[p][o])
          /\ m # o => bstatus'[p][m] = bstatus[p][m]
      BY <2>1, <3>1 DEF Update, OutboxTypeOK
    <3>3. AfterFailure(read[p][o]) \in {"DEAD", "PENDING"}
      BY DEF AfterFailure
    <3> HIDE DEF o
    <3>4. CASE m = o
      <4>1. Called(p, m)' /\ (Delivered(p, m)' <=> outcome[p] = "ok")
        BY <3>2, <3>3, <3>4 DEF Called, Delivered
      <4>2. Called(p, m) /\ (Delivered(p, m) <=> outcome[p] = "ok")
        BY <3>1, <3>2, <3>4 DEF Called, Delivered, o
      <4> QED BY <4>1, <4>2
    <3>5. CASE m # o
      <4>1. bstatus'[p][m] = bstatus[p][m]
        BY <3>2, <3>5
      <4> QED BY <3>2, <3>5, <4>1 DEF Called, Delivered, o
    <3> QED BY <3>4, <3>5
  <2>2. CASE Select(p)
    BY <2>2 DEF Select, BatchInv, Shape, Called, Delivered
  <2>3. CASE BeginCycle(p) \/ Campaign(p) \/ CampaignFails(p) \/ EndCycle(p) \/ CycleUnlocked(p)
    <3>1. UNCHANGED <<rows, outcome, bstatus>>
      BY <2>3 DEF BeginCycle, Campaign, CampaignFails, EndCycle, CycleUnlocked, batch
    <3> QED BY <3>1 DEF Called, Delivered
  <2> QED BY <2>1, <2>2, <2>3
<1>4. (AnyCalled(m)' <=> AnyCalled(m)) /\ (AnyDelivered(m)' <=> AnyDelivered(m))
  BY <1>0, <1>3, OthersCall DEF AnyCalled, AnyDelivered
<1> QED BY <1>1, <1>2, <1>4, CountsKept DEF CountInv

LEMMA HandleCounts ==
  ASSUME OutboxTypeOK, OutboxTypeOK', BatchInv, CountInv, NEW p \in Processors, NEW ok \in BOOLEAN, Handle(p, ok)
  PROVE  CountInv'
<1>0. OthersStay(p)
  BY OneProcessorMoves DEF Cycle
<1>o. PICK o \in Messages : o = OldestOf(rows[p])
  BY HandledRow DEF Handle
<1>1. /\ o \in Messages /\ Holds(p, o) /\ bstatus[p][o] = "none" /\ status[o] = "PENDING" /\ attempts[o] < PoisonBudget
  BY <1>o, HandledRow DEF Handle
<1>2. /\ UNCHANGED <<status, attempts, rows, bstatus, mishaps>> /\ outcome[p] = "none"
      /\ outcome'[p] = IF ok THEN "ok" ELSE "raised"
  BY DEF Handle, table, OutboxTypeOK
<1>3. /\ calls'[o] = IF calls[o] < CallCap THEN calls[o] + 1 ELSE calls[o]
      /\ ~ok => deliveries'[o] = deliveries[o]
      /\ ok => deliveries'[o] = IF deliveries[o] < CallCap THEN deliveries[o] + 1 ELSE deliveries[o]
      /\ \A m \in Messages : m # o => calls'[m] = calls[m] /\ deliveries'[m] = deliveries[m]
  BY <1>o, HandlerCounts
<1>4. Called(p, o)' /\ (Delivered(p, o)' <=> ok) /\ ~AnyCalled(o) /\ ~AnyDelivered(o)
  <2>1. Called(p, o)' /\ (Delivered(p, o)' <=> ok)
    BY <1>1, <1>2, <1>o DEF Called, Delivered
  <2>2. ~Called(p, o) /\ ~Delivered(p, o)
    BY <1>1, <1>2 DEF Called, Delivered
  <2> QED BY <1>1, <2>1, <2>2, OneCaller DEF AnyCalled, AnyDelivered
<1>5. ASSUME NEW m \in Messages, m # o PROVE CallsInv(m)' /\ DeliveriesInv(m)'
  <2>1. (Called(p, m)' <=> Called(p, m)) /\ (Delivered(p, m)' <=> Delivered(p, m))
    BY <1>2, <1>5, <1>o DEF Called, Delivered
  <2>2. (AnyCalled(m)' <=> AnyCalled(m)) /\ (AnyDelivered(m)' <=> AnyDelivered(m))
    BY <1>0, <2>1, OthersCall DEF AnyCalled, AnyDelivered
  <2>3. mishaps <= mishaps'
    BY <1>2 DEF OutboxTypeOK
  <2> QED BY <1>2, <1>3, <1>5, <2>2, <2>3, CountsKept DEF CountInv
<1>6. CallsInv(o)' /\ DeliveriesInv(o)'
  <2>1. AnyCalled(o)' /\ (AnyDelivered(o)' <=> ok)
    <3>1. \A q \in Processors : q # p => ~Delivered(q, o)'
      BY <1>0, <1>1, <1>4, OthersCall DEF AnyDelivered
    <3> QED BY <1>4, <3>1 DEF AnyCalled, AnyDelivered
  <2>2. /\ attempts[o] \in Nat /\ calls[o] \in 0..CallCap /\ deliveries[o] \in 0..CallCap /\ mishaps \in Nat
        /\ CallCap \in Nat /\ PoisonBudget \in Nat /\ PoisonBudget <= CallCap
    BY <1>1 DEF OutboxTypeOK, CallCap
  <2>3. CallsInv(o) /\ DeliveriesInv(o)
    BY <1>1 DEF CountInv
  <2>4. /\ attempts[o] <= calls[o] /\ calls[o] <= attempts[o] + mishaps /\ deliveries[o] <= mishaps
    BY <1>1, <1>4, <2>3 DEF CallsInv, DeliveriesInv
  <2>5. attempts[o] + 1 <= calls'[o] /\ calls'[o] <= attempts[o] + mishaps + 1
    BY <1>1, <1>3, <2>2, <2>4
  <2>6. /\ deliveries'[o] <= mishaps + 1 /\ (ok => 1 <= deliveries'[o]) /\ (~ok => deliveries'[o] <= mishaps)
    BY <1>3, <2>2, <2>4 DEF CallCap
  <2>7. calls'[o] \in Nat
    BY <1>3, <2>2
  <2>8. CallsInv(o)'
    BY <1>2, <2>1, <2>2, <2>5, <2>7 DEF CallsInv
  <2> QED BY <1>1, <1>2, <2>1, <2>6, <2>8 DEF DeliveriesInv
<1> QED BY <1>5, <1>6 DEF CountInv

\* A batch that is lost takes its uncommitted counts with it.
LEMMA LostCounts ==
  ASSUME OutboxTypeOK, OutboxTypeOK', BatchInv, CountInv, NEW p \in Processors,
         UpdateRaises(p) \/ Rollback(p) \/ ProcessorCrash(p)
  PROVE  CountInv'
<1>0. OthersStay(p)
  BY OneProcessorMoves DEF Disrupt
<1> SUFFICES ASSUME NEW m \in Messages PROVE CallsInv(m)' /\ DeliveriesInv(m)'
  BY DEF CountInv
<1>1. UNCHANGED <<status, attempts, calls, deliveries>> /\ mishaps' = mishaps + 1
  BY DEF UpdateRaises, Rollback, ProcessorCrash, table
<1>2. (Called(p, m)' => Called(p, m)) /\ (Delivered(p, m)' => Delivered(p, m))
  <2>1. CASE DropBatch(p)
    <3>1. rows'[p] = {} /\ outcome'[p] = "none" /\ bstatus'[p][m] = "none"
      BY <2>1, Dropped
    <3> QED BY <3>1 DEF Called, Delivered
  <2>2. CASE outcome[p] = "ok" /\ outcome' = [outcome EXCEPT ![p] = "raised"] /\ UNCHANGED <<rows, bstatus>>
    <3>1. outcome'[p] = "raised"
      BY <2>2 DEF OutboxTypeOK
    <3> QED BY <2>2, <3>1 DEF Called, Delivered
  <2> QED BY <2>1, <2>2 DEF UpdateRaises, Rollback, ProcessorCrash
<1>3. (AnyCalled(m)' => AnyCalled(m)) /\ (AnyDelivered(m)' => AnyDelivered(m))
  BY <1>0, <1>2, OthersCall DEF AnyCalled, AnyDelivered
<1>4. /\ attempts[m] \in Nat /\ calls[m] \in Nat /\ deliveries[m] \in Nat /\ mishaps \in Nat
  BY DEF OutboxTypeOK, CallCap
<1> QED BY <1>1, <1>3, <1>4 DEF CountInv, CallsInv, DeliveriesInv

\* A commit turns the batch's calls into attempts, and its deliveries into
\* DELIVERED rows.
LEMMA CommitCounts ==
  ASSUME OutboxTypeOK, OutboxTypeOK', BatchInv, CountInv, NEW p \in Processors, Commit(p)
  PROVE  CountInv'
<1>0. OthersStay(p) /\ DropBatch(p)
  BY OneProcessorMoves DEF Cycle, Commit
<1>1. UNCHANGED <<calls, deliveries, mishaps>> /\ rows[p] = {} /\ outcome[p] = "none"
  BY DEF Commit, BatchInv, Shape
<1>2. ASSUME NEW m \in Messages PROVE ~Called(p, m)' /\ ~Delivered(p, m)'
  <2>1. rows'[p] = {} /\ outcome'[p] = "none" /\ bstatus'[p][m] = "none"
    BY <1>0, Dropped
  <2> QED BY <2>1 DEF Called, Delivered
<1> SUFFICES ASSUME NEW m \in Messages PROVE CallsInv(m)' /\ DeliveriesInv(m)'
  BY DEF CountInv
<1>3. /\ ~Holds(p, m) => status'[m] = status[m] /\ attempts'[m] = attempts[m]
      /\ Holds(p, m) => status[m] = "PENDING" /\ status'[m] = bstatus[p][m] /\ bstatus[p][m] # "none"
      /\ bstatus[p][m] = "DELIVERED" => attempts'[m] = attempts[m]
      /\ bstatus[p][m] \in {"PENDING", "DEAD"} => attempts'[m] = attempts[m] + 1
  BY CommitRows
<1>4. /\ attempts[m] \in Nat /\ calls[m] \in Nat /\ deliveries[m] \in Nat /\ mishaps \in Nat
      /\ bstatus[p][m] \in {"none", "PENDING", "DELIVERED", "DEAD"}
  BY DEF OutboxTypeOK, CallCap, Terminal
<1>5. CallsInv(m) /\ DeliveriesInv(m)
  BY DEF CountInv
<1>6. CASE Holds(p, m)
  <2>1. Called(p, m) /\ (Delivered(p, m) <=> bstatus[p][m] = "DELIVERED")
    BY <1>1, <1>3, <1>6 DEF Called, Delivered
  <2>2. ~AnyCalled(m)' /\ ~AnyDelivered(m)'
    BY <1>0, <1>2, <1>6, OneCaller, OthersCall DEF AnyCalled, AnyDelivered
  <2>3. AnyCalled(m) /\ (AnyDelivered(m) <=> bstatus[p][m] = "DELIVERED")
    BY <1>6, <2>1, OneCaller DEF AnyCalled, AnyDelivered
  <2>4. /\ attempts[m] + 1 <= calls[m] /\ calls[m] <= attempts[m] + mishaps + 1
        /\ deliveries[m] <= mishaps + 1 /\ (bstatus[p][m] = "DELIVERED" => 1 <= deliveries[m])
        /\ bstatus[p][m] # "DELIVERED" => deliveries[m] <= mishaps
    BY <1>3, <1>5, <1>6, <2>3 DEF CallsInv, DeliveriesInv
  <2>5. CallsInv(m)'
    BY <1>1, <1>3, <1>4, <1>6, <2>2, <2>4 DEF CallsInv
  <2> QED BY <1>1, <1>3, <1>4, <1>6, <2>2, <2>4, <2>5 DEF DeliveriesInv
<1>7. CASE ~Holds(p, m)
  <2>1. ~Called(p, m) /\ ~Delivered(p, m)
    BY <1>7, CallersHold
  <2>2. (AnyCalled(m)' <=> AnyCalled(m)) /\ (AnyDelivered(m)' <=> AnyDelivered(m))
    BY <1>0, <1>2, <2>1, OthersCall DEF AnyCalled, AnyDelivered
  <2> QED BY <1>1, <1>3, <1>4, <1>5, <1>7, <2>2, CountsKept
<1> QED BY <1>6, <1>7

LEMMA NextCounts ==
  ASSUME OutboxTypeOK, OutboxTypeOK', BatchInv, CountInv, OutboxNext
  PROVE  CountInv'
<1>1. CASE EnqueueOutbox
  <2> SUFFICES ASSUME NEW m \in Messages PROVE CallsInv(m)' /\ DeliveriesInv(m)'
    BY DEF CountInv
  <2>1. /\ attempts'[m] = attempts[m] /\ ((status'[m] = "DELIVERED") <=> (status[m] = "DELIVERED"))
        /\ UNCHANGED <<rows, outcome, bstatus, calls, deliveries, mishaps>>
    BY <1>1, InsertBatch DEF EnqueueOutbox, batch
  <2>2. (AnyCalled(m)' <=> AnyCalled(m)) /\ (AnyDelivered(m)' <=> AnyDelivered(m))
    BY <2>1 DEF AnyCalled, AnyDelivered, Called, Delivered
  <2>3. mishaps <= mishaps'
    BY <2>1 DEF OutboxTypeOK
  <2> QED BY <2>1, <2>2, <2>3, CountsKept DEF CountInv
<1>2. ASSUME NEW p \in Processors, Cycle(p) \/ Disrupt(p) \/ CycleUnlocked(p) PROVE CountInv'
  BY <1>2, QuietStep, HandleCounts, LostCounts, CommitCounts DEF Cycle, Disrupt
<1> QED BY <1>1, <1>2 DEF OutboxNext

\* Handler calls and the table agree up to what was lost: the inductive
\* invariant for the counts.
THEOREM CountsAgree == Serialised => (OutboxSpec => [](OutboxTypeOK /\ BatchInv /\ CountInv))
<1> SUFFICES ASSUME Serialised PROVE OutboxSpec => [](OutboxTypeOK /\ BatchInv /\ CountInv)
  OBVIOUS
<1>1. OutboxInit => CountInv
  <2> SUFFICES ASSUME OutboxInit, NEW m \in Messages PROVE CallsInv(m) /\ DeliveriesInv(m)
    BY DEF CountInv
  <2>1. /\ attempts[m] = 0 /\ calls[m] = 0 /\ deliveries[m] = 0 /\ mishaps = 0 /\ status[m] = "ABSENT"
        /\ ~AnyCalled(m) /\ ~AnyDelivered(m)
    BY DEF OutboxInit, AnyCalled, AnyDelivered, Called, Delivered
  <2> QED BY <2>1 DEF CallsInv, DeliveriesInv
<1>2. OutboxTypeOK /\ OutboxTypeOK' /\ BatchInv /\ CountInv /\ [OutboxNext]_<<outboxVars, deployment>> => CountInv'
  <2>1. CASE OutboxNext
    BY <2>1, NextCounts
  <2>2. CASE UNCHANGED <<outboxVars, deployment>>
    BY <2>2 DEF outboxVars, table, batch, CountInv, CallsInv, DeliveriesInv, AnyCalled, AnyDelivered, Called, Delivered
  <2> QED BY <2>1, <2>2
<1> QED BY <1>1, <1>2, BatchesAreApart, PTL DEF OutboxSpec

\* DELIVERED only after a handler call that succeeded, DEAD only after
\* max_attempts calls.  (process_outbox, transition_after_failure)
THEOREM SettledTruly == Serialised => (OutboxSpec => []SettledHonestly)
<1> SUFFICES ASSUME Serialised PROVE OutboxSpec => []SettledHonestly
  OBVIOUS
<1>1. OutboxTypeOK /\ BatchInv /\ CountInv => SettledHonestly
  <2> SUFFICES ASSUME OutboxTypeOK, BatchInv, CountInv, NEW m \in Messages
               PROVE  (status[m] = "DELIVERED" => deliveries[m] >= 1) /\ (status[m] = "DEAD" => calls[m] >= PoisonBudget)
    BY DEF SettledHonestly
  <2>1. /\ calls[m] \in Nat /\ deliveries[m] \in Nat /\ CallsInv(m) /\ DeliveriesInv(m) /\ Budget(m)
    BY DEF OutboxTypeOK, CountInv, BatchInv, CallCap
  <2> QED BY <2>1 DEF CallsInv, DeliveriesInv, Budget
<1> QED BY <1>1, CountsAgree, PTL

\* A message is delivered again only because a transaction was lost.
THEOREM DuplicatesAreBounded == Serialised => (OutboxSpec => []DuplicatesBounded)
<1> SUFFICES ASSUME Serialised PROVE OutboxSpec => []DuplicatesBounded
  OBVIOUS
<1>1. OutboxTypeOK /\ CountInv => DuplicatesBounded
  BY DEF OutboxTypeOK, CountInv, DeliveriesInv, DuplicatesBounded, CallCap
<1> QED BY <1>1, CountsAgree, PTL

\* A poison message costs its attempts, and the calls whose count was lost.
THEOREM PoisonIsBounded == Serialised => (OutboxSpec => []PoisonBounded)
<1> SUFFICES ASSUME Serialised PROVE OutboxSpec => []PoisonBounded
  OBVIOUS
<1>1. OutboxTypeOK /\ BatchInv /\ CountInv => PoisonBounded
  <2> SUFFICES ASSUME OutboxTypeOK, BatchInv, CountInv, NEW m \in Messages PROVE calls[m] <= PoisonBudget + mishaps
    BY DEF PoisonBounded
  <2>1. /\ attempts[m] \in 0..PoisonBudget /\ calls[m] \in Nat /\ mishaps \in Nat /\ CallsInv(m) /\ Budget(m)
    BY DEF OutboxTypeOK, CountInv, BatchInv, CallCap
  <2>2. CASE status[m] = "DEAD"
    <3>1. ~AnyCalled(m)
      BY <2>2, CallersHold DEF AnyCalled, BatchInv, Fresh
    <3> QED BY <2>1, <2>2, <3>1 DEF CallsInv, Budget
  <2>3. CASE status[m] # "DEAD"
    BY <2>1, <2>3 DEF CallsInv, Budget
  <2> QED BY <2>2, <2>3
<1> QED BY <1>1, CountsAgree, PTL

-----------------------------------------------------------------------------
(***************************************************************************)
(* The refinement of AtLeastOnce.                                          *)
(***************************************************************************)

\* A message is posted.  (enqueue_outbox)
LEMMA InsertPosts ==
  ASSUME Insert, UNCHANGED deliveries
  PROVE  Queue!Next
<1> DEFINE o == OldestOf({m \in Messages : status[m] = "ABSENT"})
<1>1. o \in {m \in Messages : status[m] = "ABSENT"}
  BY OldestIsOne DEF Insert
<1>2. status' = [status EXCEPT ![o] = "PENDING"] /\ UNCHANGED attempts
  BY DEF Insert
<1> HIDE DEF o
<1>3. Queue!Post(o)
  BY <1>1, <1>2 DEF Queue!Post
<1> QED BY <1>1, <1>3 DEF Queue!Next

\* A successful call hands a pending message over; the history counter has
\* room for it, whatever was lost before.
LEMMA HandlerHandsOver ==
  ASSUME OutboxTypeOK, BatchInv, CountInv, NEW p \in Processors, NEW ok \in BOOLEAN, Handle(p, ok)
  PROVE  Queue!Next \/ UNCHANGED <<status, attempts, deliveries>>
<1>o. PICK o \in Messages : o = OldestOf(rows[p])
  BY HandledRow DEF Handle
<1>1. status[o] = "PENDING" /\ UNCHANGED <<status, attempts>>
  BY <1>o, HandledRow DEF Handle, table
<1>2. deliveries[o] < CallCap
  <2>1. deliveries[o] <= mishaps + 1
    BY DEF CountInv, DeliveriesInv
  <2> QED BY <2>1 DEF OutboxTypeOK, CallCap
<1>3. deliveries' = [deliveries EXCEPT ![o] = IF ok /\ deliveries[o] < CallCap THEN deliveries[o] + 1 ELSE deliveries[o]]
  BY <1>o DEF Handle
<1>4. CASE ok
  <2>1. deliveries' = [deliveries EXCEPT ![o] = deliveries[o] + 1]
    BY <1>2, <1>3, <1>4
  <2>2. Queue!HandOver(o)
    BY <1>1, <2>1 DEF Queue!HandOver
  <2> QED BY <2>2 DEF Queue!Next
<1>5. CASE ~ok
  <2>1. deliveries' = [deliveries EXCEPT ![o] = deliveries[o]]
    BY <1>3, <1>5
  <2>2. deliveries' = deliveries
    BY <2>1 DEF OutboxTypeOK
  <2> QED BY <1>1, <2>2
<1> QED BY <1>4, <1>5

\* A COMMIT settles the rows of its batch and no other: the ones it updated as
\* delivered, and the ones it updated as failed.
LEMMA CommitSettles ==
  ASSUME OutboxTypeOK, BatchInv, CountInv, NEW p \in Processors, Commit(p)
  PROVE  Queue!Next
<1> DEFINE D == {m \in Messages : bstatus[p][m] = "DELIVERED"}
           F == {m \in Messages : bstatus[p][m] \in {"PENDING", "DEAD"}}
<1>0. UNCHANGED deliveries
  BY DEF Commit
<1>1. ASSUME NEW m \in D PROVE status[m] = "PENDING" /\ deliveries[m] > 0
  <2>1. Holds(p, m) /\ Delivered(p, m)
    BY <1>1 DEF Holds, Delivered
  <2>2. deliveries[m] \in Nat /\ 1 <= deliveries[m]
    BY <2>1 DEF CountInv, DeliveriesInv, AnyDelivered, OutboxTypeOK, CallCap
  <2> QED BY <2>1, <2>2 DEF BatchInv, Fresh
<1>2. ASSUME NEW m \in F PROVE status[m] = "PENDING" /\ attempts[m] < PoisonBudget
  BY <1>2 DEF Holds, BatchInv, Fresh, Budget
<1>3. ASSUME NEW m \in Messages
      PROVE  attempts'[m] = IF m \in F THEN attempts[m] + 1 ELSE attempts[m]
  <2>1. attempts'[m] = IF bstatus[p][m] \in {"PENDING", "DEAD"} THEN battempts[p][m] ELSE attempts[m]
    BY DEF Commit
  <2>2. m \in F => battempts[p][m] = attempts[m] + 1
    BY DEF BatchInv, Fresh, Holds
  <2> QED BY <2>1, <2>2
<1>4. attempts' = [m \in Messages |-> IF m \in F THEN attempts[m] + 1 ELSE attempts[m]]
  <2>1. attempts' = [m \in Messages |-> attempts'[m]]
    BY DEF Commit
  <2> HIDE DEF F
  <2> QED BY <1>3, <2>1, Zenon
<1>5. ASSUME NEW m \in Messages
      PROVE  status'[m] = CASE m \in D -> "DELIVERED"
                            [] m \in F -> IF attempts[m] + 1 = PoisonBudget THEN "DEAD" ELSE "PENDING"
                            [] OTHER -> status[m]
  <2>1. status'[m] = IF bstatus[p][m] # "none" THEN bstatus[p][m] ELSE status[m]
    BY DEF Commit
  <2>2. bstatus[p][m] \in {"none", "PENDING", "DELIVERED", "DEAD"}
    BY DEF OutboxTypeOK, Terminal
  <2>3. m \in F => /\ bstatus[p][m] = "DEAD" => attempts[m] + 1 = PoisonBudget
                   /\ bstatus[p][m] = "PENDING" => attempts[m] + 1 # PoisonBudget
    BY DEF BatchInv, Fresh, Holds, OutboxTypeOK
  <2> QED BY <2>1, <2>2, <2>3
<1>6. status' = [m \in Messages |->
                  CASE m \in D -> "DELIVERED"
                    [] m \in F -> IF attempts[m] + 1 = PoisonBudget THEN "DEAD" ELSE "PENDING"
                    [] OTHER -> status[m]]
  <2>1. status' = [m \in Messages |-> status'[m]]
    BY DEF Commit
  <2> HIDE DEF D, F
  <2> QED BY <1>5, <2>1, Zenon
<1>7. D \in SUBSET Messages /\ F \in SUBSET (Messages \ D)
  OBVIOUS
<1> HIDE DEF D, F
<1>8. Queue!Settle(D, F)
  BY <1>0, <1>1, <1>2, <1>4, <1>6 DEF Queue!Settle
<1> QED BY <1>7, <1>8 DEF Queue!Next

LEMMA QueueStep ==
  ASSUME OutboxTypeOK, BatchInv, CountInv, [OutboxNext]_<<outboxVars, deployment>>
  PROVE  [Queue!Next]_<<status, attempts, deliveries>>
<1>1. CASE EnqueueOutbox
  BY <1>1, InsertPosts DEF EnqueueOutbox
<1>2. ASSUME NEW p \in Processors, Cycle(p) \/ Disrupt(p) \/ CycleUnlocked(p)
      PROVE  Queue!Next \/ UNCHANGED <<status, attempts, deliveries>>
  <2>1. CASE Campaign(p)
    BY <2>1, InsertPosts DEF Campaign, table
  <2>2. CASE Commit(p)
    BY <2>2, CommitSettles
  <2>3. CASE \E ok \in BOOLEAN : Handle(p, ok)
    BY <2>3, HandlerHandsOver
  <2>4. CASE BeginCycle(p) \/ Select(p) \/ Update(p) \/ EndCycle(p)
    BY <2>4 DEF BeginCycle, Select, Update, EndCycle, table
  <2>5. CASE Disrupt(p) \/ CycleUnlocked(p)
    BY <2>5 DEF Disrupt, CampaignFails, UpdateRaises, Rollback, ProcessorCrash, CycleUnlocked, table
  <2> QED BY <1>2, <2>1, <2>2, <2>3, <2>4, <2>5 DEF Cycle
<1>3. CASE UNCHANGED <<outboxVars, deployment>>
  BY <1>3 DEF outboxVars, table
<1> QED BY <1>1, <1>2, <1>3 DEF OutboxNext

\* However batches overlap, and whatever crashes or rolls back between a
\* delivery and its commit, the outbox is one that delivers at least once and
\* settles once.  (process_outbox, process_postgres_outbox_once)
THEOREM OutboxDelivers == Serialised => (OutboxSpec => DeliversAtLeastOnce)
<1> SUFFICES ASSUME Serialised PROVE OutboxSpec => DeliversAtLeastOnce
  OBVIOUS
<1>1. OutboxInit => Queue!Init
  BY DEF OutboxInit, Queue!Init
<1>2. OutboxTypeOK /\ BatchInv /\ CountInv /\ [OutboxNext]_<<outboxVars, deployment>> => [Queue!Next]_<<status, attempts, deliveries>>
  BY QueueStep
<1> QED BY <1>1, <1>2, CountsAgree, PTL DEF OutboxSpec, DeliversAtLeastOnce, Queue!Spec

-----------------------------------------------------------------------------
\* Side by side, each queue behaves as it does alone; the ledger's steps are
\* those of the JSON deployment.
LEMMA EachQueueAlone == QueuesFairSpec => Spec /\ OutboxSpec /\ TasksSpec
<1>1. QueuesInit => Init /\ OutboxInit /\ TasksInit
  BY DEF QueuesInit
<1>2. [QueuesNext]_queueVars
      => [Next]_vars /\ [OutboxNext]_<<outboxVars, deployment>> /\ [TasksNext]_engVars
  <2>1. JsonNext => Next
    BY DEF JsonNext, Next
  <2> QED BY <2>1 DEF QueuesNext, LedgerRuns, OutboxRuns, TasksRun, outboxState, queueVars
<1> QED BY <1>1, <1>2, PTL DEF QueuesFairSpec, Spec, OutboxSpec, TasksSpec

\* All three queues of the background processes keep their types, whichever
\* runs.  (_run_locked, process_outbox, EngineeringWorker.run_once)
THEOREM QueuesTypeCorrect == Serialised => (QueuesFairSpec => []QueueTypesOK)
<1> SUFFICES ASSUME Serialised PROVE QueuesFairSpec => []QueueTypesOK
  OBVIOUS
<1>1. OutboxSpec => []OutboxTypeOK
  BY BatchesAreApart, PTL
<1>2. TypeOK /\ OutboxTypeOK /\ TasksTypeOK => QueueTypesOK
  BY DEF QueueTypesOK
<1> QED BY <1>1, <1>2, EachQueueAlone, UpgradeTypeCorrect, TasksTypeCorrect, PTL

\* Of the three queues together, for every value of the constants.  The JSON
\* ledger, with a process per run: COMPLETED means that nothing is left,
\* executions exceed attempts by one for each disruption, the ledger counts
\* them.  The outbox delivers at least once, with bounded duplicates and poison
\* attempts, and settles honestly.  Claims of tasks are exclusive until they
\* come loose and outcomes evidenced unless declared.
\* (_run_locked, process_outbox, EngineeringWorker.run_once)
THEOREM QueuesPromises ==
  QueuesFairSpec =>
    /\ ~ReusePipeline => []CompletedMeansDone /\ []AttemptsBounded /\ CountsAttempts
    /\ Serialised => /\ DeliversAtLeastOnce
                     /\ []SettledHonestly /\ []DuplicatesBounded /\ []PoisonBounded
    /\ []ExclusiveClaims /\ []OutcomeEvidenced
<1>1. ASSUME ~ReusePipeline
      PROVE  QueuesFairSpec => []CompletedMeansDone /\ []AttemptsBounded /\ CountsAttempts
  BY <1>1, EachQueueAlone, CompletedIsDone, AttemptsAreBounded, LedgerCountsAttempts
<1>2. ASSUME Serialised
      PROVE  QueuesFairSpec => /\ DeliversAtLeastOnce
                               /\ []SettledHonestly /\ []DuplicatesBounded /\ []PoisonBounded
  BY <1>2, EachQueueAlone, OutboxDelivers, SettledTruly, DuplicatesAreBounded, PoisonIsBounded
<1>3. QueuesFairSpec => []ExclusiveClaims /\ []OutcomeEvidenced
  BY EachQueueAlone, ClaimsAreExclusive, OutcomesAreEvidenced
<1> QED BY <1>1, <1>2, <1>3
=============================================================================
