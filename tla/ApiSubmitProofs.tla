-------------------------- MODULE ApiSubmitProofs --------------------------
(***************************************************************************)
(* Proofs about ApiSubmit, for any number of replicas, keys, payloads and  *)
(* projects: submission over several statements implements the atomic one  *)
(* of KeyedJobs.  The argument is about what a transaction that has not    *)
(* committed already owns: its job id, which nobody else has, and, once it *)
(* has inserted its key, that key.  The second part is about the answers:  *)
(* what a server holds or has cached is true of the tables, and stays so,  *)
(* because a committed row keeps its identity and an outcome is final.     *)
(* The third is about waiting: some server can always go on.               *)
(***************************************************************************)
EXTENDS ApiSubmit, FiniteSetTheorems, NaturalsInduction, TLAPS

RowSet == [status : Settled \cup {"ABSENT", "READY", "RUNNING"}, scope : Scopes,
           payload : Payloads \cup {"none"}, key : Keys \cup {NoKey}]
KeySet == {Free} \cup [payload : Payloads, job : JobIds]
SrvSet == [pc : {"idle", "route", "insert", "commit", "reply"}, req : Request \cup {<<>>},
           job : JobIds \cup {NoJob}]

\* Shapes: a request is in hand outside "idle"; an INSERTed job has an id.
Shapes ==
  /\ jobs \in [JobIds -> RowSet] /\ idem \in [Keys -> KeySet] /\ srv \in [Servers -> SrvSet]
  /\ \A s \in Servers :
       /\ srv[s].pc # "idle" => srv[s].req \in Request
       /\ srv[s].pc \in {"insert", "commit", "reply"} => srv[s].job \in JobIds
       /\ srv[s].pc \in {"insert", "commit"} => srv[s].req.method = "POST"

Reserves(s) == srv[s].pc \in {"insert", "commit"}

\* What open transactions own.
Owned ==
  /\ \A s \in Servers : Reserves(s) => jobs[srv[s].job].status = "ABSENT"
  /\ \A s, t \in Servers : s # t /\ Reserves(s) /\ Reserves(t) => srv[s].job # srv[t].job
  /\ \A s \in Servers : srv[s].pc = "insert" => Keyed(srv[s].req)
  /\ \A s \in Servers : srv[s].pc = "commit" /\ Keyed(srv[s].req) => idem[srv[s].req.key] = Free
  /\ \A s, t \in Servers :
       s # t /\ srv[s].pc = "commit" /\ srv[t].pc = "commit" /\ Keyed(srv[s].req)
         => srv[s].req.key # srv[t].req.key

SubmitInv == Shapes /\ Owned

\* A request's parts are in the sets its method says.  (handle_request)
LEMMA RequestParts ==
  ASSUME NEW r \in Request
  PROVE  /\ r.key \in Keys \cup {NoKey} /\ r.scope \in Scopes /\ r.method \in {"POST", "DELETE"}
         /\ r.method = "POST" => r.payload \in Payloads /\ r.job = NoJob
         /\ r.method = "DELETE" => r.payload = "none" /\ r.job \in JobIds
BY DEF Request

\* Server s changes its place and its job only.
Moves(s, pc, j) ==
  /\ \A q \in Servers \ {s} : srv'[q] = srv[q]
  /\ srv'[s].pc = pc /\ srv'[s].req = srv[s].req /\ srv'[s].job = j
  /\ srv' \in [Servers -> SrvSet]

\* Server s has no request any more.
Rests(s) ==
  /\ \A q \in Servers \ {s} : srv'[q] = srv[q]
  /\ srv'[s].pc = "idle"
  /\ srv' \in [Servers -> SrvSet]

\* The updates of srv, read field by field.  (the locals of handle_request)
LEMMA SrvUpdates ==
  ASSUME srv \in [Servers -> SrvSet], NEW s \in Servers, NEW j \in JobIds \cup {NoJob},
         NEW pc \in {"idle", "route", "insert", "commit", "reply"}
  PROVE  /\ Hold(s, pc, j) => Moves(s, pc, j)
         /\ Step(s, pc) => Moves(s, pc, srv[s].job)
         /\ Done(s) => Rests(s)
<1>1. srv[s] \in SrvSet
  OBVIOUS
<1>2. ASSUME NEW i \in JobIds \cup {NoJob}, Hold(s, pc, i) PROVE Moves(s, pc, i)
  BY <1>1, <1>2 DEF Hold, Moves, SrvSet
<1>3. srv[s].job \in JobIds \cup {NoJob}
  BY <1>1 DEF SrvSet
<1>4. ASSUME Done(s) PROVE Rests(s)
  BY <1>4 DEF Done, Idle, Rests, SrvSet
<1> QED BY <1>2, <1>3, <1>4 DEF Step

\* Nothing is owned before the first request.
LEMMA SubmitInit == ApiInit => SubmitInv
<1> SUFFICES ASSUME ApiInit PROVE SubmitInv
  OBVIOUS
<1>1. NoRow \in RowSet /\ Idle \in SrvSet
  BY DEF NoRow, RowSet, Idle, SrvSet, Scopes, Settled
<1>2. \A s \in Servers : srv[s].pc = "idle"
  BY DEF ApiInit, Idle
<1> QED BY <1>1, <1>2 DEF ApiInit, SubmitInv, Shapes, Owned, KeySet, Reserves

-----------------------------------------------------------------------------
\* What the refinement mapping reads.
PostedRows == {<<j, jobs[j].key>> : j \in Rows}
Bindings == [k \in Keys |-> idem[k].job]

\* Statuses may change, jobs do not come or go.
SameRows ==
  /\ jobs' \in [JobIds -> RowSet]
  /\ \A j \in JobIds : /\ jobs'[j].key = jobs[j].key
                       /\ jobs'[j].status = "ABSENT" <=> jobs[j].status = "ABSENT"

\* Server s opens no transaction that owns anything, the others stand still.
Lets(s) ==
  /\ \A q \in Servers \ {s} : srv'[q] = srv[q]
  /\ srv' \in [Servers -> SrvSet]
  /\ srv'[s].pc \in {"idle", "route", "reply"}
  /\ srv'[s].pc # "idle" => srv'[s].req \in Request
  /\ srv'[s].pc = "reply" => srv'[s].job \in JobIds

\* A step that neither inserts nor commits keeps the invariant and is none of
\* the abstract specification.  (every refusal, lost race, answer, crash)
LEMMA QuietStep ==
  ASSUME SubmitInv, NEW s \in Servers, Lets(s) \/ UNCHANGED srv, SameRows, UNCHANGED idem
  PROVE  SubmitInv' /\ UNCHANGED <<PostedRows, Bindings>>
<1>1. Shapes'
  <2>1. CASE Lets(s)
    BY <2>1 DEF SubmitInv, Shapes, Lets, SameRows
  <2>2. CASE UNCHANGED srv
    BY <2>2 DEF SubmitInv, Shapes, SameRows
  <2> QED BY <2>1, <2>2
<1>2. \A q \in Servers : Reserves(q)' => srv'[q] = srv[q]
  BY DEF Lets, Reserves
<1>3. \A q \in Servers : Reserves(q)' => srv[q].job \in JobIds
  BY <1>2 DEF Reserves, SubmitInv, Shapes
<1>4. Owned'
  <2>1. \A q \in Servers : Reserves(q)' => jobs'[srv'[q].job].status = "ABSENT"
    BY <1>2, <1>3 DEF Reserves, SubmitInv, Owned, SameRows
  <2>2. \A q, t \in Servers : q # t /\ Reserves(q)' /\ Reserves(t)' => srv'[q].job # srv'[t].job
    BY <1>2 DEF Reserves, SubmitInv, Owned
  <2>3. \A q \in Servers : srv'[q].pc = "insert" => Keyed(srv'[q].req)
    BY <1>2 DEF Reserves, SubmitInv, Owned
  <2>4. \A q \in Servers :
          srv'[q].pc = "commit" /\ Keyed(srv'[q].req) => idem'[srv'[q].req.key] = Free
    BY <1>2 DEF Reserves, SubmitInv, Owned
  <2>5. \A q, t \in Servers :
          q # t /\ srv'[q].pc = "commit" /\ srv'[t].pc = "commit" /\ Keyed(srv'[q].req)
            => srv'[q].req.key # srv'[t].req.key
    BY <1>2 DEF Reserves, SubmitInv, Owned
  <2> QED BY <2>1, <2>2, <2>3, <2>4, <2>5 DEF Owned
<1>5. Rows' = Rows
  BY DEF Rows, SameRows
<1>6. PostedRows' = PostedRows
  BY <1>5 DEF PostedRows, SameRows, Rows
<1> QED BY <1>1, <1>4, <1>6 DEF SubmitInv, Bindings

\* INSERT of the job: the id is nobody else's.  (enqueue_job, the first INSERT)
LEMMA ReserveStep ==
  ASSUME SubmitInv, NEW s \in Servers, NEW j \in JobIds, srv[s].pc = "route",
         srv[s].req.method = "POST", Keyed(srv[s].req) => idem[srv[s].req.key] = Free,
         NextId(j), Hold(s, IF Keyed(srv[s].req) THEN "insert" ELSE "commit", j),
         UNCHANGED <<jobs, idem>>
  PROVE  SubmitInv'
<1>1. /\ \A q \in Servers \ {s} : srv'[q] = srv[q]
      /\ srv'[s].pc = IF Keyed(srv[s].req) THEN "insert" ELSE "commit"
      /\ srv'[s].req = srv[s].req /\ srv'[s].job = j
      /\ srv' \in [Servers -> SrvSet]
  BY SrvUpdates DEF SubmitInv, Shapes, Moves
<1>2. jobs[j].status = "ABSENT" /\ \A q \in Servers : srv[q].job # j
  BY DEF NextId, Used, Rows
<1>3. Shapes'
  BY <1>1 DEF SubmitInv, Shapes
<1>4. /\ \A q \in Servers : Reserves(q)' => jobs'[srv'[q].job].status = "ABSENT"
      /\ \A q \in Servers : srv'[q].pc = "insert" => Keyed(srv'[q].req)
      /\ \A q \in Servers :
           srv'[q].pc = "commit" /\ Keyed(srv'[q].req) => idem'[srv'[q].req.key] = Free
  BY <1>1, <1>2 DEF Reserves, SubmitInv, Owned
<1>5. \A q, t \in Servers : q # t /\ Reserves(q)' /\ Reserves(t)' => srv'[q].job # srv'[t].job
  BY <1>1, <1>2 DEF Reserves, SubmitInv, Owned
<1>6. \A q, t \in Servers :
        q # t /\ srv'[q].pc = "commit" /\ srv'[t].pc = "commit" /\ Keyed(srv'[q].req)
          => srv'[q].req.key # srv'[t].req.key
  BY <1>1 DEF SubmitInv, Owned, Keyed
<1> QED BY <1>3, <1>4, <1>5, <1>6 DEF SubmitInv, Owned

\* INSERT of the key by who finds it free: nobody else has inserted it.
\* (the wait on the unique index)
LEMMA InsertStep ==
  ASSUME SubmitInv, NEW s \in Servers, srv[s].pc = "insert", Inserters(srv[s].req) = {},
         idem[srv[s].req.key] = Free, Step(s, "commit"), UNCHANGED <<jobs, idem>>
  PROVE  SubmitInv'
<1>1. srv[s].job \in JobIds /\ srv[s].req \in Request /\ Keyed(srv[s].req)
  BY DEF SubmitInv, Shapes, Owned
<1>2. /\ \A q \in Servers \ {s} : srv'[q] = srv[q]
      /\ srv'[s].pc = "commit" /\ srv'[s].req = srv[s].req /\ srv'[s].job = srv[s].job
      /\ srv' \in [Servers -> SrvSet]
  BY <1>1, SrvUpdates DEF SubmitInv, Shapes, Moves
<1>3. \A q \in Servers : srv[q].pc = "commit" => srv[q].req.key # srv[s].req.key
  BY DEF Inserters
<1>4. Shapes'
  BY <1>1, <1>2 DEF SubmitInv, Shapes
<1>5. /\ \A q \in Servers : Reserves(q)' => jobs'[srv'[q].job].status = "ABSENT"
      /\ \A q, t \in Servers : q # t /\ Reserves(q)' /\ Reserves(t)' => srv'[q].job # srv'[t].job
      /\ \A q \in Servers : srv'[q].pc = "insert" => Keyed(srv'[q].req)
  BY <1>2 DEF Reserves, SubmitInv, Owned
<1>6. \A q \in Servers :
        srv'[q].pc = "commit" /\ Keyed(srv'[q].req) => idem'[srv'[q].req.key] = Free
  BY <1>2 DEF SubmitInv, Owned
<1>7. \A q, t \in Servers :
        q # t /\ srv'[q].pc = "commit" /\ srv'[t].pc = "commit" /\ Keyed(srv'[q].req)
          => srv'[q].req.key # srv'[t].req.key
  BY <1>2, <1>3 DEF SubmitInv, Owned
<1> QED BY <1>4, <1>5, <1>6, <1>7 DEF SubmitInv, Owned

\* COMMIT, confirmed or not: the job and its key appear together, which is a
\* step of the abstract specification.  (scoped_conn leaving its block)
LEMMA CommitStep ==
  ASSUME SubmitInv, NEW s \in Servers, srv[s].pc = "commit", WriteJob(s), Lets(s)
  PROVE  SubmitInv' /\ Atomic!Next
<1> DEFINE r == srv[s].req
           j == srv[s].job
<1>1. j \in JobIds /\ r \in Request /\ r.method = "POST" /\ jobs[j].status = "ABSENT"
  BY DEF SubmitInv, Shapes, Owned, Reserves
<1>2. r.key \in Keys \cup {NoKey} /\ r.scope \in Scopes /\ r.payload \in Payloads
  BY <1>1, RequestParts
<1>3. /\ jobs' \in [JobIds -> RowSet] /\ jobs'[j].status = "READY" /\ jobs'[j].key = r.key
      /\ \A i \in JobIds \ {j} : jobs'[i] = jobs[i]
  <2>1. [status |-> "READY", scope |-> r.scope, payload |-> r.payload, key |-> r.key] \in RowSet
    BY <1>2 DEF RowSet
  <2> QED BY <1>1, <2>1 DEF WriteJob, SubmitInv, Shapes
<1>4. /\ idem' \in [Keys -> KeySet]
      /\ Keyed(r) => r.key \in Keys /\ idem[r.key] = Free /\ idem'[r.key].job = j
      /\ \A k \in Keys : k # r.key => idem'[k] = idem[k]
  <2>1. CASE Keyed(r)
    <3>1. r.key \in Keys /\ idem[r.key] = Free
      BY <1>2, <2>1 DEF Keyed, SubmitInv, Owned
    <3>2. [payload |-> r.payload, job |-> j] \in KeySet
      BY <1>1, <1>2 DEF KeySet
    <3> QED BY <2>1, <3>1, <3>2 DEF WriteJob, SubmitInv, Shapes
  <2>2. CASE ~Keyed(r)
    BY <2>2 DEF WriteJob, SubmitInv, Shapes
  <2> QED BY <2>1, <2>2
<1>5. \A q \in Servers : Reserves(q)' => q # s /\ srv'[q] = srv[q] /\ srv[q].job \in JobIds \ {j}
  BY DEF Lets, Reserves, SubmitInv, Shapes, Owned
<1>6. Shapes'
  BY <1>3, <1>4, <1>5 DEF Lets, SubmitInv, Shapes
<1>7. Owned'
  <2>1. \A q \in Servers : Reserves(q)' => jobs'[srv'[q].job].status = "ABSENT"
    BY <1>3, <1>5 DEF Reserves, SubmitInv, Owned
  <2>2. \A q, t \in Servers : q # t /\ Reserves(q)' /\ Reserves(t)' => srv'[q].job # srv'[t].job
    BY <1>5 DEF Reserves, SubmitInv, Owned
  <2>3. \A q \in Servers : srv'[q].pc = "insert" => Keyed(srv'[q].req)
    BY <1>5 DEF Reserves, SubmitInv, Owned
  <2>4. ASSUME NEW q \in Servers, srv'[q].pc = "commit", Keyed(srv'[q].req)
        PROVE  idem'[srv'[q].req.key] = Free
    <3>1. q # s /\ srv'[q] = srv[q] /\ srv[q].req.key # r.key
      BY <1>5, <2>4 DEF Reserves, SubmitInv, Owned
    <3>2. srv[q].req.key \in Keys
      BY <2>4, <3>1, RequestParts DEF SubmitInv, Shapes, Keyed
    <3> QED BY <1>4, <2>4, <3>1, <3>2 DEF SubmitInv, Owned
  <2>5. \A q, t \in Servers :
          q # t /\ srv'[q].pc = "commit" /\ srv'[t].pc = "commit" /\ Keyed(srv'[q].req)
            => srv'[q].req.key # srv'[t].req.key
    BY <1>5 DEF Reserves, SubmitInv, Owned
  <2> QED BY <2>1, <2>2, <2>3, <2>4, <2>5 DEF Owned
<1>8. Rows' = Rows \cup {j}
  BY <1>1, <1>3 DEF Rows
<1>9. PostedRows' = PostedRows \cup {<<j, r.key>>} /\ \A row \in PostedRows : row[1] # j
  BY <1>1, <1>3, <1>8 DEF PostedRows, Rows
<1>10. CASE Keyed(r)
  <2>1. Bindings' = [Bindings EXCEPT ![r.key] = j] /\ Bindings[r.key] = NoJob
    BY <1>4, <1>10 DEF Bindings, Free
  <2> QED BY <1>1, <1>4, <1>6, <1>7, <1>9, <1>10, <2>1
             DEF SubmitInv, PostedRows, Bindings, Atomic!Next, Atomic!PostKeyed, Atomic!New
<1>11. CASE ~Keyed(r)
  <2>1. r.key = NoKey /\ Bindings' = Bindings
    BY <1>4, <1>11, ApiAssumption DEF Bindings, Keyed
  <2> QED BY <1>1, <1>6, <1>7, <1>9, <2>1
             DEF SubmitInv, PostedRows, Bindings, Atomic!Next, Atomic!Post, Atomic!New
<1> QED BY <1>10, <1>11

\* A worker's or a cancellation's UPDATE of an existing row.  (cancel_job)
LEMMA BecomesSameRows ==
  ASSUME SubmitInv, NEW j \in JobIds, jobs[j].status # "ABSENT",
         NEW st \in Settled \cup {"READY", "RUNNING"}, Becomes(j, st)
  PROVE  SameRows
<1>1. jobs[j] \in RowSet /\ st # "ABSENT"
  BY DEF SubmitInv, Shapes, Settled
<1>2. [status |-> st, scope |-> jobs[j].scope, payload |-> jobs[j].payload, key |-> jobs[j].key]
        \in RowSet
  BY <1>1 DEF RowSet
<1> QED BY <1>1, <1>2 DEF Becomes, SameRows, SubmitInv, Shapes

-----------------------------------------------------------------------------
\* A server that gives its request up, or is ready to answer it, owns nothing.
LEMMA Leaving ==
  ASSUME SubmitInv, NEW s \in Servers, srv[s].pc # "idle", NEW j \in JobIds,
         Done(s) \/ Hold(s, "reply", j)
  PROVE  Lets(s)
<1>1. Rests(s) \/ Moves(s, "reply", j)
  BY SrvUpdates DEF SubmitInv, Shapes
<1> QED BY <1>1 DEF Rests, Moves, Lets, SubmitInv, Shapes

\* A server that restarts owns nothing.
LEMMA Restarting ==
  ASSUME SubmitInv, NEW s \in Servers, Done(s)
  PROVE  Lets(s)
<1>1. Rests(s)
  BY SrvUpdates DEF SubmitInv, Shapes
<1> QED BY <1>1 DEF Rests, Lets

\* The job of an existing key's row.
LEMMA KeyRows ==
  ASSUME SubmitInv, NEW r \in Request, Keyed(r), idem[r.key] # Free
  PROVE  idem[r.key].job \in JobIds
<1>1. r.key \in Keys
  BY RequestParts DEF Keyed
<1> QED BY <1>1 DEF SubmitInv, Shapes, KeySet

\* What a step of ApiSubmit is to the abstract specification.
Simulates == SubmitInv' /\ (Atomic!Next \/ UNCHANGED <<PostedRows, Bindings>>)

\* A server's own steps.  (enqueue_job, cancel_job and the end of handle_request)
LEMMA ServerSteps ==
  ASSUME SubmitInv, NEW s \in Servers, ServerStep(s)
  PROVE  Simulates
<1> USE DEF Simulates
<1>0. ASSUME UNCHANGED jobs PROVE SameRows
  BY <1>0 DEF SameRows, SubmitInv, Shapes
<1>1. CASE Select(s)
  <2>1. /\ srv[s].pc = "route" /\ srv[s].req.method = "POST" /\ srv[s].req \in Request
        /\ UNCHANGED <<jobs, idem>>
    BY <1>1 DEF Select, SubmitInv, Shapes
  <2>2. CASE Keyed(srv[s].req) /\ idem[srv[s].req.key] # Free
    <3>1. idem[srv[s].req.key].job \in JobIds
      BY <2>1, <2>2, KeyRows
    <3>2. Done(s) \/ Hold(s, "reply", idem[srv[s].req.key].job)
      BY <1>1, <2>2 DEF Select
    <3>3. Lets(s)
      BY <2>1, <3>1, <3>2, Leaving
    <3> QED BY <1>0, <2>1, <3>3, QuietStep
  <2>3. CASE ~(Keyed(srv[s].req) /\ idem[srv[s].req.key] # Free)
    <3>1. PICK j \in JobIds :
            NextId(j) /\ Hold(s, IF Keyed(srv[s].req) THEN "insert" ELSE "commit", j)
      BY <1>1, <2>3 DEF Select
    <3>2. SubmitInv'
      BY <2>1, <2>3, <3>1, ReserveStep
    <3> QED BY <2>1, <3>2 DEF PostedRows, Bindings, Rows
  <2> QED BY <2>2, <2>3
<1>2. CASE Insert(s)
  <2>1. /\ srv[s].pc = "insert" /\ srv[s].req \in Request /\ Keyed(srv[s].req)
        /\ Inserters(srv[s].req) = {} /\ UNCHANGED <<jobs, idem>>
    BY <1>2 DEF Insert, SubmitInv, Shapes, Owned
  <2>2. CASE idem[srv[s].req.key] = Free
    <3>1. Step(s, "commit")
      BY <1>2, <2>2 DEF Insert
    <3>2. SubmitInv'
      BY <2>1, <2>2, <3>1, InsertStep
    <3> QED BY <2>1, <3>2 DEF PostedRows, Bindings, Rows
  <2>3. CASE idem[srv[s].req.key] # Free
    <3>1. idem[srv[s].req.key].job \in JobIds
      BY <2>1, <2>3, KeyRows
    <3>2. Done(s) \/ Hold(s, "reply", idem[srv[s].req.key].job)
      BY <1>2, <2>3 DEF Insert
    <3>3. Lets(s)
      BY <2>1, <3>1, <3>2, Leaving
    <3> QED BY <1>0, <2>1, <3>3, QuietStep
  <2> QED BY <2>2, <2>3
<1>3. CASE Commit(s)
  <2>1. srv[s].pc = "commit" /\ WriteJob(s) /\ Hold(s, "reply", srv[s].job)
    BY <1>3 DEF Commit, Step
  <2>2. srv[s].job \in JobIds
    BY <2>1 DEF SubmitInv, Shapes
  <2>3. Lets(s)
    BY <2>1, <2>2, Leaving
  <2> QED BY <2>1, <2>3, CommitStep
<1>4. CASE CancelJob(s)
  <2>1. /\ srv[s].pc = "route" /\ srv[s].req.job \in JobIds /\ UNCHANGED idem
    BY <1>4, RequestParts DEF CancelJob, SubmitInv, Shapes
  <2>2. CASE Visible(srv[s].req)
    <3>1. Hold(s, "reply", srv[s].req.job) /\ jobs[srv[s].req.job].status # "ABSENT"
      BY <1>4, <2>2 DEF CancelJob, Visible
    <3>2. PICK st \in Settled : Becomes(srv[s].req.job, st)
      BY <1>4, <2>2 DEF CancelJob, Settled
    <3>3. SameRows
      BY <2>1, <3>1, <3>2, BecomesSameRows
    <3>4. Lets(s)
      BY <2>1, <3>1, Leaving
    <3> QED BY <2>1, <3>3, <3>4, QuietStep
  <2>3. CASE ~Visible(srv[s].req)
    <3>1. Done(s) /\ UNCHANGED jobs
      BY <1>4, <2>3 DEF CancelJob
    <3> QED BY <1>0, <2>1, <3>1, Restarting, QuietStep
  <2> QED BY <2>2, <2>3
<1>5. CASE Reply(s)
  <2>1. Done(s) /\ UNCHANGED <<jobs, idem>>
    BY <1>5 DEF Reply
  <2> QED BY <1>0, <2>1, Restarting, QuietStep
<1> QED BY <1>1, <1>2, <1>3, <1>4, <1>5 DEF ServerStep

\* A request that arrives is refused, replayed or held.  (handle_request)
LEMMA Arrivals ==
  ASSUME SubmitInv, NEW s \in Servers, NEW r \in Request,
         Refuse(s, r) \/ Replay(s, r) \/ Route(s, r)
  PROVE  Simulates
<1>1. SameRows /\ UNCHANGED idem
  BY DEF Refuse, Replay, Route, SameRows, SubmitInv, Shapes
<1>2. CASE Route(s, r)
  <2>1. [pc |-> "route", req |-> r, job |-> NoJob] \in SrvSet
    BY DEF SrvSet
  <2>2. Lets(s)
    BY <1>2, <2>1 DEF Route, Lets, SubmitInv, Shapes
  <2> QED BY <1>1, <2>2, QuietStep DEF Simulates
<1>3. CASE Refuse(s, r) \/ Replay(s, r)
  <2>1. UNCHANGED srv
    BY <1>3 DEF Refuse, Replay
  <2> QED BY <1>1, <2>1, QuietStep DEF Simulates
<1> QED BY <1>2, <1>3

\* Failures and workers.  (a lost COMMIT is still the abstract step)
LEMMA Mishaps ==
  ASSUME SubmitInv,
         \/ \E s \in Servers : CommitUnconfirmed(s) \/ StatementFails(s) \/ ServerCrash(s)
         \/ \E j \in JobIds : WorkerMoves(j)
  PROVE  Simulates
<1>1. ASSUME NEW s \in Servers, CommitUnconfirmed(s) PROVE Simulates
  <2>1. srv[s].pc = "commit" /\ WriteJob(s) /\ Done(s)
    BY <1>1 DEF CommitUnconfirmed
  <2> QED BY <2>1, Restarting, CommitStep DEF Simulates
<1>2. ASSUME NEW s \in Servers, StatementFails(s) \/ ServerCrash(s) PROVE Simulates
  <2>1. Done(s) /\ SameRows /\ UNCHANGED idem
    BY <1>2 DEF StatementFails, ServerCrash, SameRows, SubmitInv, Shapes
  <2> QED BY <2>1, Restarting, QuietStep DEF Simulates
<1>3. ASSUME NEW j \in JobIds, WorkerMoves(j) PROVE Simulates
  <2>1. PICK st \in Settled \cup {"READY", "RUNNING"} : Becomes(j, st)
    BY <1>3 DEF WorkerMoves, Settled
  <2>2. SameRows /\ UNCHANGED <<srv, idem>>
    BY <1>3, <2>1, BecomesSameRows DEF WorkerMoves
  <2>3. CASE Servers = {}
    BY <2>2, <2>3 DEF Simulates, SubmitInv, Shapes, Owned, SameRows, PostedRows, Bindings, Rows
  <2>4. CASE Servers # {}
    BY <2>2, <2>4, QuietStep DEF Simulates
  <2> QED BY <2>3, <2>4
<1> QED BY <1>1, <1>2, <1>3

\* Every step, and the stuttering ones.
LEMMA ApiStep == SubmitInv /\ [ApiNext]_apiVars => Simulates
<1> SUFFICES ASSUME SubmitInv, [ApiNext]_apiVars PROVE Simulates
  OBVIOUS
<1>1. CASE UNCHANGED apiVars
  BY <1>1 DEF apiVars, Simulates, SubmitInv, Shapes, Owned, Reserves, PostedRows, Bindings, Rows
<1>2. CASE ApiNext
  BY <1>2, ServerSteps, Arrivals, Mishaps DEF ApiNext
<1> QED BY <1>1, <1>2

\* What open transactions own is theirs alone in every reachable state.
\* (enqueue_job under READ COMMITTED)
THEOREM TransactionsOwn == ApiSpec => []SubmitInv
BY SubmitInit, ApiStep, PTL DEF ApiSpec, Simulates

\* Submission implements the atomic one, for any number of replicas and
\* whatever is repeated, lost or crashes: a job and its key appear in one
\* step and a key never changes its job.  (enqueue_job)
THEOREM SubmissionIsAtomic == ApiSpec => SubmitsAtomically
<1>1. ApiInit => Atomic!Init
  BY DEF ApiInit, Atomic!Init, Rows, NoRow, Free
<1>2. SubmitInv /\ [ApiNext]_apiVars => [Atomic!Next]_<<PostedRows, Bindings>>
  BY ApiStep DEF Simulates
<1> QED
  BY <1>1, <1>2, TransactionsOwn, PTL
     DEF ApiSpec, SubmitsAtomically, Atomic!Spec, PostedRows, Bindings

-----------------------------------------------------------------------------
(***************************************************************************)
(* Answers.  Every answer that names a job, already given, about to be     *)
(* given or kept in some replica's cache, is true of the tables, and stays *)
(* true because jobs and keys only settle.                                 *)
(***************************************************************************)
\* Job j is a true answer to a request with the fields of q and payload p, by the tables
\* J and I of jobs and keys.
TrueAnswer(J, I, q, p, j) ==
  /\ j \in JobIds /\ J[j].status # "ABSENT"
  /\ q.scope = OrgWide \/ J[j].scope = q.scope
  /\ q.method = "POST" =>
       /\ J[j].payload = p
       /\ q.key # NoKey => q.key \in Keys /\ I[q.key].job = j
  /\ q.method = "DELETE" => J[j].status \in Settled

KeysTrue ==
  \A k \in Keys : idem[k] # Free =>
    jobs[idem[k].job].status # "ABSENT" /\ jobs[idem[k].job].payload = idem[k].payload

InHandTrue ==
  \A s \in Servers :
    /\ srv[s].pc # "idle" => srv[s].req.granted
    /\ srv[s].pc = "reply" => TrueAnswer(jobs, idem, srv[s].req, srv[s].req.payload, srv[s].job)

CachesTrue ==
  /\ cache = [s \in Servers |-> cache[s]]
  /\ \A s \in Servers : \A e \in cache[s] : TrueAnswer(jobs, idem, e.at, e.payload, e.job)

AnswersTrue == \A a \in answers : a.req.granted /\ TrueAnswer(jobs, idem, a.req, a.req.payload, a.job)

AnswersInv == KeysTrue /\ InHandTrue /\ CachesTrue /\ AnswersTrue

\* The tables only grow and settle.
Settles ==
  /\ \A j \in JobIds : jobs[j].status # "ABSENT" =>
       /\ jobs'[j].status # "ABSENT"
       /\ jobs'[j].scope = jobs[j].scope /\ jobs'[j].payload = jobs[j].payload
       /\ jobs[j].status \in Settled => jobs'[j].status \in Settled
  /\ \A k \in Keys : idem[k] # Free => idem'[k] = idem[k]

\* What is true stays true while the tables only settle.
LEMMA StaysTrue ==
  ASSUME Settles, NEW q, NEW p, NEW j, TrueAnswer(jobs, idem, q, p, j)
  PROVE  TrueAnswer(jobs', idem', q, p, j)
<1>1. q.method = "POST" /\ q.key # NoKey => idem[q.key] # Free
  BY ApiAssumption DEF TrueAnswer, Free, JobIds
<1> QED BY <1>1 DEF TrueAnswer, Settles

\* COMMIT writes a job and a key that nobody had.  (enqueue_job)
LEMMA CommitSettles ==
  ASSUME SubmitInv, NEW s \in Servers, srv[s].pc = "commit", WriteJob(s)
  PROVE  Settles
<1>1. /\ srv[s].job \in JobIds /\ jobs[srv[s].job].status = "ABSENT"
      /\ Keyed(srv[s].req) => idem[srv[s].req.key] = Free
      /\ jobs \in [JobIds -> RowSet] /\ idem \in [Keys -> KeySet]
  BY DEF SubmitInv, Shapes, Owned, Reserves
<1>2. \A j \in JobIds : jobs[j].status # "ABSENT" => jobs'[j] = jobs[j]
  BY <1>1 DEF WriteJob
<1>3. \A k \in Keys : idem[k] # Free => idem'[k] = idem[k]
  BY <1>1 DEF WriteJob
<1> QED BY <1>2, <1>3 DEF Settles

\* An UPDATE keeps a job's scope and payload.
LEMMA BecomesRow ==
  ASSUME SubmitInv, NEW j \in JobIds, NEW st, Becomes(j, st)
  PROVE  /\ jobs'[j].status = st
         /\ jobs'[j].scope = jobs[j].scope /\ jobs'[j].payload = jobs[j].payload
         /\ \A i \in JobIds : i # j => jobs'[i] = jobs[i]
BY DEF Becomes, SubmitInv, Shapes

\* Every step only settles the tables.  (cancel_job leaves an outcome alone;
\* workers claim READY jobs and finish RUNNING ones)
LEMMA TablesSettle == SubmitInv /\ [ApiNext]_apiVars => Settles
<1> SUFFICES ASSUME SubmitInv, [ApiNext]_apiVars PROVE Settles
  OBVIOUS
<1>1. ASSUME UNCHANGED <<jobs, idem>> PROVE Settles
  BY <1>1 DEF Settles
<1>2. ASSUME NEW s \in Servers, Commit(s) \/ CommitUnconfirmed(s) PROVE Settles
  BY <1>2, CommitSettles DEF Commit, CommitUnconfirmed
<1>3. ASSUME NEW s \in Servers, CancelJob(s) PROVE Settles
  <2>1. srv[s].req.job \in JobIds /\ UNCHANGED idem
    BY <1>3, RequestParts DEF CancelJob, SubmitInv, Shapes
  <2>2. CASE UNCHANGED jobs
    BY <1>1, <2>1, <2>2
  <2>3. CASE ~UNCHANGED jobs
    <3>1. PICK st : /\ Becomes(srv[s].req.job, st)
                    /\ st = IF jobs[srv[s].req.job].status \in Settled
                            THEN jobs[srv[s].req.job].status ELSE "CANCELLED"
      BY <1>3, <2>3 DEF CancelJob
    <3>2. st \in Settled
      BY <3>1 DEF Settled
    <3> QED BY <2>1, <3>1, <3>2, BecomesRow DEF Settles, Settled
  <2> QED BY <2>2, <2>3
<1>4. ASSUME NEW j \in JobIds, WorkerMoves(j) PROVE Settles
  <2>1. PICK st \in {"RUNNING", "FINISHED", "READY"} : Becomes(j, st)
    BY <1>4 DEF WorkerMoves
  <2>2. jobs[j].status \notin Settled /\ UNCHANGED idem
    BY <1>4 DEF WorkerMoves, Settled
  <2> QED BY <2>1, <2>2, BecomesRow DEF Settles
<1>5. ASSUME NEW s \in Servers,
             \/ \E r \in Request : Refuse(s, r) \/ Replay(s, r) \/ Route(s, r)
             \/ Select(s) \/ Insert(s) \/ Reply(s) \/ StatementFails(s) \/ ServerCrash(s)
      PROVE  Settles
  BY <1>1, <1>5 DEF Refuse, Replay, Route, Select, Insert, Reply, StatementFails, ServerCrash
<1>6. CASE UNCHANGED apiVars
  BY <1>1, <1>6 DEF apiVars
<1> QED BY <1>2, <1>3, <1>4, <1>5, <1>6 DEF ApiNext, ServerStep

-----------------------------------------------------------------------------
\* Server s is the only one to move, to something that may be answered.
MovesTruly(s) ==
  /\ \A q \in Servers \ {s} : srv'[q] = srv[q]
  /\ srv'[s].pc # "idle" => srv'[s].req.granted
  /\ srv'[s].pc = "reply" =>
       TrueAnswer(jobs', idem', srv'[s].req, srv'[s].req.payload, srv'[s].job)

\* The invariant survives a step that settles the tables, moves one server
\* truly, and adds to the keys, the caches and the answers what is true.
LEMMA AnswersKept ==
  ASSUME AnswersInv, Settles, SubmitInv, UNCHANGED srv \/ \E s \in Servers : MovesTruly(s),
         \A k \in Keys : idem'[k] = idem[k] \/
           (jobs'[idem'[k].job].status # "ABSENT" /\ jobs'[idem'[k].job].payload = idem'[k].payload),
         cache' = [s \in Servers |-> cache'[s]],
         \A s \in Servers : \A e \in cache'[s] : e \in cache[s] \/ TrueAnswer(jobs', idem', e.at, e.payload, e.job),
         \A a \in answers' :
           a \in answers \/ (a.req.granted /\ TrueAnswer(jobs', idem', a.req, a.req.payload, a.job))
  PROVE  AnswersInv'
<1>1. KeysTrue'
  <2>1. \A k \in Keys : idem[k] # Free => idem[k].job \in JobIds
    BY DEF SubmitInv, Shapes, KeySet
  <2> QED BY <2>1 DEF AnswersInv, KeysTrue, Settles
<1>2. InHandTrue'
  <2>1. \A q \in Servers : srv[q].pc = "reply" =>
          TrueAnswer(jobs', idem', srv[q].req, srv[q].req.payload, srv[q].job)
    BY StaysTrue DEF AnswersInv, InHandTrue
  <2>2. CASE UNCHANGED srv
    BY <2>1, <2>2 DEF AnswersInv, InHandTrue, TrueAnswer
  <2>3. ASSUME NEW s \in Servers, MovesTruly(s) PROVE InHandTrue'
    <3>1. \A q \in Servers \ {s} : srv'[q] = srv[q]
      BY <2>3 DEF MovesTruly
    <3>2. ASSUME NEW q \in Servers \ {s}, srv'[q].pc = "reply"
          PROVE  TrueAnswer(jobs', idem', srv'[q].req, srv'[q].req.payload, srv'[q].job)
      BY <2>1, <3>1, <3>2 DEF TrueAnswer
    <3>3. \A q \in Servers : srv'[q].pc # "idle" => srv'[q].req.granted
      BY <2>3, <3>1 DEF AnswersInv, InHandTrue, MovesTruly
    <3> QED BY <2>3, <3>2, <3>3 DEF InHandTrue, MovesTruly
  <2> QED BY <2>2, <2>3
<1>3. CachesTrue'
  BY StaysTrue DEF AnswersInv, CachesTrue
<1>4. AnswersTrue'
  BY StaysTrue DEF AnswersInv, AnswersTrue
<1> QED BY <1>1, <1>2, <1>3, <1>4 DEF AnswersInv

\* A step that leaves the caches alone leaves them one per replica.
LEMMA CachesKept == AnswersInv /\ UNCHANGED cache => cache' = [s \in Servers |-> cache'[s]]
BY DEF AnswersInv, CachesTrue

\* Moves and rests, as true moves.
LEMMA TrueMoves ==
  ASSUME SubmitInv, AnswersInv, NEW s \in Servers, NEW pc, NEW j
  PROVE  /\ Rests(s) => MovesTruly(s)
         /\ Moves(s, pc, j) /\ pc # "reply" /\ srv[s].pc # "idle" => MovesTruly(s)
         /\ Moves(s, "reply", j) /\ srv[s].pc # "idle"
              /\ TrueAnswer(jobs', idem', srv[s].req, srv[s].req.payload, j) => MovesTruly(s)
BY DEF Rests, Moves, MovesTruly, AnswersInv, InHandTrue, TrueAnswer

\* An idempotency row that matches a POST answers it truly.
\* (_job_from_idempotency_row)
LEMMA RowAnswers ==
  ASSUME SubmitInv, AnswersInv, NEW r \in Request, r.method = "POST", Keyed(r),
         idem[r.key] # Free, SameRequest(r, idem[r.key])
  PROVE  TrueAnswer(jobs, idem, r, r.payload, idem[r.key].job)
<1>1. r.key \in Keys /\ idem[r.key].job \in JobIds
  BY KeyRows, RequestParts DEF Keyed
<1> QED BY <1>1 DEF SameRequest, TrueAnswer, AnswersInv, KeysTrue

\* COMMIT makes the answer of its request true.  (scoped_conn)
LEMMA CommitAnswers ==
  ASSUME SubmitInv, NEW s \in Servers, srv[s].pc = "commit", WriteJob(s)
  PROVE  /\ TrueAnswer(jobs', idem', srv[s].req, srv[s].req.payload, srv[s].job)
         /\ \A k \in Keys : idem'[k] = idem[k] \/
              (jobs'[idem'[k].job].status # "ABSENT" /\ jobs'[idem'[k].job].payload = idem'[k].payload)
<1> DEFINE r == srv[s].req
<1>1. /\ srv[s].job \in JobIds /\ r \in Request /\ r.method = "POST"
      /\ jobs \in [JobIds -> RowSet] /\ idem \in [Keys -> KeySet]
  BY DEF SubmitInv, Shapes
<1>2. /\ jobs'[srv[s].job].status = "READY" /\ jobs'[srv[s].job].scope = r.scope
      /\ jobs'[srv[s].job].payload = r.payload
  BY <1>1 DEF WriteJob
<1>3. CASE Keyed(r)
  <2>1. r.key \in Keys
    BY <1>1, <1>3, RequestParts DEF Keyed
  <2>2. /\ idem'[r.key].job = srv[s].job /\ idem'[r.key].payload = r.payload
        /\ \A k \in Keys : k # r.key => idem'[k] = idem[k]
    BY <1>1, <1>3, <2>1 DEF WriteJob
  <2> QED BY <1>1, <1>2, <2>1, <2>2 DEF TrueAnswer
<1>4. CASE ~Keyed(r)
  BY <1>1, <1>2, <1>4 DEF TrueAnswer, WriteJob, Keyed
<1> QED BY <1>3, <1>4

\* The steps of a POST.  (enqueue_job)
LEMMA PostSteps ==
  ASSUME SubmitInv, AnswersInv, Settles, NEW s \in Servers,
         Select(s) \/ Insert(s) \/ Commit(s) \/ CommitUnconfirmed(s)
  PROVE  AnswersInv'
<1> USE DEF SubmitInv, Shapes
<1>0. UNCHANGED <<cache, answers>> /\ srv[s].pc # "idle"
  BY DEF Select, Insert, Commit, CommitUnconfirmed
<1>1. CASE (Commit(s) \/ CommitUnconfirmed(s))
  <2>1. srv[s].pc = "commit" /\ WriteJob(s) /\ (Step(s, "reply") \/ Done(s)) /\ srv[s].job \in JobIds
    BY <1>1 DEF Commit, CommitUnconfirmed
  <2>2. Moves(s, "reply", srv[s].job) \/ Rests(s)
    BY <2>1, SrvUpdates
  <2>3. MovesTruly(s)
    BY <1>0, <2>1, <2>2, CommitAnswers, TrueMoves
  <2> QED BY <1>0, <2>1, <2>3, CommitAnswers, AnswersKept, CachesKept
<1>2. CASE Select(s) \/ Insert(s)
  <2>0. UNCHANGED <<jobs, idem>> /\ srv[s].req \in Request /\ srv[s].req.method = "POST"
    BY <1>2 DEF Select, Insert
  <2>1. CASE Keyed(srv[s].req) /\ idem[srv[s].req.key] # Free
    <3>1. idem[srv[s].req.key].job \in JobIds
      BY <2>0, <2>1, KeyRows
    <3>2. \/ Done(s)
          \/ SameRequest(srv[s].req, idem[srv[s].req.key]) /\ Hold(s, "reply", idem[srv[s].req.key].job)
      BY <1>2, <2>1 DEF Select, Insert
    <3>3. CASE Done(s)
      <4>1. MovesTruly(s)
        BY <1>0, <3>3, SrvUpdates, TrueMoves
      <4> QED BY <1>0, <2>0, <4>1, AnswersKept, CachesKept
    <3>4. CASE /\ SameRequest(srv[s].req, idem[srv[s].req.key])
               /\ Hold(s, "reply", idem[srv[s].req.key].job)
      <4>1. TrueAnswer(jobs', idem', srv[s].req, srv[s].req.payload, idem[srv[s].req.key].job)
        BY <2>0, <2>1, <3>4, RowAnswers, StaysTrue
      <4>2. Moves(s, "reply", idem[srv[s].req.key].job)
        BY <3>1, <3>4, SrvUpdates
      <4>3. MovesTruly(s)
        BY <1>0, <4>1, <4>2, TrueMoves
      <4> QED BY <1>0, <2>0, <4>3, AnswersKept, CachesKept
    <3> QED BY <3>2, <3>3, <3>4
  <2>2. CASE ~(Keyed(srv[s].req) /\ idem[srv[s].req.key] # Free)
    <3>1. PICK pc \in {"insert", "commit"}, j \in JobIds : Hold(s, pc, j)
      <4>1. CASE Select(s)
        BY <2>2, <4>1 DEF Select
      <4>2. CASE Insert(s)
        BY <2>2, <4>2 DEF Insert, Step, Owned
      <4> QED BY <1>2, <4>1, <4>2
    <3>2. Moves(s, pc, j)
      BY <3>1, SrvUpdates
    <3>3. MovesTruly(s)
      BY <1>0, <3>1, <3>2, TrueMoves
    <3> QED BY <1>0, <2>0, <3>3, AnswersKept, CachesKept
  <2> QED BY <2>1, <2>2
<1> QED BY <1>1, <1>2

\* The step of a DELETE: what is answered 200 has an outcome.  (cancel_job)
LEMMA DeleteStep ==
  ASSUME SubmitInv, AnswersInv, Settles, NEW s \in Servers, CancelJob(s)
  PROVE  AnswersInv'
<1> DEFINE r == srv[s].req
<1>0. /\ srv[s].pc = "route" /\ r.method = "DELETE" /\ r \in Request /\ r.job \in JobIds
      /\ UNCHANGED <<idem, cache, answers>>
  BY RequestParts DEF CancelJob, SubmitInv, Shapes
<1>1. CASE Visible(r)
  <2>1. PICK st \in Settled : Becomes(r.job, st)
    BY <1>1 DEF CancelJob, Settled
  <2>2. Moves(s, "reply", r.job)
    BY <1>0, <1>1, SrvUpdates DEF CancelJob, SubmitInv, Shapes
  <2>3. /\ jobs'[r.job].status \in Settled /\ jobs'[r.job].status # "ABSENT"
        /\ r.scope = OrgWide \/ jobs'[r.job].scope = r.scope
    BY <1>0, <1>1, <2>1, BecomesRow DEF Visible, Settled
  <2>4. TrueAnswer(jobs', idem', r, r.payload, r.job)
    BY <1>0, <2>3 DEF TrueAnswer
  <2>5. MovesTruly(s)
    BY <1>0, <2>2, <2>4, TrueMoves
  <2> QED BY <1>0, <2>5, AnswersKept, CachesKept
<1>2. CASE ~Visible(r)
  <2>1. MovesTruly(s)
    BY <1>0, <1>2, SrvUpdates, TrueMoves DEF CancelJob, SubmitInv, Shapes
  <2> QED BY <1>0, <2>1, AnswersKept, CachesKept
<1> QED BY <1>1, <1>2

\* What is answered, and cached under a key, was true when the request left
\* the tables and is still.  (the tail of handle_request)
LEMMA ReplyStep ==
  ASSUME SubmitInv, AnswersInv, Settles, NEW s \in Servers, Reply(s)
  PROVE  AnswersInv'
<1> DEFINE r == srv[s].req
           j == srv[s].job
<1>0. srv[s].pc = "reply" /\ r \in Request /\ Done(s) /\ UNCHANGED <<jobs, idem>>
  BY DEF Reply, SubmitInv, Shapes
<1>1. r.granted /\ TrueAnswer(jobs', idem', r, r.payload, j)
  BY <1>0, StaysTrue DEF AnswersInv, InHandTrue
<1>2. MovesTruly(s)
  BY <1>0, SrvUpdates, TrueMoves DEF SubmitInv, Shapes
<1>3. \A a \in answers' :
        a \in answers \/ (a.req.granted /\ TrueAnswer(jobs', idem', a.req, a.req.payload, a.job))
  BY <1>1 DEF Reply
<1>4. TrueAnswer(jobs', idem', CacheKey(r), r.payload, j)
  BY <1>1 DEF TrueAnswer, CacheKey
<1>a. cache = [q \in Servers |-> cache[q]]
  BY DEF AnswersInv, CachesTrue
<1>b. cache' = [q \in Servers |-> cache'[q]]
  BY <1>a DEF Reply
<1>5. \A q \in Servers : \A e \in cache'[q] :
        e \in cache[q] \/ TrueAnswer(jobs', idem', e.at, e.payload, e.job)
  <2> SUFFICES ASSUME NEW q \in Servers, NEW e \in cache'[q], e \notin cache[q]
               PROVE  TrueAnswer(jobs', idem', e.at, e.payload, e.job)
    OBVIOUS
  <2>1. e = [at |-> CacheKey(r), payload |-> r.payload, job |-> j]
    BY <1>a DEF Reply, Cached
  <2> QED BY <1>4, <2>1
<1> QED BY <1>0, <1>2, <1>3, <1>b, <1>5, AnswersKept

\* A request is held only for a caller with the permission; a cached answer
\* to the same request, scope included, is an answer to this one.
\* (handle_request up to the route)
LEMMA ArrivalSteps ==
  ASSUME SubmitInv, AnswersInv, Settles, NEW s \in Servers, NEW r \in Request,
         Refuse(s, r) \/ Replay(s, r) \/ Route(s, r)
  PROVE  AnswersInv'
<1>1. CASE Refuse(s, r)
  BY <1>1, AnswersKept, CachesKept DEF Refuse
<1>2. CASE Replay(s, r)
  <2>1. PICK e \in cache[s] : /\ e.at = CacheKey(r) /\ e.payload = r.payload
                              /\ answers' = answers \cup {[req |-> r, job |-> e.job]}
    BY <1>2 DEF Replay, Cached
  <2>2. UNCHANGED <<jobs, idem, cache, srv>> /\ r.granted
    BY <1>2 DEF Replay, Authorized
  <2>3. TrueAnswer(jobs', idem', e.at, e.payload, e.job)
    BY StaysTrue DEF AnswersInv, CachesTrue
  <2>4. TrueAnswer(jobs', idem', r, r.payload, e.job)
    BY <2>1, <2>3 DEF TrueAnswer, CacheKey
  <2>5. \A a \in answers' :
          a \in answers \/ (a.req.granted /\ TrueAnswer(jobs', idem', a.req, a.req.payload, a.job))
    BY <2>1, <2>2, <2>4
  <2> QED BY <2>2, <2>5, AnswersKept, CachesKept
<1>3. CASE Route(s, r)
  <2>1. r.granted /\ UNCHANGED <<jobs, idem, cache, answers>>
    BY <1>3 DEF Route, Authorized
  <2>2. MovesTruly(s)
    BY <1>3, <2>1 DEF Route, MovesTruly, SubmitInv, Shapes
  <2> QED BY <2>1, <2>2, AnswersKept, CachesKept
<1> QED BY <1>1, <1>2, <1>3

\* Failures lose requests and caches, never add to them; workers only move
\* statuses.
LEMMA MishapSteps ==
  ASSUME SubmitInv, AnswersInv, Settles,
         \/ \E s \in Servers : StatementFails(s) \/ ServerCrash(s)
         \/ \E j \in JobIds : WorkerMoves(j)
  PROVE  AnswersInv'
<1>1. ASSUME NEW s \in Servers, StatementFails(s) \/ ServerCrash(s) PROVE AnswersInv'
  <2>1. Done(s) /\ UNCHANGED <<jobs, idem, answers>>
    BY <1>1 DEF StatementFails, ServerCrash
  <2>2. MovesTruly(s)
    BY <2>1, SrvUpdates, TrueMoves DEF SubmitInv, Shapes
  <2>3. cache' = cache \/ cache' = [cache EXCEPT ![s] = {}]
    BY <1>1 DEF StatementFails, ServerCrash
  <2>a. cache = [q \in Servers |-> cache[q]]
    BY DEF AnswersInv, CachesTrue
  <2>4. /\ cache' = [q \in Servers |-> cache'[q]]
        /\ \A q \in Servers : \A e \in cache'[q] : e \in cache[q]
    BY <2>a, <2>3
  <2> QED BY <2>1, <2>2, <2>4, AnswersKept
<1>2. ASSUME NEW j \in JobIds, WorkerMoves(j) PROVE AnswersInv'
  BY <1>2, AnswersKept, CachesKept DEF WorkerMoves
<1> QED BY <1>1, <1>2

LEMMA AnswersStep ==
  ASSUME SubmitInv, AnswersInv, [ApiNext]_apiVars
  PROVE  AnswersInv'
<1>0. Settles
  BY TablesSettle
<1>1. CASE UNCHANGED apiVars
  BY <1>0, <1>1, AnswersKept, CachesKept DEF apiVars
<1>2. CASE ApiNext
  BY <1>0, <1>2, PostSteps, DeleteStep, ReplyStep, ArrivalSteps, MishapSteps DEF ApiNext, ServerStep
<1> QED BY <1>1, <1>2

\* Every answer, given, in hand or cached, is true of the tables in every
\* reachable state.
THEOREM AnswersInvariant == ApiSpec => []AnswersInv
<1>1. ApiInit => AnswersInv
  BY DEF ApiInit, AnswersInv, KeysTrue, InHandTrue, CachesTrue, AnswersTrue, Idle
<1>2. SubmitInv /\ AnswersInv /\ [ApiNext]_apiVars => AnswersInv'
  BY AnswersStep
<1> QED BY <1>1, <1>2, TransactionsOwn, PTL DEF ApiSpec

\* Two answers to one key name the same job, with what was submitted, for any
\* number of replicas and whatever is repeated, lost or restarted.
\* (handle_request, enqueue_job)
THEOREM AnswersAlwaysAgree == ApiSpec => []AnswersAgree
<1>1. AnswersInv => AnswersAgree
  BY DEF AnswersInv, AnswersTrue, TrueAnswer, AnswersAgree, Keyed
<1> QED BY <1>1, AnswersInvariant, PTL

\* No answer leaves the caller's authority or its project.
\* (_authorize_request, _job_from_idempotency_row)
THEOREM AnswersStayInScope == ApiSpec => []AnswersInScope
<1>1. AnswersInv => AnswersInScope
  BY DEF AnswersInv, AnswersTrue, TrueAnswer, AnswersInScope
<1> QED BY <1>1, AnswersInvariant, PTL

\* An acknowledged cancellation is a fact: the job has an outcome and no
\* worker will start it.  (cancel_job)
THEOREM CancellationsAreHonoured == ApiSpec => []CancelHonoured
<1>1. AnswersInv => CancelHonoured
  BY DEF AnswersInv, AnswersTrue, TrueAnswer, CancelHonoured
<1> QED BY <1>1, AnswersInvariant, PTL

-----------------------------------------------------------------------------
\* The rest of the types: the counters, and what the caches hold.
Bounds ==
  /\ requests \in 0..MaxRequests /\ faults \in 0..MaxFaults
  /\ \A s \in Servers : \A e \in cache[s] : e.payload \in Payloads \cup {"none"}

LEMMA BoundsStep ==
  ASSUME SubmitInv, CachesTrue, Bounds, [ApiNext]_apiVars
  PROVE  Bounds'
<1> USE ApiAssumption
<1>1. ASSUME NEW s \in Servers, Reply(s) PROVE Bounds'
  <2>1. srv[s].req \in Request /\ UNCHANGED <<requests, faults>>
    BY <1>1 DEF Reply, SubmitInv, Shapes
  <2>2. srv[s].req.payload \in Payloads \cup {"none"}
    BY <2>1 DEF Request
  <2>3. \A t \in Servers : \A e \in cache'[t] : e \in cache[t] \/ e.payload = srv[s].req.payload
    BY <1>1 DEF Reply, CachesTrue
  <2> QED BY <2>1, <2>2, <2>3 DEF Bounds
<1>2. ASSUME NEW s \in Servers, ServerCrash(s) PROVE Bounds'
  <2>1. \A t \in Servers : \A e \in cache'[t] : e \in cache[t]
    BY <1>2 DEF ServerCrash, CachesTrue
  <2> QED BY <1>2, <2>1 DEF ServerCrash, Fault, Bounds
<1>3. ASSUME NEW s \in Servers, NEW r \in Request, Refuse(s, r) \/ Replay(s, r) \/ Route(s, r) PROVE Bounds'
  BY <1>3 DEF Refuse, Replay, Route, Arrives, Bounds
<1>4. ASSUME NEW s \in Servers, Select(s) \/ Insert(s) \/ Commit(s) \/ CancelJob(s) PROVE Bounds'
  BY <1>4 DEF Select, Insert, Commit, CancelJob, Bounds
<1>5. ASSUME NEW s \in Servers, CommitUnconfirmed(s) \/ StatementFails(s) PROVE Bounds'
  BY <1>5 DEF CommitUnconfirmed, StatementFails, Fault, Bounds
<1>6. CASE (\E j \in JobIds : WorkerMoves(j)) \/ UNCHANGED apiVars
  BY <1>6 DEF WorkerMoves, apiVars, Bounds
<1> QED BY <1>1, <1>2, <1>3, <1>4, <1>5, <1>6 DEF ApiNext, ServerStep

LEMMA ApiTypes ==
  ASSUME SubmitInv, AnswersInv, Bounds
  PROVE  ApiTypeOK
<1>1. \A s \in Servers : \A e \in cache[s] : e.job \in JobIds
  BY DEF AnswersInv, CachesTrue, TrueAnswer
<1>2. jobs \in [JobIds -> RowSet] /\ idem \in [Keys -> KeySet] /\ srv \in [Servers -> SrvSet]
  BY DEF SubmitInv, Shapes
<1>3. KeySet \subseteq [payload : Payloads \cup {"none"}, job : JobIds \cup {NoJob}]
  BY DEF KeySet, Free
<1>4. idem \in [Keys -> [payload : Payloads \cup {"none"}, job : JobIds \cup {NoJob}]]
  BY <1>2, <1>3
<1>5. ASSUME NEW s \in Servers
      PROVE  /\ srv[s].pc \in {"idle", "route", "insert", "commit", "reply"}
             /\ srv[s].pc # "idle" => srv[s].req \in Request
             /\ srv[s].pc \in {"insert", "commit", "reply"} => srv[s].job \in JobIds
  BY <1>2 DEF SrvSet, SubmitInv, Shapes
<1>6. requests \in 0..MaxRequests /\ faults \in 0..MaxFaults
  BY DEF Bounds
<1>7. \A s \in Servers : \A e \in cache[s] : e.job \in JobIds /\ e.payload \in Payloads \cup {"none"}
  BY <1>1 DEF Bounds
<1> HIDE DEF JobIds, Request, Scopes
<1> QED BY <1>2, <1>4, <1>5, <1>6, <1>7 DEF RowSet, ApiTypeOK

LEMMA ApiStarts ==
  ASSUME ApiInit
  PROVE  SubmitInv /\ AnswersInv /\ Bounds
<1>1. AnswersInv
  BY DEF ApiInit, AnswersInv, KeysTrue, InHandTrue, CachesTrue, AnswersTrue, Idle
<1>2. Bounds
  BY ApiAssumption DEF ApiInit, Bounds
<1> QED BY <1>1, <1>2, SubmitInit

LEMMA ApiSteps ==
  ASSUME SubmitInv, AnswersInv, Bounds, [ApiNext]_apiVars
  PROVE  SubmitInv' /\ AnswersInv' /\ Bounds'
<1>1. SubmitInv'
  BY ApiStep DEF Simulates
<1>2. Bounds'
  BY BoundsStep DEF AnswersInv
<1> QED BY <1>1, <1>2, AnswersStep

\* Every reachable state of the API is well typed: only a job with an id is
\* committed, cached or answered.
THEOREM ApiTypeCorrect == ApiSpec => []ApiTypeOK
<1>1. ApiInit => SubmitInv /\ AnswersInv /\ Bounds
  BY ApiStarts
<1>2. SubmitInv /\ AnswersInv /\ Bounds /\ [ApiNext]_apiVars => (SubmitInv /\ AnswersInv /\ Bounds)'
  BY ApiSteps
<1>3. SubmitInv /\ AnswersInv /\ Bounds => ApiTypeOK
  BY ApiTypes
<1> QED BY <1>1, <1>2, <1>3, PTL DEF ApiSpec

-----------------------------------------------------------------------------
(***************************************************************************)
(* Waiting.  The INSERT of a key waits for an open transaction that has    *)
(* inserted it, and that one waits for nobody; and job ids do not run out, *)
(* because every id in use and every request still to be routed is a       *)
(* request of its own.                                                     *)
(***************************************************************************)
Routed == {s \in Servers : srv[s].pc = "route"}
Reserved == {srv[s].job : s \in {q \in Servers : Reserves(q)}}
Taken == Rows \cup Reserved

\* A request that has not been routed on holds no job id.
NoneHeld == \A s \in Servers : srv[s].pc \in {"idle", "route"} => srv[s].job = NoJob

IdsSuffice ==
  /\ NoneHeld
  /\ IsFiniteSet(Routed)
  /\ Cardinality(Taken) + Cardinality(Routed) <= requests

WaitInv == SubmitInv /\ requests \in 0..MaxRequests /\ IdsSuffice

\* There are as many job ids as there may be requests.
LEMMA JobIdsCount == IsFiniteSet(JobIds) /\ Cardinality(JobIds) = MaxRequests
<1>1. MaxRequests \in Nat
  BY ApiAssumption
<1>2. IsFiniteSet(1..MaxRequests)
      /\ Cardinality(1..MaxRequests) = IF 1 > MaxRequests THEN 0 ELSE MaxRequests - 1 + 1
  BY <1>1, FS_Interval
<1> QED BY <1>1, <1>2 DEF JobIds

LEMMA TakenIds ==
  ASSUME SubmitInv
  PROVE  Taken \subseteq JobIds /\ IsFiniteSet(Taken) /\ Cardinality(Taken) \in Nat
<1>1. Taken \subseteq JobIds
  BY DEF SubmitInv, Shapes, Taken, Rows, Reserved, Reserves
<1>2. IsFiniteSet(Taken)
  BY <1>1, JobIdsCount, FS_Subset
<1> QED BY <1>1, <1>2, FS_CardinalityType

\* A step that neither routes a request nor reserves an id leaves enough.
LEMMA FewerTaken ==
  ASSUME WaitInv, Taken' \subseteq Taken, Routed' \subseteq Routed, NoneHeld',
         requests' \in 0..MaxRequests, requests <= requests'
  PROVE  IdsSuffice'
<1>1. IsFiniteSet(Taken) /\ Cardinality(Taken) \in Nat /\ Cardinality(Taken') \in Nat
      /\ Cardinality(Taken') <= Cardinality(Taken)
  <2>1. IsFiniteSet(Taken)
    BY TakenIds DEF WaitInv
  <2>2. IsFiniteSet(Taken') /\ Cardinality(Taken') <= Cardinality(Taken)
    BY <2>1, FS_Subset
  <2> QED BY <2>1, <2>2, FS_CardinalityType
<1>2. IsFiniteSet(Routed') /\ Cardinality(Routed) \in Nat /\ Cardinality(Routed') \in Nat
      /\ Cardinality(Routed') <= Cardinality(Routed)
  <2>1. IsFiniteSet(Routed)
    BY DEF WaitInv, IdsSuffice
  <2>2. IsFiniteSet(Routed') /\ Cardinality(Routed') <= Cardinality(Routed)
    BY <2>1, FS_Subset
  <2> QED BY <2>1, <2>2, FS_CardinalityType
<1>3. requests \in Nat /\ requests' \in Nat
  BY ApiAssumption DEF WaitInv
<1>4. Cardinality(Taken') + Cardinality(Routed') <= requests'
  BY <1>1, <1>2, <1>3 DEF WaitInv, IdsSuffice
<1> QED BY <1>2, <1>4 DEF IdsSuffice

\* The updates of srv, by the job they leave.  (the locals of handle_request)
LEMMA RestsEmpty ==
  ASSUME Shapes, NEW s \in Servers, Done(s)
  PROVE  srv'[s].pc = "idle" /\ srv'[s].job = NoJob /\ \A q \in Servers \ {s} : srv'[q] = srv[q]
BY DEF Shapes, Done, Idle

\* A server that gives its request up, or is ready to answer it, gives back
\* what it had.  (rollback, and the loser's DELETE)
LEMMA GivesBack ==
  ASSUME WaitInv, NEW s \in Servers, Rows' = Rows, requests' = requests,
         Done(s) \/ \E j \in JobIds : srv[s].pc # "idle" /\ Hold(s, "reply", j)
  PROVE  IdsSuffice'
<1>1. /\ \A q \in Servers \ {s} : srv'[q] = srv[q]
      /\ (srv'[s].pc = "idle" /\ srv'[s].job = NoJob) \/ srv'[s].pc = "reply"
  <2>1. CASE Done(s)
    BY <2>1, RestsEmpty DEF WaitInv, SubmitInv
  <2>2. CASE \E j \in JobIds : Hold(s, "reply", j)
    BY <2>2, SrvUpdates DEF WaitInv, SubmitInv, Shapes, Moves
  <2> QED BY <2>1, <2>2
<1>2. Routed' \subseteq Routed
  BY <1>1 DEF Routed
<1>3. \A q \in Servers : Reserves(q)' => Reserves(q) /\ srv'[q] = srv[q]
  BY <1>1 DEF Reserves
<1>4. Taken' \subseteq Taken
  BY <1>3 DEF Taken, Reserved
<1>5. NoneHeld'
  BY <1>1 DEF NoneHeld, WaitInv, IdsSuffice
<1> QED BY <1>2, <1>4, <1>5, FewerTaken DEF WaitInv

\* COMMIT, confirmed or not: the id it had reserved is a row's now.
LEMMA CommitKeepsIds ==
  ASSUME WaitInv, NEW s \in Servers, srv[s].pc = "commit", WriteJob(s), requests' = requests,
         Done(s) \/ Step(s, "reply")
  PROVE  IdsSuffice'
<1>1. /\ \A q \in Servers \ {s} : srv'[q] = srv[q]
      /\ (srv'[s].pc = "idle" /\ srv'[s].job = NoJob) \/ srv'[s].pc = "reply"
  <2>1. CASE Done(s)
    BY <2>1, RestsEmpty DEF WaitInv, SubmitInv
  <2>2. CASE Step(s, "reply")
    BY <2>2, SrvUpdates DEF WaitInv, SubmitInv, Shapes, Moves
  <2> QED BY <2>1, <2>2
<1>2. srv[s].job \in JobIds /\ srv[s].job \in Reserved
  BY DEF WaitInv, SubmitInv, Shapes, Reserved, Reserves
<1>3. \A i \in JobIds : jobs'[i].status # "ABSENT" => i = srv[s].job \/ i \in Rows
  BY <1>2 DEF WriteJob, Rows, WaitInv, SubmitInv, Shapes
<1>4. Rows' \subseteq Taken
  BY <1>2, <1>3 DEF Taken, Rows
<1>5. \A q \in Servers : Reserves(q)' => Reserves(q) /\ srv'[q] = srv[q]
  BY <1>1 DEF Reserves
<1>6. Taken' \subseteq Taken
  BY <1>4, <1>5 DEF Taken, Reserved
<1>7. Routed' \subseteq Routed /\ NoneHeld'
  BY <1>1 DEF Routed, NoneHeld, WaitInv, IdsSuffice
<1> QED BY <1>6, <1>7, FewerTaken DEF WaitInv

\* INSERT of the key keeps the id that INSERT of the job reserved.
LEMMA InsertKeepsIds ==
  ASSUME WaitInv, NEW s \in Servers, srv[s].pc = "insert", Step(s, "commit"), UNCHANGED jobs,
         requests' = requests
  PROVE  IdsSuffice'
<1>1. /\ \A q \in Servers \ {s} : srv'[q] = srv[q]
      /\ srv'[s].pc = "commit" /\ srv'[s].job = srv[s].job
  BY SrvUpdates DEF WaitInv, SubmitInv, Shapes, Moves
<1>2. \A q \in Servers : Reserves(q)' => Reserves(q) /\ srv'[q].job = srv[q].job
  BY <1>1 DEF Reserves
<1>3. Taken' \subseteq Taken
  BY <1>2 DEF Taken, Reserved, Rows
<1>4. Routed' \subseteq Routed /\ NoneHeld'
  BY <1>1 DEF Routed, NoneHeld, WaitInv, IdsSuffice
<1> QED BY <1>3, <1>4, FewerTaken DEF WaitInv

\* INSERT of the job: one request less to route, one id more in use.
LEMMA ReserveKeepsIds ==
  ASSUME WaitInv, NEW s \in Servers, NEW j \in JobIds, srv[s].pc = "route", UNCHANGED jobs,
         NEW pc \in {"insert", "commit"}, Hold(s, pc, j), requests' = requests
  PROVE  IdsSuffice'
<1>1. /\ \A q \in Servers \ {s} : srv'[q] = srv[q]
      /\ srv'[s].pc = pc /\ srv'[s].job = j
  BY SrvUpdates DEF WaitInv, SubmitInv, Shapes, Moves
<1>2. Routed' = Routed \ {s} /\ s \in Routed
  BY <1>1 DEF Routed
<1>3. \A q \in Servers : Reserves(q)' => q = s \/ (Reserves(q) /\ srv'[q] = srv[q])
  BY <1>1 DEF Reserves
<1>4. Taken' \subseteq Taken \cup {j}
  BY <1>1, <1>3 DEF Taken, Reserved, Rows
<1>5. IsFiniteSet(Taken) /\ Cardinality(Taken) \in Nat
  BY TakenIds DEF WaitInv
<1>6. IsFiniteSet(Taken \cup {j}) /\ Cardinality(Taken \cup {j}) <= Cardinality(Taken) + 1
  <2>1. IsFiniteSet(Taken \cup {j})
        /\ Cardinality(Taken \cup {j}) = IF j \in Taken THEN Cardinality(Taken) ELSE Cardinality(Taken) + 1
    BY <1>5, FS_AddElement
  <2> QED BY <1>5, <2>1
<1>7. IsFiniteSet(Taken') /\ Cardinality(Taken') <= Cardinality(Taken \cup {j})
  BY <1>4, <1>6, FS_Subset
<1>8. Cardinality(Taken') \in Nat /\ Cardinality(Taken \cup {j}) \in Nat
  <2>1. Cardinality(Taken') \in Nat
    BY <1>7, FS_CardinalityType
  <2> QED BY <1>6, <2>1, FS_CardinalityType
<1>9. IsFiniteSet(Routed) /\ Cardinality(Routed) \in Nat
  BY FS_CardinalityType DEF WaitInv, IdsSuffice
<1>10. IsFiniteSet(Routed') /\ Cardinality(Routed') = Cardinality(Routed) - 1
  BY <1>2, <1>9, FS_RemoveElement
<1>11. Cardinality(Taken') + Cardinality(Routed') <= requests'
  BY <1>5, <1>6, <1>7, <1>8, <1>9, <1>10, ApiAssumption DEF WaitInv, IdsSuffice
<1>12. NoneHeld'
  BY <1>1 DEF NoneHeld, WaitInv, IdsSuffice
<1> QED BY <1>10, <1>11, <1>12 DEF IdsSuffice

\* A request is routed: one more, and one more to route.
LEMMA RouteKeepsIds ==
  ASSUME WaitInv, NEW s \in Servers, NEW r \in Request, Route(s, r)
  PROVE  IdsSuffice'
<1>1. /\ \A q \in Servers \ {s} : srv'[q] = srv[q]
      /\ srv'[s].pc = "route" /\ srv'[s].job = NoJob
      /\ srv[s].pc = "idle" /\ requests' = requests + 1 /\ UNCHANGED jobs
  BY DEF Route, Arrives, WaitInv, SubmitInv, Shapes
<1>2. Routed' = Routed \cup {s} /\ s \notin Routed
  BY <1>1 DEF Routed
<1>3. \A q \in Servers : Reserves(q)' => Reserves(q) /\ srv'[q] = srv[q]
  BY <1>1 DEF Reserves
<1>4. \A q \in Servers : Reserves(q) => Reserves(q)' /\ srv'[q] = srv[q]
  BY <1>1 DEF Reserves
<1>5. Taken' = Taken
  BY <1>1, <1>3, <1>4 DEF Taken, Reserved, Rows
<1>6. IsFiniteSet(Taken) /\ Cardinality(Taken) \in Nat
  BY TakenIds DEF WaitInv
<1>7. IsFiniteSet(Routed) /\ Cardinality(Routed) \in Nat
  BY FS_CardinalityType DEF WaitInv, IdsSuffice
<1>8. IsFiniteSet(Routed') /\ Cardinality(Routed') = Cardinality(Routed) + 1
  BY <1>2, <1>7, FS_AddElement
<1>9. Cardinality(Taken') + Cardinality(Routed') <= requests'
  BY <1>1, <1>5, <1>6, <1>7, <1>8, ApiAssumption DEF WaitInv, IdsSuffice
<1>10. NoneHeld'
  BY <1>1 DEF NoneHeld, WaitInv, IdsSuffice
<1> QED BY <1>8, <1>9, <1>10 DEF IdsSuffice

\* A server's own steps leave enough ids.  (enqueue_job, cancel_job, the answer)
LEMMA ServerKeepsIds ==
  ASSUME WaitInv, NEW s \in Servers, ServerStep(s)
  PROVE  IdsSuffice'
<1> DEFINE r == srv[s].req
           WillReply(j) == srv[s].pc # "idle" /\ Hold(s, "reply", j)
<1>0. SubmitInv /\ (srv[s].pc # "idle" => r \in Request)
  BY DEF WaitInv, SubmitInv, Shapes
<1>1. CASE Select(s)
  <2>1. srv[s].pc = "route" /\ r \in Request /\ UNCHANGED <<jobs, requests>> /\ Rows' = Rows
    BY <1>0, <1>1 DEF Select, Rows
  <2>2. CASE Keyed(r) /\ idem[r.key] # Free
    <3>1. idem[r.key].job \in JobIds
      BY <1>0, <2>1, <2>2, KeyRows
    <3>2. Done(s) \/ WillReply(idem[r.key].job)
      BY <1>1, <2>1, <2>2 DEF Select
    <3> QED BY <2>1, <3>1, <3>2, GivesBack
  <2>3. CASE ~(Keyed(r) /\ idem[r.key] # Free)
    <3>1. PICK j \in JobIds : Hold(s, IF Keyed(r) THEN "insert" ELSE "commit", j)
      BY <1>1, <2>3 DEF Select
    <3> QED BY <2>1, <3>1, ReserveKeepsIds
  <2> QED BY <2>2, <2>3
<1>2. CASE Insert(s)
  <2>1. /\ srv[s].pc = "insert" /\ r \in Request /\ Keyed(r)
        /\ UNCHANGED <<jobs, requests>> /\ Rows' = Rows
    BY <1>0, <1>2 DEF Insert, SubmitInv, Owned, Rows
  <2>2. CASE idem[r.key] = Free
    <3>1. Step(s, "commit")
      BY <1>2, <2>2 DEF Insert
    <3> QED BY <2>1, <3>1, InsertKeepsIds
  <2>3. CASE idem[r.key] # Free
    <3>1. idem[r.key].job \in JobIds
      BY <1>0, <2>1, <2>3, KeyRows
    <3>2. Done(s) \/ WillReply(idem[r.key].job)
      BY <1>2, <2>1, <2>3 DEF Insert
    <3> QED BY <2>1, <3>1, <3>2, GivesBack
  <2> QED BY <2>2, <2>3
<1>3. CASE Commit(s)
  BY <1>3, CommitKeepsIds DEF Commit
<1>4. CASE CancelJob(s)
  <2>1. srv[s].pc = "route" /\ r.job \in JobIds /\ UNCHANGED requests
    BY <1>0, <1>4, RequestParts DEF CancelJob
  <2>2. CASE Visible(r)
    <3>1. WillReply(r.job) /\ jobs[r.job].status # "ABSENT"
      BY <1>4, <2>1, <2>2 DEF CancelJob, Visible
    <3>2. PICK st \in Settled : Becomes(r.job, st)
      BY <1>4, <2>2 DEF CancelJob, Settled
    <3>3. SameRows
      BY <1>0, <2>1, <3>1, <3>2, BecomesSameRows
    <3>4. Rows' = Rows
      BY <3>3 DEF Rows, SameRows
    <3> QED BY <2>1, <3>1, <3>4, GivesBack
  <2>3. CASE ~Visible(r)
    <3>1. Done(s) /\ Rows' = Rows
      BY <1>4, <2>3 DEF CancelJob, Rows
    <3> QED BY <2>1, <3>1, GivesBack
  <2> QED BY <2>2, <2>3
<1>5. CASE Reply(s)
  <2>1. Done(s) /\ UNCHANGED requests /\ Rows' = Rows
    BY <1>5 DEF Reply, Rows
  <2> QED BY <2>1, GivesBack
<1> QED BY <1>1, <1>2, <1>3, <1>4, <1>5 DEF ServerStep

\* Every step leaves enough ids.
LEMMA WaitStep ==
  ASSUME WaitInv, [ApiNext]_apiVars
  PROVE  WaitInv'
<1>1. SubmitInv'
  BY ApiStep DEF Simulates, WaitInv
<1>2. requests' \in 0..MaxRequests /\ requests <= requests'
  <2>1. requests \in 0..MaxRequests /\ MaxRequests \in Nat
    BY ApiAssumption DEF WaitInv
  <2>2. UNCHANGED requests \/ (requests < MaxRequests /\ requests' = requests + 1)
    BY DEF ApiNext, apiVars, ServerStep, Refuse, Replay, Route, Arrives, Select, Insert, Commit,
           CancelJob, Reply, CommitUnconfirmed, StatementFails, ServerCrash, WorkerMoves
  <2> QED BY <2>1, <2>2
<1>3. ASSUME UNCHANGED srv, Rows' = Rows PROVE IdsSuffice'
  <2>1. Taken' = Taken /\ Routed' = Routed /\ NoneHeld'
    BY <1>3 DEF Taken, Reserved, Reserves, Routed, NoneHeld, WaitInv, IdsSuffice
  <2> QED BY <1>2, <2>1, FewerTaken
<1>4. CASE UNCHANGED apiVars
  BY <1>1, <1>2, <1>3, <1>4 DEF apiVars, Rows, WaitInv
<1>5. ASSUME NEW s \in Servers, NEW r \in Request, Refuse(s, r) \/ Replay(s, r) PROVE IdsSuffice'
  BY <1>3, <1>5 DEF Refuse, Replay, Rows
<1>6. ASSUME NEW s \in Servers, CommitUnconfirmed(s) PROVE IdsSuffice'
  BY <1>6, CommitKeepsIds DEF CommitUnconfirmed
<1>7. ASSUME NEW s \in Servers, StatementFails(s) \/ ServerCrash(s) PROVE IdsSuffice'
  BY <1>7, GivesBack DEF StatementFails, ServerCrash, Rows
<1>8. ASSUME NEW j \in JobIds, WorkerMoves(j) PROVE IdsSuffice'
  <2>1. PICK st \in Settled \cup {"READY", "RUNNING"} : Becomes(j, st)
    BY <1>8 DEF WorkerMoves, Settled
  <2>2. jobs[j].status # "ABSENT" /\ UNCHANGED srv
    BY <1>8 DEF WorkerMoves
  <2>3. SameRows
    BY <2>1, <2>2, BecomesSameRows DEF WaitInv
  <2> QED BY <1>3, <2>2, <2>3 DEF SameRows, Rows
<1>9. CASE ApiNext
  BY <1>1, <1>2, <1>5, <1>6, <1>7, <1>8, <1>9, RouteKeepsIds, ServerKeepsIds DEF ApiNext, WaitInv
<1> QED BY <1>4, <1>9

LEMMA WaitStarts ==
  ASSUME ApiInit
  PROVE  WaitInv
<1>1. SubmitInv /\ requests = 0 /\ requests \in 0..MaxRequests
  BY SubmitInit, ApiAssumption DEF ApiInit
<1>2. \A s \in Servers : srv[s].pc = "idle" /\ srv[s].job = NoJob
  BY DEF ApiInit, Idle
<1>3. Routed = {} /\ Taken = {} /\ NoneHeld
  BY <1>2 DEF ApiInit, NoRow, Routed, Taken, Rows, Reserved, Reserves, NoneHeld
<1> QED BY <1>1, <1>3, FS_EmptySet DEF WaitInv, IdsSuffice

\* Among the ids not in use there is a least one.  (uuid4)
LEMMA NextIdExists ==
  ASSUME NEW i \in JobIds, i \notin Used
  PROVE  \E j \in JobIds : NextId(j)
<1> DEFINE Left == JobIds \ Used
           Less == OpToRel(<, Nat)
<1>1. Left \subseteq Nat /\ Left # {}
  BY DEF JobIds
<1>2. ASSUME NEW x \in Nat, NEW y \in Nat PROVE x < y => <<x, y>> \in Less
  BY DEF OpToRel
<1>3. IsWellFoundedOn(Less, Nat)
  BY NatLessThanWellFounded
<1> HIDE DEF Less
<1>4. PICK j \in Left : \A y \in Left : ~(<<y, j>> \in Less)
  BY <1>1, <1>3, WFMin
<1>5. ASSUME NEW y \in Left PROVE j <= y
  <2>1. j \in Nat /\ y \in Nat
    BY <1>1
  <2>2. ~(y < j)
    BY <1>2, <1>4, <2>1, Zenon
  <2> QED BY <2>1, <2>2
<1> QED BY <1>4, <1>5 DEF NextId

\* A server that commits or answers goes on; when there is none, one that is
\* about to insert a key does; when there is none of those either, no id is
\* reserved and one is left for the request that is to be routed.
LEMMA SomeoneMay ==
  ASSUME WaitInv
  PROVE  NotAllWait
<1> SUFFICES ASSUME NEW s \in Servers, srv[s].pc # "idle" PROVE \E q \in Servers : CanStep(q)
  BY DEF NotAllWait
<1>0. \A q \in Servers : srv[q].pc \in {"idle", "route", "insert", "commit", "reply"}
  BY DEF WaitInv, SubmitInv, Shapes, SrvSet
<1>1. CASE \E q \in Servers : srv[q].pc \in {"commit", "reply"}
  BY <1>1 DEF CanStep
<1>2. CASE (\E q \in Servers : srv[q].pc = "insert") /\ \A q \in Servers : srv[q].pc # "commit"
  BY <1>2 DEF CanStep, Inserters
<1>3. CASE \A q \in Servers : srv[q].pc \in {"idle", "route"}
  <2>1. srv[s].pc = "route" /\ s \in Routed
    BY <1>3 DEF Routed
  <2>2. Used \cap JobIds \subseteq Taken
    BY <1>3, ApiAssumption DEF WaitInv, IdsSuffice, NoneHeld, Used, Taken, JobIds
  <2>3. Cardinality(Routed) \in Nat /\ Cardinality(Routed) # 0
    BY <2>1, FS_EmptySet, FS_CardinalityType DEF WaitInv, IdsSuffice
  <2>4. Taken \subseteq JobIds /\ Cardinality(Taken) \in Nat
    BY TakenIds DEF WaitInv
  <2>5. Cardinality(Taken) < MaxRequests
    BY <2>3, <2>4, ApiAssumption DEF WaitInv, IdsSuffice
  <2>6. Taken # JobIds
    BY <2>4, <2>5, JobIdsCount, ApiAssumption
  <2>7. PICK i \in JobIds : i \notin Used
    BY <2>2, <2>4, <2>6
  <2> QED BY <2>1, <2>7, NextIdExists DEF CanStep
<1> QED BY <1>0, <1>1, <1>2, <1>3

\* For any number of replicas: while any request is in hand, some server has
\* all that its next step needs.  Nobody waits in a circle for a key, and no
\* request is without an id.  (the wait on the unique index in enqueue_job)
THEOREM NeverAllWait == ApiSpec => []NotAllWait
<1>1. ApiInit => WaitInv
  BY WaitStarts
<1>2. WaitInv /\ [ApiNext]_apiVars => WaitInv'
  BY WaitStep
<1>3. WaitInv => NotAllWait
  BY SomeoneMay
<1> QED BY <1>1, <1>2, <1>3, PTL DEF ApiSpec
=============================================================================
