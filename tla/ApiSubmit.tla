----------------------------- MODULE ApiSubmit -----------------------------
(***************************************************************************)
(* Replicas of the public API over one tenant's tables: POST and DELETE of *)
(* /api/v1/jobs with an optional Idempotency-Key.                          *)
(*                                                                         *)
(* PublicAPIV1Router.handle_request runs to its end on the event loop of   *)
(* its server, so a server has one request in hand; what interleaves is    *)
(* the statements of several replicas.  Each replica keeps its own cache   *)
(* of answers (idempotency_store), lost when it restarts; the durable key  *)
(* is the row of tenant_job_idempotency, under READ COMMITTED.  A client   *)
(* may repeat any request, to any replica, at any time.                    *)
(***************************************************************************)
EXTENDS Naturals, FiniteSets

CONSTANTS
  Servers,
  Keys, NoKey,      \* Idempotency-Key header, or none
  Payloads,         \* request bodies, told apart by _fingerprint
  Projects,         \* project scopes a token may carry
  OrgWide,          \* ctx.project_id is None
  NoJob,
  MaxRequests,      \* bound: requests in one behaviour
  MaxFaults         \* bound: failing statements, lost commits, crashes

ASSUME ApiAssumption ==
  /\ MaxRequests \in Nat /\ MaxFaults \in Nat
  /\ NoKey \notin Keys /\ OrgWide \notin Projects /\ NoJob \notin Nat

JobIds == 1..MaxRequests
Scopes == Projects \cup {OrgWide}

\* No statement here tells SUCCEEDED and FAILED apart: both are "FINISHED".
Settled == {"FINISHED", "CANCELLED"}

\* The caller's role is reduced to whether it grants what the route asks for.
Request ==
  [method : {"POST"}, key : Keys \cup {NoKey}, scope : Scopes, payload : Payloads,
   job : {NoJob}, granted : BOOLEAN]
  \cup
  [method : {"DELETE"}, key : Keys \cup {NoKey}, scope : Scopes, payload : {"none"},
   job : JobIds, granted : BOOLEAN]

VARIABLES
  jobs,      \* tenant_jobs, committed; key: under which key it was posted (history)
  idem,      \* tenant_job_idempotency, committed
  cache,     \* idempotency_store of each server
  srv,       \* the request each server has in hand, and how far it is
  answers,   \* every answer that named a job (history)
  requests, faults

apiVars == <<jobs, idem, cache, srv, answers, requests, faults>>

NoRow  == [status |-> "ABSENT", scope |-> OrgWide, payload |-> "none", key |-> NoKey]
Free   == [payload |-> "none", job |-> NoJob]
Idle   == [pc |-> "idle", req |-> <<>>, job |-> NoJob]
Rows   == {j \in JobIds : jobs[j].status # "ABSENT"}
Keyed(r) == r.key # NoKey

\* f"{organization}:{project}:{method}:{path}:{key}"
CacheKey(r) == [key |-> r.key, scope |-> r.scope, method |-> r.method, job |-> r.job]
Cached(s, r) == {e \in cache[s] : e.at = CacheKey(r)}

\* Mutant: the durable row is matched without looking at the project.
SameRequestAnyProject(r, row) == row.payload = r.payload

\* A row of the idempotency table answers r: same fingerprint, and the job
\* is inside the caller's project (_job_from_idempotency_row).
SameRequest(r, row) ==
  /\ row.payload = r.payload
  /\ r.scope = OrgWide \/ jobs[row.job].scope = r.scope

\* The next job id nobody uses (uuid4).
Used == Rows \cup {srv[s].job : s \in Servers}
NextId(j) == j \notin Used /\ \A i \in JobIds \ Used : j <= i

Hold(s, pc, j) == srv' = [srv EXCEPT ![s] = [pc |-> pc, req |-> srv[s].req, job |-> j]]
Step(s, pc) == Hold(s, pc, srv[s].job)
Done(s) == srv' = [srv EXCEPT ![s] = Idle]
Becomes(j, st) ==
  jobs' = [jobs EXCEPT ![j] = [status |-> st, scope |-> jobs[j].scope,
                               payload |-> jobs[j].payload, key |-> jobs[j].key]]
Fault == faults < MaxFaults /\ faults' = faults + 1

-----------------------------------------------------------------------------
(***************************************************************************)
(* handle_request, up to the route.                                        *)
(***************************************************************************)
Arrives(s, r) ==
  /\ srv[s].pc = "idle"
  /\ requests < MaxRequests
  /\ requests' = requests + 1

\* _authorize_request: cached results carry no authority.
Authorized(s, r) == r.granted

\* 403, 409 from the cache, or one of the refusals that look at nothing kept
\* here: a bad key or payload (422), rate limit (429), no queue or runtime (501).
Refuse(s, r) ==
  /\ Arrives(s, r)
  /\ UNCHANGED <<jobs, idem, cache, srv, answers, faults>>

\* A cached answer for the same fingerprint is sent again.
Replay(s, r) ==
  /\ Arrives(s, r)
  /\ Authorized(s, r)
  /\ Keyed(r)
  /\ \E e \in Cached(s, r) :
       /\ e.payload = r.payload
       /\ answers' = answers \cup {[req |-> r, job |-> e.job]}
  /\ UNCHANGED <<jobs, idem, cache, srv, faults>>

\* Nothing cached under the key: on to _route.
Route(s, r) ==
  /\ Arrives(s, r)
  /\ Authorized(s, r)
  /\ Keyed(r) => Cached(s, r) = {}
  /\ srv' = [srv EXCEPT ![s] = [pc |-> "route", req |-> r, job |-> NoJob]]
  /\ UNCHANGED <<jobs, idem, cache, answers, faults>>

-----------------------------------------------------------------------------
(***************************************************************************)
(* POST: EnterprisePostgresStore.enqueue_job.                              *)
(***************************************************************************)
\* SELECT ... FOR UPDATE on the key, the job of an existing row, and the end
\* of that transaction: it writes nothing.  Otherwise INSERT of the job,
\* which no one else sees before the commit.
Select(s) ==
  LET r == srv[s].req
      row == idem[r.key]
  IN /\ srv[s].pc = "route" /\ r.method = "POST"
     /\ IF Keyed(r) /\ row # Free
        THEN IF SameRequest(r, row) THEN Hold(s, "reply", row.job) ELSE Done(s)
        ELSE \E j \in JobIds :
               NextId(j) /\ Hold(s, IF Keyed(r) THEN "insert" ELSE "commit", j)
     /\ UNCHANGED <<jobs, idem, cache, answers, requests, faults>>

\* Servers whose transaction has inserted r's key and not committed.
Inserters(r) == {q \in Servers : srv[q].pc = "commit" /\ srv[q].req.key = r.key}

\* Mutant: the INSERT waits for whoever is about to insert the key, too.
InsertWaits(s) ==
  LET r == srv[s].req
  IN /\ srv[s].pc = "insert"
     /\ \A q \in Servers \ {s} :
          ~(srv[q].pc \in {"insert", "commit"} /\ srv[q].req.key = r.key)
     /\ IF idem[r.key] = Free THEN Step(s, "commit")
        ELSE IF SameRequest(r, idem[r.key]) THEN Hold(s, "reply", idem[r.key].job) ELSE Done(s)
     /\ UNCHANGED <<jobs, idem, cache, answers, requests, faults>>

\* INSERT of the key ON CONFLICT DO NOTHING: waits for an uncommitted insert
\* of it.  The loser DELETEs its job and answers with the winner's, or
\* raises IdempotencyConflictError (409, rollback).
Insert(s) ==
  LET r == srv[s].req
  IN /\ srv[s].pc = "insert"
     /\ Inserters(r) = {}
     /\ IF idem[r.key] = Free THEN Step(s, "commit")
        ELSE IF SameRequest(r, idem[r.key]) THEN Hold(s, "reply", idem[r.key].job) ELSE Done(s)
     /\ UNCHANGED <<jobs, idem, cache, answers, requests, faults>>

\* What COMMIT makes visible.
WriteJob(s) ==
  LET r == srv[s].req
  IN /\ jobs' = [jobs EXCEPT ![srv[s].job] =
          [status |-> "READY", scope |-> r.scope, payload |-> r.payload, key |-> r.key]]
     /\ idem' = IF Keyed(r)
                THEN [idem EXCEPT ![r.key] = [payload |-> r.payload, job |-> srv[s].job]]
                ELSE idem

\* Mutant: the key is written by a later transaction.
CommitForgetsKey(s) ==
  /\ srv[s].pc = "commit"
  /\ jobs' = [jobs EXCEPT ![srv[s].job] =
       [status |-> "READY", scope |-> srv[s].req.scope, payload |-> srv[s].req.payload,
        key |-> srv[s].req.key]]
  /\ Step(s, "reply")
  /\ UNCHANGED <<idem, cache, answers, requests, faults>>

\* Mutant: the answer is prepared before the COMMIT, which may not happen.
CommitUnwritten(s) ==
  /\ srv[s].pc = "commit"
  /\ Step(s, "reply")
  /\ UNCHANGED <<jobs, idem, cache, answers, requests, faults>>

\* scoped_conn commits when the block is left.
Commit(s) ==
  /\ srv[s].pc = "commit"
  /\ WriteJob(s)
  /\ Step(s, "reply")
  /\ UNCHANGED <<cache, answers, requests, faults>>

\* The connection is lost while committing, after the server has: 503, and
\* the job is there.
CommitUnconfirmed(s) ==
  /\ srv[s].pc = "commit"
  /\ Fault
  /\ WriteJob(s)
  /\ Done(s)
  /\ UNCHANGED <<cache, answers, requests>>

-----------------------------------------------------------------------------
(***************************************************************************)
(* DELETE, the answer, and what goes wrong.                                *)
(***************************************************************************)
\* WHERE id, organization_id [, project_id]
Visible(r) ==
  jobs[r.job].status # "ABSENT" /\ (r.scope = OrgWide \/ jobs[r.job].scope = r.scope)

\* Mutant: only a job no worker has is cancelled; the others answer 200 too.
CancelJobReady(s) ==
  LET r == srv[s].req
  IN /\ srv[s].pc = "route" /\ r.method = "DELETE"
     /\ IF Visible(r)
        THEN /\ Hold(s, "reply", r.job)
             /\ Becomes(r.job, IF jobs[r.job].status = "READY" THEN "CANCELLED" ELSE jobs[r.job].status)
        ELSE Done(s) /\ UNCHANGED jobs
     /\ UNCHANGED <<idem, cache, answers, requests, faults>>

\* cancel_job: SELECT ... FOR UPDATE and UPDATE, one transaction; else 404.
CancelJob(s) ==
  LET r == srv[s].req
  IN /\ srv[s].pc = "route" /\ r.method = "DELETE"
     /\ IF Visible(r)
        THEN /\ Hold(s, "reply", r.job)
             /\ Becomes(r.job, IF jobs[r.job].status \in Settled THEN jobs[r.job].status ELSE "CANCELLED")
        ELSE Done(s) /\ UNCHANGED jobs
     /\ UNCHANGED <<idem, cache, answers, requests, faults>>

\* The tail of handle_request: a keyed call is cached, then answered.
Reply(s) ==
  LET r == srv[s].req
  IN /\ srv[s].pc = "reply"
     /\ answers' = answers \cup {[req |-> r, job |-> srv[s].job]}
     /\ cache' = IF Keyed(r)
                 THEN [cache EXCEPT ![s] = (@ \ Cached(s, r)) \cup
                        {[at |-> CacheKey(r), payload |-> r.payload, job |-> srv[s].job]}]
                 ELSE cache
     /\ Done(s)
     /\ UNCHANGED <<jobs, idem, requests, faults>>

\* A statement raises: rollback, 503 (or 500), nothing cached.
StatementFails(s) ==
  /\ srv[s].pc \in {"route", "insert", "commit"}
  /\ Fault
  /\ Done(s)
  /\ UNCHANGED <<jobs, idem, cache, answers, requests>>

\* The process dies: its transaction is rolled back, its cache is gone.
ServerCrash(s) ==
  /\ Fault
  /\ Done(s)
  /\ cache' = [cache EXCEPT ![s] = {}]
  /\ UNCHANGED <<jobs, idem, answers, requests>>

\* The workers of JobQueue: a claim; an outcome, or the release of a drain.
WorkerMoves(j) ==
  /\ \/ jobs[j].status = "READY" /\ Becomes(j, "RUNNING")
     \/ /\ jobs[j].status = "RUNNING"
        /\ \E st \in {"FINISHED", "READY"} : Becomes(j, st)
  /\ UNCHANGED <<idem, cache, srv, answers, requests, faults>>

-----------------------------------------------------------------------------
ApiInit ==
  /\ jobs = [j \in JobIds |-> NoRow]
  /\ idem = [k \in Keys |-> Free]
  /\ cache = [s \in Servers |-> {}]
  /\ srv = [s \in Servers |-> Idle]
  /\ answers = {}
  /\ requests = 0 /\ faults = 0

ServerStep(s) ==
  \/ Select(s) \/ Insert(s) \/ Commit(s) \/ CancelJob(s) \/ Reply(s)

ApiNext ==
  \/ \E s \in Servers :
       \/ \E r \in Request : Refuse(s, r) \/ Replay(s, r) \/ Route(s, r)
       \/ ServerStep(s)
       \/ CommitUnconfirmed(s) \/ StatementFails(s) \/ ServerCrash(s)
  \/ \E j \in JobIds : WorkerMoves(j)

ApiSpec == ApiInit /\ [][ApiNext]_apiVars

-----------------------------------------------------------------------------
\* Type invariant.
ApiTypeOK ==
  /\ jobs \in [JobIds -> [status : Settled \cup {"ABSENT", "READY", "RUNNING"},
                          scope : Scopes, payload : Payloads \cup {"none"},
                          key : Keys \cup {NoKey}]]
  /\ idem \in [Keys -> [payload : Payloads \cup {"none"}, job : JobIds \cup {NoJob}]]
  /\ \A s \in Servers : \A e \in cache[s] : e.job \in JobIds /\ e.payload \in Payloads \cup {"none"}
  /\ \A s \in Servers :
       /\ srv[s].pc \in {"idle", "route", "insert", "commit", "reply"}
       /\ srv[s].pc # "idle" => srv[s].req \in Request
       /\ srv[s].pc \in {"insert", "commit", "reply"} => srv[s].job \in JobIds
  /\ requests \in 0..MaxRequests /\ faults \in 0..MaxFaults

\* Every answer to a submission names a job that is in the table with what
\* was submitted, and every two answers to one key name the same job:
\* whichever replicas were asked, cache or table, and whatever was lost in
\* between.  (handle_request, enqueue_job)
AnswersAgree ==
  \A a \in answers : a.req.method = "POST" =>
    /\ jobs[a.job].status # "ABSENT"
    /\ jobs[a.job].payload = a.req.payload
    /\ \A b \in answers :
         (b.req.method = "POST" /\ Keyed(a.req) /\ b.req.key = a.req.key) => b.job = a.job

\* No answer, from a cache or the table, leaves the caller's authority: it
\* goes to a caller who holds the permission and names a job of its project.
\* (_authorize_request before the cache; _job_from_idempotency_row)
AnswersInScope ==
  \A a \in answers :
    a.req.granted /\ (a.req.scope = OrgWide \/ jobs[a.job].scope = a.req.scope)

\* A cancellation that was acknowledged, now or from a cache, is a fact: the
\* job has an outcome and no worker will start it.  (cancel_job)
CancelHonoured ==
  \A a \in answers : a.req.method = "DELETE" => jobs[a.job].status \in Settled

\* Submission implements the atomic one of KeyedJobs: a job and its key
\* appear in one step, so that none outlives a lost race for its key, and a
\* key never changes its job.  (scoped_conn, the loser's DELETE in enqueue_job)
Atomic ==
  INSTANCE KeyedJobs
    WITH rows <- {<<j, jobs[j].key>> : j \in Rows}, bound <- [k \in Keys |-> idem[k].job],
         Unbound <- NoJob
SubmitsAtomically == Atomic!Spec

\* What the next step of a request in hand needs: a new id to insert a job,
\* and to insert a key that no open transaction has inserted it.
CanStep(s) ==
  /\ srv[s].pc # "idle"
  /\ srv[s].pc = "insert" => Inserters(srv[s].req) = {}
  /\ srv[s].pc = "route" /\ srv[s].req.method = "POST" =>
       \/ Keyed(srv[s].req) /\ idem[srv[s].req.key] # Free
       \/ \E j \in JobIds : NextId(j)

\* While any request is in hand, some server has what its next step needs.
NotAllWait ==
  (\E s \in Servers : srv[s].pc # "idle") => \E s \in Servers : CanStep(s)

\* No request waits in vain: while any is in hand, some server can take its
\* next step, so that a wait for another replica's uncommitted key is a wait
\* for a transaction that goes on.  (the unique index on the key)
SomeoneProceeds == NotAllWait /\ \A s \in Servers : CanStep(s) <=> ENABLED ServerStep(s)
=============================================================================
