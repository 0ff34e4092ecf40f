----------------------------- MODULE FencedJobs -----------------------------
(***************************************************************************)
(* What the job queue promises its clients, with no worker, lease or       *)
(* process in sight: a job is posted once, granted any number of times     *)
(* under a fencing token that grows by one per grant, and settled at most  *)
(* once.  JobQueue over the tenant store implements it.                    *)
(***************************************************************************)
EXTENDS Naturals

CONSTANT Jobs

VARIABLES status, gen

Settled == {"SUCCEEDED", "FAILED", "CANCELLED"}

Init == /\ status = [j \in Jobs |-> "ABSENT"]
        /\ gen = [j \in Jobs |-> 0]

Become(j, s) == status' = [status EXCEPT ![j] = s]

\* A client submits a job.
Post(j) == status[j] = "ABSENT" /\ Become(j, "READY") /\ UNCHANGED gen

\* Some worker is granted the job: a new token, every older one is void.
Grant(j) ==
  /\ status[j] \in {"READY", "RUNNING"}
  /\ Become(j, "RUNNING")
  /\ gen' = [gen EXCEPT ![j] = @ + 1]

\* The grant ends: with an outcome, or by giving the job back.
End(j) ==
  /\ status[j] = "RUNNING"
  /\ \E s \in {"SUCCEEDED", "FAILED", "READY"} : Become(j, s)
  /\ UNCHANGED gen

\* A client cancels a job that has no outcome yet.
Cancel(j) ==
  /\ status[j] \in {"READY", "RUNNING"}
  /\ Become(j, "CANCELLED")
  /\ UNCHANGED gen

Next == \E j \in Jobs : Post(j) \/ Grant(j) \/ End(j) \/ Cancel(j)

Spec == Init /\ [][Next]_<<status, gen>>
=============================================================================
