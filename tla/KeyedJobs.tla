----------------------------- MODULE KeyedJobs -----------------------------
(***************************************************************************)
(* What submitting with an Idempotency-Key promises, with no server, cache *)
(* or transaction in sight: a job appears in one step, a keyed job binds   *)
(* its key in that same step, and a binding is for ever.  ApiSubmit        *)
(* implements it.                                                          *)
(***************************************************************************)
CONSTANTS Keys, NoKey, JobIds, Unbound

VARIABLES
  rows,    \* <<job, key>> of every job
  bound    \* the job of each key

Init == rows = {} /\ bound = [k \in Keys |-> Unbound]

New(j) == \A row \in rows : row[1] # j

\* A submission without a key: a job of its own.
Post(j) ==
  /\ New(j)
  /\ rows' = rows \cup {<<j, NoKey>>}
  /\ UNCHANGED bound

\* A submission under a key no job has.
PostKeyed(j, k) ==
  /\ New(j)
  /\ bound[k] = Unbound
  /\ rows' = rows \cup {<<j, k>>}
  /\ bound' = [bound EXCEPT ![k] = j]

Next == \E j \in JobIds : Post(j) \/ \E k \in Keys : PostKeyed(j, k)

Spec == Init /\ [][Next]_<<rows, bound>>
=============================================================================
