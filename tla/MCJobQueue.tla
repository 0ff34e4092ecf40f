----------------------------- MODULE MCJobQueue -----------------------------
(* Small instances of JobQueue: two workers, one or two jobs. *)
EXTENDS JobQueue

CONSTANTS j1, j2, w1, w2

OneJob     == {j1}
TwoJobs    == {j1, j2}
OneWorker  == {w1}
TwoWorkers == {w1, w2}

=============================================================================
