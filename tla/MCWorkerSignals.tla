-------------------------- MODULE MCWorkerSignals --------------------------
(* One worker, at most Concurrency jobs at a time, one signal. *)
EXTENDS WorkerSignals
=============================================================================
