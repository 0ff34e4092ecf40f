------------------------- MODULE MCEngineeringTasks -------------------------
(* One task, two workers. *)
EXTENDS EngineeringTasks
=============================================================================
