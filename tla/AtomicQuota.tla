---------------------------- MODULE AtomicQuota ----------------------------
(***************************************************************************)
(* What check_and_reserve_quota says it does, with no statement, lock or   *)
(* connection in sight: comparing with the limit and adding to the usage   *)
(* are one step.  TenantQuota implements it as long as no single amount    *)
(* passes the limit; the run QuotaFirst has one that does.                 *)
(***************************************************************************)
EXTENDS Naturals

CONSTANTS Amounts, Limit

VARIABLES
  used,      \* how much is reserved
  admitted   \* how much of it callers know of

Init == used = 0 /\ admitted = 0

Take(a) == used + a <= Limit /\ used' = used + a

\* The caller is admitted; or never learns that it would have been.
Admit(a) == Take(a) /\ admitted' = admitted + a
Lose(a) == Take(a) /\ UNCHANGED admitted

Next == \E a \in Amounts : Admit(a) \/ Lose(a)

Spec == Init /\ [][Next]_<<used, admitted>>
=============================================================================
