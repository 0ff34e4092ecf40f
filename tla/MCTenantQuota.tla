--------------------------- MODULE MCTenantQuota ---------------------------
(* One caller, and an amount above the limit. *)
EXTENDS TenantQuota
=============================================================================
