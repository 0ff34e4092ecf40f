-------------------------- MODULE MCSharedPostgres --------------------------
(***************************************************************************)
(* Processes on several hosts that have nothing but a PostgreSQL database  *)
(* in common, for TLC: the fenced upgrade runners, the API replicas with   *)
(* their idempotency keys, the callers of a quota.  They use different     *)
(* tables: a behaviour is one of the three, chosen at the start.           *)
(***************************************************************************)
EXTENDS UpgradePipeline, ApiSubmit, TenantQuota, TLC

Symm == Permutations(Items) \cup Permutations(Runners)
        \cup Permutations(Servers) \cup Permutations(Payloads)

VARIABLE tables    \* "upgrades", "jobs" or "quota"

PostgresInit ==
  tables \in {"upgrades", "jobs", "quota"} /\ Init /\ ApiInit /\ QuotaInit

UpgradesRun == tables = "upgrades" /\ UNCHANGED <<tables, apiVars, quotaVars>>
ApiRuns     == tables = "jobs" /\ UNCHANGED <<tables, vars, quotaVars>>
QuotaRuns   == tables = "quota" /\ UNCHANGED <<tables, vars, apiVars>>

PostgresNext ==
  \/ UpgradesRun /\ Next
  \/ ApiRuns /\ ApiNext
  \/ QuotaRuns /\ QuotaNext

PostgresSpec == PostgresInit /\ [][PostgresNext]_<<tables, vars, apiVars, quotaVars>>

\* The type invariants of the three; the quota's says who may hold the row's
\* lock, the API's that only a job with an id is committed or answered.
SharedTypesOK == TypeOK /\ ApiTypeOK /\ QuotaTypeOK
=============================================================================
