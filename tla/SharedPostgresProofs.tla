----------------------- MODULE SharedPostgresProofs -----------------------
(***************************************************************************)
(* The types of the three kinds of process that share a PostgreSQL         *)
(* database, together, for every value of their constants.  Each has its   *)
(* own tables, so a step of one is a step or a stutter of every other: the *)
(* inductive invariants of the three modules carry over side by side, and  *)
(* so does what is proved of each.                                         *)
(***************************************************************************)
EXTENDS MCSharedPostgres, UpgradePipelineProofs, ApiSubmitProofs, TenantQuotaProofs

SharedInv == TypeInv /\ SubmitInv /\ AnswersInv /\ Bounds /\ QuotaInv

LEMMA SharedStart == PostgresInit => SharedInv
BY TypesStart, ApiStarts, QuotaInit_Inv DEF PostgresInit, SharedInv

\* Whichever process moves, the others' tables and variables stand still.
LEMMA SharedStep ==
  ASSUME SharedInv, [PostgresNext]_<<tables, vars, apiVars, quotaVars>>
  PROVE  SharedInv'
<1>1. [Next]_vars /\ [ApiNext]_apiVars /\ [QuotaNext]_quotaVars
  BY DEF PostgresNext, UpgradesRun, ApiRuns, QuotaRuns
<1> QED BY <1>1, TypesStep, ApiSteps, QuotaStep DEF SharedInv

\* The ledgers, the API and the quotas keep their types on a database they
\* share.  (PostgresUpgradePipeline, handle_request, check_and_reserve_quota)
THEOREM SharedTypesCorrect == PostgresSpec => []SharedTypesOK
<1>1. SharedInv => SharedTypesOK
  BY TypesFollow, ApiTypes DEF SharedInv, QuotaInv, SharedTypesOK
<1> QED BY <1>1, SharedStart, SharedStep, PTL DEF PostgresSpec

-----------------------------------------------------------------------------
\* Side by side, each behaves as it does alone: what is proved of one of them
\* holds of all three on one database.
LEMMA EachOnItsOwn == PostgresSpec => Spec /\ ApiSpec /\ QuotaSpec
<1>1. PostgresInit => Init /\ ApiInit /\ QuotaInit
  BY DEF PostgresInit
<1>2. [PostgresNext]_<<tables, vars, apiVars, quotaVars>>
      => [Next]_vars /\ [ApiNext]_apiVars /\ [QuotaNext]_quotaVars
  BY DEF PostgresNext, UpgradesRun, ApiRuns, QuotaRuns
<1> QED BY <1>1, <1>2, PTL DEF PostgresSpec, Spec, ApiSpec, QuotaSpec

\* On the database they share, for every value of the constants: submission
\* is the atomic one, answers are true, consistent and within their caller's
\* authority, not all wait; quota rows account for what was admitted, and only
\* an unchecked first reservation passes a limit; fence generations are unique
\* and, with a process per run, the writer is up to date and the ledger counts
\* its attempts.  (enqueue_job, check_and_reserve_quota, PostgresUpgradePipeline)
THEOREM SharedPromises ==
  PostgresSpec =>
    /\ SubmitsAtomically /\ [](AnswersAgree /\ AnswersInScope /\ CancelHonoured /\ NotAllWait)
    /\ [](QuotaExact /\ QuotaRespected)
    /\ []TokensUnique /\ (~ReusePipeline => []WriterUpToDate /\ CountsAttempts)
<1>1. PostgresSpec => SubmitsAtomically
  BY EachOnItsOwn, SubmissionIsAtomic
<1>2. PostgresSpec => [](AnswersAgree /\ AnswersInScope /\ CancelHonoured /\ NotAllWait)
  BY EachOnItsOwn, AnswersAlwaysAgree, AnswersStayInScope, CancellationsAreHonoured, NeverAllWait, PTL
<1>3. PostgresSpec => [](QuotaExact /\ QuotaRespected)
  BY EachOnItsOwn, QuotaIsExact, QuotaIsRespected, PTL
<1>4. PostgresSpec => []TokensUnique
  BY EachOnItsOwn, UpgradeTokensUnique
<1>5. ASSUME ~ReusePipeline PROVE PostgresSpec => []WriterUpToDate /\ CountsAttempts
  BY <1>5, EachOnItsOwn, WriterIsUpToDate, LedgerCountsAttempts
<1> QED BY <1>1, <1>2, <1>3, <1>4, <1>5
=============================================================================
