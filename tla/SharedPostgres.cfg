SPECIFICATION PostgresSpec
CONSTANTS
  Items = {i1, i2}
  Runners = {r1, r2}
  NoRunner = NoRunner
  Backend = "postgres"
  MaxAttempts = 2
  MaxIterations = 2
  MaxNoProgress = 2
  RetryBlocked = TRUE
  ReusePipeline = FALSE
  MaxGen = 3
  MaxDisruptions = 1
  Servers = {s1, s2}
  Keys = {k1}
  NoKey = NoKey
  Payloads = {a, b}
  Projects = {p1}
  OrgWide = OrgWide
  NoJob = NoJob
  MaxRequests = 3
  MaxFaults = 1
  Callers = {c1, c2, c3}
  NoCaller = NoCaller
  Amounts = {1, 2, 4}
  Limit = 3
  MaxReservations = 4
  MaxQuotaFaults = 1
CHECK_DEADLOCK FALSE
INVARIANTS SharedTypesOK TokensUnique WriterUpToDate
           AnswersAgree AnswersInScope CancelHonoured SomeoneProceeds
           QuotaExact QuotaRespected
PROPERTIES CountsAttempts SubmitsAtomically
SYMMETRY Symm
