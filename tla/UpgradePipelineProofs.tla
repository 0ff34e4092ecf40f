------------------------ MODULE UpgradePipelineProofs ------------------------
(***************************************************************************)
(* Proofs about UpgradePipeline, for any items, runners and bounds.        *)
(*                                                                         *)
(* Fence tokens come first: they are issued in order, so two runners whose *)
(* writes the ledger would accept are one runner (under the lock file, its *)
(* creator).  That makes what such a runner knows stable while others      *)
(* step, and WriterInv says what it is: every item of its copy has the     *)
(* record's state and attempts, or is the one attempt it has yet to save.  *)
(* WriterUpToDate, LedgerForward, CompletedMeansDone and AttemptsBounded   *)
(* follow from it, each with what it needs besides; the last by counting   *)
(* the runners that may still lose an attempt.  CountsAttempts, the        *)
(* refinement, needs nothing else; SucceededFinal is proved for a single   *)
(* process that keeps its pipeline object, too.                            *)
(***************************************************************************)
EXTENDS UpgradePipeline, FiniteSetTheorems, TLAPS

USE BackendAssumption, PolicyAssumption, RunnerAssumption

\* An attempt is left to whatever is pending, in the ledger and in every copy.
Room ==
  /\ \A i \in Items : lstate[i] = "PENDING" => lattempts[i] < MaxAttempts
  /\ \A r \in Runners : \A i \in Items :
       /\ istate[r][i] = "PENDING" => iattempts[r][i] < MaxAttempts
       /\ kstate[r][i] = "PENDING" => kattempts[r][i] < MaxAttempts

\* The loop's counters: no more iterations without progress than iterations,
\* and one less while an iteration is under way.
Counting ==
  \A r \in Runners :
    /\ noProgress[r] <= iter[r]
    /\ pc[r] \in {"discover", "execute"} => noProgress[r] < iter[r]
    /\ pc[r] \in {"idle", "locked", "load", "loading", "seed"} => noProgress[r] = 0

LedgerTypes ==
  /\ lstate \in [Items -> WorkStates] /\ lattempts \in [Items -> 0..MaxAttempts]
  /\ execs \in [Items -> 0..ExecCap]
  /\ gen \in 0..MaxGen /\ token \in [Runners -> 0..MaxGen]
  /\ lockOwner \in Runners \cup {NoRunner} /\ disruptions \in 0..MaxDisruptions

CopyTypes ==
  /\ istate \in [Runners -> [Items -> WorkStates]]
  /\ iattempts \in [Runners -> [Items -> 0..MaxAttempts]]
  /\ kstate \in [Runners -> [Items -> WorkStates]]
  /\ kattempts \in [Runners -> [Items -> 0..MaxAttempts]]

LoopTypes ==
  /\ pc \in [Runners -> PCs] /\ final \in [Runners -> Finals]
  /\ iter \in [Runners -> 0..MaxIterations] /\ noProgress \in [Runners -> 0..MaxIterations]
  /\ todo \in [Runners -> SUBSET Items]

TypeInv == LedgerTypes /\ CopyTypes /\ LoopTypes /\ Room /\ Counting

\* Parts of the type invariant that a step leaves alone.
LEMMA Untouched ==
  /\ LedgerTypes /\ UNCHANGED <<ledger, execs, gen, token, lockOwner, disruptions>> => LedgerTypes'
  /\ CopyTypes /\ UNCHANGED <<istate, iattempts, kept>> => CopyTypes'
  /\ LoopTypes /\ UNCHANGED <<pc, final, iter, noProgress, todo>> => LoopTypes'
  /\ Room /\ UNCHANGED <<ledger, istate, iattempts, kept>> => Room'
  /\ Counting /\ UNCHANGED <<pc, iter, noProgress>> => Counting'
BY DEF LedgerTypes, CopyTypes, LoopTypes, Room, Counting, ledger, kept

\* What a record is restored with.  (restore_or_register, load_resumable)
LEMMA RestoredType ==
  ASSUME LedgerTypes, Room, NEW i \in Items
  PROVE  /\ RestoredAttempts(i) \in 0..MaxAttempts
         /\ RestoredAttempts(i) < MaxAttempts
BY DEF RestoredAttempts, LedgerTypes, Room

\* The history of executions stays within its cap.
LEMMA RecountType ==
  ASSUME LedgerTypes, NEW S, Recount(S)
  PROVE  execs' \in [Items -> 0..ExecCap]
BY DEF LedgerTypes, Recount, ExecCap

\* The end of a run keeps the loop's state well typed.
LEMMA EndRunTypes ==
  ASSUME TypeInv, NEW r \in Runners, EndRun(r)
  PROVE  /\ LoopTypes' /\ Counting' /\ token' \in [Runners -> 0..MaxGen]
         /\ istate' \in [Runners -> [Items -> WorkStates]]
         /\ iattempts' \in [Runners -> [Items -> 0..MaxAttempts]]
         /\ \A s \in Runners : \A i \in Items :
              istate'[s][i] = "PENDING" => iattempts'[s][i] < MaxAttempts
<1> USE DEF TypeInv, EndRun, Goto
<1>1. LoopTypes'
  BY DEF LoopTypes, PCs, Finals
<1>2. Counting'
  BY DEF LoopTypes, Counting
<1>3. token' \in [Runners -> 0..MaxGen]
  BY DEF LedgerTypes
<1>4. istate' \in [Runners -> [Items -> WorkStates]] /\ iattempts' \in [Runners -> [Items -> 0..MaxAttempts]]
  BY DEF CopyTypes, WorkStates
<1>5. \A s \in Runners : \A i \in Items :
        istate'[s][i] = "PENDING" => iattempts'[s][i] < MaxAttempts
  BY DEF Room, CopyTypes
<1> QED BY <1>1, <1>2, <1>3, <1>4, <1>5

\* Every step keeps the state well typed.  First the lease and its token.
LEMMA LeaseTypes ==
  ASSUME TypeInv, NEW r \in Runners,
         \/ Acquire(r) \/ AcquireToken(r) \/ TokenFails(r) \/ SessionLost(r) \/ OperatorUnlocks(r)
         \/ Release(r) \/ Crash(r) \/ Interrupt(r) \/ StaleWrite(r)
  PROVE  TypeInv'
<1> USE DEF TypeInv, Goto
<1>1. CASE Acquire(r)
  <2>1. LedgerTypes'
    BY <1>1 DEF Acquire, LedgerTypes, ledger
  <2>2. LoopTypes' /\ Counting'
    BY <1>1 DEF Acquire, LoopTypes, Counting, PCs, local
  <2> QED BY <1>1, <2>1, <2>2, Untouched DEF Acquire, local
<1>2. CASE AcquireToken(r)
  <2>1. LedgerTypes'
    BY <1>2 DEF AcquireToken, LedgerTypes, ledger
  <2>2. LoopTypes' /\ Counting'
    BY <1>2 DEF AcquireToken, LoopTypes, Counting, PCs, local
  <2> QED BY <1>2, <2>1, <2>2, Untouched DEF AcquireToken, local
<1>3. CASE TokenFails(r)
  <2>1. LedgerTypes'
    BY <1>3 DEF TokenFails, LedgerTypes, ledger
  <2>2. LoopTypes' /\ Counting'
    BY <1>3 DEF TokenFails, LoopTypes, Counting, PCs, local
  <2> QED BY <1>3, <2>1, <2>2, Untouched DEF TokenFails, local
<1>4. CASE SessionLost(r) \/ OperatorUnlocks(r)
  <2>1. LedgerTypes'
    BY <1>4 DEF SessionLost, OperatorUnlocks, LedgerTypes, ledger
  <2> QED BY <1>4, <2>1, Untouched DEF SessionLost, OperatorUnlocks, local
<1>5. CASE Release(r) \/ Crash(r)
  <2>1. EndRun(r) /\ UNCHANGED <<ledger, gen, execs>>
    BY <1>5 DEF Release, Crash
  <2>2. LedgerTypes'
    BY <1>5, <2>1, EndRunTypes DEF Release, Crash, LedgerTypes, ledger
  <2>3. /\ kstate' \in [Runners -> [Items -> WorkStates]]
        /\ kattempts' \in [Runners -> [Items -> 0..MaxAttempts]]
        /\ \A s \in Runners : \A i \in Items : kstate'[s][i] = "PENDING" => kattempts'[s][i] < MaxAttempts
    <3>1. CASE Forget(r)
      BY <3>1 DEF Forget, CopyTypes, Room, WorkStates
    <3>2. CASE Keep(r) /\ iter[r] = 0
      BY <3>2 DEF Keep, CopyTypes, Room, kept
    <3>3. CASE Keep(r) /\ iter[r] # 0
      <4>1. \A i \in Items :
              /\ ItemState(r, i) \in WorkStates /\ ItemAttempts(r, i) \in 0..MaxAttempts
              /\ ItemState(r, i) = "PENDING" => ItemAttempts(r, i) < MaxAttempts
        BY DEF ItemState, ItemAttempts, CopyTypes, Room
      <4>2. /\ kstate' = [kstate EXCEPT ![r] = [i \in Items |-> ItemState(r, i)]]
            /\ kattempts' = [kattempts EXCEPT ![r] = [i \in Items |-> ItemAttempts(r, i)]]
        BY <3>3 DEF Keep
      <4> QED BY <4>1, <4>2 DEF CopyTypes, Room
    <3> QED BY <1>5, <3>1, <3>2, <3>3 DEF Release, Crash
  <2>4. CopyTypes'
    BY <2>1, <2>3, EndRunTypes DEF CopyTypes
  <2>5. Room'
    BY <2>1, <2>3, EndRunTypes DEF Room, ledger
  <2> QED BY <2>1, <2>2, <2>4, <2>5, EndRunTypes
<1>6. CASE Interrupt(r) \/ StaleWrite(r)
  <2>1. LedgerTypes'
    BY <1>6 DEF Interrupt, StaleWrite, LedgerTypes, ledger
  <2>2. LoopTypes' /\ Counting'
    BY <1>6 DEF Interrupt, StaleWrite, RunRaises, LoopTypes, Counting, PCs, Finals
  <2> QED BY <1>6, <2>1, <2>2, Untouched DEF Interrupt, StaleWrite
<1> QED BY <1>1, <1>2, <1>3, <1>4, <1>5, <1>6

\* Loading and registering.
LEMMA LoadTypes ==
  ASSUME TypeInv, NEW r \in Runners,
         \/ LoadAll(r) \/ ListTasks(r) \/ EndLoad(r) \/ BeginLoop(r)
         \/ \E i \in Items : LoadItem(r, i) \/ Restore(r, i)
  PROVE  TypeInv'
<1> USE DEF TypeInv, Goto
<1>1. CASE LoadAll(r)
  <2>0. \A i \in Items : RestoredAttempts(i) \in 0..MaxAttempts /\ RestoredAttempts(i) < MaxAttempts
    BY RestoredType
  <2>1. LedgerTypes'
    BY <1>1, <2>0, RecountType DEF LoadAll, LedgerTypes, WorkStates
  <2>2. CopyTypes'
    BY <1>1, <2>0 DEF LoadAll, CopyTypes, WorkStates, kept
  <2>3. LoopTypes' /\ Counting'
    BY <1>1 DEF LoadAll, LoopTypes, Counting, PCs
  <2>4. Room'
    <3>1. \A i \in Items : lstate'[i] = "PENDING" => lattempts'[i] < MaxAttempts
      BY <1>1, <2>0 DEF LoadAll, Resumable, Room
    <3>2. \A s \in Runners : \A i \in Items : istate'[s][i] = "PENDING" => iattempts'[s][i] < MaxAttempts
      BY <1>1, <2>0 DEF LoadAll, CopyTypes, Room
    <3> QED BY <1>1, <3>1, <3>2 DEF LoadAll, Room, kept
  <2> QED BY <2>1, <2>2, <2>3, <2>4
<1>2. CASE ListTasks(r) \/ EndLoad(r) \/ BeginLoop(r)
  <2>1. LedgerTypes'
    BY <1>2 DEF ListTasks, EndLoad, BeginLoop, LedgerTypes, ledger
  <2>2. LoopTypes' /\ Counting'
    BY <1>2 DEF ListTasks, EndLoad, BeginLoop, LoopTypes, Counting, PCs, local
  <2> QED BY <1>2, <2>1, <2>2, Untouched DEF ListTasks, EndLoad, BeginLoop, local
<1>3. ASSUME NEW i \in Items, LoadItem(r, i) \/ Restore(r, i) PROVE TypeInv'
  <2>0. RestoredAttempts(i) \in 0..MaxAttempts /\ RestoredAttempts(i) < MaxAttempts
    BY RestoredType
  <2>a. /\ lstate' = [lstate EXCEPT ![i] = "PENDING"]
        /\ lattempts' = [lattempts EXCEPT ![i] = RestoredAttempts(i)]
        /\ Adopt(r, i, RestoredAttempts(i)) /\ Recount({i})
        /\ UNCHANGED <<kept, gen, lockOwner, token, pc, iter, noProgress, final, disruptions>>
    BY <1>3 DEF LoadItem, Restore
  <2>1. LedgerTypes'
    BY <2>a, <2>0, RecountType DEF LedgerTypes, WorkStates
  <2>2. CopyTypes'
    BY <2>a, <2>0 DEF Adopt, CopyTypes, WorkStates, kept
  <2>3. LoopTypes' /\ Counting'
    BY <1>3 DEF LoadItem, Restore, LoopTypes, Counting
  <2>4. Room'
    <3>1. \A j \in Items : lstate'[j] = "PENDING" => lattempts'[j] < MaxAttempts
      BY <2>a, <2>0 DEF LedgerTypes, Room
    <3>2. \A s \in Runners : \A j \in Items : istate'[s][j] = "PENDING" => iattempts'[s][j] < MaxAttempts
      BY <2>a, <2>0 DEF Adopt, CopyTypes, Room
    <3> QED BY <2>a, <3>1, <3>2 DEF Room, kept
  <2> QED BY <2>1, <2>2, <2>3, <2>4
<1> QED BY <1>1, <1>2, <1>3

\* The loop.
LEMMA LoopStepTypes ==
  ASSUME TypeInv, NEW r \in Runners,
         \/ DiscoverFails(r) \/ NothingPending(r) \/ Report(r)
         \/ \E i \in Items : Pick(r, i) \/ AttemptFails(r, i) \/ Regression(r, i) \/ AttemptSucceeds(r, i)
  PROVE  TypeInv'
<1> USE DEF TypeInv, Goto
<1>1. CASE DiscoverFails(r) \/ NothingPending(r) \/ Report(r)
  <2>1. LedgerTypes'
    BY <1>1 DEF DiscoverFails, NothingPending, Report, LedgerTypes, ledger
  <2>2. LoopTypes' /\ Counting'
    BY <1>1 DEF DiscoverFails, NothingPending, Report, BeginCheckpoint, Known, LoopTypes, Counting, PCs, Finals
  <2> QED BY <1>1, <2>1, <2>2, Untouched DEF DiscoverFails, NothingPending, Report
<1>2. ASSUME NEW i \in Items, Pick(r, i) PROVE TypeInv'
  <2>0. iattempts[r][i] < MaxAttempts
    BY <1>2 DEF Pick, Pending, Room
  <2>1. LedgerTypes'
    BY <1>2 DEF Pick, LedgerTypes, ledger, ExecCap
  <2>2. CopyTypes'
    BY <1>2, <2>0 DEF Pick, CopyTypes, WorkStates, kept
  <2>3. LoopTypes' /\ Counting'
    BY <1>2 DEF Pick, LoopTypes, Counting, PCs
  <2>4. Room'
    BY <1>2 DEF Pick, Room, CopyTypes, kept, ledger
  <2> QED BY <2>1, <2>2, <2>3, <2>4
<1>3. ASSUME NEW i \in Items, AttemptFails(r, i) \/ Regression(r, i) \/ AttemptSucceeds(r, i)
      PROVE TypeInv'
  <2>0. PICK st \in {"PENDING", "BLOCKED", "SUCCEEDED"} :
          /\ istate' = [istate EXCEPT ![r][i] = st]
          /\ st = "PENDING" => iattempts[r][i] < MaxAttempts
    BY <1>3 DEF AttemptFails, Regression, AttemptSucceeds, CopyTypes
  <2>a. /\ BeginCheckpoint(r, "checkpoint") /\ pc[r] = "execute"
        /\ noProgress' = [noProgress EXCEPT ![r] = noProgress[r] + 1]
             \/ noProgress' = [noProgress EXCEPT ![r] = 0]
        /\ final' = final \/ final' = [final EXCEPT ![r] = "HALTED"]
        /\ UNCHANGED <<kept, ledger, gen, lockOwner, token, iattempts, iter, execs, disruptions>>
    BY <1>3 DEF AttemptFails, Regression, AttemptSucceeds, LoopTypes
  <2>1. LedgerTypes'
    BY <2>a DEF LedgerTypes, ledger
  <2>2. CopyTypes'
    BY <2>0, <2>a DEF CopyTypes, WorkStates, kept
  <2>3. LoopTypes'
    BY <2>a DEF BeginCheckpoint, Known, LoopTypes, Counting, PCs, Finals
  <2>4. Counting'
    BY <2>a DEF BeginCheckpoint, LoopTypes, Counting
  <2>5. Room'
    BY <2>0, <2>a DEF Room, CopyTypes, kept, ledger
  <2> QED BY <2>1, <2>2, <2>3, <2>4, <2>5
<1> QED BY <1>1, <1>2, <1>3

\* The checkpoints.
LEMMA SaveTypes ==
  ASSUME TypeInv, NEW r \in Runners,
         WriteLedger(r) \/ SaveControl(r) \/ (\E i \in Items : SaveItem(r, i))
  PROVE  TypeInv'
<1> USE DEF TypeInv, Goto
<1>0. \A i \in Items : /\ ItemState(r, i) \in WorkStates /\ ItemAttempts(r, i) \in 0..MaxAttempts
                       /\ ItemState(r, i) = "PENDING" => ItemAttempts(r, i) < MaxAttempts
  BY DEF ItemState, ItemAttempts, CopyTypes, Room
<1>1. ASSUME EndCheckpoint(r), UNCHANGED noProgress PROVE LoopTypes' /\ Counting'
  <2>1. pc[r] \in {"checkpoint", "closing"} /\ pc' \in [Runners -> PCs] /\ pc'[r] \in {"discover", "closing", "report"}
        /\ todo' \in [Runners -> SUBSET Items]
    BY <1>1 DEF EndCheckpoint, BeginCheckpoint, LoopTypes, PCs, Known
  <2>2. final' \in [Runners -> Finals]
    BY <1>1 DEF EndCheckpoint, LoopTypes, Finals
  <2>3. \/ iter' = iter /\ pc'[r] # "discover"
        \/ iter' = [iter EXCEPT ![r] = iter[r] + 1] /\ iter[r] < MaxIterations
    BY <1>1 DEF EndCheckpoint, BeginCheckpoint, LoopTypes
  <2>4. \A s \in Runners : s # r => pc'[s] = pc[s]
    BY <1>1 DEF EndCheckpoint, BeginCheckpoint, LoopTypes
  <2>5. LoopTypes'
    BY <1>1, <2>1, <2>2, <2>3 DEF LoopTypes
  <2>6. Counting'
    BY <1>1, <2>1, <2>3, <2>4 DEF LoopTypes, Counting
  <2> QED BY <2>5, <2>6
<1>2. CASE WriteLedger(r)
  <2>1. LedgerTypes'
    BY <1>0, <1>2 DEF WriteLedger, LedgerTypes
  <2>2. LoopTypes' /\ Counting'
    BY <1>1, <1>2 DEF WriteLedger
  <2>3. Room'
    BY <1>0, <1>2 DEF WriteLedger, Room, kept
  <2> QED BY <1>2, <2>1, <2>2, <2>3, Untouched DEF WriteLedger
<1>3. ASSUME NEW i \in Items, SaveItem(r, i) PROVE TypeInv'
  <2>1. LedgerTypes'
    BY <1>0, <1>3 DEF SaveItem, LedgerTypes
  <2>2. LoopTypes'
    BY <1>3 DEF SaveItem, LoopTypes, local
  <2>3. Room'
    BY <1>0, <1>3 DEF SaveItem, Room, LedgerTypes, kept, local
  <2> QED BY <1>3, <2>1, <2>2, <2>3, Untouched DEF SaveItem, local
<1>4. CASE SaveControl(r)
  <2>1. LedgerTypes'
    BY <1>4 DEF SaveControl, LedgerTypes, ledger
  <2>2. LoopTypes' /\ Counting'
    BY <1>1, <1>4 DEF SaveControl
  <2> QED BY <1>4, <2>1, <2>2, Untouched DEF SaveControl
<1> QED BY <1>2, <1>3, <1>4

LEMMA TypesStart == Init => TypeInv
BY DEF Init, TypeInv, LedgerTypes, CopyTypes, LoopTypes, Room, Counting, WorkStates, Finals, PCs, ExecCap

LEMMA TypesStep ==
  ASSUME TypeInv, [Next]_vars
  PROVE  TypeInv'
<1>1. CASE UNCHANGED vars
  BY <1>1, Untouched DEF vars, local, TypeInv
<1>2. CASE Next
  BY <1>2, LeaseTypes, LoadTypes, LoopStepTypes, SaveTypes DEF Next, CommonStep, JsonStep, PostgresStep
<1> QED BY <1>1, <1>2

\* Types of every deployment, with the two bounds on counters they rest on.
THEOREM UpgradeTypeInv == Spec => []TypeInv
BY TypesStart, TypesStep, PTL DEF Spec

LEMMA TypesFollow == TypeInv => TypeOK
BY DEF TypeInv, LedgerTypes, CopyTypes, LoopTypes, TypeOK

\* Every reachable state of the ledgers and their runners is well typed.
THEOREM UpgradeTypeCorrect == Spec => []TypeOK
BY TypesFollow, UpgradeTypeInv, PTL

-----------------------------------------------------------------------------
\* Tokens are issued in order; whoever is past "locked" has one.
TokensIssued ==
  \A r \in Runners :
    /\ token[r] <= gen
    /\ Backend = "postgres" /\ pc[r] \notin {"idle", "locked"} => token[r] # 0

TokensInv == TokensIssued /\ TokensUnique

\* A step that issues no token and takes nobody past "locked" keeps them.
LEMMA TokensKept ==
  ASSUME TypeInv, TokensInv, gen' = gen,
         \A r \in Runners : token'[r] = token[r] \/ (token'[r] = 0 /\ pc'[r] = "idle"),
         \A r \in Runners : Backend = "postgres" /\ pc'[r] \notin {"idle", "locked"} =>
           pc[r] \notin {"idle", "locked"}
  PROVE  TokensInv'
BY DEF TokensInv, TokensIssued, TokensUnique, TypeInv, LedgerTypes

\* What every step does to tokens and places: one runner moves, and only
\* acquire_token gives it a token.
LEMMA TokenMoves ==
  ASSUME TypeInv, NEW r \in Runners, CommonStep(r) \/ JsonStep(r) \/ PostgresStep(r),
         ~AcquireToken(r)
  PROVE  /\ gen' = gen
         /\ \A s \in Runners : token'[s] = token[s] \/ (token'[s] = 0 /\ pc'[s] = "idle")
         /\ \A s \in Runners : Backend = "postgres" /\ pc'[s] \notin {"idle", "locked"} =>
              pc[s] \notin {"idle", "locked"}
<1> USE DEF TypeInv, LedgerTypes, LoopTypes, Goto
<1>1. CASE Acquire(r)
  BY <1>1 DEF Acquire
<1>2. CASE TokenFails(r) \/ SessionLost(r) \/ OperatorUnlocks(r)
  BY <1>2 DEF TokenFails, SessionLost, OperatorUnlocks
<1>3. CASE Release(r) \/ Crash(r)
  BY <1>3 DEF Release, Crash, EndRun
<1>4. CASE LoadAll(r) \/ ListTasks(r) \/ EndLoad(r) \/ BeginLoop(r) \/ (\E i \in Items : LoadItem(r, i) \/ Restore(r, i))
  BY <1>4 DEF LoadAll, ListTasks, EndLoad, BeginLoop, LoadItem, Restore
<1>5. CASE \/ Interrupt(r) \/ StaleWrite(r) \/ DiscoverFails(r) \/ NothingPending(r) \/ Report(r)
  BY <1>5 DEF Interrupt, StaleWrite, RunRaises, DiscoverFails, NothingPending, Report, BeginCheckpoint
<1>6. CASE \E i \in Items : Pick(r, i) \/ AttemptFails(r, i) \/ Regression(r, i) \/ AttemptSucceeds(r, i)
  BY <1>6 DEF Pick, AttemptFails, Regression, AttemptSucceeds, BeginCheckpoint
<1>7. CASE WriteLedger(r) \/ SaveControl(r) \/ (\E i \in Items : SaveItem(r, i))
  <2>1. \A s \in Runners : s # r => pc'[s] = pc[s]
    BY <1>7 DEF WriteLedger, SaveControl, SaveItem, EndCheckpoint, BeginCheckpoint
  <2>2. pc[r] \in {"checkpoint", "closing"} /\ token' = token /\ gen' = gen
    BY <1>7 DEF WriteLedger, SaveControl, SaveItem, Current
  <2> QED BY <2>1, <2>2
<1> QED BY <1>1, <1>2, <1>3, <1>4, <1>5, <1>6, <1>7 DEF CommonStep, JsonStep, PostgresStep

\* Every token is issued once.  (PostgresUpgradeFence.acquire_token)
THEOREM FenceTokens == Spec => []TokensInv
<1>1. Init => TokensInv
  BY DEF Init, TokensInv, TokensIssued, TokensUnique
<1>2. TypeInv /\ TokensInv /\ [Next]_vars => TokensInv'
  <2> SUFFICES ASSUME TypeInv, TokensInv, [Next]_vars PROVE TokensInv'
    OBVIOUS
  <2>1. CASE UNCHANGED vars
    BY <2>1, TokensKept DEF vars
  <2>2. ASSUME NEW r \in Runners, AcquireToken(r) PROVE TokensInv'
    <3>1. /\ token'[r] = gen + 1 /\ gen' = gen + 1 /\ gen \in Nat
          /\ \A s \in Runners : s # r => token'[s] = token[s] /\ token[s] <= gen /\ pc'[s] = pc[s]
          /\ \A s \in Runners : token[s] \in Nat
      BY <2>2 DEF AcquireToken, Goto, TokensInv, TokensIssued, TypeInv, LedgerTypes, LoopTypes
    <3> QED BY <3>1 DEF TokensInv, TokensIssued, TokensUnique
  <2>3. ASSUME NEW r \in Runners, CommonStep(r) \/ JsonStep(r) \/ PostgresStep(r), ~AcquireToken(r)
        PROVE TokensInv'
    BY <2>3, TokenMoves, TokensKept
  <2> QED BY <2>1, <2>2, <2>3 DEF Next
<1> QED BY <1>1, <1>2, UpgradeTypeInv, PTL DEF Spec

\* No two runners ever hold the same fence generation, so at most one of them
\* can write, whatever locks were lost in between.
\* (PostgresUpgradeFence.acquire_token, save_task)
THEOREM UpgradeTokensUnique == Spec => []TokensUnique
BY FenceTokens, PTL DEF TokensInv

-----------------------------------------------------------------------------
(***************************************************************************)
(* The writer's copy.  From here on a process per run, as in the CLI.      *)
(***************************************************************************)
\* The runner whose writes the ledger accepts.
Writer(r) == pc[r] \notin {"idle", "locked"} /\ Current(r)

\* Over the lock file, only its creator is in a run.
OwnsLock(r) == Backend = "json" /\ pc[r] # "idle" => lockOwner = r

\* Nothing of an earlier run is kept and a run starts empty; the one RUNNING
\* item is being executed, or was when the run was cut off.
OwnCopies(r) ==
  /\ \A i \in Items : kstate[r][i] = "NONE"
  /\ pc[r] \in {"idle", "locked", "load"} => \A i \in Items : istate[r][i] = "NONE"
  /\ \A i, j \in Items : istate[r][i] = "RUNNING" =>
       /\ pc[r] \in {"execute", "release"}
       /\ istate[r][j] = "RUNNING" => i = j

\* COMPLETED is only said when a run closes.
OwnFinal(r) == pc[r] \notin {"closing", "report", "release"} => final[r] \in {"RUNNING", "HALTED"}

\* The ledger has item i as r does.
InSync(r, i) ==
  /\ lattempts[i] = iattempts[r][i] /\ istate[r][i] # "RUNNING"
  /\ \/ istate[r][i] = lstate[i]
     \/ RetryBlocked /\ istate[r][i] = "BLOCKED" /\ lstate[i] = "PENDING"

\* The ledger has yet to see the one attempt r has made on item i.
Ahead(r, i) ==
  /\ lstate[i] = "PENDING" /\ iattempts[r][i] = lattempts[i] + 1
  /\ \/ pc[r] = "execute" /\ istate[r][i] = "RUNNING"
     \/ /\ pc[r] = "checkpoint" /\ i \in todo[r]
        /\ istate[r][i] \in {"PENDING", "BLOCKED", "SUCCEEDED"}

Saving == {"checkpoint", "closing"}
Active == {"loading", "seed", "discover", "execute"} \cup Saving

\* What a writer knows is in step with the ledger, item by item, and what it
\* has yet to load or save is there to be loaded or saved.
InStep(r) ==
  Writer(r) => \A i \in Items :
    /\ pc[r] \in Active /\ istate[r][i] # "NONE" => InSync(r, i) \/ Ahead(r, i)
    /\ pc[r] = "loading" /\ i \in todo[r] => Resumable(i) /\ istate[r][i] = "NONE"
    /\ pc[r] \in Saving /\ i \in todo[r] => istate[r][i] # "NONE"

\* A record nobody has written has no attempts.
BlankRecords == \A i \in Items : lstate[i] = "NONE" => lattempts[i] = 0

Own(r) == OwnsLock(r) /\ OwnCopies(r) /\ OwnFinal(r) /\ InStep(r)
WriterInv == BlankRecords /\ \A r \in Runners : Own(r)

\* The moves of r leave the other runners as they are.
Alone(r) ==
  \A s \in Runners : s # r =>
    /\ pc'[s] = pc[s] /\ token'[s] = token[s] /\ final'[s] = final[s] /\ todo'[s] = todo[s]
    /\ istate'[s] = istate[s] /\ iattempts'[s] = iattempts[s] /\ kstate'[s] = kstate[s]

\* Each step is one runner's.
LEMMA OneRunnerMoves ==
  ASSUME TypeInv, NEW r \in Runners, CommonStep(r) \/ JsonStep(r) \/ PostgresStep(r)
  PROVE  Alone(r)
<1> USE DEF TypeInv, LedgerTypes, LoopTypes, CopyTypes, Goto, Alone, local, kept
<1>1. CASE Acquire(r) \/ AcquireToken(r) \/ TokenFails(r) \/ SessionLost(r) \/ OperatorUnlocks(r)
  BY <1>1 DEF Acquire, AcquireToken, TokenFails, SessionLost, OperatorUnlocks
<1>2. CASE Release(r) \/ Crash(r)
  BY <1>2 DEF Release, Crash, EndRun, Keep, Forget
<1>3. CASE LoadAll(r) \/ ListTasks(r) \/ EndLoad(r) \/ BeginLoop(r)
  BY <1>3 DEF LoadAll, ListTasks, EndLoad, BeginLoop
<1>4. CASE \E i \in Items : LoadItem(r, i) \/ Restore(r, i)
  BY <1>4 DEF LoadItem, Restore, Adopt
<1>5. CASE Interrupt(r) \/ StaleWrite(r) \/ DiscoverFails(r) \/ NothingPending(r) \/ Report(r)
  BY <1>5 DEF Interrupt, StaleWrite, RunRaises, DiscoverFails, NothingPending, Report, BeginCheckpoint
<1>6. CASE \E i \in Items : Pick(r, i) \/ AttemptFails(r, i) \/ Regression(r, i) \/ AttemptSucceeds(r, i)
  BY <1>6 DEF Pick, AttemptFails, Regression, AttemptSucceeds, BeginCheckpoint
<1>7. CASE WriteLedger(r) \/ SaveControl(r) \/ (\E i \in Items : SaveItem(r, i))
  BY <1>7 DEF WriteLedger, SaveControl, SaveItem, EndCheckpoint, BeginCheckpoint
<1> QED BY <1>1, <1>2, <1>3, <1>4, <1>5, <1>6, <1>7 DEF CommonStep, JsonStep, PostgresStep

\* Over the lock file, whoever steps is alone in a run.
LEMMA JsonAlone ==
  ASSUME WriterInv, TypeInv, Backend = "json", NEW r \in Runners, NEW s \in Runners, s # r,
         CommonStep(r) \/ JsonStep(r) \/ PostgresStep(r)
  PROVE  pc[s] = "idle"
<1>1. pc[r] # "idle" \/ LeaseFree \/ lockOwner = r
  BY DEF CommonStep, JsonStep, PostgresStep, Acquire, AcquireToken, TokenFails, SessionLost,
         OperatorUnlocks, Release, Crash, LoadAll, ListTasks, EndLoad, BeginLoop, LoadItem, Restore,
         Interrupt, StaleWrite, DiscoverFails, NothingPending, Report, Pick, AttemptFails, Regression,
         AttemptSucceeds, WriteLedger, SaveControl, SaveItem
<1> QED BY <1>1 DEF WriterInv, Own, OwnsLock, LeaseFree

\* Two writers are one.
LEMMA OneWriter ==
  ASSUME TokensInv, WriterInv, NEW r \in Runners, NEW s \in Runners, Writer(r), Writer(s)
  PROVE  r = s
BY DEF Writer, Current, TokensInv, TokensIssued, TokensUnique, WriterInv, Own, OwnsLock

\* Who writes the ledger is its writer.
LEMMA WritersWrite ==
  ASSUME NEW r \in Runners, CommonStep(r) \/ JsonStep(r) \/ PostgresStep(r)
  PROVE  Writer(r) \/ UNCHANGED ledger
<1>1. ASSUME LoadAll(r) \/ WriteLedger(r) \/ \E i \in Items : Restore(r, i) \/ LoadItem(r, i) \/ SaveItem(r, i)
      PROVE  Writer(r)
  BY <1>1 DEF LoadAll, WriteLedger, Restore, LoadItem, SaveItem, Writer, Current
<1>2. ASSUME ~(LoadAll(r) \/ WriteLedger(r) \/ \E i \in Items : Restore(r, i) \/ LoadItem(r, i) \/ SaveItem(r, i))
      PROVE  UNCHANGED ledger
  BY <1>2 DEF CommonStep, JsonStep, PostgresStep, Acquire, AcquireToken, TokenFails, SessionLost,
         OperatorUnlocks, Release, Crash, ListTasks, EndLoad, BeginLoop,
         Interrupt, StaleWrite, DiscoverFails, NothingPending, Report, Pick, AttemptFails, Regression,
         AttemptSucceeds, SaveControl
<1> QED BY <1>1, <1>2

\* So the others' part of the invariant is kept, whatever r does.
LEMMA OthersKept ==
  ASSUME TypeInv, TokensInv, WriterInv, NEW r \in Runners, NEW s \in Runners, s # r,
         CommonStep(r) \/ JsonStep(r) \/ PostgresStep(r)
  PROVE  Own(s)'
<1>1. /\ pc'[s] = pc[s] /\ token'[s] = token[s] /\ final'[s] = final[s] /\ todo'[s] = todo[s]
      /\ istate'[s] = istate[s] /\ iattempts'[s] = iattempts[s] /\ kstate'[s] = kstate[s]
  BY OneRunnerMoves DEF Alone
<1>2. OwnsLock(s)'
  BY <1>1, JsonAlone DEF OwnsLock
<1>3. OwnCopies(s)' /\ OwnFinal(s)'
  BY <1>1 DEF OwnCopies, OwnFinal, WriterInv, Own
<1>4. InStep(s)'
  <2>1. CASE Backend = "json"
    BY <1>1, <2>1, JsonAlone DEF InStep, Writer
  <2>2. CASE Backend = "postgres"
    <3>1. Writer(s)' => Writer(s)
      <4>1. gen' = gen \/ AcquireToken(r)
        BY TokenMoves
      <4>2. AcquireToken(r) => token[s] < gen'
        BY DEF AcquireToken, TokensInv, TokensIssued, TypeInv, LedgerTypes
      <4> QED BY <1>1, <2>2, <4>1, <4>2 DEF Writer, Current, TypeInv, LedgerTypes
    <3>2. CASE Writer(r)
      BY <3>1, <3>2, OneWriter DEF InStep
    <3>3. CASE UNCHANGED ledger
      BY <1>1, <3>1, <3>3 DEF InStep, InSync, Ahead, Resumable, WriterInv, Own, ledger
    <3> QED BY <3>2, <3>3, WritersWrite
  <2> QED BY <2>1, <2>2
<1> QED BY <1>2, <1>3, <1>4 DEF Own

\* What r's own steps do to its part, and to the records nobody has written.
OwnKept(r) == Own(r)' /\ BlankRecords'

\* The lease: a run begins and ends with an empty copy.
LEMMA LeaseKeeps ==
  ASSUME TypeInv, TokensInv, WriterInv, ~ReusePipeline, NEW r \in Runners,
         \/ Acquire(r) \/ AcquireToken(r) \/ TokenFails(r) \/ SessionLost(r) \/ OperatorUnlocks(r)
         \/ Release(r) \/ Crash(r) \/ Interrupt(r) \/ StaleWrite(r)
  PROVE  OwnKept(r)
<1> USE DEF OwnKept, Goto
<1>t. /\ pc \in [Runners -> PCs] /\ final \in [Runners -> Finals] /\ todo \in [Runners -> SUBSET Items]
      /\ token \in [Runners -> 0..MaxGen] /\ gen \in 0..MaxGen
      /\ istate \in [Runners -> [Items -> WorkStates]]
      /\ iattempts \in [Runners -> [Items -> 0..MaxAttempts]]
      /\ kstate \in [Runners -> [Items -> WorkStates]]
  BY DEF TypeInv, LedgerTypes, LoopTypes, CopyTypes
<1>o. OwnsLock(r) /\ OwnCopies(r) /\ OwnFinal(r) /\ InStep(r) /\ BlankRecords
  BY DEF WriterInv, Own
<1>1. UNCHANGED ledger /\ BlankRecords'
  BY <1>o DEF BlankRecords, ledger, Acquire, AcquireToken, TokenFails, SessionLost, OperatorUnlocks, Release,
         Crash, Interrupt, StaleWrite
<1>2. CASE Acquire(r) \/ AcquireToken(r) \/ TokenFails(r)
  <2>1. /\ pc'[r] \in {"idle", "locked", "load"} /\ pc[r] \in {"idle", "locked"}
        /\ Backend = "json" /\ pc'[r] # "idle" => lockOwner' = r
        /\ UNCHANGED <<istate, kstate, final>>
    BY <1>2, <1>t, <1>o DEF Acquire, AcquireToken, TokenFails, OwnsLock, local, kept
  <2> QED BY <1>1, <1>o, <2>1 DEF Own, OwnsLock, OwnCopies, OwnFinal, InStep, Active, Saving
<1>3. CASE SessionLost(r) \/ OperatorUnlocks(r)
  <2>1. UNCHANGED <<pc, istate, iattempts, kstate, final, todo, token, gen>>
    BY <1>3 DEF SessionLost, OperatorUnlocks, local, kept
  <2>2. OwnsLock(r)'
    BY <1>3 DEF SessionLost, OperatorUnlocks, OwnsLock
  <2> QED BY <1>1, <1>o, <2>1, <2>2
          DEF Own, OwnCopies, OwnFinal, InStep, InSync, Ahead, Writer, Current, Resumable, ledger
<1>4. CASE Release(r) \/ Crash(r)
  <2>1. EndRun(r) /\ Forget(r)
    BY <1>4 DEF Release, Crash
  <2>2. /\ pc'[r] = "idle" /\ final'[r] = "RUNNING"
        /\ \A i \in Items : istate'[r][i] = "NONE" /\ kstate'[r][i] = "NONE"
    BY <2>1, <1>t DEF EndRun, Forget
  <2> QED BY <1>1, <2>2 DEF Own, OwnsLock, OwnCopies, OwnFinal, InStep, Writer
<1>5. CASE Interrupt(r) \/ StaleWrite(r)
  <2>1. /\ pc'[r] = "release" /\ final'[r] = "RUNNING" /\ pc[r] # "idle"
        /\ UNCHANGED <<istate, kstate, lockOwner>>
    BY <1>5, <1>t DEF Interrupt, StaleWrite, RunRaises, kept
  <2> QED BY <1>1, <1>o, <2>1 DEF Own, OwnsLock, OwnCopies, OwnFinal, InStep, Active, Saving
<1> QED BY <1>2, <1>3, <1>4, <1>5

\* Loading and registering: a record enters the copy as the ledger then has it.
LEMMA LoadKeeps ==
  ASSUME TypeInv, TokensInv, WriterInv, ~ReusePipeline, NEW r \in Runners,
         \/ LoadAll(r) \/ ListTasks(r) \/ EndLoad(r) \/ BeginLoop(r)
         \/ \E i \in Items : LoadItem(r, i) \/ Restore(r, i)
  PROVE  OwnKept(r)
<1> USE DEF OwnKept, Goto
<1>t. /\ pc \in [Runners -> PCs] /\ final \in [Runners -> Finals] /\ todo \in [Runners -> SUBSET Items]
      /\ token \in [Runners -> 0..MaxGen] /\ gen \in 0..MaxGen
      /\ istate \in [Runners -> [Items -> WorkStates]]
      /\ iattempts \in [Runners -> [Items -> 0..MaxAttempts]]
      /\ kstate \in [Runners -> [Items -> WorkStates]]
      /\ lstate \in [Items -> WorkStates] /\ lattempts \in [Items -> 0..MaxAttempts]
  BY DEF TypeInv, LedgerTypes, LoopTypes, CopyTypes
<1>o. OwnsLock(r) /\ OwnCopies(r) /\ OwnFinal(r) /\ InStep(r) /\ BlankRecords
  BY DEF WriterInv, Own
<1>1. CASE LoadAll(r)
  <2>1. /\ pc[r] = "load" /\ pc'[r] = "seed" /\ Backend = "json"
        /\ \A i \in Items : /\ lstate'[i] = IF Resumable(i) THEN "PENDING" ELSE lstate[i]
                            /\ lattempts'[i] = IF Resumable(i) THEN RestoredAttempts(i) ELSE lattempts[i]
                            /\ istate'[r][i] = IF Resumable(i) THEN "PENDING" ELSE "NONE"
                            /\ Resumable(i) => iattempts'[r][i] = RestoredAttempts(i)
        /\ UNCHANGED <<kstate, lockOwner, final, todo>>
    BY <1>1, <1>t DEF LoadAll, kept
  <2>2. OwnsLock(r)' /\ OwnCopies(r)' /\ OwnFinal(r)'
    BY <1>o, <2>1 DEF OwnsLock, OwnCopies, OwnFinal
  <2>3. InStep(r)'
    BY <2>1 DEF InStep, InSync, Active, Saving
  <2>4. BlankRecords'
    BY <1>o, <2>1 DEF BlankRecords, Resumable
  <2> QED BY <2>2, <2>3, <2>4 DEF Own
<1>2. CASE ListTasks(r) \/ EndLoad(r) \/ BeginLoop(r)
  <2>1. /\ UNCHANGED <<lstate, lattempts, istate, iattempts, kstate, lockOwner, final, token, gen>>
        /\ \/ pc[r] = "load" /\ pc'[r] = "loading" /\ todo'[r] = {i \in Items : Resumable(i)}
           \/ pc[r] = "loading" /\ pc'[r] = "seed"
           \/ pc[r] = "seed" /\ pc'[r] = "discover"
    BY <1>2, <1>t DEF ListTasks, EndLoad, BeginLoop, local, kept, ledger
  <2>2. OwnsLock(r)' /\ OwnCopies(r)' /\ OwnFinal(r)' /\ BlankRecords'
    BY <1>o, <2>1 DEF OwnsLock, OwnCopies, OwnFinal, BlankRecords
  <2>3. InStep(r)'
    BY <1>o, <2>1 DEF InStep, InSync, Ahead, Active, Saving, Writer, Current, Resumable, OwnCopies
  <2> QED BY <2>2, <2>3 DEF Own
<1>3. ASSUME NEW i \in Items, LoadItem(r, i) \/ Restore(r, i) PROVE OwnKept(r)
  <2>1. /\ pc[r] \in {"loading", "seed", "discover"} /\ pc'[r] = pc[r] /\ Writer(r)
        /\ lstate'[i] = "PENDING" /\ lattempts'[i] = RestoredAttempts(i)
        /\ iattempts'[r][i] = RestoredAttempts(i)
        /\ istate'[r][i] = IF istate[r][i] = "NONE" THEN "PENDING" ELSE istate[r][i]
        /\ \A j \in Items : j # i => /\ lstate'[j] = lstate[j] /\ lattempts'[j] = lattempts[j]
                                     /\ istate'[r][j] = istate[r][j] /\ iattempts'[r][j] = iattempts[r][j]
        /\ todo'[r] \subseteq todo[r] /\ (pc[r] = "loading" => todo'[r] = todo[r] \ {i} /\ i \in todo[r])
        /\ UNCHANGED <<kstate, lockOwner, final, token, gen>>
    BY <1>3, <1>t DEF LoadItem, Restore, Adopt, Writer, kept
  <2>2. lstate[i] = "NONE" \/ Resumable(i)
    BY <1>3, <1>o, <2>1 DEF LoadItem, Restore, InStep
  <2>3. OwnsLock(r)' /\ OwnFinal(r)'
    BY <1>o, <2>1 DEF OwnsLock, OwnFinal
  <2>4. OwnCopies(r)'
    BY <1>o, <2>1 DEF OwnCopies
  <2>5. InStep(r)'
    <3>1. ASSUME istate[r][i] # "NONE" PROVE InSync(r, i)
      BY <1>o, <2>1, <3>1 DEF InStep, Ahead, Active
    <3>2. InSync(r, i)'
      BY <2>1, <2>2, <3>1 DEF InSync, Resumable, RestoredAttempts
    <3>3. ASSUME NEW j \in Items, j # i, istate'[r][j] # "NONE" PROVE InSync(r, j)'
      BY <1>o, <2>1, <3>3 DEF InStep, InSync, Ahead, Active
    <3>4. ASSUME NEW j \in Items, pc'[r] = "loading", j \in todo'[r]
          PROVE  Resumable(j)' /\ istate'[r][j] = "NONE"
      BY <1>o, <2>1, <3>4 DEF InStep, Resumable
    <3> QED BY <2>1, <3>2, <3>3, <3>4 DEF InStep, Saving
  <2>6. BlankRecords'
    BY <1>o, <2>1 DEF BlankRecords
  <2> QED BY <2>3, <2>4, <2>5, <2>6 DEF Own
<1> QED BY <1>1, <1>2, <1>3

\* The loop: one attempt at a time runs ahead of the ledger.
LEMMA LoopKeeps ==
  ASSUME TypeInv, TokensInv, WriterInv, ~ReusePipeline, NEW r \in Runners,
         \/ DiscoverFails(r) \/ NothingPending(r) \/ Report(r)
         \/ \E i \in Items : Pick(r, i) \/ AttemptFails(r, i) \/ Regression(r, i) \/ AttemptSucceeds(r, i)
  PROVE  OwnKept(r)
<1> USE DEF OwnKept, Goto
<1>t. /\ pc \in [Runners -> PCs] /\ final \in [Runners -> Finals] /\ todo \in [Runners -> SUBSET Items]
      /\ token \in [Runners -> 0..MaxGen] /\ gen \in 0..MaxGen
      /\ istate \in [Runners -> [Items -> WorkStates]]
      /\ iattempts \in [Runners -> [Items -> 0..MaxAttempts]]
      /\ kstate \in [Runners -> [Items -> WorkStates]]
      /\ lstate \in [Items -> WorkStates] /\ lattempts \in [Items -> 0..MaxAttempts]
  BY DEF TypeInv, LedgerTypes, LoopTypes, CopyTypes
<1>o. OwnsLock(r) /\ OwnCopies(r) /\ OwnFinal(r) /\ InStep(r) /\ BlankRecords
  BY DEF WriterInv, Own
<1>k. \A i \in Items : i \in Known(r) <=> istate[r][i] # "NONE"
  BY <1>o DEF Known, OwnCopies
<1>b. UNCHANGED ledger /\ BlankRecords'
  BY <1>o DEF BlankRecords, ledger, DiscoverFails, NothingPending, Report, Pick, AttemptFails, Regression,
         AttemptSucceeds
<1>1. CASE DiscoverFails(r) \/ NothingPending(r)
  <2>1. /\ pc[r] = "discover" /\ pc'[r] = "closing" /\ todo'[r] = Known(r)
        /\ UNCHANGED <<istate, iattempts, kstate, lockOwner, token, gen>>
    BY <1>1, <1>t DEF DiscoverFails, NothingPending, BeginCheckpoint, kept
  <2>2. InStep(r)'
    BY <1>o, <1>k, <1>b, <2>1
       DEF InStep, InSync, Ahead, Active, Saving, Writer, Current, ledger
  <2> QED BY <1>o, <1>b, <2>1, <2>2 DEF Own, OwnsLock, OwnCopies, OwnFinal
<1>2. CASE Report(r)
  <2>1. /\ pc[r] = "report" /\ pc'[r] = "release"
        /\ UNCHANGED <<istate, iattempts, kstate, lockOwner, token, gen>>
    BY <1>2, <1>t DEF Report, kept
  <2> QED BY <1>o, <1>b, <2>1 DEF Own, OwnsLock, OwnCopies, OwnFinal, InStep, Active, Saving
<1>3. ASSUME NEW i \in Items, Pick(r, i) PROVE OwnKept(r)
  <2>1. /\ pc[r] = "discover" /\ pc'[r] = "execute" /\ istate[r][i] = "PENDING"
        /\ istate'[r][i] = "RUNNING" /\ iattempts'[r][i] = iattempts[r][i] + 1
        /\ \A j \in Items : j # i => istate'[r][j] = istate[r][j] /\ iattempts'[r][j] = iattempts[r][j]
        /\ UNCHANGED <<kstate, lockOwner, final, token, gen>>
    BY <1>3, <1>t DEF Pick, Pending, kept
  <2>2. OwnsLock(r)' /\ OwnFinal(r)'
    BY <1>o, <2>1 DEF OwnsLock, OwnFinal
  <2>3. OwnCopies(r)'
    BY <1>o, <2>1 DEF OwnCopies
  <2>4. InStep(r)'
    <3> SUFFICES ASSUME Writer(r)' PROVE \A j \in Items : istate'[r][j] # "NONE" => InSync(r, j)' \/ Ahead(r, j)'
      BY <2>1 DEF InStep, Saving
    <3>1. Writer(r)
      BY <2>1 DEF Writer, Current
    <3>2. InSync(r, i)
      BY <1>o, <2>1, <3>1 DEF InStep, Ahead, Active
    <3>3. Ahead(r, i)'
      BY <1>b, <2>1, <3>2 DEF InSync, Ahead, ledger
    <3>4. ASSUME NEW j \in Items, j # i, istate'[r][j] # "NONE" PROVE InSync(r, j)'
      BY <1>o, <1>b, <2>1, <3>1, <3>4 DEF InStep, InSync, Ahead, Active, ledger
    <3> QED BY <3>3, <3>4
  <2> QED BY <1>b, <2>2, <2>3, <2>4 DEF Own
<1>4. ASSUME NEW i \in Items, AttemptFails(r, i) \/ Regression(r, i) \/ AttemptSucceeds(r, i)
      PROVE  OwnKept(r)
  <2>1. /\ pc[r] = "execute" /\ pc'[r] = "checkpoint" /\ istate[r][i] = "RUNNING"
        /\ istate'[r][i] \in {"PENDING", "BLOCKED", "SUCCEEDED"}
        /\ \A j \in Items : j # i => istate'[r][j] = istate[r][j]
        /\ todo'[r] = Known(r) /\ final'[r] \in {final[r], "HALTED"}
        /\ UNCHANGED <<iattempts, kstate, lockOwner, token, gen>>
    BY <1>4, <1>t DEF AttemptFails, Regression, AttemptSucceeds, BeginCheckpoint, kept
  <2>2. OwnsLock(r)' /\ OwnFinal(r)'
    BY <1>o, <2>1 DEF OwnsLock, OwnFinal
  <2>3. OwnCopies(r)'
    BY <1>o, <2>1 DEF OwnCopies
  <2>4. InStep(r)'
    <3> SUFFICES ASSUME Writer(r)'
                 PROVE  \A j \in Items : /\ istate'[r][j] # "NONE" => InSync(r, j)' \/ Ahead(r, j)'
                                         /\ j \in todo'[r] => istate'[r][j] # "NONE"
      BY <2>1 DEF InStep
    <3>1. Writer(r)
      BY <2>1 DEF Writer, Current
    <3>2. Ahead(r, i) /\ i \in Known(r)
      BY <1>o, <1>k, <2>1, <3>1 DEF InStep, InSync, Active
    <3>3. Ahead(r, i)'
      BY <1>b, <2>1, <3>2 DEF Ahead, ledger
    <3>4. ASSUME NEW j \in Items, j # i, istate'[r][j] # "NONE" PROVE InSync(r, j)'
      BY <1>o, <1>b, <2>1, <3>1, <3>4 DEF InStep, InSync, Ahead, Active, OwnCopies, ledger
    <3>5. ASSUME NEW j \in Items, j \in todo'[r] PROVE istate'[r][j] # "NONE"
      BY <1>k, <2>1, <3>5
    <3> QED BY <3>3, <3>4, <3>5
  <2> QED BY <1>b, <2>2, <2>3, <2>4 DEF Own
<1> QED BY <1>1, <1>2, <1>3, <1>4

\* The checkpoints: what is saved is in step, and nothing is left out.
LEMMA SaveKeeps ==
  ASSUME TypeInv, TokensInv, WriterInv, ~ReusePipeline, NEW r \in Runners,
         WriteLedger(r) \/ SaveControl(r) \/ (\E i \in Items : SaveItem(r, i))
  PROVE  OwnKept(r)
<1> USE DEF OwnKept, Goto
<1>t. /\ pc \in [Runners -> PCs] /\ final \in [Runners -> Finals] /\ todo \in [Runners -> SUBSET Items]
      /\ token \in [Runners -> 0..MaxGen] /\ gen \in 0..MaxGen
      /\ istate \in [Runners -> [Items -> WorkStates]]
      /\ iattempts \in [Runners -> [Items -> 0..MaxAttempts]]
      /\ kstate \in [Runners -> [Items -> WorkStates]]
      /\ lstate \in [Items -> WorkStates] /\ lattempts \in [Items -> 0..MaxAttempts]
  BY DEF TypeInv, LedgerTypes, LoopTypes, CopyTypes
<1>o. OwnsLock(r) /\ OwnCopies(r) /\ OwnFinal(r) /\ InStep(r) /\ BlankRecords
  BY DEF WriterInv, Own
<1>k. \A i \in Items : i \in Known(r) <=> istate[r][i] # "NONE"
  BY <1>o DEF Known, OwnCopies
<1>s. \A i \in Items : istate[r][i] # "NONE" =>
        ItemState(r, i) = istate[r][i] /\ ItemAttempts(r, i) = iattempts[r][i]
  BY DEF ItemState, ItemAttempts
<1>e. ASSUME EndCheckpoint(r)
      PROVE  /\ pc[r] \in Saving
             /\ pc'[r] \in {"discover", "closing", "report"} /\ (pc'[r] = "closing" => todo'[r] = Known(r))
             /\ pc'[r] = "discover" => final'[r] = final[r] /\ final[r] = "RUNNING"
  BY <1>e, <1>t DEF EndCheckpoint, BeginCheckpoint, Saving
<1>1. CASE WriteLedger(r)
  <2>1. /\ pc[r] \in Saving /\ EndCheckpoint(r) /\ Backend = "json" /\ Writer(r)
        /\ \A i \in Items : istate[r][i] # "NONE" => lstate'[i] = istate[r][i] /\ lattempts'[i] = iattempts[r][i]
        /\ \A i \in Items : istate[r][i] = "NONE" => lstate'[i] = lstate[i] /\ lattempts'[i] = lattempts[i]
        /\ UNCHANGED <<istate, iattempts, kstate, lockOwner, token, gen>>
    BY <1>1, <1>t, <1>k, <1>s DEF WriteLedger, Saving, Writer, Current, kept
  <2>2. OwnsLock(r)' /\ OwnFinal(r)' /\ OwnCopies(r)'
    BY <1>o, <1>e, <2>1 DEF OwnsLock, OwnFinal, OwnCopies, Saving
  <2>3. InStep(r)'
    <3>1. \A i \in Items : istate[r][i] # "RUNNING"
      BY <1>o, <2>1 DEF OwnCopies, Saving
    <3> QED BY <1>k, <1>e, <2>1, <3>1 DEF InStep, InSync, Saving
  <2>4. BlankRecords'
    BY <1>o, <2>1 DEF BlankRecords
  <2> QED BY <2>2, <2>3, <2>4 DEF Own
<1>2. ASSUME NEW i \in Items, SaveItem(r, i) PROVE OwnKept(r)
  <2>1. /\ pc[r] \in Saving /\ pc'[r] = pc[r] /\ Writer(r) /\ i \in todo[r] /\ todo'[r] = todo[r] \ {i}
        /\ lstate'[i] = ItemState(r, i) /\ lattempts'[i] = ItemAttempts(r, i)
        /\ \A j \in Items : j # i => lstate'[j] = lstate[j] /\ lattempts'[j] = lattempts[j]
        /\ UNCHANGED <<istate, iattempts, kstate, final, lockOwner, token, gen>>
    BY <1>2, <1>t DEF SaveItem, Saving, Writer, Current, kept, local
  <2>2. OwnsLock(r)' /\ OwnFinal(r)' /\ OwnCopies(r)'
    BY <1>o, <2>1 DEF OwnsLock, OwnFinal, OwnCopies
  <2>3. istate[r][i] # "NONE" /\ istate[r][i] # "RUNNING"
    BY <1>o, <2>1 DEF InStep, OwnCopies, Saving
  <2>4. InStep(r)'
    <3>1. InSync(r, i)'
      BY <1>s, <2>1, <2>3 DEF InSync
    <3>2. ASSUME NEW j \in Items, j # i, istate[r][j] # "NONE" PROVE InSync(r, j)' \/ Ahead(r, j)'
      BY <1>o, <2>1, <3>2 DEF InStep, InSync, Ahead, Active
    <3> QED BY <1>o, <2>1, <3>1, <3>2 DEF InStep, Saving
  <2>5. BlankRecords'
    BY <1>o, <1>s, <2>1, <2>3 DEF BlankRecords
  <2> QED BY <2>2, <2>4, <2>5 DEF Own
<1>3. CASE SaveControl(r)
  <2>1. /\ pc[r] \in Saving /\ EndCheckpoint(r) /\ Writer(r) /\ todo[r] = {} /\ gen' = gen
        /\ UNCHANGED <<istate, iattempts, kstate, lockOwner, token, lstate, lattempts>>
    BY <1>3, <1>t DEF SaveControl, Saving, Writer, Current, kept, ledger
  <2>2. OwnsLock(r)' /\ OwnFinal(r)' /\ OwnCopies(r)'
    BY <1>o, <1>e, <2>1 DEF OwnsLock, OwnFinal, OwnCopies, Saving
  <2>3. InStep(r)'
    BY <1>o, <1>k, <1>e, <2>1 DEF InStep, InSync, Ahead, Active, Saving
  <2>4. BlankRecords'
    BY <1>o, <2>1 DEF BlankRecords
  <2> QED BY <2>2, <2>3, <2>4 DEF Own
<1> QED BY <1>1, <1>2, <1>3

\* With a process per run, what a writer knows of an item is what the ledger
\* records or one attempt ahead of it, in every reachable state.
THEOREM WriterInvariant == ~ReusePipeline => (Spec => []WriterInv)
<1> SUFFICES ASSUME ~ReusePipeline PROVE Spec => []WriterInv
  OBVIOUS
<1>1. Init => WriterInv
  BY DEF Init, WriterInv, BlankRecords, Own, OwnsLock, OwnCopies, OwnFinal, InStep, Writer
<1>2. TypeInv /\ TokensInv /\ WriterInv /\ [Next]_vars => WriterInv'
  <2> SUFFICES ASSUME TypeInv, TokensInv, WriterInv, [Next]_vars PROVE WriterInv'
    OBVIOUS
  <2>1. CASE UNCHANGED vars
    BY <2>1 DEF vars, ledger, local, kept, WriterInv, BlankRecords, Own, OwnsLock, OwnCopies, OwnFinal, InStep,
           Writer, Current, InSync, Ahead, Resumable
  <2>2. ASSUME NEW r \in Runners, CommonStep(r) \/ JsonStep(r) \/ PostgresStep(r) PROVE WriterInv'
    <3>1. OwnKept(r)
      BY <2>2, LeaseKeeps, LoadKeeps, LoopKeeps, SaveKeeps DEF CommonStep, JsonStep, PostgresStep
    <3>2. \A s \in Runners : s # r => Own(s)'
      BY <2>2, OthersKept
    <3> QED BY <3>1, <3>2 DEF WriterInv, OwnKept
  <2> QED BY <2>1, <2>2 DEF Next
<1> QED BY <1>1, <1>2, UpgradeTypeInv, FenceTokens, PTL DEF Spec

\* The runner whose writes would be accepted works on the ledger as it is,
\* between two attempts, so reading a row and saving it in two transactions is
\* safe.  (load_resumable, restore_or_register, record_checkpoint)
THEOREM WriterIsUpToDate == ~ReusePipeline => (Spec => []WriterUpToDate)
<1>1. WriterInv => WriterUpToDate
  <2> SUFFICES ASSUME WriterInv, NEW r \in Runners, NEW i \in Items,
                      pc[r] \in {"seed", "discover"}, Current(r), istate[r][i] # "NONE"
               PROVE  /\ lattempts[i] = iattempts[r][i]
                      /\ istate[r][i] = lstate[i] \/ (RetryBlocked /\ istate[r][i] = "BLOCKED")
    BY DEF WriterUpToDate
  <2>1. InSync(r, i)
    BY DEF WriterInv, Own, InStep, Writer, Active, Ahead
  <2> QED BY <2>1 DEF InSync
<1> QED BY <1>1, WriterInvariant, PTL

-----------------------------------------------------------------------------
\* One record's part of LedgerForward.
Forward(i) ==
  /\ lstate[i] # "NONE" => lstate'[i] # "NONE"
  /\ lstate[i] = "SUCCEEDED" => lstate'[i] = "SUCCEEDED"
  /\ lstate[i] = "BLOCKED" /\ lstate'[i] # "BLOCKED" => RetryBlocked
  /\ lattempts'[i] < lattempts[i] => RetryBlocked /\ lstate[i] = "BLOCKED"

\* A record that is registered, or given back to be worked on again.
LEMMA RestoredForward ==
  ASSUME TypeInv, WriterInv, NEW i \in Items, lstate[i] = "NONE" \/ Resumable(i),
         lstate'[i] = "PENDING", lattempts'[i] = RestoredAttempts(i)
  PROVE  Forward(i)
<1>1. lattempts[i] \in Nat
  BY DEF TypeInv, LedgerTypes
<1> QED BY <1>1 DEF Forward, Resumable, RestoredAttempts, WriterInv, BlankRecords

\* A record that its writer saves as it knows it.
LEMMA SavedForward ==
  ASSUME TypeInv, WriterInv, NEW r \in Runners, NEW i \in Items, istate[r][i] # "NONE",
         Writer(r), pc[r] \in Saving,
         lstate'[i] = istate[r][i], lattempts'[i] = iattempts[r][i]
  PROVE  Forward(i)
<1>1. lattempts[i] \in Nat /\ iattempts[r][i] \in Nat
  BY DEF TypeInv, LedgerTypes, CopyTypes
<1>2. InSync(r, i) \/ Ahead(r, i)
  BY DEF WriterInv, Own, InStep, Active
<1> QED BY <1>1, <1>2 DEF Forward, InSync, Ahead

\* A record nobody writes.
LEMMA UnchangedForward ==
  ASSUME TypeInv, NEW i \in Items, lstate'[i] = lstate[i], lattempts'[i] = lattempts[i]
  PROVE  Forward(i)
BY DEF Forward, TypeInv, LedgerTypes

\* Whoever writes the ledger and whatever was lost, a SUCCEEDED record stays
\* so, a BLOCKED one leaves that state only on request, and attempts are given
\* back to a blocked record only.  (load_resumable, restore_or_register,
\* record_checkpoint)
THEOREM LedgerOnlyForward == ~ReusePipeline => (Spec => LedgerForward)
<1> SUFFICES ASSUME ~ReusePipeline PROVE Spec => LedgerForward
  OBVIOUS
<1>1. TypeInv /\ WriterInv /\ [Next]_vars => [\A i \in Items : Forward(i)]_vars
  <2> SUFFICES ASSUME TypeInv, WriterInv, NEW r \in Runners, NEW i \in Items,
                      CommonStep(r) \/ JsonStep(r) \/ PostgresStep(r)
               PROVE  Forward(i)
    BY DEF Next
  <2>t. /\ lstate \in [Items -> WorkStates] /\ lattempts \in [Items -> 0..MaxAttempts]
        /\ \A j \in Items : kstate[r][j] = "NONE"
    BY DEF TypeInv, LedgerTypes, WriterInv, Own, OwnCopies
  <2>1. CASE LoadAll(r)
    <3>1. CASE Resumable(i)
      BY <2>1, <3>1, RestoredForward DEF LoadAll
    <3>2. CASE ~Resumable(i)
      BY <2>1, <3>2, UnchangedForward DEF LoadAll
    <3> QED BY <3>1, <3>2
  <2>2. ASSUME NEW j \in Items, LoadItem(r, j) \/ Restore(r, j) PROVE Forward(i)
    <3>1. lstate' = [lstate EXCEPT ![j] = "PENDING"] /\ lattempts' = [lattempts EXCEPT ![j] = RestoredAttempts(j)]
      BY <2>2 DEF LoadItem, Restore
    <3>2. lstate[j] = "NONE" \/ Resumable(j)
      BY <2>2 DEF LoadItem, Restore, WriterInv, Own, InStep, Writer
    <3>3. CASE i = j
      BY <2>t, <3>1, <3>2, <3>3, RestoredForward
    <3>4. CASE i # j
      BY <2>t, <3>1, <3>4, UnchangedForward
    <3> QED BY <3>3, <3>4
  <2>3. CASE WriteLedger(r)
    <3>1. Writer(r) /\ pc[r] \in Saving
      BY <2>3 DEF WriteLedger, Writer, Current, Saving
    <3>2. CASE istate[r][i] # "NONE"
      BY <2>3, <3>1, <3>2, SavedForward DEF WriteLedger, Known, ItemState, ItemAttempts
    <3>3. CASE istate[r][i] = "NONE"
      BY <2>t, <2>3, <3>3, UnchangedForward DEF WriteLedger, Known
    <3> QED BY <3>2, <3>3
  <2>4. ASSUME NEW j \in Items, SaveItem(r, j) PROVE Forward(i)
    <3>1. /\ lstate' = [lstate EXCEPT ![j] = ItemState(r, j)]
          /\ lattempts' = [lattempts EXCEPT ![j] = ItemAttempts(r, j)]
          /\ Writer(r) /\ pc[r] \in Saving /\ j \in todo[r]
      BY <2>4 DEF SaveItem, Writer, Saving
    <3>2. istate[r][j] # "NONE"
      BY <3>1 DEF WriterInv, Own, InStep
    <3>3. CASE i = j
      BY <2>t, <3>1, <3>2, <3>3, SavedForward DEF ItemState, ItemAttempts
    <3>4. CASE i # j
      BY <2>t, <3>1, <3>4, UnchangedForward
    <3> QED BY <3>3, <3>4
  <2>5. CASE UNCHANGED ledger
    BY <2>5, UnchangedForward DEF ledger
  <2> QED BY <2>1, <2>2, <2>3, <2>4, <2>5
          DEF CommonStep, JsonStep, PostgresStep, Acquire, AcquireToken, TokenFails, SessionLost,
              OperatorUnlocks, Release, Crash, ListTasks, EndLoad, BeginLoop, Interrupt, StaleWrite,
              DiscoverFails, NothingPending, Report, Pick, AttemptFails, Regression, AttemptSucceeds, SaveControl
<1> QED BY <1>1, UpgradeTypeInv, WriterInvariant, PTL DEF Spec, LedgerForward, Forward

-----------------------------------------------------------------------------
(***************************************************************************)
(* One process that keeps its pipeline object: what _items_by_id has of    *)
(* earlier runs is out of date only if somebody else writes the ledger.    *)
(***************************************************************************)
Single == \A r, s \in Runners : r = s

\* Which places of a run come before its loop, and which are in it.
LoopBegun(r) ==
  /\ pc[r] \in {"idle", "locked", "load", "loading", "seed"} => iter[r] = 0
  /\ pc[r] \in {"discover", "execute", "checkpoint", "closing", "report"} => iter[r] # 0

\* What a load or a checkpoint has yet to save can be saved.
Saveable(r) ==
  /\ pc[r] = "loading" => \A i \in todo[r] : Resumable(i)
  /\ pc[r] \in Saving => todo[r] \subseteq Known(r)

\* Nothing succeeds before the loop, and what the ledger has as SUCCEEDED the
\* process knows as nothing else.
Remembers(r, i) ==
  /\ istate[r][i] = "SUCCEEDED" => iter[r] # 0
  /\ lstate[i] = "SUCCEEDED" =>
       /\ istate[r][i] \in {"NONE", "SUCCEEDED"}
       /\ istate[r][i] = "NONE" => kstate[r][i] \in {"NONE", "SUCCEEDED"}

SoleInv == \A r \in Runners : LoopBegun(r) /\ Saveable(r) /\ \A i \in Items : Remembers(r, i)

\* The lease, and the end of a run.
LEMMA SoleLease ==
  ASSUME Single, TypeInv, SoleInv, NEW r \in Runners,
         \/ Acquire(r) \/ AcquireToken(r) \/ TokenFails(r) \/ SessionLost(r) \/ OperatorUnlocks(r)
         \/ Release(r) \/ Crash(r) \/ Interrupt(r) \/ StaleWrite(r) \/ Report(r)
  PROVE  SoleInv' /\ UNCHANGED ledger
<1> USE DEF Goto, ledger, local, kept
<1>0. UNCHANGED ledger
  BY DEF Acquire, AcquireToken, TokenFails, SessionLost, OperatorUnlocks, Release, Crash, Interrupt, StaleWrite, Report
<1>t. /\ pc \in [Runners -> PCs] /\ iter \in [Runners -> 0..MaxIterations] /\ todo \in [Runners -> SUBSET Items]
      /\ istate \in [Runners -> [Items -> WorkStates]] /\ kstate \in [Runners -> [Items -> WorkStates]]
  BY DEF TypeInv, LoopTypes, CopyTypes
<1>h. LoopBegun(r) /\ Saveable(r) /\ \A i \in Items : Remembers(r, i)
  BY DEF SoleInv
<1>s. SUFFICES LoopBegun(r)' /\ Saveable(r)' /\ \A i \in Items : Remembers(r, i)'
  BY <1>0 DEF SoleInv, Single
<1>1. CASE Release(r) \/ Crash(r)
  <2>1. pc'[r] = "idle" /\ iter'[r] = 0 /\ \A i \in Items : istate'[r][i] = "NONE"
    BY <1>1, <1>t DEF Release, Crash, EndRun
  <2>2. LoopBegun(r)' /\ Saveable(r)'
    BY <2>1 DEF LoopBegun, Saveable, Saving
  <2>3. ASSUME NEW i \in Items, lstate[i] = "SUCCEEDED" PROVE kstate'[r][i] \in {"NONE", "SUCCEEDED"}
    <3>1. /\ istate[r][i] \in {"NONE", "SUCCEEDED"} /\ (istate[r][i] = "SUCCEEDED" => iter[r] # 0)
          /\ istate[r][i] = "NONE" => kstate[r][i] \in {"NONE", "SUCCEEDED"}
      BY <1>h, <2>3 DEF Remembers
    <3>2. CASE Forget(r)
      BY <1>t, <3>2 DEF Forget
    <3>3. CASE Keep(r) /\ iter[r] = 0
      BY <3>1, <3>3 DEF Keep
    <3>4. CASE Keep(r) /\ iter[r] # 0
      BY <1>t, <3>1, <3>4 DEF Keep, ItemState
    <3> QED BY <1>1, <3>2, <3>3, <3>4 DEF Release, Crash
  <2>4. ASSUME NEW i \in Items PROVE Remembers(r, i)'
    BY <1>0, <2>1, <2>3 DEF Remembers
  <2> QED BY <2>2, <2>4
<1>2. CASE ~(Release(r) \/ Crash(r))
  <2>1. UNCHANGED <<iter, istate, kstate, todo>>
    BY <1>2 DEF Acquire, AcquireToken, TokenFails, SessionLost, OperatorUnlocks, Interrupt, StaleWrite, RunRaises, Report
  <2>2. \/ pc[r] \in {"idle", "locked"} /\ pc'[r] \in {"idle", "locked", "load"}
        \/ pc'[r] = "release"
        \/ pc'[r] = pc[r]
    BY <1>2, <1>t DEF Acquire, AcquireToken, TokenFails, SessionLost, OperatorUnlocks, Interrupt, StaleWrite, RunRaises, Report
  <2>3. LoopBegun(r)' /\ Saveable(r)'
    BY <1>0, <1>h, <2>1, <2>2 DEF LoopBegun, Saveable, Saving, Known, Resumable
  <2>4. ASSUME NEW i \in Items PROVE Remembers(r, i)'
    BY <1>0, <1>h, <2>1 DEF Remembers
  <2> QED BY <2>3, <2>4
<1> QED BY <1>1, <1>2

\* Restoring: a SUCCEEDED record is given to nobody.
LEMMA SoleLoad ==
  ASSUME Single, TypeInv, SoleInv, NEW r \in Runners,
         \/ LoadAll(r) \/ ListTasks(r) \/ EndLoad(r)
         \/ \E i \in Items : LoadItem(r, i) \/ Restore(r, i)
  PROVE  SoleInv' /\ \A i \in Items : lstate[i] = "SUCCEEDED" => lstate'[i] = "SUCCEEDED"
<1> USE DEF Goto, ledger, local, kept
<1>t. /\ pc \in [Runners -> PCs] /\ iter \in [Runners -> 0..MaxIterations] /\ todo \in [Runners -> SUBSET Items]
      /\ istate \in [Runners -> [Items -> WorkStates]] /\ kstate \in [Runners -> [Items -> WorkStates]]
      /\ lstate \in [Items -> WorkStates]
  BY DEF TypeInv, LoopTypes, CopyTypes, LedgerTypes
<1>h. LoopBegun(r) /\ Saveable(r) /\ \A i \in Items : Remembers(r, i)
  BY DEF SoleInv
<1>s. SUFFICES /\ LoopBegun(r)' /\ Saveable(r)' /\ \A i \in Items : Remembers(r, i)'
               /\ \A i \in Items : lstate[i] = "SUCCEEDED" => lstate'[i] = "SUCCEEDED"
  BY DEF SoleInv, Single
<1>1. CASE LoadAll(r)
  <2>1. pc[r] = "load" /\ pc'[r] = "seed" /\ UNCHANGED <<iter, kstate, todo>>
    BY <1>1, <1>t DEF LoadAll
  <2>2. ASSUME NEW i \in Items
        PROVE  /\ lstate'[i] = IF Resumable(i) THEN "PENDING" ELSE lstate[i]
               /\ istate'[r][i] = IF Resumable(i) THEN "PENDING" ELSE "NONE"
    BY <1>1, <1>t DEF LoadAll
  <2>3. LoopBegun(r)' /\ Saveable(r)'
    BY <1>h, <2>1 DEF LoopBegun, Saveable, Saving
  <2>4. ASSUME NEW i \in Items PROVE Remembers(r, i)' /\ (lstate[i] = "SUCCEEDED" => lstate'[i] = "SUCCEEDED")
    <3>1. Remembers(r, i) /\ iter[r] = 0
      BY <1>h, <2>1 DEF LoopBegun
    <3> QED BY <2>1, <2>2, <3>1 DEF Remembers, Resumable
  <2> QED BY <2>3, <2>4
<1>2. CASE ListTasks(r) \/ EndLoad(r)
  <2>1. UNCHANGED <<lstate, iter, istate, kstate>>
    BY <1>2 DEF ListTasks, EndLoad
  <2>2. LoopBegun(r)' /\ Saveable(r)'
    BY <1>2, <1>h, <1>t DEF ListTasks, EndLoad, LoopBegun, Saveable, Saving, Resumable
  <2>3. \A i \in Items : Remembers(r, i)'
    BY <1>h, <2>1 DEF Remembers
  <2> QED BY <2>1, <2>2, <2>3
<1>3. ASSUME NEW j \in Items, LoadItem(r, j) \/ Restore(r, j)
      PROVE  /\ LoopBegun(r)' /\ Saveable(r)' /\ \A i \in Items : Remembers(r, i)'
             /\ \A i \in Items : lstate[i] = "SUCCEEDED" => lstate'[i] = "SUCCEEDED"
  <2>1. /\ lstate' = [lstate EXCEPT ![j] = "PENDING"] /\ UNCHANGED <<pc, iter, kstate>>
        /\ pc[r] \in {"loading", "seed", "discover"}
        /\ \A i \in Items : istate'[r][i] = IF i = j /\ istate[r][j] = "NONE" THEN "PENDING" ELSE istate[r][i]
    BY <1>3, <1>t DEF LoadItem, Restore, Adopt
  <2>2. lstate[j] = "NONE" \/ Resumable(j)
    BY <1>3, <1>h DEF LoadItem, Restore, Saveable
  <2>3. lstate[j] # "SUCCEEDED" /\ lstate'[j] = "PENDING" /\ \A i \in Items : i # j => lstate'[i] = lstate[i]
    BY <1>t, <2>1, <2>2 DEF Resumable
  <2>4. LoopBegun(r)'
    BY <1>h, <2>1 DEF LoopBegun
  <2>5. Saveable(r)'
    <3>1. pc[r] = "loading" => todo'[r] \subseteq todo[r]
      BY <1>3, <1>t DEF LoadItem, Restore
    <3> QED BY <1>h, <2>1, <2>3, <3>1 DEF Saveable, Saving, Resumable
  <2>6. ASSUME NEW i \in Items PROVE Remembers(r, i)'
    BY <1>h, <2>1, <2>3 DEF Remembers
  <2> QED BY <2>3, <2>4, <2>5, <2>6
<1> QED BY <1>1, <1>2, <1>3

\* The loop between two checkpoints does not touch the ledger.
LEMMA SoleLoop ==
  ASSUME Single, TypeInv, SoleInv, NEW r \in Runners,
         \/ BeginLoop(r) \/ DiscoverFails(r) \/ NothingPending(r)
         \/ \E i \in Items : Pick(r, i) \/ AttemptFails(r, i) \/ Regression(r, i) \/ AttemptSucceeds(r, i)
  PROVE  SoleInv' /\ UNCHANGED ledger
<1> USE DEF Goto, ledger, local, kept
<1>0. UNCHANGED ledger /\ UNCHANGED kstate
  BY DEF BeginLoop, DiscoverFails, NothingPending, Pick, AttemptFails, Regression, AttemptSucceeds
<1>t. /\ pc \in [Runners -> PCs] /\ iter \in [Runners -> 0..MaxIterations] /\ todo \in [Runners -> SUBSET Items]
      /\ istate \in [Runners -> [Items -> WorkStates]]
  BY DEF TypeInv, LoopTypes, CopyTypes
<1>h. LoopBegun(r) /\ Saveable(r) /\ \A i \in Items : Remembers(r, i)
  BY DEF SoleInv
<1>s. SUFFICES LoopBegun(r)' /\ Saveable(r)' /\ \A i \in Items : Remembers(r, i)'
  BY <1>0 DEF SoleInv, Single
<1>1. CASE BeginLoop(r)
  BY <1>0, <1>1, <1>h, <1>t DEF BeginLoop, LoopBegun, Saveable, Saving, Remembers
<1>2. CASE DiscoverFails(r) \/ NothingPending(r)
  <2>1. UNCHANGED <<istate, iter>> /\ pc[r] = "discover" /\ pc'[r] = "closing" /\ todo'[r] = Known(r)
    BY <1>2, <1>t DEF DiscoverFails, NothingPending, BeginCheckpoint
  <2> QED BY <1>0, <1>h, <2>1 DEF LoopBegun, Saveable, Saving, Remembers, Known
<1>3. ASSUME NEW j \in Items, Pick(r, j)
      PROVE  LoopBegun(r)' /\ Saveable(r)' /\ \A i \in Items : Remembers(r, i)'
  <2>1. /\ UNCHANGED iter /\ pc[r] = "discover" /\ pc'[r] = "execute" /\ istate[r][j] = "PENDING"
        /\ \A i \in Items : istate'[r][i] = IF i = j THEN "RUNNING" ELSE istate[r][i]
    BY <1>3, <1>t DEF Pick, Pending
  <2> QED BY <1>0, <1>h, <2>1 DEF LoopBegun, Saveable, Saving, Remembers
<1>4. ASSUME NEW j \in Items, AttemptFails(r, j) \/ Regression(r, j) \/ AttemptSucceeds(r, j)
      PROVE  LoopBegun(r)' /\ Saveable(r)' /\ \A i \in Items : Remembers(r, i)'
  <2>1. /\ UNCHANGED iter /\ pc[r] = "execute" /\ pc'[r] = "checkpoint" /\ todo'[r] = Known(r)
        /\ istate[r][j] = "RUNNING" /\ istate'[r][j] \in {"PENDING", "BLOCKED", "SUCCEEDED"}
        /\ \A i \in Items : i # j => istate'[r][i] = istate[r][i]
    BY <1>4, <1>t DEF AttemptFails, Regression, AttemptSucceeds, BeginCheckpoint
  <2>2. LoopBegun(r)'
    BY <1>h, <2>1 DEF LoopBegun
  <2>3. Known(r)' = Known(r)
    BY <1>0, <2>1 DEF Known
  <2>4. ASSUME NEW i \in Items PROVE Remembers(r, i)'
    <3>1. Remembers(r, i) /\ iter[r] # 0
      BY <1>h, <2>1 DEF LoopBegun
    <3> QED BY <1>0, <2>1, <3>1 DEF Remembers
  <2> QED BY <2>1, <2>2, <2>3, <2>4 DEF Saveable, Saving
<1> QED BY <1>1, <1>2, <1>3, <1>4

\* A checkpoint writes what the process knows: for a SUCCEEDED record, that.
LEMMA SoleSave ==
  ASSUME Single, TypeInv, SoleInv, NEW r \in Runners,
         WriteLedger(r) \/ SaveControl(r) \/ \E i \in Items : SaveItem(r, i)
  PROVE  SoleInv' /\ \A i \in Items : lstate[i] = "SUCCEEDED" => lstate'[i] = "SUCCEEDED"
<1> USE DEF Goto, ledger, local, kept
<1>t. /\ pc \in [Runners -> PCs] /\ iter \in [Runners -> 0..MaxIterations] /\ todo \in [Runners -> SUBSET Items]
      /\ istate \in [Runners -> [Items -> WorkStates]] /\ kstate \in [Runners -> [Items -> WorkStates]]
      /\ lstate \in [Items -> WorkStates]
  BY DEF TypeInv, LoopTypes, CopyTypes, LedgerTypes
<1>h. LoopBegun(r) /\ Saveable(r) /\ \A i \in Items : Remembers(r, i)
  BY DEF SoleInv
<1>0. UNCHANGED <<istate, kstate>> /\ pc[r] \in Saving
  BY DEF WriteLedger, SaveControl, SaveItem, Saving
<1>1. LoopBegun(r)' /\ Saveable(r)' /\ (iter[r] # 0 => iter'[r] # 0)
  <2>1. CASE EndCheckpoint(r)
    <3>1. pc'[r] \in {"discover", "closing", "report"} /\ iter'[r] # 0 /\ iter[r] # 0
      BY <1>0, <1>h, <1>t, <2>1 DEF EndCheckpoint, BeginCheckpoint, LoopBegun, Saving
    <3>2. pc'[r] = "closing" => todo'[r] = Known(r)
      BY <1>0, <1>t, <2>1 DEF EndCheckpoint, BeginCheckpoint
    <3> QED BY <1>0, <3>1, <3>2 DEF LoopBegun, Saveable, Saving, Known
  <2>2. ASSUME NEW i \in Items, SaveItem(r, i) PROVE LoopBegun(r)' /\ Saveable(r)' /\ (iter[r] # 0 => iter'[r] # 0)
    <3>1. UNCHANGED <<pc, iter>> /\ todo'[r] \subseteq todo[r]
      BY <1>t, <2>2 DEF SaveItem
    <3> QED BY <1>0, <1>h, <3>1 DEF LoopBegun, Saveable, Saving, Known
  <2> QED BY <2>1, <2>2 DEF WriteLedger, SaveControl
<1>2. ASSUME NEW i \in Items
      PROVE  \/ lstate'[i] = lstate[i]
             \/ lstate'[i] = ItemState(r, i) /\ i \in Known(r)
  <2>1. CASE WriteLedger(r)
    BY <2>1 DEF WriteLedger
  <2>2. CASE SaveControl(r)
    BY <2>2 DEF SaveControl
  <2>3. ASSUME NEW j \in Items, SaveItem(r, j)
        PROVE  \/ lstate'[i] = lstate[i]
               \/ lstate'[i] = ItemState(r, i) /\ i \in Known(r)
    BY <1>0, <1>h, <1>t, <2>3 DEF SaveItem, Saveable
  <2> QED BY <2>1, <2>2, <2>3
<1>3. ASSUME NEW i \in Items PROVE Remembers(r, i)' /\ (lstate[i] = "SUCCEEDED" => lstate'[i] = "SUCCEEDED")
  <2>1. Remembers(r, i)
    BY <1>h
  <2> QED BY <1>0, <1>1, <1>2, <2>1 DEF Remembers, ItemState, Known
<1> QED BY <1>1, <1>3 DEF SoleInv, Single

\* A record of success is final when every run has its own process, and also
\* when the runs of the only process share a pipeline object.  (_items_by_id;
\* two such processes put finished work back, as UpgradeReuse shows)
THEOREM SuccessIsFinal == ~ReusePipeline \/ Single => (Spec => SucceededFinal)
<1>1. ~ReusePipeline => (Spec => SucceededFinal)
  <2>1. [\A i \in Items : Forward(i)]_vars
          => [\A i \in Items : lstate[i] = "SUCCEEDED" => lstate'[i] = "SUCCEEDED"]_vars
    BY DEF Forward
  <2> QED BY <2>1, LedgerOnlyForward, PTL DEF LedgerForward, Forward, SucceededFinal
<1>2. ASSUME Single PROVE Spec => SucceededFinal
  <2>1. Init => SoleInv
    BY DEF Init, SoleInv, LoopBegun, Saveable, Saving, Remembers
  <2>2. TypeInv /\ SoleInv /\ [Next]_vars
          => SoleInv' /\ [\A i \in Items : lstate[i] = "SUCCEEDED" => lstate'[i] = "SUCCEEDED"]_vars
    <3>1. ASSUME TypeInv, SoleInv, Next
          PROVE  SoleInv' /\ \A i \in Items : lstate[i] = "SUCCEEDED" => lstate'[i] = "SUCCEEDED"
      <4>1. PICK r \in Runners : CommonStep(r) \/ JsonStep(r) \/ PostgresStep(r)
        BY <3>1 DEF Next
      <4> QED
        BY <1>2, <3>1, <4>1, SoleLease, SoleLoad, SoleLoop, SoleSave
           DEF CommonStep, JsonStep, PostgresStep, ledger
    <3>2. ASSUME SoleInv, UNCHANGED vars PROVE SoleInv'
      BY <3>2 DEF vars, ledger, local, kept, SoleInv, LoopBegun, Saveable, Remembers, Known, Resumable
    <3> QED BY <3>1, <3>2
  <2> QED BY <2>1, <2>2, UpgradeTypeInv, PTL DEF Spec, SucceededFinal
<1> QED BY <1>1, <1>2

-----------------------------------------------------------------------------
(***************************************************************************)
(* The ledger as an attempt counter.  A writer that saves writes what it   *)
(* is in step with, or the attempt it is ahead by; the JSON ledger saves   *)
(* the whole copy at once, so there that attempt must be the only one.     *)
(***************************************************************************)
OneAhead ==
  Backend = "json" =>
    \A r \in Runners : \A i, j \in Items : Ahead(r, i) /\ Ahead(r, j) => i = j

LEMMA OneAheadKept ==
  ASSUME TypeInv, WriterInv, WriterInv', NEW r \in Runners, CommonStep(r) \/ JsonStep(r) \/ PostgresStep(r)
  PROVE  OneAhead'
<1> SUFFICES ASSUME Backend = "json", NEW s \in Runners, NEW i \in Items, NEW j \in Items, Ahead(s, i)', Ahead(s, j)'
             PROVE  i = j
  BY DEF OneAhead
<1>1. s = r
  <2>1. s # r => pc'[s] = "idle"
    BY JsonAlone, OneRunnerMoves DEF Alone
  <2> QED BY <2>1 DEF Ahead
<1>2. CASE pc'[r] = "execute"
  BY <1>1, <1>2 DEF Ahead, WriterInv, Own, OwnCopies
<1>3. CASE pc'[r] = "checkpoint"
  <2>t. /\ pc \in [Runners -> PCs] /\ istate \in [Runners -> [Items -> WorkStates]]
        /\ iattempts \in [Runners -> [Items -> 0..MaxAttempts]] /\ lattempts \in [Items -> 0..MaxAttempts]
    BY DEF TypeInv, LedgerTypes, CopyTypes, LoopTypes
  <2>1. \E k \in Items : AttemptFails(r, k) \/ Regression(r, k) \/ AttemptSucceeds(r, k)
    BY <1>3, <2>t
       DEF CommonStep, JsonStep, PostgresStep, Acquire, AcquireToken, TokenFails, SessionLost,
           OperatorUnlocks, Release, Crash, LoadAll, ListTasks, EndLoad, BeginLoop, LoadItem, Restore,
           Interrupt, StaleWrite, DiscoverFails, NothingPending, Report, Pick,
           WriteLedger, SaveControl, SaveItem, EndCheckpoint, BeginCheckpoint, EndRun, RunRaises, Goto, Current
  <2>2. PICK k \in Items : AttemptFails(r, k) \/ Regression(r, k) \/ AttemptSucceeds(r, k)
    BY <2>1
  <2>3. /\ pc[r] = "execute" /\ istate[r][k] = "RUNNING" /\ UNCHANGED <<lstate, lattempts, iattempts>>
        /\ \A h \in Items : h # k => istate'[r][h] = istate[r][h]
    BY <2>2, <2>t DEF AttemptFails, Regression, AttemptSucceeds, ledger
  <2>4. ASSUME NEW h \in Items, Ahead(r, h)' PROVE h = k
    <3> SUFFICES ASSUME h # k PROVE FALSE
      OBVIOUS
    <3>1. istate[r][h] # "NONE" /\ iattempts[r][h] = lattempts[h] + 1 /\ lattempts[h] \in Nat
      BY <1>3, <2>t, <2>3, <2>4 DEF Ahead
    <3>2. InSync(r, h) \/ Ahead(r, h)
      BY <2>3, <3>1 DEF WriterInv, Own, InStep, Writer, Current, Active
    <3>3. ~InSync(r, h)
      BY <3>1 DEF InSync
    <3> QED BY <2>3, <3>2, <3>3 DEF Ahead, WriterInv, Own, OwnCopies
  <2> QED BY <1>1, <2>4
<1> QED BY <1>1, <1>2, <1>3 DEF Ahead

\* A record that is registered, taken up as it is or reopened.
LEMMA RestoredTakenUp ==
  ASSUME TypeInv, WriterInv, NEW i \in Items, lstate[i] = "NONE" \/ Resumable(i),
         lstate'[i] = "PENDING", lattempts'[i] = RestoredAttempts(i)
  PROVE  Ledger!Stays(i) \/ Ledger!Registered(i) \/ Ledger!Reopened(i)
BY DEF Resumable, RestoredAttempts, WriterInv, BlankRecords, Ledger!Stays, Ledger!Registered, Ledger!Reopened,
       Ledger!Becomes

\* A record that its writer saves: the attempt it is ahead by, or what it is.
LEMMA SavedCounts ==
  ASSUME TypeInv, WriterInv, NEW r \in Runners, NEW i \in Items, istate[r][i] # "NONE",
         Writer(r), pc[r] \in Saving,
         lstate'[i] = istate[r][i], lattempts'[i] = iattempts[r][i]
  PROVE  IF Ahead(r, i) THEN Ledger!Counted(i) ELSE Ledger!Stays(i) \/ Ledger!Reblocked(i)
<1>1. InSync(r, i) \/ Ahead(r, i)
  BY DEF WriterInv, Own, InStep, Active
<1>2. CASE Ahead(r, i)
  <2>1. /\ lstate[i] = "PENDING" /\ iattempts[r][i] = lattempts[i] + 1
        /\ istate[r][i] \in {"PENDING", "BLOCKED", "SUCCEEDED"}
    BY <1>2 DEF Ahead, Saving
  <2>2. lattempts[i] < MaxAttempts /\ (istate[r][i] = "PENDING" => iattempts[r][i] < MaxAttempts)
    BY <2>1 DEF TypeInv, Room
  <2> QED BY <1>2, <2>1, <2>2 DEF Ledger!Counted, Ledger!Becomes
<1>3. CASE ~Ahead(r, i)
  BY <1>1, <1>3 DEF InSync, Ledger!Stays, Ledger!Reblocked, Ledger!Becomes
<1> QED BY <1>2, <1>3

\* Every step is one of the attempt counter's, or leaves the records alone.
LEMMA LedgerStep ==
  ASSUME TypeInv, WriterInv, OneAhead, [Next]_vars
  PROVE  [Ledger!Next]_<<lstate, lattempts>>
<1> SUFFICES ASSUME NEW r \in Runners, CommonStep(r) \/ JsonStep(r) \/ PostgresStep(r)
             PROVE  [Ledger!Next]_<<lstate, lattempts>>
  BY DEF Next, vars, ledger
<1>t. /\ lstate \in [Items -> WorkStates] /\ lattempts \in [Items -> 0..MaxAttempts]
      /\ \A j \in Items : kstate[r][j] = "NONE"
  BY DEF TypeInv, LedgerTypes, WriterInv, Own, OwnCopies
<1>1. CASE LoadAll(r)
  <2>1. \A i \in Items : Ledger!Stays(i) \/ Ledger!Registered(i) \/ Ledger!Reopened(i)
    <3> SUFFICES ASSUME NEW i \in Items PROVE Ledger!Stays(i) \/ Ledger!Registered(i) \/ Ledger!Reopened(i)
      OBVIOUS
    <3>1. CASE Resumable(i)
      BY <1>1, <3>1, RestoredTakenUp DEF LoadAll
    <3>2. CASE ~Resumable(i)
      BY <1>1, <3>2 DEF LoadAll, Ledger!Stays, Ledger!Becomes
    <3> QED BY <3>1, <3>2
  <2> QED BY <2>1 DEF Ledger!Next, Ledger!TakeUp
<1>2. ASSUME NEW j \in Items, LoadItem(r, j) \/ Restore(r, j) PROVE Ledger!Next
  <2>1. lstate' = [lstate EXCEPT ![j] = "PENDING"] /\ lattempts' = [lattempts EXCEPT ![j] = RestoredAttempts(j)]
    BY <1>2 DEF LoadItem, Restore
  <2>2. lstate[j] = "NONE" \/ Resumable(j)
    BY <1>2 DEF LoadItem, Restore, WriterInv, Own, InStep, Writer
  <2>3. Ledger!Stays(j) \/ Ledger!Registered(j) \/ Ledger!Reopened(j)
    BY <1>t, <2>1, <2>2, RestoredTakenUp
  <2>4. \A i \in Items : i # j => Ledger!Stays(i)
    BY <1>t, <2>1 DEF Ledger!Stays, Ledger!Becomes
  <2> QED BY <2>3, <2>4 DEF Ledger!Next, Ledger!TakeUp
<1>3. CASE WriteLedger(r)
  <2>1. Writer(r) /\ pc[r] \in Saving
    BY <1>3 DEF WriteLedger, Writer, Current, Saving
  <2>2. ASSUME NEW i \in Items
        PROVE  IF Ahead(r, i) THEN Ledger!Counted(i) ELSE Ledger!Stays(i) \/ Ledger!Reblocked(i)
    <3>1. CASE istate[r][i] # "NONE"
      <4>1. lstate'[i] = istate[r][i] /\ lattempts'[i] = iattempts[r][i]
        BY <1>3, <3>1 DEF WriteLedger, Known, ItemState, ItemAttempts
      <4> QED BY <2>1, <3>1, <4>1, SavedCounts
    <3>2. CASE istate[r][i] = "NONE"
      BY <1>t, <1>3, <3>2 DEF WriteLedger, Known, Ledger!Stays, Ledger!Becomes, Ahead, Saving
    <3> QED BY <3>1, <3>2
  <2>3. CASE \E i \in Items : Ahead(r, i)
    <3>1. PICK i \in Items : Ahead(r, i)
      BY <2>3
    <3>2. \A j \in Items \ {i} : ~Ahead(r, j)
      BY <1>3, <3>1 DEF OneAhead, WriteLedger
    <3>3. Ledger!Counted(i) /\ \A j \in Items \ {i} : Ledger!Stays(j) \/ Ledger!Reblocked(j)
      BY <2>2, <3>1, <3>2
    <3> QED BY <3>3 DEF Ledger!Next, Ledger!Checkpoint
  <2>4. CASE \A i \in Items : ~Ahead(r, i)
    <3>1. \A i \in Items : Ledger!Stays(i) \/ Ledger!Reblocked(i)
      BY <2>2, <2>4
    <3>2. CASE \E i \in Items : Ledger!Reblocked(i)
      BY <3>1, <3>2 DEF Ledger!Next, Ledger!Checkpoint
    <3>3. CASE \A i \in Items : ~Ledger!Reblocked(i)
      BY <3>1, <3>3 DEF Ledger!Next, Ledger!TakeUp
    <3> QED BY <3>2, <3>3
  <2> QED BY <2>3, <2>4
<1>4. ASSUME NEW j \in Items, SaveItem(r, j) PROVE Ledger!Next
  <2>1. /\ lstate' = [lstate EXCEPT ![j] = ItemState(r, j)]
        /\ lattempts' = [lattempts EXCEPT ![j] = ItemAttempts(r, j)]
        /\ Writer(r) /\ pc[r] \in Saving /\ j \in todo[r]
    BY <1>4 DEF SaveItem, Writer, Saving
  <2>2. istate[r][j] # "NONE"
    BY <2>1 DEF WriterInv, Own, InStep
  <2>3. lstate'[j] = istate[r][j] /\ lattempts'[j] = iattempts[r][j]
    BY <1>t, <2>1, <2>2 DEF ItemState, ItemAttempts
  <2>4. Ledger!Counted(j) \/ Ledger!Stays(j) \/ Ledger!Reblocked(j)
    BY <2>1, <2>2, <2>3, SavedCounts
  <2>5. \A i \in Items : i # j => Ledger!Stays(i)
    BY <1>t, <2>1 DEF Ledger!Stays, Ledger!Becomes
  <2> QED BY <2>4, <2>5 DEF Ledger!Next, Ledger!Checkpoint, Ledger!TakeUp
<1>5. CASE UNCHANGED ledger
  BY <1>5 DEF ledger
<1> QED BY <1>1, <1>2, <1>3, <1>4, <1>5
        DEF CommonStep, JsonStep, PostgresStep, Acquire, AcquireToken, TokenFails, SessionLost,
            OperatorUnlocks, Release, Crash, ListTasks, EndLoad, BeginLoop, Interrupt, StaleWrite,
            DiscoverFails, NothingPending, Report, Pick, AttemptFails, Regression, AttemptSucceeds, SaveControl

\* Both ledgers, with their leases, copies, crashes and lost sessions,
\* implement the attempt counter: each record of an outcome counts one attempt
\* of one pending item.  (record_checkpoint, restore_or_register,
\* load_resumable)
THEOREM LedgerCountsAttempts == ~ReusePipeline => (Spec => CountsAttempts)
<1> SUFFICES ASSUME ~ReusePipeline PROVE Spec => CountsAttempts
  OBVIOUS
<1>1. Init => Ledger!Init /\ OneAhead
  BY DEF Init, Ledger!Init, OneAhead, Ahead
<1>2. TypeInv /\ WriterInv /\ WriterInv' /\ OneAhead /\ [Next]_vars => OneAhead'
  <2>1. CASE UNCHANGED vars
    BY <2>1 DEF vars, ledger, local, OneAhead, Ahead
  <2> QED BY <2>1, OneAheadKept DEF Next
<1>3. TypeInv /\ WriterInv /\ OneAhead /\ [Next]_vars => [Ledger!Next]_<<lstate, lattempts>>
  BY LedgerStep
<1> QED BY <1>1, <1>2, <1>3, UpgradeTypeInv, WriterInvariant, PTL DEF Spec, CountsAttempts, Ledger!Spec

-----------------------------------------------------------------------------
(***************************************************************************)
(* The JSON ledger under its lock file: what a COMPLETED report means.     *)
(***************************************************************************)
\* What a run has not taken up needs no work; a run that closes as COMPLETED
\* knows of nothing unfinished, and reports what it has written.
Accounted(r) ==
  /\ pc[r] \notin {"locked", "loading"}
  /\ \A i \in Items :
       /\ pc[r] \in {"seed", "discover", "execute", "report"} \cup Saving /\ istate[r][i] = "NONE" =>
            lstate[i] \in {"NONE", "BLOCKED", "SUCCEEDED"}
       /\ pc[r] \in {"closing", "report"} /\ final[r] = "COMPLETED" => istate[r][i] \in {"NONE", "SUCCEEDED"}
       /\ pc[r] = "report" /\ istate[r][i] # "NONE" => InSync(r, i)
       /\ pc[r] = "release" /\ final[r] = "COMPLETED" => lstate[i] \in {"NONE", "SUCCEEDED"}

AccountedInv ==
  /\ \A i \in Items : lstate[i] # "RUNNING"
  /\ \A r \in Runners : Accounted(r)

\* A runner that does not step is idle: nothing is asked of it.
LEMMA OthersAccounted ==
  ASSUME TypeInv, WriterInv, Backend = "json", NEW r \in Runners, NEW s \in Runners, s # r,
         CommonStep(r) \/ JsonStep(r) \/ PostgresStep(r)
  PROVE  Accounted(s)'
<1>1. pc'[s] = "idle"
  BY JsonAlone, OneRunnerMoves DEF Alone
<1> QED BY <1>1 DEF Accounted, Saving

\* One step of a runner over the JSON ledger.
LEMMA AccountedKept ==
  ASSUME TypeInv, WriterInv, AccountedInv, Backend = "json", NEW r \in Runners,
         CommonStep(r) \/ JsonStep(r) \/ PostgresStep(r)
  PROVE  Accounted(r)' /\ \A i \in Items : lstate'[i] # "RUNNING"
<1> USE DEF Goto
<1>t. /\ pc \in [Runners -> PCs] /\ final \in [Runners -> Finals]
      /\ istate \in [Runners -> [Items -> WorkStates]]
      /\ iattempts \in [Runners -> [Items -> 0..MaxAttempts]]
      /\ lstate \in [Items -> WorkStates] /\ lattempts \in [Items -> 0..MaxAttempts]
  BY DEF TypeInv, LedgerTypes, LoopTypes, CopyTypes
<1>o. /\ OwnCopies(r) /\ OwnFinal(r) /\ Accounted(r) /\ pc[r] \notin {"locked", "loading"}
      /\ \A i \in Items : lstate[i] # "RUNNING"
  BY DEF WriterInv, Own, AccountedInv, Accounted
<1>1. CASE Acquire(r) \/ Crash(r) \/ Release(r) \/ Interrupt(r) \/ OperatorUnlocks(r)
  <2>1. UNCHANGED ledger
    BY <1>1 DEF Acquire, Crash, Release, Interrupt, OperatorUnlocks
  <2>2. pc'[r] \in {"load", "idle"} \/ (pc'[r] = "release" /\ final'[r] = "RUNNING")
    BY <1>1, <1>t DEF Acquire, Crash, Release, Interrupt, OperatorUnlocks, EndRun, RunRaises
  <2> QED BY <1>o, <2>1, <2>2 DEF Accounted, Saving, ledger
<1>2. CASE LoadAll(r)
  <2>1. /\ pc'[r] = "seed"
        /\ \A i \in Items : /\ lstate'[i] = IF Resumable(i) THEN "PENDING" ELSE lstate[i]
                            /\ istate'[r][i] = IF Resumable(i) THEN "PENDING" ELSE "NONE"
    BY <1>2, <1>t DEF LoadAll
  <2> QED BY <1>t, <1>o, <2>1 DEF Accounted, Saving, Resumable, WorkStates
<1>3. ASSUME NEW i \in Items, Restore(r, i) PROVE Accounted(r)' /\ \A j \in Items : lstate'[j] # "RUNNING"
  <2>1. /\ pc[r] \in {"seed", "discover"} /\ pc'[r] = pc[r] /\ lstate'[i] = "PENDING" /\ istate'[r][i] # "NONE"
        /\ \A j \in Items : j # i => lstate'[j] = lstate[j] /\ istate'[r][j] = istate[r][j]
    BY <1>3, <1>t DEF Restore, Adopt
  <2> QED BY <1>o, <2>1 DEF Accounted, Saving
<1>4. CASE BeginLoop(r)
  BY <1>4, <1>t, <1>o DEF BeginLoop, Accounted, Saving, local, ledger
<1>5. CASE DiscoverFails(r) \/ NothingPending(r)
  <2>1. /\ pc[r] = "discover" /\ pc'[r] = "closing" /\ UNCHANGED <<istate, lstate, lattempts>>
        /\ final'[r] = "COMPLETED" => Pending(r) = {} /\ Blocked(r) = {}
    BY <1>5, <1>t DEF DiscoverFails, NothingPending, BeginCheckpoint, ledger
  <2>2. \A i \in Items : istate[r][i] # "RUNNING"
    BY <1>o, <2>1 DEF OwnCopies
  <2> QED BY <1>t, <1>o, <2>1, <2>2 DEF Accounted, Saving, Pending, Blocked, WorkStates
<1>6. ASSUME NEW i \in Items, Pick(r, i) \/ AttemptFails(r, i) \/ Regression(r, i) \/ AttemptSucceeds(r, i)
      PROVE  Accounted(r)' /\ \A j \in Items : lstate'[j] # "RUNNING"
  <2>1. /\ pc[r] \in {"discover", "execute"} /\ pc'[r] \in {"execute", "checkpoint"}
        /\ istate[r][i] # "NONE" /\ istate'[r][i] # "NONE"
        /\ \A j \in Items : j # i => istate'[r][j] = istate[r][j]
        /\ UNCHANGED lstate
    BY <1>6, <1>t DEF Pick, AttemptFails, Regression, AttemptSucceeds, BeginCheckpoint, Pending, ledger
  <2> QED BY <1>o, <2>1 DEF Accounted, Saving
<1>7. CASE WriteLedger(r)
  <2>1. /\ pc[r] \in Saving /\ EndCheckpoint(r) /\ UNCHANGED <<istate, iattempts>>
        /\ \A i \in Items : istate[r][i] # "NONE" => lstate'[i] = istate[r][i] /\ lattempts'[i] = iattempts[r][i]
        /\ \A i \in Items : istate[r][i] = "NONE" => lstate'[i] = lstate[i]
    BY <1>7, <1>o DEF WriteLedger, Saving, Known, ItemState, ItemAttempts, OwnCopies
  <2>2. \A i \in Items : istate[r][i] # "RUNNING"
    BY <1>o, <2>1 DEF OwnCopies, Saving
  <2>3. /\ pc'[r] \in {"discover", "closing", "report"} /\ (pc'[r] = "report" => pc[r] = "closing" /\ final' = final)
        /\ pc'[r] = "closing" /\ final'[r] = "COMPLETED" => Pending(r) = {} /\ Blocked(r) = {}
    BY <1>t, <1>o, <2>1 DEF EndCheckpoint, BeginCheckpoint, OwnFinal
  <2>4. \A i \in Items : /\ pc'[r] \in {"closing", "report"} /\ final'[r] = "COMPLETED" =>
                              istate[r][i] \in {"NONE", "SUCCEEDED"}
                         /\ istate[r][i] # "NONE" => InSync(r, i)'
    BY <1>t, <1>o, <2>1, <2>2, <2>3 DEF Accounted, Pending, Blocked, WorkStates, InSync
  <2>5. \A i \in Items : /\ istate[r][i] = "NONE" => lstate[i] \in {"NONE", "BLOCKED", "SUCCEEDED"}
                         /\ lstate'[i] # "RUNNING"
    BY <1>o, <2>1, <2>2 DEF Accounted, Saving
  <2> QED BY <2>1, <2>3, <2>4, <2>5 DEF Accounted
<1>8. CASE Report(r)
  <2>1. /\ pc[r] = "report" /\ pc'[r] = "release" /\ UNCHANGED lstate
        /\ final'[r] = "COMPLETED" => final[r] = "COMPLETED" /\ BlockedRecords = {}
    BY <1>8, <1>t DEF Report, ledger
  <2> QED BY <1>o, <2>1 DEF Accounted, Saving, BlockedRecords, InSync
<1>9. ASSUME PostgresStep(r) PROVE FALSE
  BY <1>9, <1>o DEF PostgresStep, AcquireToken, TokenFails, SessionLost, ListTasks, EndLoad, SaveControl,
         StaleWrite, LoadItem, SaveItem, Current
<1> QED BY <1>1, <1>2, <1>3, <1>4, <1>5, <1>6, <1>7, <1>8, <1>9 DEF CommonStep, JsonStep

\* Over the JSON ledger every run accounts for what it has not taken up.
THEOREM JsonAccounted == ~ReusePipeline => (Spec => [](Backend = "json" => AccountedInv))
<1> SUFFICES ASSUME ~ReusePipeline PROVE Spec => [](Backend = "json" => AccountedInv)
  OBVIOUS
<1> DEFINE I == Backend = "json" => AccountedInv
<1>1. Init => I
  BY DEF Init, AccountedInv, Accounted, Saving
<1>2. TypeInv /\ WriterInv /\ I /\ [Next]_vars => I'
  <2> SUFFICES ASSUME TypeInv, WriterInv, AccountedInv, [Next]_vars, Backend = "json" PROVE AccountedInv'
    OBVIOUS
  <2>1. CASE UNCHANGED vars
    BY <2>1 DEF vars, ledger, local, AccountedInv, Accounted, InSync
  <2>2. CASE Next
    BY <2>2, OthersAccounted, AccountedKept DEF Next, AccountedInv
  <2> QED BY <2>1, <2>2
<1> QED BY <1>1, <1>2, UpgradeTypeInv, WriterInvariant, PTL DEF Spec

\* A run over the JSON ledger reports COMPLETED only when every record is
\* SUCCEEDED.  (ContinuousUpgradeLoop.run, _run_locked)
THEOREM CompletedIsDone == ~ReusePipeline => (Spec => []CompletedMeansDone)
<1>1. (Backend = "json" => AccountedInv) => CompletedMeansDone
  BY DEF AccountedInv, Accounted, CompletedMeansDone
<1> QED BY <1>1, JsonAccounted, PTL

-----------------------------------------------------------------------------
(***************************************************************************)
(* The JSON ledger under its lock file: what a disruption can cost.        *)
(***************************************************************************)
\* Executions of an item are the attempts its record has and those that
\* disruptions lost; or one more, the attempt a runner has yet to save.
Counted(i) == execs[i] <= lattempts[i] + disruptions
ExecsCounted ==
  \A i \in Items : \/ Counted(i)
                   \/ execs[i] <= lattempts[i] + 1 + disruptions /\ \E r \in Runners : Ahead(r, i)

\* Who is about to step is the only one who can be ahead of the ledger.
LEMMA AheadIsOwn ==
  ASSUME TypeInv, WriterInv, ExecsCounted, Backend = "json", NEW r \in Runners, NEW i \in Items,
         CommonStep(r) \/ JsonStep(r) \/ PostgresStep(r)
  PROVE  Counted(i) \/ (execs[i] <= lattempts[i] + 1 + disruptions /\ Ahead(r, i))
BY JsonAlone DEF ExecsCounted, Ahead

\* A step counts what it executes.
LEMMA ExecsKept ==
  ASSUME TypeInv, WriterInv, AccountedInv, ExecsCounted, Backend = "json", NEW r \in Runners,
         CommonStep(r) \/ JsonStep(r) \/ PostgresStep(r)
  PROVE  ExecsCounted'
<1> USE DEF Goto
<1>t. /\ pc \in [Runners -> PCs] /\ todo \in [Runners -> SUBSET Items]
      /\ istate \in [Runners -> [Items -> WorkStates]]
      /\ iattempts \in [Runners -> [Items -> 0..MaxAttempts]]
      /\ lattempts \in [Items -> 0..MaxAttempts] /\ execs \in [Items -> 0..ExecCap] /\ ExecCap \in Nat
      /\ disruptions \in Nat
  BY DEF TypeInv, LedgerTypes, LoopTypes, CopyTypes, ExecCap
<1>o. /\ OwnCopies(r) /\ BlankRecords /\ pc[r] \notin {"locked", "loading"}
      /\ \A i \in Items : pc[r] \in Active /\ istate[r][i] # "NONE" => InSync(r, i) \/ Ahead(r, i)
  BY DEF WriterInv, Own, InStep, Writer, Current, AccountedInv, Accounted, Active, Saving
<1>a. \A i \in Items : Counted(i) \/ (execs[i] <= lattempts[i] + 1 + disruptions /\ Ahead(r, i))
  BY AheadIsOwn
<1>c. ASSUME pc[r] \notin {"execute", "checkpoint"} PROVE \A i \in Items : Counted(i)
  BY <1>a, <1>c DEF Ahead
<1>1. CASE Crash(r) \/ Interrupt(r)
  <2>1. disruptions' = disruptions + 1 /\ UNCHANGED <<execs, lattempts>>
    BY <1>1 DEF Crash, Interrupt, ledger
  <2> QED BY <1>t, <1>a, <2>1 DEF ExecsCounted, Counted
<1>2. CASE Acquire(r) \/ Release(r) \/ OperatorUnlocks(r) \/ BeginLoop(r) \/ NothingPending(r) \/ Report(r)
  <2>1. pc[r] \notin {"execute", "checkpoint"} /\ UNCHANGED <<execs, lattempts, disruptions>>
    BY <1>2 DEF Acquire, Release, OperatorUnlocks, BeginLoop, NothingPending, Report, ledger
  <2> QED BY <1>c, <2>1 DEF ExecsCounted, Counted
<1>3. CASE DiscoverFails(r)
  <2>1. /\ pc[r] = "discover" /\ UNCHANGED <<execs, lattempts>>
        /\ disruptions' \in {disruptions, disruptions + 1}
    BY <1>3 DEF DiscoverFails, ledger
  <2> QED BY <1>t, <1>c, <2>1 DEF ExecsCounted, Counted
<1>4. CASE LoadAll(r)
  <2>1. /\ pc[r] = "load" /\ UNCHANGED disruptions
        /\ \A i \in Items : lattempts'[i] = IF Resumable(i) THEN RestoredAttempts(i) ELSE lattempts[i]
        /\ \A i \in Items : execs'[i] = IF lstate[i] = "BLOCKED" /\ RetryBlocked THEN 0 ELSE execs[i]
    BY <1>4 DEF LoadAll, Recount
  <2>2. \A i \in Items : Counted(i)'
    BY <1>t, <1>c, <2>1 DEF Counted, Resumable, RestoredAttempts
  <2> QED BY <2>2 DEF ExecsCounted
<1>5. ASSUME NEW i \in Items, Restore(r, i) PROVE ExecsCounted'
  <2>1. /\ pc[r] \in {"seed", "discover"} /\ UNCHANGED disruptions
        /\ lattempts'[i] = RestoredAttempts(i)
        /\ \A j \in Items : j # i => lattempts'[j] = lattempts[j] /\ execs'[j] = execs[j]
        /\ execs'[i] = IF lstate[i] = "BLOCKED" /\ RetryBlocked THEN 0 ELSE execs[i]
        /\ lstate[i] = "NONE" \/ Resumable(i)
    BY <1>5, <1>t DEF Restore, Recount
  <2>2. Counted(i)'
    BY <1>t, <1>o, <1>c, <2>1 DEF Counted, Resumable, RestoredAttempts, BlankRecords
  <2>3. \A j \in Items : Counted(j)'
    BY <1>t, <1>c, <2>1, <2>2 DEF Counted
  <2> QED BY <2>3 DEF ExecsCounted
<1>6. ASSUME NEW i \in Items, Pick(r, i) PROVE ExecsCounted'
  <2>1. /\ pc[r] = "discover" /\ istate[r][i] = "PENDING" /\ UNCHANGED <<lstate, lattempts, disruptions>>
        /\ pc'[r] = "execute" /\ istate'[r][i] = "RUNNING" /\ iattempts'[r][i] = iattempts[r][i] + 1
        /\ execs'[i] <= execs[i] + 1 /\ \A j \in Items : j # i => execs'[j] = execs[j]
    BY <1>6, <1>t DEF Pick, Pending, ledger
  <2>2. InSync(r, i)
    BY <1>o, <2>1 DEF Ahead, Active
  <2>3. Ahead(r, i)'
    BY <2>1, <2>2 DEF Ahead, InSync
  <2>4. execs'[i] <= lattempts'[i] + 1 + disruptions'
    <3>1. execs[i] <= lattempts[i] + disruptions
      BY <1>c, <2>1 DEF Counted
    <3>2. execs'[i] \in Nat /\ execs[i] \in Nat /\ lattempts[i] \in Nat
      BY <1>6, <1>t DEF Pick
    <3> QED BY <1>t, <2>1, <3>1, <3>2
  <2>5. \A j \in Items : j # i => Counted(j)'
    BY <1>c, <2>1 DEF Counted
  <2> QED BY <2>3, <2>4, <2>5 DEF ExecsCounted
<1>7. ASSUME NEW i \in Items, AttemptFails(r, i) \/ Regression(r, i) \/ AttemptSucceeds(r, i)
      PROVE  ExecsCounted'
  <2>1. /\ pc[r] = "execute" /\ istate[r][i] = "RUNNING" /\ UNCHANGED <<lstate, lattempts, execs, iattempts, disruptions>>
        /\ pc'[r] = "checkpoint" /\ istate'[r][i] \in {"PENDING", "BLOCKED", "SUCCEEDED"} /\ todo'[r] = Known(r)
    BY <1>7, <1>t DEF AttemptFails, Regression, AttemptSucceeds, BeginCheckpoint, ledger
  <2>2. ASSUME NEW j \in Items, Ahead(r, j) PROVE Ahead(r, j)'
    <3>1. j = i
      BY <1>o, <2>1, <2>2 DEF Ahead, OwnCopies
    <3> QED BY <2>1, <2>2, <3>1 DEF Ahead, Known
  <2> QED BY <1>a, <2>1, <2>2 DEF ExecsCounted, Counted
<1>8. CASE WriteLedger(r)
  <2>1. /\ pc[r] \in Saving /\ UNCHANGED <<execs, disruptions>>
        /\ \A i \in Items : istate[r][i] # "NONE" => lattempts'[i] = iattempts[r][i]
        /\ \A i \in Items : istate[r][i] = "NONE" => lattempts'[i] = lattempts[i]
    BY <1>8, <1>o DEF WriteLedger, Saving, Known, ItemState, ItemAttempts, OwnCopies
  <2>2. \A i \in Items : Counted(i)'
    <3> SUFFICES ASSUME NEW i \in Items PROVE Counted(i)'
      OBVIOUS
    <3>1. (lattempts'[i] = lattempts[i] /\ ~Ahead(r, i)) \/ lattempts'[i] = lattempts[i] + 1
      BY <1>o, <2>1 DEF InSync, Ahead, Active, Saving
    <3> QED BY <1>t, <1>a, <2>1, <3>1 DEF Counted
  <2> QED BY <2>2 DEF ExecsCounted
<1>9. ASSUME PostgresStep(r) PROVE FALSE
  BY <1>9, <1>o DEF PostgresStep, AcquireToken, TokenFails, SessionLost, ListTasks, EndLoad, SaveControl,
         StaleWrite, LoadItem, SaveItem, Current
<1> QED BY <1>1, <1>2, <1>3, <1>4, <1>5, <1>6, <1>7, <1>8, <1>9 DEF CommonStep, JsonStep

\* However runs over the JSON ledger are cut off and taken over, each
\* disruption lets one execution of an item at most go uncounted.
\* (ContinuousUpgradeLoop.run, record_checkpoint, UpgradeRunLease)
THEOREM JsonAttemptsBounded == Backend = "json" /\ ~ReusePipeline => (Spec => []AttemptsBounded)
<1> SUFFICES ASSUME Backend = "json", ~ReusePipeline PROVE Spec => []AttemptsBounded
  OBVIOUS
<1>1. Init => ExecsCounted
  BY DEF Init, ExecsCounted, Counted
<1>2. TypeInv /\ WriterInv /\ AccountedInv /\ ExecsCounted /\ [Next]_vars => ExecsCounted'
  <2> SUFFICES ASSUME TypeInv, WriterInv, AccountedInv, ExecsCounted, [Next]_vars PROVE ExecsCounted'
    OBVIOUS
  <2>1. CASE UNCHANGED vars
    BY <2>1 DEF vars, ledger, local, ExecsCounted, Counted, Ahead
  <2>2. CASE Next
    BY <2>2, ExecsKept DEF Next
  <2> QED BY <2>1, <2>2
<1>3. TypeInv /\ ExecsCounted => AttemptsBounded
  <2> SUFFICES ASSUME TypeInv, ExecsCounted, NEW i \in Items
               PROVE  execs[i] <= MaxAttempts + disruptions
    BY DEF AttemptsBounded, LostPerDisruption, TypeInv, LedgerTypes
  <2>1. /\ execs[i] \in Nat /\ lattempts[i] \in 0..MaxAttempts /\ disruptions \in Nat
        /\ \A r \in Runners : iattempts[r][i] \in 0..MaxAttempts
    BY DEF TypeInv, LedgerTypes, CopyTypes, ExecCap
  <2> QED BY <2>1 DEF ExecsCounted, Counted, Ahead
<1>4. Spec => []AccountedInv
  BY JsonAccounted, PTL
<1> QED BY <1>1, <1>2, <1>3, <1>4, UpgradeTypeInv, WriterInvariant, PTL DEF Spec

-----------------------------------------------------------------------------
(***************************************************************************)
(* The fenced ledger: what a disruption can cost.  A lost session costs    *)
(* nothing by itself; it leaves a runner that may be displaced, and may    *)
(* displace another.  Risk counts what is still to be paid for the         *)
(* sessions lost so far.                                                   *)
(***************************************************************************)
\* Without the lock, a runner that has yet to take its token will displace the
\* writer, and may be displaced itself; past that it may only be displaced.  A
\* displaced runner may make one more attempt while it is before "execute".
Early == {"load", "loading", "seed", "discover"}
Displaces(r) == pc[r] = "locked" /\ lockOwner # r
AtRisk(r) ==
  \/ lockOwner # r /\ (pc[r] = "locked" \/ Writer(r))
  \/ ~Current(r) /\ pc[r] \in Early

Displacing == {r \in Runners : Displaces(r)}
Risking == {r \in Runners : AtRisk(r)}
Risk == Cardinality(Displacing) + Cardinality(Risking)

\* Executions of an item, with those at risk, are the attempts its record has
\* and two for each disruption; or one more, the attempt its writer has yet to
\* save.
Balanced(i) == execs[i] + Risk <= lattempts[i] + disruptions + disruptions
Unsaved(i) ==
  /\ execs[i] + Risk <= lattempts[i] + 1 + disruptions + disruptions
  /\ \E r \in Runners : Writer(r) /\ Ahead(r, i)
FencedCounted ==
  /\ IsFiniteSet(Displacing) /\ IsFiniteSet(Risking) /\ Risk <= disruptions + disruptions
  /\ \A i \in Items : Balanced(i) \/ Unsaved(i)

\* How a set of runners may change in a step.
LEMMA SetChanges ==
  ASSUME NEW S, IsFiniteSet(S), NEW T, NEW x
  PROVE  /\ Cardinality(S) \in Nat
         /\ T \subseteq S => IsFiniteSet(T) /\ Cardinality(T) \in Nat /\ Cardinality(T) <= Cardinality(S)
         /\ T \subseteq S \cup {x} => IsFiniteSet(T) /\ Cardinality(T) \in Nat /\ Cardinality(T) <= Cardinality(S) + 1
         /\ x \in S /\ T \subseteq S \ {x} => IsFiniteSet(T) /\ Cardinality(T) \in Nat /\ Cardinality(T) + 1 <= Cardinality(S)
<1>1. Cardinality(S) \in Nat
  BY FS_CardinalityType
<1>2. ASSUME T \subseteq S
      PROVE  IsFiniteSet(T) /\ Cardinality(T) \in Nat /\ Cardinality(T) <= Cardinality(S)
  BY <1>2, FS_Subset, FS_CardinalityType
<1>3. ASSUME T \subseteq S \cup {x}
      PROVE  IsFiniteSet(T) /\ Cardinality(T) \in Nat /\ Cardinality(T) <= Cardinality(S) + 1
  <2>1. IsFiniteSet(S \cup {x}) /\ Cardinality(S \cup {x}) \in {Cardinality(S), Cardinality(S) + 1}
    BY FS_AddElement
  <2>2. IsFiniteSet(T) /\ Cardinality(T) <= Cardinality(S \cup {x}) /\ Cardinality(T) \in Nat
    BY <1>3, <2>1, FS_Subset, FS_CardinalityType
  <2> QED BY <1>1, <2>1, <2>2
<1>4. ASSUME x \in S, T \subseteq S \ {x}
      PROVE  IsFiniteSet(T) /\ Cardinality(T) \in Nat /\ Cardinality(T) + 1 <= Cardinality(S)
  <2>1. IsFiniteSet(S \ {x}) /\ Cardinality(S \ {x}) = Cardinality(S) - 1
    BY <1>4, FS_RemoveElement
  <2>2. IsFiniteSet(T) /\ Cardinality(T) <= Cardinality(S \ {x}) /\ Cardinality(T) \in Nat
    BY <1>4, <2>1, FS_Subset, FS_CardinalityType
  <2> QED BY <1>1, <2>1, <2>2
<1> QED BY <1>1, <1>2, <1>3, <1>4

\* A step of r takes the lock from nobody else, nor gives it to another.
LEMMA OthersLock ==
  ASSUME Backend = "postgres", NEW r \in Runners, NEW s \in Runners, s # r,
         CommonStep(r) \/ JsonStep(r) \/ PostgresStep(r)
  PROVE  lockOwner' = s <=> lockOwner = s
<1>1. CASE Acquire(r) \/ TokenFails(r) \/ SessionLost(r) \/ OperatorUnlocks(r) \/ Release(r) \/ Crash(r)
  BY <1>1 DEF Acquire, LeaseFree, TokenFails, SessionLost, OperatorUnlocks, Release, Crash
<1>2. CASE AcquireToken(r) \/ ListTasks(r) \/ EndLoad(r) \/ SaveControl(r) \/ StaleWrite(r) \/ LoadAll(r) \/ WriteLedger(r)
  BY <1>2 DEF AcquireToken, ListTasks, EndLoad, SaveControl, StaleWrite, LoadAll, WriteLedger
<1>3. CASE BeginLoop(r) \/ NothingPending(r) \/ Report(r) \/ DiscoverFails(r) \/ Interrupt(r)
  BY <1>3 DEF BeginLoop, NothingPending, Report, DiscoverFails, Interrupt
<1>4. ASSUME NEW i \in Items, LoadItem(r, i) \/ SaveItem(r, i) \/ Restore(r, i) \/ Pick(r, i)
             \/ AttemptFails(r, i) \/ Regression(r, i) \/ AttemptSucceeds(r, i)
      PROVE  lockOwner' = lockOwner
  BY <1>4 DEF LoadItem, SaveItem, Restore, Pick, AttemptFails, Regression, AttemptSucceeds
<1> QED BY <1>1, <1>2, <1>3, <1>4 DEF CommonStep, JsonStep, PostgresStep

\* While no token is issued, the others are at risk as before, and the one of
\* them that is ahead of the ledger still is.
LEMMA OthersRisk ==
  ASSUME TypeInv, TokensInv, WriterInv, Backend = "postgres", NEW r \in Runners, NEW s \in Runners, s # r,
         CommonStep(r) \/ JsonStep(r) \/ PostgresStep(r), ~AcquireToken(r)
  PROVE  /\ AtRisk(s)' => AtRisk(s)
         /\ Displaces(s)' => Displaces(s)
         /\ \A i \in Items : Writer(s) /\ Ahead(s, i) => (Writer(s) /\ Ahead(s, i))'
<1>1. pc'[s] = pc[s] /\ token'[s] = token[s] /\ todo'[s] = todo[s] /\ istate'[s] = istate[s]
      /\ iattempts'[s] = iattempts[s]
  BY OneRunnerMoves DEF Alone
<1>2. gen' = gen
  BY TokenMoves
<1>3. lockOwner' = s <=> lockOwner = s
  BY OthersLock
<1>4. Writer(s)' = Writer(s) /\ Current(s)' = Current(s)
  BY <1>1, <1>2 DEF Writer, Current
<1>5. ASSUME NEW i \in Items, Writer(s), Ahead(s, i) PROVE Ahead(s, i)'
  <2>1. UNCHANGED ledger
    BY <1>5, OneWriter, WritersWrite
  <2> QED BY <1>1, <1>5, <2>1 DEF Ahead, ledger
<1> QED BY <1>1, <1>3, <1>4, <1>5 DEF AtRisk, Displaces

\* r's own steps put it at risk only where its session is lost, or it
\* displaces another.
LEMMA OwnMoves ==
  ASSUME TypeInv, Backend = "postgres", NEW r \in Runners,
         CommonStep(r) \/ JsonStep(r) \/ PostgresStep(r), ~AcquireToken(r), ~SessionLost(r)
  PROVE  \/ pc'[r] = "idle"
         \/ pc'[r] = "locked" /\ lockOwner' = r
         \/ /\ lockOwner' = lockOwner /\ pc'[r] # "locked"
            /\ pc'[r] \in Early => pc[r] \in Early \/ Current(r)
<1> USE DEF TypeInv, LoopTypes, Goto, Early
<1>1. CASE Acquire(r) \/ TokenFails(r) \/ Release(r) \/ Crash(r) \/ OperatorUnlocks(r)
  BY <1>1 DEF Acquire, TokenFails, Release, Crash, EndRun, OperatorUnlocks
<1>2. CASE ListTasks(r) \/ EndLoad(r) \/ StaleWrite(r) \/ LoadAll(r) \/ Interrupt(r)
  BY <1>2 DEF ListTasks, EndLoad, StaleWrite, LoadAll, RunRaises, Interrupt
<1>3. CASE SaveControl(r) \/ WriteLedger(r)
  <2>1. Current(r) /\ lockOwner' = lockOwner /\ pc[r] \in {"checkpoint", "closing"} /\ EndCheckpoint(r)
    BY <1>3 DEF SaveControl, WriteLedger
  <2>2. pc'[r] # "locked"
    BY <2>1 DEF EndCheckpoint, BeginCheckpoint
  <2> QED BY <2>1, <2>2
<1>4. CASE BeginLoop(r) \/ NothingPending(r) \/ Report(r) \/ DiscoverFails(r)
  BY <1>4 DEF BeginLoop, NothingPending, Report, DiscoverFails, BeginCheckpoint
<1>5. ASSUME NEW i \in Items, LoadItem(r, i) \/ SaveItem(r, i) \/ Restore(r, i)
      PROVE  lockOwner' = lockOwner /\ pc'[r] = pc[r] /\ pc[r] # "locked"
  BY <1>5 DEF LoadItem, SaveItem, Restore
<1>6. ASSUME NEW i \in Items, Pick(r, i) \/ AttemptFails(r, i) \/ Regression(r, i) \/ AttemptSucceeds(r, i)
      PROVE  lockOwner' = lockOwner /\ pc'[r] \in {"execute", "checkpoint"}
  BY <1>6 DEF Pick, AttemptFails, Regression, AttemptSucceeds, BeginCheckpoint
<1> QED BY <1>1, <1>2, <1>3, <1>4, <1>5, <1>6 DEF CommonStep, JsonStep, PostgresStep

LEMMA OwnRisk ==
  ASSUME TypeInv, TokensInv, Backend = "postgres", NEW r \in Runners,
         CommonStep(r) \/ JsonStep(r) \/ PostgresStep(r), ~AcquireToken(r), ~SessionLost(r)
  PROVE  (AtRisk(r)' => AtRisk(r)) /\ (Displaces(r)' => Displaces(r))
<1>1. /\ gen' = gen
      /\ token'[r] = token[r] \/ pc'[r] = "idle"
      /\ pc'[r] \notin {"idle", "locked"} => pc[r] \notin {"idle", "locked"}
  BY TokenMoves
<1>2. CASE pc'[r] = "idle" \/ (pc'[r] = "locked" /\ lockOwner' = r)
  BY <1>2 DEF AtRisk, Displaces, Early, Writer
<1>3. CASE /\ pc'[r] # "idle" /\ lockOwner' = lockOwner /\ pc'[r] # "locked"
           /\ pc'[r] \in Early => pc[r] \in Early \/ Current(r)
  <2>1. Current(r)' = Current(r)
    BY <1>1, <1>3 DEF Current
  <2> QED BY <1>1, <1>3, <2>1 DEF AtRisk, Displaces, Writer
<1> QED BY <1>2, <1>3, OwnMoves

\* So, but for those two steps, no more is at risk after a step than before;
\* and less, when a displaced runner makes its attempt.
LEMMA RiskFalls ==
  ASSUME TypeInv, TokensInv, WriterInv, FencedCounted, Backend = "postgres", NEW r \in Runners,
         CommonStep(r) \/ JsonStep(r) \/ PostgresStep(r), ~AcquireToken(r), ~SessionLost(r)
  PROVE  /\ IsFiniteSet(Displacing') /\ IsFiniteSet(Risking')
         /\ Risk' \in Nat /\ Risk \in Nat /\ Risk' <= Risk
         /\ AtRisk(r) /\ ~AtRisk(r)' => Risk' + 1 <= Risk
<1>1. Displacing' \subseteq Displacing /\ Risking' \subseteq Risking
  BY OthersRisk, OwnRisk DEF Displacing, Risking
<1>2. AtRisk(r) /\ ~AtRisk(r)' => r \in Risking /\ Risking' \subseteq Risking \ {r}
  BY <1>1 DEF Risking
<1>3. IsFiniteSet(Displacing) /\ IsFiniteSet(Risking)
  BY DEF FencedCounted
<1>4. /\ IsFiniteSet(Displacing') /\ Cardinality(Displacing) \in Nat /\ Cardinality(Displacing') \in Nat
      /\ Cardinality(Displacing') <= Cardinality(Displacing)
  BY <1>1, <1>3, SetChanges
<1>5. /\ IsFiniteSet(Risking') /\ Cardinality(Risking) \in Nat /\ Cardinality(Risking') \in Nat
      /\ Cardinality(Risking') <= Cardinality(Risking)
  BY <1>1, <1>3, SetChanges
<1>6. AtRisk(r) /\ ~AtRisk(r)' => Cardinality(Risking') + 1 <= Cardinality(Risking)
  BY <1>2, <1>3, SetChanges
<1> QED BY <1>4, <1>5, <1>6 DEF Risk

\* A session lost puts its owner at risk, and the token it has yet to take.
LEMMA SessionRisk ==
  ASSUME TypeInv, FencedCounted, Backend = "postgres", NEW r \in Runners, SessionLost(r)
  PROVE  /\ IsFiniteSet(Displacing') /\ IsFiniteSet(Risking')
         /\ Risk' \in Nat /\ Risk \in Nat /\ Risk' <= Risk + 2
<1>1. /\ UNCHANGED <<pc, gen, token>> /\ lockOwner = r
  BY DEF SessionLost
<1>2. \A s \in Runners : (Writer(s)' <=> Writer(s)) /\ (Current(s)' <=> Current(s))
  BY <1>1 DEF Writer, Current
<1>3. Displacing' \subseteq Displacing \cup {r} /\ Risking' \subseteq Risking \cup {r}
  BY <1>1, <1>2 DEF Displacing, Displaces, Risking, AtRisk
<1>4. IsFiniteSet(Displacing) /\ IsFiniteSet(Risking)
  BY DEF FencedCounted
<1>5. /\ IsFiniteSet(Displacing') /\ Cardinality(Displacing) \in Nat /\ Cardinality(Displacing') \in Nat
      /\ Cardinality(Displacing') <= Cardinality(Displacing) + 1
  BY <1>3, <1>4, SetChanges
<1>6. /\ IsFiniteSet(Risking') /\ Cardinality(Risking) \in Nat /\ Cardinality(Risking') \in Nat
      /\ Cardinality(Risking') <= Cardinality(Risking) + 1
  BY <1>3, <1>4, SetChanges
<1> QED BY <1>5, <1>6 DEF Risk

\* A token taken by the lock's owner displaces a writer that was at risk; one
\* taken without the lock uses up the right to displace.
LEMMA TokenRisk ==
  ASSUME TypeInv, TokensInv, WriterInv, FencedCounted, Backend = "postgres", NEW r \in Runners, AcquireToken(r)
  PROVE  /\ IsFiniteSet(Displacing') /\ IsFiniteSet(Risking')
         /\ Risk' \in Nat /\ Risk \in Nat /\ Risk' <= Risk
         /\ (\E w \in Runners : Writer(w) /\ pc[w] \in {"execute", "checkpoint"}) => Risk' + 1 <= Risk
<1>1. /\ pc[r] = "locked" /\ pc'[r] = "load" /\ token'[r] = gen' /\ gen' = gen + 1 /\ lockOwner' = lockOwner
      /\ gen \in Nat
  BY DEF AcquireToken, Goto, TypeInv, LedgerTypes, LoopTypes
<1>2. \A s \in Runners : s # r => token'[s] = token[s] /\ pc'[s] = pc[s] /\ token[s] \in Nat /\ token[s] <= gen
  BY DEF AcquireToken, Goto, TypeInv, LedgerTypes, LoopTypes, TokensInv, TokensIssued
<1>3. ASSUME NEW s \in Runners, s # r
      PROVE  /\ ~Current(s)' /\ (Displaces(s)' => Displaces(s))
             /\ AtRisk(s)' => pc[s] \notin {"execute", "checkpoint"}
             /\ AtRisk(s)' => AtRisk(s) \/ (Writer(s) /\ lockOwner = s)
  <2>1. ~Current(s)'
    BY <1>1, <1>2, <1>3 DEF Current
  <2> QED BY <1>1, <1>2, <1>3, <2>1 DEF Displaces, AtRisk, Writer, Early
<1>4. /\ Displaces(r) <=> lockOwner # r
      /\ ~Displaces(r)'
      /\ AtRisk(r)' => AtRisk(r) /\ lockOwner # r
  BY <1>1 DEF Displaces, AtRisk, Writer, Current
<1>5. IsFiniteSet(Displacing) /\ IsFiniteSet(Risking)
  BY DEF FencedCounted
<1>6. CASE lockOwner = r
  <2>1. Displacing' \subseteq Displacing /\ Risking' \subseteq Risking
    BY <1>3, <1>4, <1>6 DEF Displacing, Risking
  <2>2. /\ IsFiniteSet(Displacing') /\ Cardinality(Displacing) \in Nat /\ Cardinality(Displacing') \in Nat
        /\ Cardinality(Displacing') <= Cardinality(Displacing)
    BY <1>5, <2>1, SetChanges
  <2>3. /\ IsFiniteSet(Risking') /\ Cardinality(Risking) \in Nat /\ Cardinality(Risking') \in Nat
        /\ Cardinality(Risking') <= Cardinality(Risking)
    BY <1>5, <2>1, SetChanges
  <2>4. ASSUME NEW w \in Runners, Writer(w), pc[w] \in {"execute", "checkpoint"}
        PROVE  Cardinality(Risking') + 1 <= Cardinality(Risking)
    <3>1. w # r /\ AtRisk(w) /\ ~AtRisk(w)'
      BY <1>1, <1>3, <1>6, <2>4 DEF AtRisk
    <3>2. w \in Risking /\ Risking' \subseteq Risking \ {w}
      BY <2>1, <3>1 DEF Risking
    <3> QED BY <1>5, <3>2, SetChanges
  <2> QED BY <2>2, <2>3, <2>4 DEF Risk
<1>7. CASE lockOwner # r
  <2>1. r \in Displacing /\ Displacing' \subseteq Displacing \ {r}
    BY <1>3, <1>4, <1>7 DEF Displacing
  <2>2. Risking' \subseteq Risking \cup {lockOwner}
    BY <1>3, <1>4 DEF Risking
  <2>3. /\ IsFiniteSet(Displacing') /\ Cardinality(Displacing) \in Nat /\ Cardinality(Displacing') \in Nat
        /\ Cardinality(Displacing') + 1 <= Cardinality(Displacing)
    BY <1>5, <2>1, SetChanges
  <2>4. /\ IsFiniteSet(Risking') /\ Cardinality(Risking) \in Nat /\ Cardinality(Risking') \in Nat
        /\ Cardinality(Risking') <= Cardinality(Risking) + 1
    BY <1>5, <2>2, SetChanges
  <2>5. ASSUME NEW w \in Runners, Writer(w), pc[w] \in {"execute", "checkpoint"}
        PROVE  Cardinality(Risking') <= Cardinality(Risking)
    <3>1. ASSUME NEW s \in Runners, AtRisk(s)' PROVE AtRisk(s)
      <4>1. CASE s = r
        BY <1>4, <3>1, <4>1
      <4>2. CASE s # r
        BY <1>3, <2>5, <3>1, <4>2, OneWriter
      <4> QED BY <4>1, <4>2
    <3>2. Risking' \subseteq Risking
      BY <3>1 DEF Risking
    <3> QED BY <1>5, <3>2, SetChanges
  <2> QED BY <2>3, <2>4, <2>5 DEF Risk
<1> QED BY <1>6, <1>7

\* A step that executes and saves nothing, and leaves whoever is ahead of the
\* ledger so.
LEMMA QuietCounted ==
  ASSUME TypeInv, FencedCounted, Risk \in Nat, Risk' \in Nat, Risk' <= Risk,
         IsFiniteSet(Displacing'), IsFiniteSet(Risking'),
         UNCHANGED <<execs, lattempts>>, disruptions' = disruptions \/ disruptions' = disruptions + 1,
         \A s \in Runners : \A i \in Items : Writer(s) /\ Ahead(s, i) => (Writer(s) /\ Ahead(s, i))'
  PROVE  FencedCounted'
<1>1. ASSUME NEW i \in Items PROVE Balanced(i)' \/ Unsaved(i)'
  <2>1. execs[i] \in Nat /\ lattempts[i] \in Nat /\ disruptions \in Nat
    BY DEF TypeInv, LedgerTypes, ExecCap
  <2>2. CASE Balanced(i)
    BY <2>1, <2>2 DEF Balanced
  <2>3. CASE Unsaved(i)
    <3>1. \E s \in Runners : (Writer(s) /\ Ahead(s, i))'
      BY <2>3 DEF Unsaved
    <3>2. execs'[i] + Risk' <= lattempts'[i] + 1 + disruptions' + disruptions'
      BY <2>1, <2>3 DEF Unsaved
    <3> QED BY <3>1, <3>2 DEF Unsaved
  <2> QED BY <2>2, <2>3 DEF FencedCounted
<1>2. Risk' <= disruptions' + disruptions'
  <2>1. Risk <= disruptions + disruptions /\ disruptions \in Nat
    BY DEF FencedCounted, TypeInv, LedgerTypes
  <2> QED BY <2>1
<1> QED BY <1>1, <1>2 DEF FencedCounted

\* The lease, the token and the steps of the loop that attempt and save nothing.
LEMMA LeaseCounted ==
  ASSUME TypeInv, TokensInv, WriterInv, FencedCounted, Backend = "postgres", NEW r \in Runners,
         \/ Acquire(r) \/ AcquireToken(r) \/ TokenFails(r) \/ SessionLost(r) \/ Release(r) \/ Crash(r)
         \/ Interrupt(r) \/ StaleWrite(r) \/ ListTasks(r) \/ EndLoad(r) \/ BeginLoop(r) \/ NothingPending(r)
         \/ DiscoverFails(r) \/ SaveControl(r) \/ Report(r)
  PROVE  FencedCounted'
<1>t. /\ disruptions \in Nat /\ \A i \in Items : execs[i] \in Nat /\ lattempts[i] \in Nat
  BY DEF TypeInv, LedgerTypes, ExecCap
<1>s. CommonStep(r) \/ JsonStep(r) \/ PostgresStep(r)
  BY DEF CommonStep, PostgresStep
<1>1. CASE Crash(r) \/ Interrupt(r)
  <2>1. ~AcquireToken(r) /\ ~SessionLost(r) /\ disruptions' = disruptions + 1 /\ UNCHANGED <<execs, lattempts>>
    <3>1. disruptions' = disruptions + 1 /\ UNCHANGED <<execs, lattempts>> /\ pc'[r] \in {"idle", "release"} /\ pc[r] # pc'[r]
      BY <1>1 DEF Crash, Interrupt, RunRaises, EndRun, Goto, ledger, TypeInv, LoopTypes
    <3> QED BY <1>t, <3>1 DEF AcquireToken, SessionLost
  <2>2. /\ IsFiniteSet(Displacing') /\ IsFiniteSet(Risking')
        /\ Risk' \in Nat /\ Risk \in Nat /\ Risk' <= Risk
    BY <1>s, <2>1, RiskFalls
  <2>3. ASSUME NEW i \in Items PROVE Balanced(i)'
    BY <1>t, <2>1, <2>2 DEF FencedCounted, Balanced, Unsaved
  <2>4. Risk' <= disruptions' + disruptions'
    BY <1>t, <2>1, <2>2 DEF FencedCounted
  <2> QED BY <2>2, <2>3, <2>4 DEF FencedCounted
<1>2. CASE SessionLost(r)
  <2>1. /\ disruptions' = disruptions + 1 /\ UNCHANGED <<execs, lattempts, lstate, iattempts, istate, pc, todo, gen, token>>
    BY <1>2 DEF SessionLost, ledger, local
  <2>2. /\ IsFiniteSet(Displacing') /\ IsFiniteSet(Risking')
        /\ Risk' \in Nat /\ Risk \in Nat /\ Risk' <= Risk + 2
    BY <1>2, SessionRisk
  <2>3. ASSUME NEW i \in Items PROVE Balanced(i)' \/ Unsaved(i)'
    <3>1. CASE Balanced(i)
      BY <1>t, <2>1, <2>2, <3>1 DEF Balanced
    <3>2. CASE Unsaved(i)
      <4>1. \E s \in Runners : (Writer(s) /\ Ahead(s, i))'
        BY <2>1, <3>2 DEF Unsaved, Writer, Current, Ahead
      <4>2. execs'[i] + Risk' <= lattempts'[i] + 1 + disruptions' + disruptions'
        BY <1>t, <2>1, <2>2, <3>2 DEF Unsaved
      <4> QED BY <4>1, <4>2 DEF Unsaved
    <3> QED BY <3>1, <3>2 DEF FencedCounted
  <2>4. Risk' <= disruptions' + disruptions'
    BY <1>t, <2>1, <2>2 DEF FencedCounted
  <2> QED BY <2>2, <2>3, <2>4 DEF FencedCounted
<1>3. CASE AcquireToken(r)
  <2>1. UNCHANGED <<execs, lattempts, disruptions>>
    BY <1>3 DEF AcquireToken, ledger
  <2>2. /\ IsFiniteSet(Displacing') /\ IsFiniteSet(Risking')
        /\ Risk' \in Nat /\ Risk \in Nat /\ Risk' <= Risk
        /\ (\E w \in Runners : Writer(w) /\ pc[w] \in {"execute", "checkpoint"}) => Risk' + 1 <= Risk
    BY <1>3, TokenRisk
  <2>3. ASSUME NEW i \in Items PROVE Balanced(i)'
    <3>1. CASE Balanced(i)
      BY <1>t, <2>1, <2>2, <3>1 DEF Balanced
    <3>2. CASE Unsaved(i)
      <4>1. Risk' + 1 <= Risk
        BY <2>2, <3>2 DEF Unsaved, Ahead
      <4> QED BY <1>t, <2>1, <2>2, <3>2, <4>1 DEF Balanced, Unsaved
    <3> QED BY <3>1, <3>2 DEF FencedCounted
  <2>4. Risk' <= disruptions' + disruptions'
    BY <1>t, <2>1, <2>2 DEF FencedCounted
  <2> QED BY <2>2, <2>3, <2>4 DEF FencedCounted
<1>4. ASSUME \/ Acquire(r) \/ TokenFails(r) \/ Release(r) \/ StaleWrite(r) \/ ListTasks(r) \/ EndLoad(r)
             \/ BeginLoop(r) \/ NothingPending(r) \/ DiscoverFails(r) \/ SaveControl(r) \/ Report(r),
             ~AcquireToken(r), ~SessionLost(r)
      PROVE  FencedCounted'
  <2>1. /\ IsFiniteSet(Displacing') /\ IsFiniteSet(Risking')
        /\ Risk' \in Nat /\ Risk \in Nat /\ Risk' <= Risk
    BY <1>s, <1>4, RiskFalls
  <2>2. UNCHANGED <<execs, lattempts>> /\ (disruptions' = disruptions \/ disruptions' = disruptions + 1)
    BY <1>4 DEF Acquire, TokenFails, Release, StaleWrite, ListTasks, EndLoad, BeginLoop, NothingPending,
                DiscoverFails, SaveControl, Report, ledger
  <2>3. ASSUME NEW i \in Items PROVE ~(Writer(r) /\ Ahead(r, i))
    BY <1>4 DEF Acquire, TokenFails, Release, StaleWrite, ListTasks, EndLoad, BeginLoop, NothingPending,
                DiscoverFails, SaveControl, Report, Writer, Ahead
  <2>4. \A s \in Runners : \A i \in Items : Writer(s) /\ Ahead(s, i) => (Writer(s) /\ Ahead(s, i))'
    BY <1>s, <1>4, <2>3, OthersRisk
  <2> QED BY <2>1, <2>2, <2>4, QuietCounted
<1> QED BY <1>1, <1>2, <1>3, <1>4

\* What is spent was at risk: the sum stays.
LEMMA OneForOne ==
  ASSUME NEW e \in Nat, NEW f \in Nat, NEW k \in Nat, NEW m \in Nat, NEW b \in Nat,
         f <= e + 1, m + 1 <= k, e + k <= b
  PROVE  f + m <= b
OBVIOUS

\* Attempts: the writer's is saved later, a displaced runner's is one of those
\* that were at risk.
LEMMA PickCounted ==
  ASSUME TypeInv, TokensInv, WriterInv, FencedCounted, Backend = "postgres", NEW r \in Runners, NEW i \in Items,
         Pick(r, i)
  PROVE  FencedCounted'
<1>s. (CommonStep(r) \/ JsonStep(r) \/ PostgresStep(r)) /\ ~AcquireToken(r) /\ ~SessionLost(r)
  <2>1. pc[r] = "discover" /\ lockOwner' = lockOwner
    BY DEF Pick
  <2> QED BY <2>1 DEF CommonStep, AcquireToken, SessionLost
<1>t. /\ disruptions \in Nat
      /\ \A j \in Items : execs[j] \in Nat /\ execs'[j] \in Nat /\ lattempts[j] \in Nat
  BY DEF TypeInv, LedgerTypes, ExecCap, Pick
<1>1. /\ pc[r] = "discover" /\ istate[r][i] = "PENDING" /\ UNCHANGED <<lstate, lattempts, disruptions, gen, token>>
      /\ pc'[r] = "execute" /\ istate'[r][i] = "RUNNING" /\ iattempts'[r][i] = iattempts[r][i] + 1
      /\ execs'[i] <= execs[i] + 1 /\ \A j \in Items : j # i => execs'[j] = execs[j]
  BY DEF Pick, Goto, Pending, ledger, TypeInv, LedgerTypes, LoopTypes, CopyTypes, ExecCap
<1>2. /\ IsFiniteSet(Displacing') /\ IsFiniteSet(Risking')
      /\ Risk' \in Nat /\ Risk \in Nat /\ Risk' <= Risk
      /\ AtRisk(r) /\ ~AtRisk(r)' => Risk' + 1 <= Risk
  BY <1>s, RiskFalls
<1>r. Risk' <= disruptions' + disruptions'
  BY <1>t, <1>1, <1>2 DEF FencedCounted
<1>3. CASE Writer(r)
  <2>1. ASSUME NEW j \in Items PROVE Balanced(j)
    BY <1>1, <1>3, OneWriter DEF FencedCounted, Unsaved, Ahead
  <2>2. InSync(r, i)
    BY <1>1, <1>3 DEF WriterInv, Own, InStep, Ahead, Active
  <2>3. Writer(r)' /\ Ahead(r, i)'
    BY <1>1, <1>3, <2>2 DEF Ahead, InSync, Writer, Current
  <2>4. ASSUME NEW j \in Items PROVE Balanced(j)' \/ Unsaved(j)'
    <3>1. CASE j = i
      <4>1. execs[i] + Risk <= lattempts[i] + disruptions + disruptions
        BY <2>1 DEF Balanced
      <4>2. execs'[i] + Risk' <= lattempts'[i] + 1 + disruptions' + disruptions'
        BY <1>t, <1>1, <1>2, <4>1
      <4> QED BY <2>3, <3>1, <4>2 DEF Unsaved
    <3>2. CASE j # i
      BY <1>t, <1>1, <1>2, <2>1, <3>2 DEF Balanced
    <3> QED BY <3>1, <3>2
  <2> QED BY <1>2, <1>r, <2>4 DEF FencedCounted
<1>4. CASE ~Writer(r)
  <2>1. ~Current(r) /\ ~Current(r)'
    BY <1>1, <1>4 DEF Writer, Current
  <2>2. AtRisk(r) /\ ~AtRisk(r)'
    BY <1>1, <2>1 DEF AtRisk, Early, Writer
  <2>3. Risk' \in Nat /\ Risk \in Nat /\ Risk' + 1 <= Risk
    BY <1>2, <2>2
  <2>4. \A s \in Runners : \A j \in Items : Writer(s) /\ Ahead(s, j) => (Writer(s) /\ Ahead(s, j))'
    BY <1>s, <1>4, OthersRisk
  <2>5. ASSUME NEW j \in Items PROVE Balanced(j)' \/ Unsaved(j)'
    <3>0. /\ execs[j] \in Nat /\ execs'[j] \in Nat /\ execs'[j] <= execs[j] + 1
          /\ lattempts[j] \in Nat /\ lattempts'[j] = lattempts[j]
          /\ disruptions \in Nat /\ disruptions' = disruptions
      BY <1>t, <1>1
    <3>1. CASE Balanced(j)
      <4>1. execs[j] + Risk <= lattempts[j] + disruptions + disruptions
        BY <3>1 DEF Balanced
      <4>2. PICK b \in Nat : b = lattempts[j] + disruptions + disruptions
        BY <3>0
      <4>3. execs[j] + Risk <= b
        BY <4>1, <4>2
      <4>4. execs'[j] + Risk' <= b
        BY <2>3, <3>0, <4>3, OneForOne
      <4> QED BY <3>0, <4>2, <4>4 DEF Balanced
    <3>2. CASE Unsaved(j)
      <4>1. \E s \in Runners : (Writer(s) /\ Ahead(s, j))'
        BY <2>4, <3>2 DEF Unsaved
      <4>2. execs[j] + Risk <= lattempts[j] + 1 + disruptions + disruptions
        BY <3>2 DEF Unsaved
      <4>3. PICK b \in Nat : b = lattempts[j] + 1 + disruptions + disruptions
        BY <3>0
      <4>4. execs[j] + Risk <= b
        BY <4>2, <4>3
      <4>5. execs'[j] + Risk' <= b
        BY <2>3, <3>0, <4>4, OneForOne
      <4> QED BY <3>0, <4>1, <4>3, <4>5 DEF Unsaved
    <3> QED BY <3>1, <3>2 DEF FencedCounted
  <2> QED BY <1>2, <1>r, <2>5 DEF FencedCounted
<1> QED BY <1>3, <1>4

\* The outcome of an attempt changes nothing yet.
LEMMA AttemptCounted ==
  ASSUME TypeInv, TokensInv, WriterInv, FencedCounted, Backend = "postgres", NEW r \in Runners, NEW i \in Items,
         AttemptFails(r, i) \/ Regression(r, i) \/ AttemptSucceeds(r, i)
  PROVE  FencedCounted'
<1>1. /\ pc[r] = "execute" /\ istate[r][i] = "RUNNING" /\ pc'[r] = "checkpoint"
      /\ UNCHANGED <<lstate, lattempts, execs, iattempts, disruptions, gen, token, lockOwner>>
      /\ istate'[r][i] \in {"PENDING", "BLOCKED", "SUCCEEDED"} /\ i \in todo'[r]
  BY DEF AttemptFails, Regression, AttemptSucceeds, BeginCheckpoint, Known, Goto, ledger, TypeInv, LoopTypes, CopyTypes
<1>s. (CommonStep(r) \/ JsonStep(r) \/ PostgresStep(r)) /\ ~AcquireToken(r) /\ ~SessionLost(r)
  BY <1>1 DEF CommonStep, AcquireToken, SessionLost
<1>2. /\ IsFiniteSet(Displacing') /\ IsFiniteSet(Risking')
      /\ Risk' \in Nat /\ Risk \in Nat /\ Risk' <= Risk
  BY <1>s, RiskFalls
<1>3. ASSUME NEW j \in Items, Writer(r), Ahead(r, j) PROVE (Writer(r) /\ Ahead(r, j))'
  <2>1. j = i
    BY <1>1, <1>3 DEF Ahead, WriterInv, Own, OwnCopies
  <2> QED BY <1>1, <1>3, <2>1 DEF Ahead, Writer, Current
<1>4. \A s \in Runners : \A j \in Items : Writer(s) /\ Ahead(s, j) => (Writer(s) /\ Ahead(s, j))'
  BY <1>s, <1>3, OthersRisk
<1> QED BY <1>1, <1>2, <1>4, QuietCounted

\* A record that enters the copy, with what was counted before it was reset.
LEMMA RestoreCounted ==
  ASSUME TypeInv, TokensInv, WriterInv, FencedCounted, Backend = "postgres", NEW r \in Runners, NEW i \in Items,
         LoadItem(r, i) \/ Restore(r, i)
  PROVE  FencedCounted'
<1>1. /\ pc[r] \in {"loading", "seed", "discover"} /\ Writer(r) /\ lattempts'[i] = RestoredAttempts(i)
      /\ UNCHANGED <<pc, disruptions, lockOwner>>
      /\ \A j \in Items : j # i => lattempts'[j] = lattempts[j] /\ execs'[j] = execs[j]
      /\ execs'[i] = IF lstate[i] = "BLOCKED" /\ RetryBlocked THEN 0 ELSE execs[i]
      /\ lstate[i] = "NONE" \/ Resumable(i)
  <2>1. CASE LoadItem(r, i)
    <3>1. Resumable(i)
      BY <2>1 DEF LoadItem, WriterInv, Own, InStep, Writer
    <3> QED BY <2>1, <3>1 DEF LoadItem, Recount, Writer, TypeInv, LedgerTypes
  <2>2. CASE Restore(r, i)
    BY <2>2 DEF Restore, Recount, Writer, TypeInv, LedgerTypes
  <2> QED BY <2>1, <2>2
<1>s. (CommonStep(r) \/ JsonStep(r) \/ PostgresStep(r)) /\ ~AcquireToken(r) /\ ~SessionLost(r)
  BY <1>1 DEF CommonStep, PostgresStep, AcquireToken, SessionLost
<1>2. /\ IsFiniteSet(Displacing') /\ IsFiniteSet(Risking')
      /\ Risk' \in Nat /\ Risk \in Nat /\ Risk' <= Risk
  BY <1>s, RiskFalls
<1>3. ASSUME NEW j \in Items PROVE Balanced(j)
  BY <1>1, OneWriter DEF FencedCounted, Unsaved, Ahead
<1>4. Risk <= disruptions + disruptions /\ disruptions' = disruptions /\ disruptions \in Nat
  BY <1>1 DEF FencedCounted, TypeInv, LedgerTypes
<1>5. ASSUME NEW j \in Items PROVE Balanced(j)'
  <2>0. /\ execs[j] \in Nat /\ lattempts[j] \in Nat /\ disruptions \in Nat
    BY DEF TypeInv, LedgerTypes, ExecCap
  <2>1. execs[j] + Risk <= lattempts[j] + disruptions + disruptions
    BY <1>3 DEF Balanced
  <2>2. CASE j # i
    BY <1>1, <1>2, <2>0, <2>1, <2>2 DEF Balanced
  <2>3. CASE j = i
    <3>1. \/ execs'[i] = execs[i] /\ lattempts'[i] = lattempts[i]
          \/ execs'[i] = 0 /\ lattempts'[i] = 0
      BY <1>1 DEF Resumable, RestoredAttempts, WriterInv, BlankRecords
    <3>2. execs'[i] + Risk' <= lattempts'[i] + disruptions' + disruptions'
      BY <1>1, <1>2, <1>4, <2>0, <2>1, <2>3, <3>1
    <3> QED BY <2>3, <3>2 DEF Balanced
  <2> QED BY <2>2, <2>3
<1> QED BY <1>2, <1>5, <1>4 DEF FencedCounted

\* A saved item has in its record what its writer counted.
LEMMA SaveCounted ==
  ASSUME TypeInv, TokensInv, WriterInv, FencedCounted, Backend = "postgres", NEW r \in Runners, NEW i \in Items,
         SaveItem(r, i)
  PROVE  FencedCounted'
<1>1. /\ pc[r] \in Saving /\ Writer(r) /\ i \in todo[r] /\ todo'[r] = todo[r] \ {i}
      /\ UNCHANGED <<pc, disruptions, lockOwner, execs, istate, iattempts, gen, token>>
      /\ \A j \in Items : j # i => lattempts'[j] = lattempts[j] /\ lstate'[j] = lstate[j]
      /\ lattempts'[i] = ItemAttempts(r, i) /\ lattempts' \in [Items -> Nat]
  BY DEF SaveItem, Saving, Writer, local, TypeInv, LedgerTypes, CopyTypes, LoopTypes, ItemAttempts
<1>s. (CommonStep(r) \/ JsonStep(r) \/ PostgresStep(r)) /\ ~AcquireToken(r) /\ ~SessionLost(r)
  BY <1>1 DEF PostgresStep, AcquireToken, SessionLost, Saving
<1>2. /\ IsFiniteSet(Displacing') /\ IsFiniteSet(Risking')
      /\ Risk' \in Nat /\ Risk \in Nat /\ Risk' <= Risk
  BY <1>s, RiskFalls
<1>3. Risk' <= disruptions' + disruptions'
  <2>1. Risk <= disruptions + disruptions /\ disruptions \in Nat
    BY DEF FencedCounted, TypeInv, LedgerTypes
  <2> QED BY <1>1, <1>2, <2>1
<1>4. lattempts'[i] = iattempts[r][i] /\ (InSync(r, i) \/ Ahead(r, i))
  BY <1>1 DEF WriterInv, Own, OwnCopies, InStep, Active, Saving, ItemAttempts
<1>5. ASSUME NEW j \in Items PROVE Balanced(j)' \/ Unsaved(j)'
  <2>0. /\ execs[j] \in Nat /\ lattempts[j] \in Nat /\ disruptions \in Nat
    BY DEF TypeInv, LedgerTypes, ExecCap
  <2>1. CASE j # i
    <3>1. CASE Balanced(j)
      BY <1>1, <1>2, <2>0, <2>1, <3>1 DEF Balanced
    <3>2. CASE Unsaved(j)
      <4>1. Writer(r) /\ Ahead(r, j)
        BY <1>1, <3>2, OneWriter DEF Unsaved
      <4>2. (Writer(r) /\ Ahead(r, j))'
        BY <1>1, <2>1, <4>1 DEF Writer, Current, Ahead
      <4>3. execs'[j] + Risk' <= lattempts'[j] + 1 + disruptions' + disruptions'
        BY <1>1, <1>2, <2>0, <2>1, <3>2 DEF Unsaved
      <4> QED BY <4>2, <4>3 DEF Unsaved
    <3> QED BY <3>1, <3>2 DEF FencedCounted
  <2>2. CASE j = i
    <3>1. CASE Balanced(i)
      <4>1. lattempts[i] <= lattempts'[i] /\ lattempts'[i] \in Nat
        BY <1>1, <1>4, <2>0, <2>2 DEF InSync, Ahead
      <4>2. execs[i] + Risk <= lattempts[i] + disruptions + disruptions
        BY <3>1 DEF Balanced
      <4>3. execs'[i] + Risk' <= lattempts'[i] + disruptions' + disruptions'
        BY <1>1, <1>2, <2>0, <2>2, <4>1, <4>2
      <4> QED BY <2>2, <4>3 DEF Balanced
    <3>2. CASE Unsaved(i)
      <4>1. Ahead(r, i)
        BY <1>1, <3>2, OneWriter DEF Unsaved
      <4>2. lattempts'[i] = lattempts[i] + 1
        BY <1>4, <4>1 DEF Ahead
      <4>3. execs[i] + Risk <= lattempts[i] + 1 + disruptions + disruptions
        BY <3>2 DEF Unsaved
      <4>4. execs'[i] + Risk' <= lattempts'[i] + disruptions' + disruptions'
        BY <1>1, <1>2, <2>0, <2>2, <4>2, <4>3
      <4> QED BY <2>2, <4>4 DEF Balanced
    <3> QED BY <2>2, <3>1, <3>2 DEF FencedCounted
  <2> QED BY <2>1, <2>2
<1> QED BY <1>2, <1>3, <1>5 DEF FencedCounted

LEMMA FencedStep ==
  ASSUME TypeInv, TokensInv, WriterInv, FencedCounted, Backend = "postgres", [Next]_vars
  PROVE  FencedCounted'
<1>1. CASE UNCHANGED vars
  <2>1. /\ UNCHANGED <<pc, token, gen, lockOwner, lstate, lattempts, istate, iattempts, todo, execs, disruptions>>
    BY <1>1 DEF vars, ledger, local
  <2>2. Displacing' = Displacing /\ Risking' = Risking
    BY <2>1 DEF Displacing, Displaces, Risking, AtRisk, Writer, Current
  <2>3. \A i \in Items : (Balanced(i) => Balanced(i)') /\ (Unsaved(i) => Unsaved(i)')
    BY <2>1, <2>2 DEF Balanced, Unsaved, Risk, Writer, Current, Ahead
  <2> QED BY <2>1, <2>2, <2>3 DEF FencedCounted, Risk
<1>2. ASSUME NEW r \in Runners, CommonStep(r) PROVE FencedCounted'
  BY <1>2, LeaseCounted, PickCounted, AttemptCounted, RestoreCounted DEF CommonStep
<1>3. ASSUME NEW r \in Runners, PostgresStep(r) PROVE FencedCounted'
  BY <1>3, LeaseCounted, RestoreCounted, SaveCounted DEF PostgresStep
<1>4. ASSUME NEW r \in Runners, JsonStep(r) PROVE FALSE
  BY <1>4 DEF JsonStep, LoadAll, WriteLedger, OperatorUnlocks
<1> QED BY <1>1, <1>2, <1>3, <1>4 DEF Next

\* Over the advisory lock, where a session may be lost under a live runner,
\* each disruption lets two executions of an item at most go uncounted.
\* (ContinuousUpgradeLoop.run, acquire_token, save_task)
THEOREM FencedAttemptsBounded == Backend = "postgres" /\ ~ReusePipeline => (Spec => []AttemptsBounded)
<1> SUFFICES ASSUME Backend = "postgres", ~ReusePipeline PROVE Spec => []AttemptsBounded
  OBVIOUS
<1>1. Init => FencedCounted
  <2> SUFFICES ASSUME Init PROVE FencedCounted
    OBVIOUS
  <2>1. Displacing = {} /\ Risking = {}
    BY DEF Init, Displacing, Displaces, Risking, AtRisk, Early, Writer
  <2>2. IsFiniteSet(Displacing) /\ IsFiniteSet(Risking) /\ Risk = 0
    BY <2>1, FS_EmptySet DEF Risk
  <2> QED BY <2>2 DEF Init, FencedCounted, Balanced
<1>2. TypeInv /\ TokensInv /\ WriterInv /\ FencedCounted /\ [Next]_vars => FencedCounted'
  BY FencedStep
<1>3. TypeInv /\ FencedCounted => AttemptsBounded
  <2> SUFFICES ASSUME TypeInv, FencedCounted, NEW i \in Items
               PROVE  execs[i] <= MaxAttempts + 2 * disruptions
    BY DEF AttemptsBounded, LostPerDisruption
  <2>1. /\ execs[i] \in Nat /\ lattempts[i] \in 0..MaxAttempts /\ disruptions \in Nat
        /\ \A r \in Runners : iattempts[r][i] \in 0..MaxAttempts
    BY DEF TypeInv, LedgerTypes, CopyTypes, ExecCap
  <2>2. Risk \in Nat
    <3>1. Cardinality(Displacing) \in Nat /\ Cardinality(Risking) \in Nat
      BY FS_CardinalityType DEF FencedCounted
    <3> QED BY <3>1 DEF Risk
  <2>3. execs[i] <= MaxAttempts + disruptions + disruptions
    BY <2>1, <2>2 DEF FencedCounted, Balanced, Unsaved, Ahead
  <2> QED BY <2>1, <2>3
<1> QED BY <1>1, <1>2, <1>3, UpgradeTypeInv, FenceTokens, WriterInvariant, PTL DEF Spec

\* So it is over either ledger.
THEOREM AttemptsAreBounded == ~ReusePipeline => (Spec => []AttemptsBounded)
BY JsonAttemptsBounded, FencedAttemptsBounded
=============================================================================
