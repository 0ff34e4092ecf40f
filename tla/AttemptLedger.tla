--------------------------- MODULE AttemptLedger ---------------------------
(***************************************************************************)
(* What an upgrade ledger promises, with no runner, lease, fence or copy   *)
(* in sight: it counts attempts.  Items are registered, each record of an  *)
(* outcome counts one attempt of one pending item, success is for ever,    *)
(* and only blocked items are started over, on request.  UpgradePipeline   *)
(* implements it with either ledger.                                       *)
(***************************************************************************)
EXTENDS Naturals

CONSTANTS Items, MaxAttempts, RetryBlocked

VARIABLES state, attempts

Init == /\ state = [i \in Items |-> "NONE"]
        /\ attempts = [i \in Items |-> 0]

\* What a step may do with item i.
Becomes(i, s, n) == state'[i] = s /\ attempts'[i] = n
Stays(i) == Becomes(i, state[i], attempts[i])

Registered(i) == state[i] = "NONE" /\ Becomes(i, "PENDING", 0)
Reopened(i) == RetryBlocked /\ state[i] = "BLOCKED" /\ Becomes(i, "PENDING", 0)

\* One more attempt: a success, a failure that leaves another one, or the end.
Counted(i) ==
  /\ state[i] = "PENDING" /\ attempts[i] < MaxAttempts
  /\ \E s \in {"SUCCEEDED", "PENDING", "BLOCKED"} : Becomes(i, s, attempts[i] + 1)
  /\ state'[i] = "PENDING" => attempts[i] + 1 < MaxAttempts

\* An item reopened in the run that had blocked it is blocked again.
Reblocked(i) == RetryBlocked /\ state[i] = "PENDING" /\ Becomes(i, "BLOCKED", attempts[i])

\* Work is taken up: new items, and blocked ones on request.
TakeUp == \A i \in Items : Stays(i) \/ Registered(i) \/ Reopened(i)

\* A checkpoint: the attempt of at most one item.
Checkpoint ==
  \E i \in Items : /\ Counted(i) \/ Reblocked(i)
                   /\ \A j \in Items \ {i} : Stays(j) \/ Reblocked(j)

Next == TakeUp \/ Checkpoint

Spec == Init /\ [][Next]_<<state, attempts>>
=============================================================================
