---------------------------- MODULE AtLeastOnce ----------------------------
(***************************************************************************)
(* What an outbox promises, with no processor, batch or lock in sight: a   *)
(* posted message is handed over any number of times while it is pending,  *)
(* is settled at most once, as DELIVERED only if it has been handed over,  *)
(* and is given up when its failures are as many as allowed.  Outbox       *)
(* implements it.                                                          *)
(***************************************************************************)
EXTENDS Naturals

CONSTANTS Messages, MaxAttempts

VARIABLES
  status, failures,   \* of each message
  deliveries          \* times it has been handed over

Init == /\ status = [m \in Messages |-> "ABSENT"]
        /\ failures = [m \in Messages |-> 0]
        /\ deliveries = [m \in Messages |-> 0]

Post(m) ==
  /\ status[m] = "ABSENT"
  /\ status' = [status EXCEPT ![m] = "PENDING"]
  /\ UNCHANGED <<failures, deliveries>>

HandOver(m) ==
  /\ status[m] = "PENDING"
  /\ deliveries' = [deliveries EXCEPT ![m] = @ + 1]
  /\ UNCHANGED <<status, failures>>

\* Some messages are recorded as delivered, others as failed once more, all
\* of them pending until now.
Settle(D, F) ==
  /\ \A m \in D : status[m] = "PENDING" /\ deliveries[m] > 0
  /\ \A m \in F : status[m] = "PENDING" /\ failures[m] < MaxAttempts
  /\ failures' = [m \in Messages |-> IF m \in F THEN failures[m] + 1 ELSE failures[m]]
  /\ status' = [m \in Messages |->
       CASE m \in D -> "DELIVERED"
         [] m \in F -> IF failures[m] + 1 = MaxAttempts THEN "DEAD" ELSE "PENDING"
         [] OTHER -> status[m]]
  /\ UNCHANGED deliveries

Next ==
  \/ \E m \in Messages : Post(m) \/ HandOver(m)
  \/ \E D \in SUBSET Messages : \E F \in SUBSET (Messages \ D) : Settle(D, F)

Spec == Init /\ [][Next]_<<status, failures, deliveries>>
=============================================================================
