------------------------- MODULE NotificationLedger -------------------------
(***************************************************************************)
(* What the notifications of one session promise its guest, without        *)
(* requests, transactions or a unique constraint: orders move on stage by  *)
(* stage, a status is only told after the order got it, and not again      *)
(* unless an attempt was in trouble; the ledger says SENT only of what was *)
(* told and FAILED only of what was in trouble.                            *)
(***************************************************************************)
EXTENDS OrderLifecycle, Naturals

CONSTANTS Order, Status   \* the orders, and the statuses that are told

VARIABLES
    reached,   \* the statuses each order has had
    told,      \* how often each status of an order was told, 2 = more than once
    trouble,   \* the notifications some attempt of which failed or died
    ledger     \* what is recorded of each notification

vars == <<reached, told, trouble, ledger>>

Notification == Order \X Status

Init ==
    /\ reached = [o \in Order |-> {"NEW"}]
    /\ told = [n \in Notification |-> 0]
    /\ trouble = {}
    /\ ledger = [n \in Notification |-> "none"]

\* An order gets a status that can follow one it has had, not always the last
\* one: moves are checked against statuses that may be stale.
Move(o, s) ==
    /\ \E u \in reached[o] : s \in AllowedTransitions[u]
    /\ reached' = [reached EXCEPT ![o] = @ \cup {s}]
    /\ UNCHANGED <<told, trouble, ledger>>

\* The guest is told, and it may be that nobody learns of it.
Tell(n) ==
    /\ n[2] \in reached[n[1]]
    /\ told[n] = 0 \/ n \in trouble
    /\ told' = [told EXCEPT ![n] = IF @ < 2 THEN @ + 1 ELSE @]
    /\ trouble' \in {trouble, trouble \cup {n}}
    /\ UNCHANGED <<reached, ledger>>

\* An attempt fails or dies; its move has not always been made.
Fail(n) ==
    /\ trouble' = trouble \cup {n}
    /\ UNCHANGED <<reached, told, ledger>>

\* What is known to have reached the guest is not put in doubt again.
Note(n) ==
    /\ \/ told[n] > 0 /\ ledger' = [ledger EXCEPT ![n] = "SENT"]
       \/ n \in trouble /\ ledger[n] # "SENT" /\ ledger' = [ledger EXCEPT ![n] = "FAILED"]
    /\ UNCHANGED <<reached, told, trouble>>

Next ==
    \/ \E o \in Order, s \in Status : Move(o, s)
    \/ \E n \in Notification : Tell(n) \/ Fail(n) \/ Note(n)

Spec == Init /\ [][Next]_vars

=============================================================================
