---------------------------- MODULE TableService ----------------------------
(***************************************************************************)
(* What the service promises to a table when its requests come one after   *)
(* the other: every request that changes anything is a single action.      *)
(* DiningSession implements this specification as long as no two requests  *)
(* are in flight at a time, and fails to when they overlap; the difference *)
(* is what its races are.                                                  *)
(***************************************************************************)
EXTENDS OrderLifecycle, Naturals

CONSTANTS Line, Order, Bill

VARIABLES session, cart, inserted, order, bill

vars == <<session, cart, inserted, order, bill>>

Init ==
    /\ session = "ACTIVE"
    /\ cart = [status |-> "ACTIVE", lines |-> {}]
    /\ inserted = {}
    /\ order = [o \in Order |-> [status |-> "none", lines |-> {}]]
    /\ bill = [b \in Bill |-> [status |-> "none", items |-> {}, charged |-> {}, stamps |-> 0]]

\* The table is taken until its bill is settled.  A session may expire while
\* its last request runs.
Taken == cart.status = "ACTIVE"

ServedOrders == {o \in Order : order[o].status = "SERVED"}

Unpaid == {b \in Bill : bill[b].status = "OPEN"}

AddItem ==
    /\ Taken
    /\ \E l \in Line \ inserted :
           /\ cart' = [cart EXCEPT !.lines = @ \cup {l}]
           /\ inserted' = inserted \cup {l}
    /\ UNCHANGED <<session, order, bill>>

PlaceOrder ==
    /\ Taken
    /\ cart.lines # {}
    /\ \E o \in Order :
           /\ order[o].status = "none"
           /\ order' = [order EXCEPT ![o] = [status |-> "NEW", lines |-> cart.lines]]
    /\ cart' = [cart EXCEPT !.lines = {}]
    /\ UNCHANGED <<session, inserted, bill>>

MoveOrder ==
    /\ \E o \in Order :
           /\ order[o].status # "none"
           /\ \E s \in AllowedTransitions[order[o].status] :
                  order' = [order EXCEPT ![o].status = s]
    /\ UNCHANGED <<session, cart, inserted, bill>>

\* The bill lists exactly the orders served so far and charges for them.
ProduceBill ==
    /\ Taken
    /\ ServedOrders # {}
    /\ \E b \in Bill :
           /\ IF Unpaid = {} THEN bill[b].status = "none" ELSE b \in Unpaid
           /\ bill' = [bill EXCEPT ![b] = [status |-> "OPEN", items |-> ServedOrders,
                                           charged |-> ServedOrders, stamps |-> 0]]
    /\ UNCHANGED <<session, cart, inserted, order>>

CloseTable ==
    /\ Taken
    /\ \A o \in Order : order[o].status \notin UnresolvedStatuses
    /\ \E b \in Unpaid :
           bill' = [bill EXCEPT ![b].status = "SETTLED", ![b].stamps = 1]
    /\ session' = "CLOSED"
    /\ cart' = [cart EXCEPT !.status = "ARCHIVED"]
    /\ UNCHANGED <<inserted, order>>

Expire ==
    /\ session = "ACTIVE"
    /\ session' = "EXPIRED"
    /\ UNCHANGED <<cart, inserted, order, bill>>

Next == AddItem \/ PlaceOrder \/ MoveOrder \/ ProduceBill \/ CloseTable \/ Expire

Spec == Init /\ [][Next]_vars

=============================================================================
