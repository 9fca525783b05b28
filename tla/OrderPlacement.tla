--------------------------- MODULE OrderPlacement ---------------------------
(***************************************************************************)
(* What the cart and the checkout of one dining session promise, without   *)
(* requests, transactions or locks: items are put into a basket, placing   *)
(* an order moves everything in the basket into one new order, and after   *)
(* the table is closed nothing is ordered any more.                        *)
(***************************************************************************)
CONSTANTS Line, Order

VARIABLES
    open,     \* whether orders can still be placed
    added,    \* every line ever put into the basket
    basket,   \* the lines in the basket now
    placed    \* the lines of each order; {} while it is not placed

vars == <<open, added, basket, placed>>

Init ==
    /\ open = TRUE
    /\ added = {}
    /\ basket = {}
    /\ placed = [o \in Order |-> {}]

\* A line put into the basket of a closed table stays there for good.
Add(l) ==
    /\ l \notin added
    /\ added' = added \cup {l}
    /\ basket' = basket \cup {l}
    /\ UNCHANGED <<open, placed>>

Place(o) ==
    /\ open
    /\ basket # {}
    /\ placed[o] = {}
    /\ placed' = [placed EXCEPT ![o] = basket]
    /\ basket' = {}
    /\ UNCHANGED <<open, added>>

Close ==
    /\ open' = FALSE
    /\ UNCHANGED <<added, basket, placed>>

Next ==
    \/ \E l \in Line : Add(l)
    \/ \E o \in Order : Place(o)
    \/ Close

Spec == Init /\ [][Next]_vars

=============================================================================
