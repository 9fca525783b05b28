--------------------------- MODULE OrderLifecycle ---------------------------
(***************************************************************************)
(* The kitchen's state machine of one order: the statuses an order can     *)
(* have, the moves the kitchen may make, and the statuses that block the   *)
(* settlement of a table.                                                  *)
(***************************************************************************)

\* The values of the status column of an order.
OrderStatus == {"NEW", "ACCEPTED", "PREPARING", "READY", "SERVED", "CANCELLED"}

\* Fault: what need not be cooked is ready at once.
TransitionsWithSkip ==
    [s \in OrderStatus |->
        CASE s = "NEW"       -> {"ACCEPTED", "CANCELLED"}
          [] s = "ACCEPTED"  -> {"PREPARING", "READY", "CANCELLED"}
          [] s = "PREPARING" -> {"READY"}
          [] s = "READY"     -> {"SERVED"}
          [] OTHER           -> {}]

\* For each status, the statuses the kitchen may move the order to.
AllowedTransitions ==
    [s \in OrderStatus |->
        CASE s = "NEW"       -> {"ACCEPTED", "CANCELLED"}
          [] s = "ACCEPTED"  -> {"PREPARING", "CANCELLED"}
          [] s = "PREPARING" -> {"READY"}
          [] s = "READY"     -> {"SERVED"}
          [] OTHER           -> {}]

\* Fault: an order waiting at the pass does not count.
UnresolvedButReady == {"NEW", "ACCEPTED", "PREPARING"}

\* The statuses with which an order keeps its table from being settled.
UnresolvedStatuses == {"NEW", "ACCEPTED", "PREPARING", "READY"}

=============================================================================
