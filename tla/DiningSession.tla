--------------------------- MODULE DiningSession ----------------------------
(***************************************************************************)
(* One dining session: its cart, the orders placed from it, the kitchen    *)
(* moving them along, and the bill that closes the session.                *)
(*                                                                         *)
(* A request (HTTP, or an inbound WhatsApp message) is one database        *)
(* transaction at READ COMMITTED, modelled statement by statement.  A      *)
(* statement sees what is committed; what a request has read, written and  *)
(* locked stays in its record tx[r] until it commits.  A row lock or an    *)
(* undecided unique-index entry is not a variable of its own: the request  *)
(* whose control location lies behind the locking statement holds it.  A   *)
(* statement that may have to wait for a lock is a step of its own when    *)
(* the request holds another lock by then, and the one after which it      *)
(* waits for nothing more is one action with the commit.                   *)
(*                                                                         *)
(* A request turned down by its first statement takes no step; one turned  *)
(* down later goes back to "idle" having changed nothing.                  *)
(***************************************************************************)
EXTENDS OrderLifecycle, Naturals

CONSTANTS
    Diner,    \* slots for the requests of the table's guests
    Kitchen,  \* slots for the requests of the kitchen display
    Cashier,  \* slots for the requests that settle a bill
    Line,     \* cart_items rows that are ever inserted (bounds the adds)
    Order,    \* orders that are ever placed (bounds the checkouts)
    Bill,     \* bills that are ever created
    None      \* neither an order nor a bill

\* Orders are numbered by created_at.
ASSUME OrderAssumption == Order \subseteq Nat

ASSUME NoneAssumption == None \notin Order \cup Bill

Request == Diner \cup Kitchen \cup Cashier

VARIABLES
    session,   \* status of the customer_sessions row
    overdue,   \* whether its expires_at has passed
    cart,      \* the carts row with its cart_items
    inserted,  \* the cart_items rows inserted so far: no id is used twice
    order,     \* the orders rows with their order_items
    bill,      \* the bills rows with their bill_items
    tx,        \* what each request in flight has read, written and locked
    overtaken  \* history: a bill was settled past a request that was about
               \* to look for an OPEN bill or to create one

vars == <<session, overdue, cart, inserted, order, bill, tx, overtaken>>

-----------------------------------------------------------------------------
(***************************************************************************)
(* Rows.  The items of an order go on a bill together, so bill_items are   *)
(* recorded as the set of their orders.  A total is recorded as the set of *)
(* orders it was summed over: it is right when these are the orders listed.*)
(***************************************************************************)

SessionStatus == {"ACTIVE", "EXPIRED", "CLOSED"}

CartRow  == [status : {"ACTIVE", "ARCHIVED"}, lines : SUBSET Line]
OrderRow == [status : OrderStatus \cup {"none"}, lines : SUBSET Line]
BillRow  == [status : {"none", "OPEN", "SETTLED"},
             items : SUBSET Order, charged : SUBSET Order,
             stamps : Nat]   \* how many times settled_at was written

\* A row that has not been inserted.
NoOrder == [status |-> "none", lines |-> {}]
NoBill  == [status |-> "none", items |-> {}, charged |-> {}, stamps |-> 0]

Placed   == {o \in Order : order[o].status # "none"}

\* Fault: the status of the bill is not looked at.
AnyBill  == {b \in Bill : bill[b].status # "none"}
OpenBill == {b \in Bill : bill[b].status = "OPEN"}

\* Fault: whatever is not cancelled goes on the bill.
NotCancelled == {o \in Placed : order[o].status # "CANCELLED"}

\* The orders a bill is made of.
Billable == {o \in Order : order[o].status = "SERVED"}

\* The table was closed: its bill is settled.  The status of the session does
\* not tell, a lookup that began earlier may write EXPIRED over CLOSED.
Closed == \E b \in Bill : bill[b].status = "SETTLED"

\* Where a request stands, named for what it has done last.
Location == {
    "idle",
    "lookup:overdue",
    "add:validated", "add:cart read",
    "checkout:validated", "checkout:locked",
    "kitchen:read",
    "bill:validated", "bill:orders read", "bill:none open",
    "bill:open found", "bill:items added", "bill:summed",
    "settle:bill read", "settle:orders checked",
    "settle:session written", "settle:bill written"}

Tx == [pc      : Location,
       session : SessionStatus,             \* the session as settle_bill read it
       lines   : SUBSET Line,               \* the lines being checked out
       order   : Order \cup {None},         \* the order the kitchen moves
       status  : OrderStatus \cup {"none"}, \* the status it moves it to
       bill    : Bill \cup {None},          \* the bill synced or settled
       served  : SUBSET Order,              \* the orders to put on a bill
       added   : SUBSET Order,              \* those whose items are inserted
       charged : SUBSET Order]              \* the orders in its new total

Idle == [pc |-> "idle", session |-> "ACTIVE", lines |-> {}, order |-> None,
         status |-> "none", bill |-> None, served |-> {}, added |-> {}, charged |-> {}]

TypeOK ==
    /\ session \in SessionStatus
    /\ overdue \in BOOLEAN
    /\ cart \in CartRow
    /\ inserted \subseteq Line
    /\ order \in [Order -> OrderRow]
    /\ bill \in [Bill -> BillRow]
    /\ tx \in [Request -> Tx]
    /\ overtaken \in BOOLEAN

\* A session has just been opened, and its first request has created the cart
\* (CartItems models that request).
Init ==
    /\ session = "ACTIVE"
    /\ overdue = FALSE
    /\ cart = [status |-> "ACTIVE", lines |-> {}]
    /\ inserted = {}
    /\ order = [o \in Order |-> NoOrder]
    /\ bill = [b \in Bill |-> NoBill]
    /\ tx = [r \in Request |-> Idle]
    /\ overtaken = FALSE

-----------------------------------------------------------------------------
At(r, pc) == tx[r].pc = pc

Become(r, t) == tx' = [tx EXCEPT ![r] = t]

Go(r, pc) == Become(r, [tx[r] EXCEPT !.pc = pc])

\* Commit or roll back: the request is over and holds no lock.
End(r) == Become(r, Idle)

SessionUnchanged == UNCHANGED <<session, overdue>>

RowsUnchanged == SessionUnchanged /\ UNCHANGED <<cart, inserted, order, bill, overtaken>>

\* CustomerSession.is_currently_active.
CurrentlyActive == session = "ACTIVE" /\ ~overdue

\* is_currently_active, asked first by every request of the guests.
Validate(r, pc) ==
    /\ At(r, "idle")
    /\ CurrentlyActive
    /\ Go(r, pc)
    /\ RowsUnchanged

-----------------------------------------------------------------------------
(***************************************************************************)
(* Locks: what a request holds, and what its next statement waits for.     *)
(***************************************************************************)

\* Fault: the cart is read without FOR UPDATE.
NoLock(q) == FALSE

\* The FOR UPDATE lock of a checkout.  It excludes another checkout, an insert
\* of a cart item (which takes a share lock on the cart's key) and the update
\* that archives the cart.
HoldsCart(q) == At(q, "checkout:locked")

WantsCart(r) == tx[r].pc \in {"add:cart read", "checkout:validated", "settle:bill written"}

\* settle_bill updates the session, the bill and the cart in one flush: the
\* row that the others refer to comes first, and is skipped when it was read
\* with the status it is to get.
WritesSession(r) == tx[r].session # "CLOSED"

HoldsSession(q) ==
    tx[q].pc \in {"settle:session written", "settle:bill written"} /\ WritesSession(q)

\* Fault: a checkout that has locked the cart locks the session as well, to
\* look at its status again.
SessionAfterCart(r) ==
    \/ tx[r].pc \in {"lookup:overdue", "checkout:locked"}
    \/ At(r, "settle:orders checked") /\ WritesSession(r)

WantsSession(r) ==
    \/ At(r, "lookup:overdue")
    \/ At(r, "settle:orders checked") /\ WritesSession(r)

HoldsBill(q, b) == At(q, "settle:bill written") /\ tx[q].bill = b

WantsBill(r) == tx[r].pc \in {"settle:session written", "bill:summed"}

\* Items of order o are inserted on bill b, but not committed.
HoldsItems(q, b, o) ==
    /\ tx[q].pc \in {"bill:open found", "bill:items added", "bill:summed"}
    /\ tx[q].bill = b
    /\ o \in tx[q].added

\* Orders are listed, and their items inserted, newest first.
NextItems(r) ==
    LET rest == tx[r].served \ tx[r].added
    IN  {o \in rest : \A p \in rest : p <= o}

\* The next statement of r waits until q is over.
WaitsFor(r, q) ==
    /\ q # r
    /\ \/ WantsCart(r) /\ HoldsCart(q)
       \/ WantsSession(r) /\ HoldsSession(q)
       \/ WantsBill(r) /\ HoldsBill(q, tx[r].bill)
       \/ At(r, "bill:open found") /\ \E o \in NextItems(r) : HoldsItems(q, tx[r].bill, o)

Granted(r) == \A q \in Request : ~WaitsFor(r, q)

-----------------------------------------------------------------------------
(* add_item, for a menu item that is not in the cart yet *)

AddValidate(r) == Validate(r, "add:validated")

\* With the cart archived get_or_create_active_cart inserts a second cart
\* for the session, which the unique key refuses.
AddReadCart(r) ==
    /\ At(r, "add:validated")
    /\ IF cart.status = "ACTIVE" THEN Go(r, "add:cart read") ELSE End(r)
    /\ RowsUnchanged

AddCommit(r) ==
    /\ At(r, "add:cart read")
    /\ Granted(r)
    /\ \E l \in Line \ inserted :
           /\ cart' = [cart EXCEPT !.lines = @ \cup {l}]
           /\ inserted' = inserted \cup {l}
    /\ End(r)
    /\ SessionUnchanged
    /\ UNCHANGED <<order, bill, overtaken>>

AddItem(r) == AddValidate(r) \/ AddReadCart(r) \/ AddCommit(r)

-----------------------------------------------------------------------------
(* checkout_cart *)

\* Fault: an archived cart can be checked out.
AnyCart == cart.lines # {}

\* Fault: an empty cart can be checked out.
EmptyCart == cart.status = "ACTIVE"

\* What the locking read returns: the session's ACTIVE cart, not empty.
CartToCheckOut == cart.status = "ACTIVE" /\ cart.lines # {}

CheckoutValidate(r) == Validate(r, "checkout:validated")

\* The locking read sees the cart as the previous lock holder left it.
CheckoutLock(r) ==
    /\ At(r, "checkout:validated")
    /\ Granted(r)
    /\ IF CartToCheckOut
       THEN Become(r, [tx[r] EXCEPT !.pc = "checkout:locked", !.lines = cart.lines])
       ELSE End(r)
    /\ RowsUnchanged

\* Insert the order and its items, delete the cart items that were read.
CheckoutCommit(r) ==
    /\ At(r, "checkout:locked")
    /\ \E o \in Order \ Placed :
           order' = [order EXCEPT ![o] = [status |-> "NEW", lines |-> tx[r].lines]]
    /\ cart' = [cart EXCEPT !.lines = @ \ tx[r].lines]
    /\ End(r)
    /\ SessionUnchanged
    /\ UNCHANGED <<inserted, bill, overtaken>>

Checkout(r) == CheckoutValidate(r) \/ CheckoutLock(r) \/ CheckoutCommit(r)

-----------------------------------------------------------------------------
(* transition_order_status *)

\* The order is read without a lock and the move is checked against it.
KitchenRead(r) ==
    /\ At(r, "idle")
    /\ \E o \in Placed : \E s \in AllowedTransitions[order[o].status] :
           Become(r, [tx[r] EXCEPT !.pc = "kitchen:read", !.order = o, !.status = s])
    /\ RowsUnchanged

\* UPDATE orders SET status WHERE id: whatever the status is by now.
KitchenCommit(r) ==
    /\ At(r, "kitchen:read")
    /\ order' = [order EXCEPT ![tx[r].order].status = tx[r].status]
    /\ End(r)
    /\ SessionUnchanged
    /\ UNCHANGED <<cart, inserted, bill, overtaken>>

Transition(r) == KitchenRead(r) \/ KitchenCommit(r)

-----------------------------------------------------------------------------
(* generate_or_get_bill *)

BillValidate(r) == Validate(r, "bill:validated")

BillReadOrders(r) ==
    /\ At(r, "bill:validated")
    /\ Become(r, [tx[r] EXCEPT !.pc = "bill:orders read", !.served = Billable])
    /\ RowsUnchanged

\* With an OPEN bill, only the served orders it lacks are of interest.
BillFindOpen(r) ==
    /\ At(r, "bill:orders read")
    /\ \/ /\ OpenBill = {}
          /\ IF tx[r].served = {} THEN End(r) ELSE Go(r, "bill:none open")
       \/ \E b \in OpenBill :
              LET missing == tx[r].served \ bill[b].items
              IN  IF missing = {}
                  THEN End(r)
                  ELSE Become(r, [tx[r] EXCEPT !.pc = "bill:open found",
                                                !.bill = b, !.served = missing,
                                                !.added = {}])
    /\ RowsUnchanged

\* Fault: the partial unique index is missing.
NeverRefused == FALSE

\* uq_bill_session_open refuses a second OPEN bill of the session.
OpenBillRefused == OpenBill # {}

\* When the insert is refused the request rolls back and returns the OPEN
\* bill that another request has committed in the meantime.
BillCreate(r) ==
    /\ At(r, "bill:none open")
    /\ IF OpenBillRefused
       THEN UNCHANGED bill
       ELSE \E b \in Bill :
                /\ bill[b].status = "none"
                /\ bill' = [bill EXCEPT ![b] = [NoBill EXCEPT
                                !.status = "OPEN",
                                !.items = tx[r].served,
                                !.charged = tx[r].served]]
    /\ End(r)
    /\ SessionUnchanged
    /\ UNCHANGED <<cart, inserted, order, overtaken>>

\* The items are inserted order by order; an insert waits for an undecided
\* one of the same items and fails on uq_bill_item_order_item when they turn
\* out to be there.
BillAddItems(r) ==
    /\ At(r, "bill:open found")
    /\ Granted(r)
    /\ \E o \in NextItems(r) :
           IF o \in bill[tx[r].bill].items
           THEN End(r)
           ELSE LET added == tx[r].added \cup {o}
                IN  Become(r, [tx[r] EXCEPT
                        !.pc = IF added = tx[r].served THEN "bill:items added" ELSE @,
                        !.added = added])
    /\ RowsUnchanged

\* Fault: the total is not computed again.
StaleTotal(r) == bill[tx[r].bill].charged

\* The orders whose items the bill has when it is read back.
NewTotal(r) == bill[tx[r].bill].items \cup tx[r].served

\* The bill is read back and its total computed from the items it has now.
BillSum(r) ==
    /\ At(r, "bill:items added")
    /\ Become(r, [tx[r] EXCEPT !.pc = "bill:summed", !.charged = NewTotal(r)])
    /\ RowsUnchanged

\* The new total is written, whatever the status of the bill is by now.
BillSync(r) ==
    /\ At(r, "bill:summed")
    /\ Granted(r)
    /\ bill' = [bill EXCEPT ![tx[r].bill].items = @ \cup tx[r].served,
                            ![tx[r].bill].charged = tx[r].charged]
    /\ End(r)
    /\ SessionUnchanged
    /\ UNCHANGED <<cart, inserted, order, overtaken>>

GenerateBill(r) ==
    \/ BillValidate(r) \/ BillReadOrders(r) \/ BillFindOpen(r) \/ BillCreate(r)
    \/ BillAddItems(r) \/ BillSum(r) \/ BillSync(r)

-----------------------------------------------------------------------------
(* settle_bill: asks neither for an active session nor for a fresh bill *)

SettleReadBill(r) ==
    /\ At(r, "idle")
    /\ \E b \in OpenBill :
           Become(r, [tx[r] EXCEPT !.pc = "settle:bill read", !.bill = b])
    /\ RowsUnchanged

SettleCheckOrders(r) ==
    /\ At(r, "settle:bill read")
    /\ IF \E o \in Order : order[o].status \in UnresolvedStatuses
       THEN End(r)
       ELSE Become(r, [tx[r] EXCEPT !.pc = "settle:orders checked", !.session = session])
    /\ RowsUnchanged

\* The flush: the session, then the bill, then the cart.
SettleWriteSession(r) ==
    /\ At(r, "settle:orders checked")
    /\ Granted(r)
    /\ Go(r, "settle:session written")
    /\ RowsUnchanged

SettleWriteBill(r) ==
    /\ At(r, "settle:session written")
    /\ Granted(r)
    /\ Go(r, "settle:bill written")
    /\ RowsUnchanged

\* Fault: the session stays as it is.
KeepSession == session

\* Fault: the session gets the status of the bill.
BillStatusOnSession == "SETTLED"

\* The status settle_bill gives to the session.
SettledSession == "CLOSED"

\* The requests that will create a bill unless they find an OPEN one.
LooksForBill(q) == tx[q].pc \in {"bill:validated", "bill:orders read", "bill:none open"}

\* Archiving the cart waits for a checkout that has locked it.
SettleCommit(r) ==
    /\ At(r, "settle:bill written")
    /\ Granted(r)
    /\ session' = IF WritesSession(r) THEN SettledSession ELSE session
    /\ cart' = [cart EXCEPT !.status = "ARCHIVED"]
    /\ bill' = [bill EXCEPT ![tx[r].bill].status = "SETTLED",
                            ![tx[r].bill].stamps = @ + 1]
    /\ overtaken' = (overtaken \/ \E q \in Request : LooksForBill(q))
    /\ End(r)
    /\ UNCHANGED <<overdue, inserted, order>>

Settle(r) ==
    \/ SettleReadBill(r) \/ SettleCheckOrders(r) \/ SettleWriteSession(r)
    \/ SettleWriteBill(r) \/ SettleCommit(r)

-----------------------------------------------------------------------------
\* A request ends without effect: an item has become unavailable, the
\* connection is lost, the process dies.  The database rolls back.
Abort(r) == ~At(r, "idle") /\ End(r) /\ RowsUnchanged

-----------------------------------------------------------------------------
(* How a session ends without a bill *)

TimePasses ==
    /\ ~overdue
    /\ overdue' = TRUE
    /\ UNCHANGED <<session, cart, inserted, order, bill, tx, overtaken>>

\* get_active_session_for_customer reads an ACTIVE session that is overdue ...
LookupRead(r) ==
    /\ At(r, "idle")
    /\ session = "ACTIVE" /\ overdue
    /\ Go(r, "lookup:overdue")
    /\ RowsUnchanged

\* ... and writes EXPIRED by primary key, whatever the status is by now.
LookupExpire(r) ==
    /\ At(r, "lookup:overdue")
    /\ Granted(r)
    /\ session' = "EXPIRED"
    /\ End(r)
    /\ UNCHANGED <<overdue, cart, inserted, order, bill, overtaken>>

Lookup(r) == LookupRead(r) \/ LookupExpire(r)

\* The guest sits down at another table: UPDATE ... WHERE status = 'ACTIVE'.
Retire ==
    /\ session = "ACTIVE"
    /\ \A q \in Request : ~HoldsSession(q)
    /\ session' = "EXPIRED"
    /\ UNCHANGED <<overdue, cart, inserted, order, bill, tx, overtaken>>

GuestStep(r) == AddItem(r) \/ Checkout(r) \/ GenerateBill(r) \/ Lookup(r)

Next ==
    \/ TimePasses
    \/ Retire
    \/ \E r \in Diner : GuestStep(r)
    \/ \E r \in Kitchen : Transition(r)
    \/ \E r \in Cashier : Settle(r)
    \/ \E r \in Request : Abort(r)

Spec == Init /\ [][Next]_vars

-----------------------------------------------------------------------------
(***************************************************************************)
(* Properties that hold however requests interleave.                       *)
(***************************************************************************)

\* A session never has two OPEN bills, although two requests may both find
\* none and both create one (BillingService.generate_or_get_bill).
OneOpenBill == \A b, c \in OpenBill : b = c

\* Every cart item that was accepted is in the cart or in exactly one order:
\* concurrent checkouts neither order it twice nor lose it (checkout_cart).
LinesConserved ==
    /\ inserted = cart.lines \cup UNION {order[o].lines : o \in Order}
    /\ \A o \in Order : order[o].lines \cap cart.lines = {}
    /\ \A o, p \in Order : o # p => order[o].lines \cap order[p].lines = {}

\* No order is empty: the loser of a race of two checkouts of one cart is
\* told that the cart is empty (checkout_cart).
NoEmptyOrder == \A o \in Placed : order[o].lines # {}

\* Once the bill is settled nobody gets an order in any more, not even a
\* checkout that had found the session active (checkout_cart against
\* settle_bill).
NoOrderAfterClose == [][Closed => Placed' = Placed]_vars

\* No order is on two bills, before or after the table is closed, unless a
\* bill was settled past a request that was about to create one
\* (generate_or_get_bill against settle_bill).
BilledOnceUnlessOvertaken ==
    ~overtaken => \A b, c \in Bill : b # c => bill[b].items \cap bill[c].items = {}

\* No requests wait for one another in a circle, although settle_bill waits
\* for the bill and the cart with the session in hand and generate_or_get_bill
\* inserts its items one by one (settle_bill, generate_or_get_bill,
\* checkout_cart, add_item, get_active_session_for_customer).
NoCircularWait ==
    \A S \in SUBSET Request : S # {} => \E r \in S : \A q \in S : ~WaitsFor(r, q)

(***************************************************************************)
(* Properties that hold when the kitchen's requests do not overlap.        *)
(***************************************************************************)

\* Every order on a bill was served: nobody pays for what is still being
\* prepared or was cancelled (generate_or_get_bill).
BilledOrdersServed ==
    \A b \in Bill : bill[b].items \subseteq {o \in Order : order[o].status = "SERVED"}

\* The total of a bill is the sum of its items, also when two requests sync
\* it at the same time (generate_or_get_bill).
TotalMatchesItems == \A b \in Bill : bill[b].charged = bill[b].items

(***************************************************************************)
(* Properties that hold when no two requests overlap.                      *)
(***************************************************************************)

\* The table is not closed while the kitchen still works on an order
\* (settle_bill).
ClosedMeansResolved ==
    Closed => \A o \in Placed : order[o].status \in {"SERVED", "CANCELLED"}

\* A settled bill is never touched again: nothing is added to it and it is
\* not settled a second time (settle_bill, generate_or_get_bill).
SettledBillFrozen ==
    [][\A b \in Bill : bill[b].status = "SETTLED" => bill'[b] = bill[b]]_vars

(***************************************************************************)
(* Properties the code does not have: the first one when two settlements   *)
(* overlap, the second one even when no two requests do.                   *)
(***************************************************************************)

\* Of two requests to settle a bill the second is turned away (settle_bill).
SettledOnce == \A b \in Bill : bill[b].stamps <= 1

\* Every order that was served before the table was closed is on a bill
\* (settle_bill).
ServedIsBilled ==
    Closed =>
        \A o \in Order : order[o].status = "SERVED" => \E b \in Bill : o \in bill[b].items

(***************************************************************************)
(* The inductive invariant behind the properties that hold however         *)
(* requests interleave.                                                    *)
(***************************************************************************)

\* A checkout that has locked the cart is alone, and what it has read is
\* what the cart still holds.
CartFree(r) == \A q \in Request \ {r} : ~HoldsCart(q)

LockInv ==
    \A r \in Request : At(r, "checkout:locked") =>
        /\ CartFree(r)
        /\ cart.status = "ACTIVE"
        /\ tx[r].lines = cart.lines
        /\ cart.lines # {}

\* A row that is not there has no items.
AbsentInv ==
    /\ \A o \in Order \ Placed : order[o].lines = {}
    /\ \A b \in Bill : bill[b].status = "none" => bill[b].items = {}

\* A request in flight refers to rows that are there.
Target(r) ==
    /\ At(r, "kitchen:read") => tx[r].order \in Placed /\ tx[r].status \in OrderStatus
    /\ tx[r].pc \in {"bill:open found", "bill:items added", "bill:summed",
                     "settle:bill read", "settle:orders checked",
                     "settle:session written", "settle:bill written"}
           => tx[r].bill \in Bill /\ bill[tx[r].bill].status # "none"

TargetInv == \A r \in Request : Target(r)

\* Settling archives the cart for good, no session is revived, and none is
\* read or found CLOSED before the table is.
ClosedInv ==
    /\ Closed <=> cart.status = "ARCHIVED"
    /\ Closed => session # "ACTIVE"
    /\ session = "CLOSED" => Closed
    /\ \A r \in Request : tx[r].session = "CLOSED" => Closed

\* A request inserts the items of newer orders before those of older ones.
InsertInv ==
    \A r \in Request : At(r, "bill:open found") =>
        \A a \in tx[r].added, m \in tx[r].served \ tx[r].added : m < a

\* Unless a settlement overtook a bill request there is one bill at most, and
\* nobody is about to create another one once it is settled.
OneBillInv ==
    ~overtaken =>
        /\ \A b, c \in AnyBill : b = c
        /\ Closed => \A r \in Request : ~LooksForBill(r)

\* Everything the interleavings preserve, strong enough to be inductive
\* (all handlers of this module).
Inv ==
    /\ TypeOK
    /\ LockInv
    /\ AbsentInv
    /\ TargetInv
    /\ ClosedInv
    /\ InsertInv
    /\ OneBillInv
    /\ LinesConserved
    /\ NoEmptyOrder
    /\ OneOpenBill

(***************************************************************************)
(* The specifications that DiningSession implements.                       *)
(***************************************************************************)
Placement == INSTANCE OrderPlacement WITH
    open   <- cart.status = "ACTIVE",
    added  <- inserted,
    basket <- cart.lines,
    placed <- [o \in Order |-> order[o].lines]

\* However requests interleave, a checkout takes effect as one action that
\* turns the whole cart into one order (add_item, checkout_cart, settle_bill).
ImplementsPlacement == Placement!Spec

Service == INSTANCE TableService

\* Requests that do not overlap take effect as single actions, each with
\* all its checks true at once (every handler of this module).
ImplementsService == Service!Spec

=============================================================================
