----------------------------- MODULE CartItems -----------------------------
(***************************************************************************)
(* The quantities in the cart of one session: several requests of the same *)
(* guest (or of the guests sharing the session) add, set, remove, clear    *)
(* and check out at the same time.                                         *)
(*                                                                         *)
(* As in DiningSession a request is a READ COMMITTED transaction whose     *)
(* last writes are one action with its commit.  Here the rows have an      *)
(* identity and a quantity: an update or delete is by primary key, writes  *)
(* the quantity computed from the one that was read, and finds no row when *)
(* the row has been deleted meanwhile, even if the item is in the cart     *)
(* again.                                                                  *)
(***************************************************************************)
EXTENDS Naturals

CONSTANTS
    Guest,      \* slots for the requests of the session
    Item,       \* menu items
    None,       \* not a menu item
    Adding,     \* the quantities a request may add
    Setting,    \* the quantities a request may set
    MaxUnits,   \* how many units of an item are ever asked for (bound)
    MaxSoldOut  \* how often items become unavailable (bound)

ASSUME CartAssumption ==
    /\ None \notin Item
    /\ Adding \subseteq Nat \ {0}
    /\ Setting \subseteq Nat \ {0}
    /\ MaxUnits \in Nat
    /\ MaxSoldOut \in Nat

VARIABLES
    cart,      \* the carts row of the session
    row,       \* the cart_items row of each menu item
    off,       \* the menu items that are unavailable, or whose category is inactive
    tx,        \* what each request in flight has read
    asked,     \* history: units of each item that accepted requests asked for
    taken,     \* history: units that accepted requests took out again
    ordered,   \* history: units in the orders placed
    stale,     \* history: items of which a request used a quantity changed since it read it
    soldOut,   \* history: how often an item became unavailable
    late       \* history: how many orders were placed with an unavailable item

vars == <<cart, row, off, tx, asked, taken, ordered, stale, soldOut, late>>

MenuVars == <<off, soldOut>>

\* A row that is not there has quantity 0 and the id of its predecessor.
Row == [id : Nat, quantity : Nat]

Location == {"idle", "no cart", "cart inserted", "add", "update", "remove",
             "clear", "locked"}

Tx == [pc   : Location,
       item : Item \cup {None},
       n    : Nat,                  \* the quantity to add or to set
       seen : [Item -> Row]]        \* the rows as they were read

NoRow == [id |-> 0, quantity |-> 0]

Idle == [pc |-> "idle", item |-> None, n |-> 0, seen |-> [m \in Item |-> NoRow]]

TypeOK ==
    /\ cart \in {"none", "ACTIVE"}
    /\ row \in [Item -> Row]
    /\ off \subseteq Item
    /\ tx \in [Guest -> Tx]
    /\ asked \in [Item -> Nat]
    /\ taken \in [Item -> Nat]
    /\ ordered \in [Item -> Nat]
    /\ stale \subseteq Item
    /\ soldOut \in 0..MaxSoldOut
    /\ late \in Nat

\* A session has just been opened; its cart is created when it is needed.
Init ==
    /\ cart = "none"
    /\ row = [m \in Item |-> NoRow]
    /\ off = {}
    /\ tx = [r \in Guest |-> Idle]
    /\ asked = [m \in Item |-> 0]
    /\ taken = [m \in Item |-> 0]
    /\ ordered = [m \in Item |-> 0]
    /\ stale = {}
    /\ soldOut = 0
    /\ late = 0

-----------------------------------------------------------------------------
At(r, pc) == tx[r].pc = pc

Become(r, t) == tx' = [tx EXCEPT ![r] = t]

End(r) == Become(r, Idle)

RowsUnchanged == UNCHANGED <<cart, row, asked, taken, ordered, stale, late, MenuVars>>

\* The request remembers the row of one item only.
SeenOf(m) == [k \in Item |-> IF k = m THEN row[k] ELSE NoRow]

Seen(r) == tx[r].seen[tx[r].item]

\* Fault: the row is looked up by cart and menu item again.
AliveByItem(s, m) == s.quantity > 0

\* The row that was read is still there.
Alive(s, m) == s.quantity > 0 /\ row[m].quantity > 0 /\ row[m].id = s.id

\* The items r has read whose row is another one now, or has another quantity.
Changed(r) == {m \in Item : tx[r].seen[m].quantity > 0 /\ row[m] # tx[r].seen[m]}

\* The FOR UPDATE lock of a checkout on the cart excludes other checkouts
\* and inserts of cart items, not updates and deletes of those that exist.
CartFree(r) == \A q \in Guest \ {r} : ~At(q, "locked")

-----------------------------------------------------------------------------
(* get_or_create_active_cart, for add_item, get_cart and clear_cart *)

\* The cart is not there yet; n = 0 when there is nothing to add.
FindNoCart(r) ==
    /\ At(r, "idle")
    /\ cart = "none"
    /\ \/ Become(r, [Idle EXCEPT !.pc = "no cart"])
       \/ \E m \in Item \ off, n \in Adding :
              /\ asked[m] + n <= MaxUnits
              /\ Become(r, [Idle EXCEPT !.pc = "no cart", !.item = m, !.n = n])
    /\ RowsUnchanged

\* The insert waits for another one that is undecided and fails on
\* uq_cart_customer_session when the cart is there.
InsertCart(r) ==
    /\ At(r, "no cart")
    /\ \A q \in Guest \ {r} : ~At(q, "cart inserted")
    /\ IF cart = "none" THEN Become(r, [tx[r] EXCEPT !.pc = "cart inserted"]) ELSE End(r)
    /\ RowsUnchanged

\* Fault: the default of the status column is not the one that is looked for.
OtherStatus == "OPEN"

NewCartStatus == "ACTIVE"

CommitCart(r) ==
    /\ At(r, "cart inserted")
    /\ cart' = NewCartStatus
    /\ IF tx[r].n = 0
       THEN UNCHANGED <<row, asked>>
       ELSE /\ row' = [row EXCEPT ![tx[r].item] = [id |-> @.id + 1, quantity |-> tx[r].n]]
            /\ asked' = [asked EXCEPT ![tx[r].item] = @ + tx[r].n]
    /\ End(r)
    /\ UNCHANGED <<taken, ordered, stale, late, MenuVars>>

-----------------------------------------------------------------------------
(* add_item, of a menu item that is available: add_or_increment *)

AddRead(r) ==
    /\ At(r, "idle")
    /\ cart = "ACTIVE"
    /\ \E m \in Item \ off, n \in Adding :
           /\ asked[m] + n <= MaxUnits
           /\ Become(r, [pc |-> "add", item |-> m, n |-> n, seen |-> SeenOf(m)])
    /\ RowsUnchanged

\* There was no row: insert one.  It fails on uq_cart_item_cart_menu_item
\* when another request has inserted one meanwhile.
AddInsert(r) ==
    /\ At(r, "add")
    /\ Seen(r).quantity = 0
    /\ CartFree(r)
    /\ LET m == tx[r].item
       IN  IF row[m].quantity > 0
           THEN UNCHANGED <<row, asked>>
           ELSE /\ row' = [row EXCEPT ![m] = [id |-> @.id + 1, quantity |-> tx[r].n]]
                /\ asked' = [asked EXCEPT ![m] = @ + tx[r].n]
    /\ End(r)
    /\ UNCHANGED <<cart, taken, ordered, stale, late, MenuVars>>

\* There was a row: write the quantity read plus the one to add.  The
\* request fails when the row is gone.
AddIncrement(r) ==
    /\ At(r, "add")
    /\ Seen(r).quantity > 0
    /\ LET m == tx[r].item
       IN  IF Alive(Seen(r), m)
           THEN /\ row' = [row EXCEPT ![m].quantity = Seen(r).quantity + tx[r].n]
                /\ asked' = [asked EXCEPT ![m] = @ + tx[r].n]
                /\ stale' = stale \cup Changed(r)
           ELSE UNCHANGED <<row, asked, stale>>
    /\ End(r)
    /\ UNCHANGED <<cart, taken, ordered, late, MenuVars>>

-----------------------------------------------------------------------------
(* update_item_quantity, remove_item, clear_cart *)

UpdateRead(r) ==
    /\ At(r, "idle")
    /\ \E m \in Item, n \in Setting :
           /\ row[m].quantity > 0
           /\ asked[m] + n <= MaxUnits
           /\ Become(r, [pc |-> "update", item |-> m, n |-> n, seen |-> SeenOf(m)])
    /\ RowsUnchanged

Minus(a, b) == IF a > b THEN a - b ELSE 0

\* Setting the quantity that was read writes nothing.
UpdateCommit(r) ==
    /\ At(r, "update")
    /\ LET m == tx[r].item
           old == Seen(r).quantity
           new == tx[r].n
       IN  IF new # old /\ Alive(Seen(r), m)
           THEN /\ row' = [row EXCEPT ![m].quantity = new]
                /\ asked' = [asked EXCEPT ![m] = @ + Minus(new, old)]
                /\ taken' = [taken EXCEPT ![m] = @ + Minus(old, new)]
                /\ stale' = stale \cup Changed(r)
           ELSE UNCHANGED <<row, asked, taken, stale>>
    /\ End(r)
    /\ UNCHANGED <<cart, ordered, late, MenuVars>>

RemoveRead(r) ==
    /\ At(r, "idle")
    /\ \E m \in Item :
           /\ row[m].quantity > 0
           /\ Become(r, [pc |-> "remove", item |-> m, n |-> 0, seen |-> SeenOf(m)])
    /\ RowsUnchanged

ClearRead(r) ==
    /\ At(r, "idle")
    /\ \E m \in Item : row[m].quantity > 0
    /\ Become(r, [Idle EXCEPT !.pc = "clear", !.seen = row])
    /\ RowsUnchanged

\* The rows read are deleted; one that is gone already is only warned about.
DeleteSeen(r) ==
    row' = [m \in Item |-> IF Alive(tx[r].seen[m], m) THEN [row[m] EXCEPT !.quantity = 0]
                                                        ELSE row[m]]

Gone(m) == Minus(row[m].quantity, row'[m].quantity)

DeleteCommit(r) ==
    /\ tx[r].pc \in {"remove", "clear"}
    /\ DeleteSeen(r)
    /\ taken' = [m \in Item |-> taken[m] + Gone(m)]
    /\ End(r)
    /\ UNCHANGED <<cart, asked, ordered, stale, late, MenuVars>>

-----------------------------------------------------------------------------
(* checkout_cart *)

InCart == {m \in Item : row[m].quantity > 0}

\* Fault: only an empty cart is refused.
NotEmpty == InCart # {}

\* A cart with an item that is unavailable by now is refused, like an empty one.
Orderable == InCart # {} /\ InCart \cap off = {}

CheckoutLock(r) ==
    /\ At(r, "idle")
    /\ CartFree(r)
    /\ Orderable
    /\ Become(r, [Idle EXCEPT !.pc = "locked", !.seen = row])
    /\ RowsUnchanged

\* Fault: the cart is not emptied.
KeepRows(r) == UNCHANGED row

EmptyCart(r) == DeleteSeen(r)

\* The order gets the quantities that were read under the lock.
CheckoutCommit(r) ==
    /\ At(r, "locked")
    /\ ordered' = [m \in Item |-> ordered[m] + tx[r].seen[m].quantity]
    /\ stale' = stale \cup Changed(r)
    /\ late' = IF \E m \in off : tx[r].seen[m].quantity > 0 THEN late + 1 ELSE late
    /\ EmptyCart(r)
    /\ End(r)
    /\ UNCHANGED <<cart, asked, taken, MenuVars>>

-----------------------------------------------------------------------------
\* A request ends without effect: rejected, disconnected or crashed.
Abort(r) == ~At(r, "idle") /\ End(r) /\ RowsUnchanged

\* The staff marks an item as sold out, or as available again.
MenuChanges(m) ==
    /\ IF m \in off
       THEN off' = off \ {m} /\ UNCHANGED soldOut
       ELSE /\ soldOut < MaxSoldOut
            /\ soldOut' = soldOut + 1
            /\ off' = off \cup {m}
    /\ UNCHANGED <<cart, row, tx, asked, taken, ordered, stale, late>>

Request(r) ==
    \/ FindNoCart(r) \/ InsertCart(r) \/ CommitCart(r)
    \/ AddRead(r) \/ AddInsert(r) \/ AddIncrement(r)
    \/ UpdateRead(r) \/ UpdateCommit(r)
    \/ RemoveRead(r) \/ ClearRead(r) \/ DeleteCommit(r)
    \/ CheckoutLock(r) \/ CheckoutCommit(r)
    \/ Abort(r)

Next ==
    \/ \E r \in Guest : Request(r)
    \/ \E m \in Item : MenuChanges(m)

Spec == Init /\ [][Next]_vars

-----------------------------------------------------------------------------
\* However requests interleave, nobody has more units in orders and cart than
\* were asked for: a lost race may lose units but never invents any
\* (add_item, update_item_quantity, checkout_cart).
NothingInvented == \A m \in Item : ordered[m] + row[m].quantity <= asked[m]

\* Units are lost in one way only, a write or an order computed from a
\* quantity that another request has changed since it was read.  As long as
\* that has not happened to an item, every unit of it that was asked for is in
\* the cart, in an order or was taken out again, through every overlap of
\* inserts, removals, clears and the creation of the cart (add_item and the
\* other cart requests).
UnitsConserved ==
    \A m \in Item \ stale : asked[m] = row[m].quantity + ordered[m] + taken[m]

\* Each time an item becomes unavailable at most one order of the session is
\* still placed with it: a single checkout of the cart can have passed the
\* check, and every later one makes its own (checkout_cart).
LateOrdersBounded == late <= soldOut

=============================================================================
