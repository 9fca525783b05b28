--------------------------- MODULE Exclusion_proofs --------------------------
(***************************************************************************)
(* What DiningSession keeps when certain requests, and only these, exclude *)
(* one another: two moves of one order (a lock on the row of the order in  *)
(* transition_order_status would do it, and so does a single display), and *)
(* a settlement and the requests of the same table that order, cook or     *)
(* bill (a lock on the row of the session would do it).  In an instance    *)
(* with one display the moves do so anyway.                                *)
(*                                                                         *)
(* When moves do not overlap, an order that was served is never moved      *)
(* again, and what one request reads as served is contained in what a      *)
(* later one reads: two requests that both add to a bill, and have both    *)
(* found something to add, want to add an order in common.  The items of   *)
(* an order are inserted by one of them only, so that one of the two never *)
(* inserts the last of its items while the other is undecided.             *)
(***************************************************************************)
EXTENDS DiningSession_proofs

OneDisplay == \A q, r \in Kitchen : q = r

\* Two requests in flight never move the same order.
MovesApart ==
    \A q, r \in Request :
        q # r /\ tx[q].pc = "kitchen:read" /\ tx[r].pc = "kitchen:read"
            => tx[q].order # tx[r].order

-----------------------------------------------------------------------------
(* The inductive invariant *)

Reading == {"bill:orders read", "bill:none open"}
Syncing == {"bill:open found", "bill:items added", "bill:summed"}
Undecided == {"bill:items added", "bill:summed"}
Summed == "bill:summed"
Moving == "kitchen:read"

\* The served orders as r has read them, or those the bill will list when r
\* has added what it lacks.
Snapshot(r) ==
    IF tx[r].pc \in Reading THEN tx[r].served
    ELSE IF tx[r].pc \in Syncing THEN tx[r].served \cup bill[tx[r].bill].items
    ELSE {}

Snapshots == {Snapshot(r) : r \in Request} \cup {bill[b].items : b \in Bill}

\* Snapshots taken at different times contain one another.
Chain == \A S \in Snapshots : S \subseteq Billable /\ \A T \in Snapshots : S \subseteq T \/ T \subseteq S

\* A display has not checked its move against a status that has changed since.
MoveInv(r) ==
    tx[r].pc = Moving =>
        r \in Kitchen /\ tx[r].status \in AllowedTransitions[order[tx[r].order].status]

\* A request that syncs a bill has something to add, what it has inserted is
\* not on the bill as others see it, and is all there is to insert once it
\* goes on; its total is that of the bill it will leave.
SyncInv(r) ==
    /\ tx[r].pc \in Syncing =>
           /\ tx[r].served # {}
           /\ tx[r].added \subseteq tx[r].served
           /\ tx[r].added \cap bill[tx[r].bill].items = {}
    /\ tx[r].pc \in Undecided => tx[r].added = tx[r].served
    /\ tx[r].pc = Summed => tx[r].charged = tx[r].served \cup bill[tx[r].bill].items

\* Two requests do not insert the same items on a bill.
Apart(q, r) ==
    tx[q].pc \in Syncing /\ tx[r].pc \in Syncing /\ tx[q].bill = tx[r].bill
        => tx[q].added \cap tx[r].added = {}

BillInv ==
    /\ Chain
    /\ \A r \in Request : SyncInv(r)
    /\ \A q, r \in Request : q # r => Apart(q, r)
    /\ TotalMatchesItems

DisplayInv ==
    /\ Inv
    /\ \A r \in Request : MoveInv(r)
    /\ BillInv

-----------------------------------------------------------------------------
(* Locations *)

Quiet == Location \ (Reading \cup Syncing \cup {Moving})

LEMMA Locations ==
  /\ Undecided \subseteq Syncing
  /\ Summed \in Undecided
  /\ Reading \cap Syncing = {}
  /\ Moving \notin Reading \cup Syncing
  BY DEF Undecided, Syncing, Summed, Reading, Moving

LEMMA SyncTarget ==
  ASSUME Inv, NEW r \in Request, tx[r].pc \in Syncing
  PROVE  tx[r].bill \in Bill /\ bill[tx[r].bill].status # "none"
  BY DEF Inv, TargetInv, Target, Syncing

LEMMA Updated ==
  ASSUME Inv, NEW r \in Request, NEW t, tx' = [tx EXCEPT ![r] = t]
  PROVE  tx'[r] = t /\ \A q \in Request : q # r => tx'[q] = tx[q]
  BY DEF Inv, TypeOK

LEMMA FieldsOf ==
  ASSUME Inv, NEW r \in Request
  PROVE  tx[r] \in Tx
  BY DEF Inv, TypeOK

-----------------------------------------------------------------------------
(* Shapes of steps *)

\* Snapshots stay a chain when new ones are of the orders served by now.
LEMMA ChainStep ==
  ASSUME Chain, Snapshots' \subseteq Snapshots \cup {{}, Billable}, Billable \subseteq Billable'
  PROVE  Chain'
  <1> DEFINE Old == Snapshots
             New == Snapshots'
             Now == Billable
             Then == Billable'
  <1>1. \A S \in Old : S \subseteq Now /\ \A T \in Old : S \subseteq T \/ T \subseteq S
    BY DEF Chain
  <1>2. New \subseteq Old \cup {{}, Now} /\ Now \subseteq Then
    OBVIOUS
  <1> HIDE DEF Old, New, Now, Then
  <1>3. \A S \in New : S \subseteq Then /\ \A T \in New : S \subseteq T \/ T \subseteq S
    BY <1>1, <1>2
  <1>4. QED
    BY <1>3 DEF Chain, New, Then

\* A step in which r goes on and writes no bill item.
LEMMA NoItemsWritten ==
  ASSUME Inv, BillInv, NEW r \in Request, NEW t, tx' = [tx EXCEPT ![r] = t],
         \A b \in Bill : bill'[b].items = bill[b].items /\ bill'[b].charged = bill[b].charged,
         Billable \subseteq Billable',
         Snapshot(r)' \in Snapshots \cup {{}, Billable},
         SyncInv(r)',
         \A q \in Request \ {r} : Apart(q, r)'
  PROVE  BillInv'
  <1>1. tx'[r] = t /\ \A q \in Request : q # r => tx'[q] = tx[q]
    BY Updated
  <1>2. \A q \in Request \ {r} : Snapshot(q)' = Snapshot(q)
    <2>1. ASSUME NEW q \in Request \ {r}
          PROVE  Snapshot(q)' = Snapshot(q)
      <3>1. tx'[q] = tx[q]
        BY <1>1
      <3>2. tx[q].pc \in Syncing => bill'[tx[q].bill].items = bill[tx[q].bill].items
        BY SyncTarget
      <3>3. CASE tx[q].pc \in Reading
        BY <3>1, <3>3 DEF Snapshot
      <3>4. CASE tx[q].pc \in Syncing /\ tx[q].pc \notin Reading
        BY <3>1, <3>2, <3>4 DEF Snapshot
      <3>5. CASE tx[q].pc \notin Reading \cup Syncing
        BY <3>1, <3>5 DEF Snapshot
      <3>6. QED
        BY <3>3, <3>4, <3>5
    <2>2. QED
      BY <2>1
  <1>3. Snapshots' \subseteq Snapshots \cup {{}, Billable}
    BY <1>2 DEF Snapshots
  <1>4. Chain'
    BY <1>3, ChainStep DEF BillInv
  <1>5. \A q \in Request : SyncInv(q)'
    <2>1. ASSUME NEW q \in Request \ {r}
          PROVE  SyncInv(q)'
      <3>1. SyncInv(q) /\ tx'[q] = tx[q]
        BY <1>1 DEF BillInv
      <3>2. tx[q].pc \in Syncing => bill'[tx[q].bill].items = bill[tx[q].bill].items
        BY SyncTarget
      <3>3. QED
        BY <3>1, <3>2, Locations DEF SyncInv
    <2>2. QED
      BY <2>1
  <1>6. \A p, q \in Request : p # q => Apart(p, q)'
    <2>1. ASSUME NEW p \in Request \ {r}, NEW q \in Request \ {r}, p # q
          PROVE  Apart(p, q)'
      BY <1>1, <2>1 DEF BillInv, Apart
    <2>2. \A q \in Request \ {r} : Apart(r, q)'
      BY DEF Apart
    <2>3. QED
      BY <2>1, <2>2
  <1>7. TotalMatchesItems'
    BY DEF BillInv, TotalMatchesItems
  <1>8. QED
    BY <1>4, <1>5, <1>6, <1>7 DEF BillInv

\* A step by which r comes to a place where it has no snapshot.
LEMMA QuietBills ==
  ASSUME Inv, BillInv, NEW r \in Request, NEW t, tx' = [tx EXCEPT ![r] = t],
         t.pc \notin Reading \cup Syncing,
         \A b \in Bill : bill'[b].items = bill[b].items /\ bill'[b].charged = bill[b].charged,
         Billable \subseteq Billable'
  PROVE  BillInv'
  <1>1. tx'[r] = t
    BY Updated
  <1>2. Snapshot(r)' = {}
    BY <1>1 DEF Snapshot
  <1>3. SyncInv(r)' /\ \A q \in Request \ {r} : Apart(q, r)'
    BY <1>1, Locations DEF SyncInv, Apart
  <1>4. QED
    BY <1>2, <1>3, NoItemsWritten

\* A step in which r goes on to a quiet place and writes neither orders nor bills.
LEMMA QuietStepInv ==
  ASSUME DisplayInv, NEW r \in Request, NEW t, tx' = [tx EXCEPT ![r] = t],
         t.pc \in Quiet, UNCHANGED <<order, bill>>
  PROVE  BillInv' /\ \A q \in Request : MoveInv(q)'
  <1>1. Billable' = Billable /\ t.pc \notin Reading \cup Syncing /\ t.pc # Moving
    BY DEF Billable, Quiet
  <1>2. BillInv'
    BY <1>1, QuietBills DEF DisplayInv
  <1>3. tx'[r] = t /\ \A q \in Request : q # r => tx'[q] = tx[q]
    BY Updated DEF DisplayInv
  <1>4. \A q \in Request : MoveInv(q)'
    BY <1>1, <1>3 DEF DisplayInv, MoveInv
  <1>5. QED
    BY <1>2, <1>4

LEMMA IdleQuiet == Idle.pc \in Quiet
  BY DEF Idle, Quiet, Location, Reading, Syncing, Moving

LEMMA EndQuiet ==
  ASSUME DisplayInv, NEW r \in Request, End(r), UNCHANGED <<order, bill>>
  PROVE  BillInv' /\ \A q \in Request : MoveInv(q)'
  BY IdleQuiet, QuietStepInv DEF End, Become

LEMMA GoQuiet ==
  ASSUME DisplayInv, NEW r \in Request, NEW pc \in Quiet, Go(r, pc), UNCHANGED <<order, bill>>
  PROVE  BillInv' /\ \A q \in Request : MoveInv(q)'
  <1> DEFINE t == [tx[r] EXCEPT !.pc = pc]
  <1>1. t.pc = pc /\ tx' = [tx EXCEPT ![r] = t]
    BY FieldsOf DEF DisplayInv, Tx, Go, Become
  <1> HIDE DEF t
  <1>2. QED
    BY <1>1, QuietStepInv

\* A step that leaves the orders alone keeps what the display has read.
LEMMA MovesKept ==
  ASSUME DisplayInv, NEW r \in Request, NEW t, tx' = [tx EXCEPT ![r] = t],
         t.pc # Moving, order' = order
  PROVE  \A q \in Request : MoveInv(q)'
  <1>1. tx'[r] = t /\ \A q \in Request : q # r => tx'[q] = tx[q]
    BY Updated DEF DisplayInv
  <1>2. QED
    BY <1>1 DEF DisplayInv, MoveInv

-----------------------------------------------------------------------------
(* The requests of the guests that are no bill requests, and settlement *)

LEMMA QuietPlaces ==
  {"idle", "add:validated", "add:cart read", "checkout:validated", "checkout:locked",
   "bill:validated", "lookup:overdue", "settle:bill read", "settle:orders checked",
   "settle:session written", "settle:bill written"} \subseteq Quiet
  BY DEF Quiet, Location, Reading, Syncing, Moving

LEMMA AddItemBills ==
  ASSUME DisplayInv, NEW r \in Request, AddItem(r)
  PROVE  BillInv' /\ \A q \in Request : MoveInv(q)'
  <1>1. CASE AddValidate(r)
    BY <1>1, QuietPlaces, GoQuiet DEF AddValidate, Validate, RowsUnchanged
  <1>2. CASE AddReadCart(r)
    BY <1>2, QuietPlaces, GoQuiet, EndQuiet DEF AddReadCart, RowsUnchanged
  <1>3. CASE AddCommit(r)
    BY <1>3, EndQuiet DEF AddCommit
  <1>4. QED
    BY <1>1, <1>2, <1>3 DEF AddItem

LEMMA LookupBills ==
  ASSUME DisplayInv, NEW r \in Request, Lookup(r)
  PROVE  BillInv' /\ \A q \in Request : MoveInv(q)'
  <1>1. CASE LookupRead(r)
    BY <1>1, QuietPlaces, GoQuiet DEF LookupRead, RowsUnchanged
  <1>2. CASE LookupExpire(r)
    BY <1>2, EndQuiet DEF LookupExpire
  <1>3. QED
    BY <1>1, <1>2 DEF Lookup

\* A checkout inserts an order that was not there.
LEMMA CheckoutCommitBills ==
  ASSUME DisplayInv, NEW r \in Request, CheckoutCommit(r)
  PROVE  BillInv' /\ \A q \in Request : MoveInv(q)'
  <1>1. PICK o \in Order \ Placed : order' = [order EXCEPT ![o] = [status |-> "NEW", lines |-> tx[r].lines]]
    BY DEF CheckoutCommit
  <1>2. tx' = [tx EXCEPT ![r] = Idle] /\ bill' = bill
    BY DEF CheckoutCommit, End, Become
  <1>3. \A p \in Placed : order'[p] = order[p]
    BY <1>1 DEF DisplayInv, Inv, TypeOK, Placed
  <1>4. Billable \subseteq Billable'
    BY <1>3 DEF Billable, Placed
  <1>5. Idle.pc \notin Reading \cup Syncing /\ Idle.pc # Moving
    BY IdleQuiet DEF Quiet
  <1>6. BillInv'
    BY <1>2, <1>4, <1>5, QuietBills DEF DisplayInv
  <1>7. tx'[r] = Idle /\ \A q \in Request : q # r => tx'[q] = tx[q]
    BY <1>2, Updated DEF DisplayInv
  <1>8. ASSUME NEW q \in Request, tx'[q].pc = Moving
        PROVE  MoveInv(q)'
    <2>1. tx'[q] = tx[q]
      BY <1>5, <1>7, <1>8
    <2>2. tx[q].order \in Placed
      BY <1>8, <2>1 DEF DisplayInv, Inv, TargetInv, Target, At, Moving
    <2>3. QED
      BY <1>3, <1>8, <2>1, <2>2 DEF DisplayInv, MoveInv
  <1>9. \A q \in Request : MoveInv(q)'
    BY <1>8 DEF MoveInv
  <1>10. QED
    BY <1>6, <1>9

LEMMA CheckoutBills ==
  ASSUME DisplayInv, NEW r \in Request, Checkout(r)
  PROVE  BillInv' /\ \A q \in Request : MoveInv(q)'
  <1>1. CASE CheckoutValidate(r)
    BY <1>1, QuietPlaces, GoQuiet DEF CheckoutValidate, Validate, RowsUnchanged
  <1>2. CASE CheckoutLock(r)
    <2>1. CASE End(r)
      BY <1>2, <2>1, EndQuiet DEF CheckoutLock, RowsUnchanged
    <2>2. CASE Become(r, [tx[r] EXCEPT !.pc = "checkout:locked", !.lines = cart.lines])
      <3> DEFINE t == [tx[r] EXCEPT !.pc = "checkout:locked", !.lines = cart.lines]
      <3>1. t.pc \in Quiet /\ tx' = [tx EXCEPT ![r] = t]
        BY <2>2, FieldsOf, QuietPlaces DEF DisplayInv, Tx, Become
      <3> HIDE DEF t
      <3>2. QED
        BY <1>2, <3>1, QuietStepInv DEF CheckoutLock, RowsUnchanged
    <2>3. QED
      BY <1>2, <2>1, <2>2 DEF CheckoutLock
  <1>3. CASE CheckoutCommit(r)
    BY <1>3, CheckoutCommitBills
  <1>4. QED
    BY <1>1, <1>2, <1>3 DEF Checkout

\* Settling changes the status of a bill only.
LEMMA SettleBills ==
  ASSUME DisplayInv, NEW r \in Request, Settle(r)
  PROVE  BillInv' /\ \A q \in Request : MoveInv(q)'
  <1>1. CASE SettleReadBill(r)
    <2>1. PICK b \in OpenBill : Become(r, [tx[r] EXCEPT !.pc = "settle:bill read", !.bill = b])
      BY <1>1 DEF SettleReadBill
    <2> DEFINE t == [tx[r] EXCEPT !.pc = "settle:bill read", !.bill = b]
    <2>2. t.pc \in Quiet /\ tx' = [tx EXCEPT ![r] = t]
      BY <2>1, FieldsOf, QuietPlaces DEF DisplayInv, Tx, Become
    <2> HIDE DEF t
    <2>3. QED
      BY <1>1, <2>2, QuietStepInv DEF SettleReadBill, RowsUnchanged
  <1>2. CASE SettleCheckOrders(r)
    <2> DEFINE t == [tx[r] EXCEPT !.pc = "settle:orders checked", !.session = session]
    <2>1. t.pc \in Quiet
      BY FieldsOf, QuietPlaces DEF DisplayInv, Tx
    <2>2. Become(r, t) \/ End(r)
      BY <1>2 DEF SettleCheckOrders
    <2> HIDE DEF t
    <2>3. QED
      BY <1>2, <2>1, <2>2, QuietStepInv, EndQuiet DEF SettleCheckOrders, RowsUnchanged, Become
  <1>w. CASE SettleWriteSession(r) \/ SettleWriteBill(r)
    BY <1>w, QuietPlaces, GoQuiet DEF SettleWriteSession, SettleWriteBill, RowsUnchanged
  <1>3. CASE SettleCommit(r)
    <2> DEFINE c == tx[r].bill
               new == [bill[c] EXCEPT !.status = "SETTLED", !.stamps = @ + 1]
    <2>1. c \in Bill
      BY <1>3 DEF SettleCommit, DisplayInv, Inv, TargetInv, Target, At
    <2>2. bill' = [bill EXCEPT ![c] = new] /\ bill[c] \in BillRow
      BY <1>3, <2>1 DEF SettleCommit, DisplayInv, Inv, TypeOK
    <2>3. new.items = bill[c].items /\ new.charged = bill[c].charged
      BY <2>2 DEF BillRow
    <2> HIDE DEF c, new
    <2>4. \A b \in Bill : bill'[b].items = bill[b].items /\ bill'[b].charged = bill[b].charged
      BY <2>1, <2>2, <2>3 DEF DisplayInv, Inv, TypeOK
    <2>5. tx' = [tx EXCEPT ![r] = Idle] /\ order' = order
      BY <1>3 DEF SettleCommit, End, Become
    <2>6. Idle.pc \notin Reading \cup Syncing /\ Idle.pc # Moving /\ Billable' = Billable
      BY <2>5, IdleQuiet DEF Quiet, Billable
    <2>7. QED
      BY <2>4, <2>5, <2>6, QuietBills, MovesKept DEF DisplayInv
  <1>4. QED
    BY <1>1, <1>2, <1>w, <1>3 DEF Settle

-----------------------------------------------------------------------------
(* The display *)

\* Only an order that is not served can be moved.
LEMMA ServedIsLast ==
  ASSUME NEW s \in OrderStatus, AllowedTransitions[s] # {}
  PROVE  s # "SERVED"
  BY DEF AllowedTransitions, OrderStatus

LEMMA MovedNotServed ==
  ASSUME DisplayInv, NEW r \in Request, tx[r].pc = Moving
  PROVE  /\ tx[r].order \in Order
         /\ order[tx[r].order].status \in OrderStatus
         /\ order[tx[r].order].status # "SERVED"
  <1>1. tx[r].order \in Placed
    BY DEF DisplayInv, Inv, TargetInv, Target, At, Moving
  <1>2. tx[r].order \in Order /\ order[tx[r].order].status \in OrderStatus
    BY <1>1 DEF DisplayInv, Inv, TypeOK, OrderRow, Placed
  <1>3. AllowedTransitions[order[tx[r].order].status] # {}
    BY DEF DisplayInv, MoveInv
  <1>4. QED
    BY <1>2, <1>3, ServedIsLast

LEMMA TransitionBills ==
  ASSUME MovesApart, DisplayInv, NEW r \in Kitchen, Transition(r)
  PROVE  BillInv' /\ \A q \in Request : MoveInv(q)'
  <1>0. r \in Request /\ tx[r] \in Tx
    BY FieldsOf DEF Request, DisplayInv
  <1>1. CASE KitchenRead(r)
    <2>1. PICK o \in Placed : \E s \in AllowedTransitions[order[o].status] :
             Become(r, [tx[r] EXCEPT !.pc = "kitchen:read", !.order = o, !.status = s])
      BY <1>1 DEF KitchenRead
    <2>2. PICK s \in AllowedTransitions[order[o].status] :
             Become(r, [tx[r] EXCEPT !.pc = "kitchen:read", !.order = o, !.status = s])
      BY <2>1
    <2> DEFINE t == [tx[r] EXCEPT !.pc = "kitchen:read", !.order = o, !.status = s]
    <2>3. tx' = [tx EXCEPT ![r] = t] /\ UNCHANGED <<order, bill>>
      BY <1>1, <2>2 DEF KitchenRead, Become, RowsUnchanged
    <2>4. t.pc = Moving /\ t.order = o /\ t.status = s
      BY <1>0 DEF Tx, Moving
    <2> HIDE DEF t
    <2>7. BillInv'
      BY <1>0, <2>3, <2>4, Locations, QuietBills DEF DisplayInv, Billable
    <2>8. tx'[r] = t /\ \A q \in Request : q # r => tx'[q] = tx[q]
      BY <1>0, <2>3, Updated DEF DisplayInv
    <2>9. MoveInv(r)'
      BY <2>2, <2>3, <2>4, <2>8 DEF MoveInv
    <2>10. \A q \in Request : q # r => MoveInv(q)'
      BY <2>3, <2>8 DEF DisplayInv, MoveInv
    <2>11. QED
      BY <2>7, <2>9, <2>10
  <1>2. CASE KitchenCommit(r)
    <2> DEFINE o == tx[r].order
    <2>1. tx' = [tx EXCEPT ![r] = Idle] /\ bill' = bill
          /\ order' = [order EXCEPT ![o].status = tx[r].status]
      BY <1>2 DEF KitchenCommit, End, Become
    <2>2. tx[r].pc = Moving
      BY <1>2 DEF KitchenCommit, At, Moving
    <2>3. order[o].status # "SERVED"
      BY <1>0, <2>2, MovedNotServed
    <2> HIDE DEF o
    <2>4. Billable \subseteq Billable'
      BY <2>1, <2>3 DEF Billable, DisplayInv, Inv, TypeOK
    <2>5. Idle.pc \notin Reading \cup Syncing /\ Idle.pc # Moving
      BY IdleQuiet DEF Quiet
    <2>6. BillInv'
      BY <1>0, <2>1, <2>4, <2>5, QuietBills DEF DisplayInv
    <2>7. tx'[r] = Idle /\ \A q \in Request : q # r => tx'[q] = tx[q]
      BY <1>0, <2>1, Updated DEF DisplayInv
    <2>8. ASSUME NEW q \in Request, tx'[q].pc = Moving
          PROVE  MoveInv(q)'
      <3>1. q # r /\ tx'[q] = tx[q]
        BY <2>5, <2>7, <2>8
      <3>2. tx[q].order # o
        BY <1>0, <2>2, <2>8, <3>1 DEF MovesApart, Moving, o
      <3>3. order'[tx[q].order] = order[tx[q].order]
        BY <2>1, <3>2 DEF DisplayInv, Inv, TypeOK
      <3>4. QED
        BY <2>8, <3>1, <3>3 DEF DisplayInv, MoveInv
    <2>9. QED
      BY <2>6, <2>8 DEF MoveInv
  <1>3. QED
    BY <1>1, <1>2 DEF Transition

-----------------------------------------------------------------------------
(* generate_or_get_bill *)

LEMMA BillPlaces ==
  /\ "bill:orders read" \in Reading /\ "bill:none open" \in Reading
  /\ "bill:open found" \in Syncing \ Undecided
  /\ "bill:items added" \in Undecided \ {Summed}
  /\ "bill:summed" = Summed
  /\ \A pc \in Reading \cup Syncing : pc # Moving
  BY DEF Reading, Syncing, Undecided, Summed, Moving

LEMMA SnapshotsOf ==
  /\ \A r \in Request : Snapshot(r) \in Snapshots
  /\ \A b \in Bill : bill[b].items \in Snapshots
  BY DEF Snapshots

\* What a request that reads or syncs has for a snapshot.
LEMMA SnapshotOf ==
  ASSUME NEW r \in Request
  PROVE  /\ tx[r].pc \in Reading => Snapshot(r) = tx[r].served
         /\ tx[r].pc \in Syncing => Snapshot(r) = tx[r].served \cup bill[tx[r].bill].items
  BY Locations DEF Snapshot

LEMMA BillReadOrdersBills ==
  ASSUME DisplayInv, NEW r \in Request, BillReadOrders(r)
  PROVE  BillInv' /\ \A q \in Request : MoveInv(q)'
  <1> DEFINE t == [tx[r] EXCEPT !.pc = "bill:orders read", !.served = Billable]
  <1>1. tx' = [tx EXCEPT ![r] = t] /\ UNCHANGED <<order, bill>>
    BY DEF BillReadOrders, Become, RowsUnchanged
  <1>2. t.pc \in Reading /\ t.served = Billable
    BY FieldsOf, BillPlaces DEF DisplayInv, Tx
  <1> HIDE DEF t
  <1>3. tx'[r] = t /\ t.pc \notin Syncing /\ t.pc # Moving
    BY <1>1, <1>2, Updated, Locations DEF DisplayInv
  <1>4. Snapshot(r)' = Billable
    BY <1>2, <1>3 DEF Snapshot
  <1>5. SyncInv(r)' /\ \A q \in Request \ {r} : Apart(q, r)'
    BY <1>3, Locations DEF SyncInv, Apart
  <1>6. Billable' = Billable
    BY <1>1 DEF Billable
  <1>7. BillInv'
    BY <1>1, <1>4, <1>5, <1>6, NoItemsWritten DEF DisplayInv
  <1>8. QED
    BY <1>1, <1>3, <1>7, MovesKept

\* The served orders that were read together with those on the OPEN bill are
\* the larger of the two.
LEMMA BillFindOpenBills ==
  ASSUME DisplayInv, NEW r \in Request, BillFindOpen(r)
  PROVE  BillInv' /\ \A q \in Request : MoveInv(q)'
  <1>0. UNCHANGED <<order, bill>> /\ Billable' = Billable /\ tx[r] \in Tx
    BY FieldsOf DEF BillFindOpen, RowsUnchanged, Billable, DisplayInv
  <1>1. tx[r].pc \in Reading
    BY BillPlaces DEF BillFindOpen, At
  <1>2. CASE End(r)
    BY <1>0, <1>2, EndQuiet
  <1>3. CASE Go(r, "bill:none open")
    <2> DEFINE t == [tx[r] EXCEPT !.pc = "bill:none open"]
    <2>1. tx' = [tx EXCEPT ![r] = t] /\ t.pc \in Reading /\ t.served = tx[r].served
      BY <1>0, <1>3, BillPlaces DEF Go, Become, Tx
    <2> HIDE DEF t
    <2>2. tx'[r] = t /\ t.pc \notin Syncing /\ t.pc # Moving
      BY <2>1, Updated, Locations DEF DisplayInv
    <2>3. Snapshot(r)' = Snapshot(r)
      BY <1>1, <2>1, <2>2 DEF Snapshot
    <2>4. SyncInv(r)' /\ \A q \in Request \ {r} : Apart(q, r)'
      BY <2>2, Locations DEF SyncInv, Apart
    <2>5. BillInv'
      BY <1>0, <2>1, <2>3, <2>4, SnapshotsOf, NoItemsWritten DEF DisplayInv
    <2>6. QED
      BY <1>0, <2>1, <2>2, <2>5, MovesKept
  <1>4. ASSUME NEW b \in OpenBill, tx[r].served \ bill[b].items # {},
               Become(r, [tx[r] EXCEPT !.pc = "bill:open found", !.bill = b,
                                       !.served = tx[r].served \ bill[b].items,
                                       !.added = {}])
        PROVE  BillInv' /\ \A q \in Request : MoveInv(q)'
    <2> DEFINE t == [tx[r] EXCEPT !.pc = "bill:open found", !.bill = b,
                                  !.served = tx[r].served \ bill[b].items,
                                  !.added = {}]
    <2>1. tx' = [tx EXCEPT ![r] = t] /\ b \in Bill
      BY <1>4 DEF Become, OpenBill
    <2>2. /\ t.pc \in Syncing \ Undecided /\ t.bill = b /\ t.added = {}
          /\ t.served = tx[r].served \ bill[b].items
      BY <1>0, BillPlaces DEF Tx
    <2> HIDE DEF t
    <2>3. tx'[r] = t /\ t.pc \notin Reading /\ t.pc # Moving
      BY <2>1, <2>2, Updated, Locations, BillPlaces DEF DisplayInv
    <2>4. Snapshot(r)' = tx[r].served \cup bill[b].items
      BY <1>0, <2>2, <2>3 DEF Snapshot
    <2>5. tx[r].served \in Snapshots /\ bill[b].items \in Snapshots
      BY <1>1, <2>1, SnapshotsOf, SnapshotOf
    <2>6. tx[r].served \cup bill[b].items \in Snapshots
      <3>1. tx[r].served \subseteq bill[b].items \/ bill[b].items \subseteq tx[r].served
        BY <2>5 DEF DisplayInv, BillInv, Chain
      <3>2. tx[r].served \cup bill[b].items \in {tx[r].served, bill[b].items}
        BY <3>1
      <3>3. QED
        BY <2>5, <3>2
    <2>7. SyncInv(r)' /\ \A q \in Request \ {r} : Apart(q, r)'
      BY <1>4, <2>2, <2>3, Locations DEF SyncInv, Apart
    <2>8. BillInv'
      BY <1>0, <2>1, <2>4, <2>6, <2>7, NoItemsWritten DEF DisplayInv
    <2>9. QED
      BY <1>0, <2>1, <2>3, <2>8, MovesKept
  <1>5. QED
    BY <1>2, <1>3, <1>4 DEF BillFindOpen

\* Of two requests that sync a bill only one has inserted all its items: both
\* would have inserted the order by which the smaller snapshot exceeds the bill.
LEMMA OneUndecided ==
  ASSUME BillInv, NEW q \in Request, NEW r \in Request, q # r,
         tx[q].pc \in Undecided, tx[r].pc \in Undecided
  PROVE  tx[q].bill # tx[r].bill
  <1> SUFFICES ASSUME tx[q].bill = tx[r].bill PROVE FALSE
    OBVIOUS
  <1> DEFINE items == bill[tx[r].bill].items
  <1>1. tx[q].pc \in Syncing /\ tx[r].pc \in Syncing
    BY Locations
  <1>2. /\ tx[q].served # {} /\ tx[q].served \cap items = {}
        /\ tx[r].served # {} /\ tx[r].served \cap items = {}
    BY <1>1 DEF BillInv, SyncInv
  <1>3. tx[q].served \cap tx[r].served = {}
    BY <1>1 DEF BillInv, SyncInv, Apart
  <1>4. Snapshot(q) = tx[q].served \cup items /\ Snapshot(r) = tx[r].served \cup items
    BY <1>1, SnapshotOf
  <1>5. Snapshot(q) \subseteq Snapshot(r) \/ Snapshot(r) \subseteq Snapshot(q)
    BY SnapshotsOf DEF BillInv, Chain
  <1> HIDE DEF items
  <1>6. QED
    BY <1>2, <1>3, <1>4, <1>5

\* A request puts its snapshot on a bill for which nobody else has inserted
\* items of this snapshot.
LEMMA ItemsWritten ==
  ASSUME Inv, BillInv, NEW r \in Request, tx' = [tx EXCEPT ![r] = Idle], order' = order,
         NEW b \in Bill, NEW new, bill' = [bill EXCEPT ![b] = new],
         new.items = Snapshot(r), new.charged = Snapshot(r), bill[b].items \subseteq Snapshot(r),
         \A q \in Request \ {r} : tx[q].pc \in Undecided => tx[q].bill # b,
         \A q \in Request \ {r} :
             tx[q].pc \in Syncing /\ tx[q].bill = b => tx[q].added \cap Snapshot(r) = {}
  PROVE  BillInv'
  <1>1. tx'[r] = Idle /\ \A q \in Request : q # r => tx'[q] = tx[q]
    BY Updated
  <1>2. bill'[b] = new /\ \A c \in Bill : c # b => bill'[c] = bill[c]
    BY DEF Inv, TypeOK
  <1>3. Idle.pc \notin Reading \cup Syncing
    BY IdleQuiet DEF Quiet
  <1>4. Snapshot(r)' = {}
    BY <1>1, <1>3 DEF Snapshot
  <1>5. ASSUME NEW q \in Request \ {r}
        PROVE  Snapshot(q)' \in Snapshots
    <2>1. tx'[q] = tx[q]
      BY <1>1
    <2>2. CASE tx[q].pc \notin Syncing
      <3>1. Snapshot(q)' = Snapshot(q)
        BY <2>1, <2>2 DEF Snapshot
      <3>2. QED
        BY <3>1, SnapshotsOf
    <2>3. CASE tx[q].pc \in Syncing
      <3>1. Snapshot(q)' = tx[q].served \cup bill'[tx[q].bill].items
        BY <2>1, <2>3, Locations DEF Snapshot
      <3>2. Snapshot(q) = tx[q].served \cup bill[tx[q].bill].items
        BY <2>3, SnapshotOf
      <3>3. CASE tx[q].bill # b
        <4>1. bill'[tx[q].bill] = bill[tx[q].bill]
          BY <1>2, <2>3, <3>3, SyncTarget
        <4>2. Snapshot(q)' = Snapshot(q)
          BY <3>1, <3>2, <4>1
        <4>3. QED
          BY <4>2, SnapshotsOf
      <3>4. CASE tx[q].bill = b
        <4>1. Snapshot(q)' = Snapshot(q) \cup Snapshot(r)
          BY <1>2, <3>1, <3>2, <3>4
        <4>2. Snapshot(q) \subseteq Snapshot(r) \/ Snapshot(r) \subseteq Snapshot(q)
          BY SnapshotsOf DEF BillInv, Chain
        <4>3. Snapshot(q)' \in {Snapshot(q), Snapshot(r)}
          BY <4>1, <4>2
        <4>4. QED
          BY <4>3, SnapshotsOf
      <3>5. QED
        BY <3>3, <3>4
    <2>4. QED
      BY <2>2, <2>3
  <1>6. \A c \in Bill : bill'[c].items \in Snapshots
    BY <1>2, SnapshotsOf
  <1>7. Snapshots' \subseteq Snapshots \cup {{}, Billable}
    BY <1>4, <1>5, <1>6 DEF Snapshots
  <1>8. Chain'
    BY <1>7, ChainStep DEF BillInv, Billable
  <1>9. SyncInv(r)' /\ \A q \in Request \ {r} : Apart(q, r)' /\ Apart(r, q)'
    BY <1>1, <1>3, Locations DEF SyncInv, Apart
  <1>10. ASSUME NEW q \in Request \ {r}
         PROVE  SyncInv(q)'
    <2>1. SyncInv(q) /\ tx'[q] = tx[q]
      BY <1>1 DEF BillInv
    <2>2. tx[q].pc \in Undecided => bill'[tx[q].bill] = bill[tx[q].bill]
      BY <1>2, SyncTarget, Locations
    <2>3. tx[q].pc \in Syncing => tx[q].added \cap bill'[tx[q].bill].items = {}
      BY <1>2, <2>1, SyncTarget DEF SyncInv
    <2>4. QED
      BY <2>1, <2>2, <2>3, Locations DEF SyncInv
  <1>11. \A p, q \in Request \ {r} : p # q => Apart(p, q)'
    BY <1>1 DEF BillInv, Apart
  <1>12. TotalMatchesItems'
    BY <1>2 DEF BillInv, TotalMatchesItems
  <1>13. (\A q \in Request : SyncInv(q)') /\ \A p, q \in Request : p # q => Apart(p, q)'
    BY <1>9, <1>10, <1>11
  <1>14. QED
    BY <1>8, <1>12, <1>13 DEF BillInv

LEMMA BillCreateBills ==
  ASSUME DisplayInv, NEW r \in Request, BillCreate(r)
  PROVE  BillInv' /\ \A q \in Request : MoveInv(q)'
  <1>1. CASE bill' = bill
    BY <1>1, EndQuiet DEF BillCreate
  <1>2. CASE ~OpenBillRefused
    <2>1. PICK b \in Bill : /\ bill[b].status = "none"
                            /\ bill' = [bill EXCEPT ![b] = [NoBill EXCEPT
                                            !.status = "OPEN",
                                            !.items = tx[r].served,
                                            !.charged = tx[r].served]]
      BY <1>2 DEF BillCreate
    <2> DEFINE new == [NoBill EXCEPT !.status = "OPEN", !.items = tx[r].served,
                                     !.charged = tx[r].served]
    <2>2. new.items = tx[r].served /\ new.charged = tx[r].served /\ bill' = [bill EXCEPT ![b] = new]
      BY <2>1 DEF NoBill
    <2> HIDE DEF new
    <2>3. Snapshot(r) = tx[r].served
      BY SnapshotOf, BillPlaces DEF BillCreate, At
    <2>4. bill[b].items = {}
      BY <2>1 DEF DisplayInv, Inv, AbsentInv
    <2>5. \A q \in Request \ {r} : tx[q].pc \in Syncing => tx[q].bill # b
      BY <2>1, SyncTarget DEF DisplayInv
    <2>6. tx' = [tx EXCEPT ![r] = Idle] /\ order' = order
      BY DEF BillCreate, End, Become
    <2>7. new.items = Snapshot(r) /\ new.charged = Snapshot(r) /\ bill[b].items \subseteq Snapshot(r)
      BY <2>2, <2>3, <2>4
    <2>8. Inv /\ BillInv
      BY DEF DisplayInv
    <2>9. BillInv'
      BY <2>2, <2>5, <2>6, <2>7, <2>8, ItemsWritten, Locations
    <2>10. Idle.pc # Moving
      BY IdleQuiet DEF Quiet
    <2>11. QED
      BY <2>6, <2>9, <2>10, MovesKept
  <1>3. QED
    BY <1>1, <1>2 DEF BillCreate

\* The items that a request inserts are on the bill of nobody else.
LEMMA BillAddItemsBills ==
  ASSUME DisplayInv, NEW r \in Request, BillAddItems(r)
  PROVE  BillInv' /\ \A q \in Request : MoveInv(q)'
  <1>0. UNCHANGED <<order, bill>> /\ Billable' = Billable /\ tx[r] \in Tx
    BY FieldsOf DEF BillAddItems, RowsUnchanged, Billable, DisplayInv
  <1>1. tx[r].pc \in Syncing /\ tx[r].pc = "bill:open found"
    BY BillPlaces DEF BillAddItems, At
  <1>2. CASE End(r)
    BY <1>0, <1>2, EndQuiet
  <1>3. ASSUME NEW o \in NextItems(r), o \notin bill[tx[r].bill].items,
               Become(r, [tx[r] EXCEPT
                   !.pc = IF tx[r].added \cup {o} = tx[r].served THEN "bill:items added" ELSE @,
                   !.added = tx[r].added \cup {o}])
        PROVE  BillInv' /\ \A q \in Request : MoveInv(q)'
    <2> DEFINE t == [tx[r] EXCEPT
                   !.pc = IF tx[r].added \cup {o} = tx[r].served THEN "bill:items added" ELSE @,
                   !.added = tx[r].added \cup {o}]
    <2>1. /\ tx' = [tx EXCEPT ![r] = t]
          /\ t.pc = IF tx[r].added \cup {o} = tx[r].served THEN "bill:items added" ELSE tx[r].pc
          /\ t.added = tx[r].added \cup {o} /\ t.served = tx[r].served /\ t.bill = tx[r].bill
      BY <1>0, <1>3 DEF Become, Tx
    <2> HIDE DEF t
    <2>2. tx'[r] = t /\ \A q \in Request : q # r => tx'[q] = tx[q]
      BY <2>1, Updated DEF DisplayInv
    <2>3. t.pc \in Syncing /\ t.pc \notin Reading /\ t.pc # Moving /\ t.pc # Summed
      BY <1>1, <2>1, BillPlaces, Locations
    <2>4. t.pc \in Undecided => t.added = t.served
      BY <1>1, <2>1, BillPlaces
    <2>5. Snapshot(r)' = Snapshot(r)
      <3>1. Snapshot(r) = tx[r].served \cup bill[tx[r].bill].items
        BY <1>1, SnapshotOf
      <3>2. Snapshot(r)' = t.served \cup bill'[t.bill].items
        BY <2>2, <2>3 DEF Snapshot
      <3>3. QED
        BY <1>0, <2>1, <3>1, <3>2
    <2>6. SyncInv(r)'
      <3>1. /\ tx[r].served # {} /\ tx[r].added \subseteq tx[r].served
            /\ tx[r].added \cap bill[tx[r].bill].items = {}
        BY <1>1 DEF DisplayInv, BillInv, SyncInv
      <3>2. o \in tx[r].served
        BY <1>3 DEF NextItems
      <3>3. /\ t.served # {} /\ t.added \subseteq t.served
            /\ t.added \cap bill'[t.bill].items = {}
        BY <1>0, <1>3, <2>1, <3>1, <3>2
      <3>4. QED
        BY <2>2, <2>3, <2>4, <3>3 DEF SyncInv
    <2>7. ASSUME NEW q \in Request \ {r}
          PROVE  Apart(q, r)'
      <3>1. Apart(q, r)
        BY DEF DisplayInv, BillInv
      <3>2. tx[q].pc \in Syncing /\ tx[q].bill = tx[r].bill => o \notin tx[q].added
        <4>1. ~WaitsFor(r, q)
          BY DEF BillAddItems, Granted
        <4>2. At(r, "bill:open found") /\ q # r
          BY DEF BillAddItems
        <4>3. ~\E p \in NextItems(r) : HoldsItems(q, tx[r].bill, p)
          BY <4>1, <4>2 DEF WaitsFor
        <4>4. ~HoldsItems(q, tx[r].bill, o)
          BY <4>3
        <4>5. tx[q].pc \in Syncing /\ tx[q].bill = tx[r].bill /\ o \in tx[q].added
                  => HoldsItems(q, tx[r].bill, o)
          BY DEF HoldsItems, Syncing
        <4>6. QED
          BY <4>4, <4>5
      <3>3. QED
        <4>1. /\ tx'[q] = tx[q] /\ tx'[r].added = tx[r].added \cup {o}
              /\ tx'[r].bill = tx[r].bill
          BY <2>1, <2>2
        <4>2. tx[q].pc \in Syncing /\ tx[q].bill = tx[r].bill
                  => tx[q].added \cap (tx[r].added \cup {o}) = {}
          BY <1>1, <3>1, <3>2 DEF Apart
        <4>3. QED
          BY <4>1, <4>2 DEF Apart
    <2>8. BillInv'
      BY <1>0, <2>1, <2>5, <2>6, <2>7, SnapshotsOf, NoItemsWritten DEF DisplayInv
    <2>9. QED
      BY <1>0, <2>1, <2>3, <2>8, MovesKept
  <1>4. QED
    BY <1>2, <1>3 DEF BillAddItems

LEMMA BillSumBills ==
  ASSUME DisplayInv, NEW r \in Request, BillSum(r)
  PROVE  BillInv' /\ \A q \in Request : MoveInv(q)'
  <1> DEFINE t == [tx[r] EXCEPT !.pc = "bill:summed", !.charged = NewTotal(r)]
  <1>1. UNCHANGED <<order, bill>> /\ Billable' = Billable /\ tx' = [tx EXCEPT ![r] = t]
    BY DEF BillSum, RowsUnchanged, Billable, Become
  <1>2. /\ t.pc = Summed /\ t.served = tx[r].served /\ t.bill = tx[r].bill
        /\ t.added = tx[r].added
        /\ t.charged = tx[r].served \cup bill[tx[r].bill].items
    BY FieldsOf, BillPlaces DEF DisplayInv, Tx, NewTotal
  <1> HIDE DEF t
  <1>3. tx[r].pc \in Undecided /\ tx[r].pc \in Syncing
    BY BillPlaces, Locations DEF BillSum, At
  <1>4. tx'[r] = t /\ \A q \in Request : q # r => tx'[q] = tx[q]
    BY <1>1, Updated DEF DisplayInv
  <1>5. t.pc \in Undecided /\ t.pc \in Syncing /\ t.pc \notin Reading /\ t.pc # Moving
    BY <1>2, Locations
  <1>6. Snapshot(r)' = Snapshot(r)
    <2>1. Snapshot(r) = tx[r].served \cup bill[tx[r].bill].items
      BY <1>3, SnapshotOf
    <2>2. Snapshot(r)' = t.served \cup bill'[t.bill].items
      BY <1>4, <1>5 DEF Snapshot
    <2>3. QED
      BY <1>1, <1>2, <2>1, <2>2
  <1>7. SyncInv(r)'
    <2>1. SyncInv(r)
      BY DEF DisplayInv, BillInv
    <2>2. QED
      BY <1>1, <1>2, <1>3, <1>4, <1>5, <2>1 DEF SyncInv
  <1>8. \A q \in Request \ {r} : Apart(q, r)'
    <2>1. \A q \in Request \ {r} : Apart(q, r)
      BY DEF DisplayInv, BillInv
    <2>2. QED
      BY <1>2, <1>3, <1>4, <2>1 DEF Apart
  <1>9. BillInv'
    BY <1>1, <1>6, <1>7, <1>8, SnapshotsOf, NoItemsWritten DEF DisplayInv
  <1>10. QED
    BY <1>1, <1>5, <1>9, MovesKept

LEMMA BillSyncBills ==
  ASSUME DisplayInv, NEW r \in Request, BillSync(r)
  PROVE  BillInv' /\ \A q \in Request : MoveInv(q)'
  <1> DEFINE b == tx[r].bill
             new == [bill[b] EXCEPT !.items = @ \cup tx[r].served, !.charged = tx[r].charged]
  <1>1. tx[r].pc = Summed /\ tx[r].pc \in Undecided /\ tx[r].pc \in Syncing
    BY BillPlaces, Locations DEF BillSync, At
  <1>2. b \in Bill
    BY <1>1, SyncTarget DEF DisplayInv
  <1>3. bill' = [bill EXCEPT ![b] = new] /\ bill[b] \in BillRow
    BY <1>2 DEF BillSync, DisplayInv, Inv, TypeOK
  <1>4. new.items = bill[b].items \cup tx[r].served /\ new.charged = tx[r].charged
    BY <1>3 DEF BillRow
  <1>5. Snapshot(r) = tx[r].served \cup bill[b].items
    BY <1>1, SnapshotOf
  <1>6. tx[r].charged = tx[r].served \cup bill[b].items
    BY <1>1 DEF DisplayInv, BillInv, SyncInv
  <1>7. \A q \in Request \ {r} : tx[q].pc \in Undecided => tx[q].bill # b
    BY <1>1, OneUndecided DEF DisplayInv
  <1>o. ASSUME NEW q \in Request \ {r}, tx[q].pc \in Syncing, tx[q].bill = b
        PROVE  tx[q].added \cap Snapshot(r) = {}
    <2>1. tx[q].added \cap tx[r].served = {}
      BY <1>1, <1>o DEF DisplayInv, BillInv, SyncInv, Apart
    <2>2. tx[q].added \cap bill[b].items = {}
      BY <1>o DEF DisplayInv, BillInv, SyncInv
    <2>3. QED
      BY <1>5, <2>1, <2>2
  <1>8. tx' = [tx EXCEPT ![r] = Idle] /\ order' = order
    BY DEF BillSync, End, Become
  <1> HIDE DEF b, new
  <1>9. new.items = Snapshot(r) /\ new.charged = Snapshot(r) /\ bill[b].items \subseteq Snapshot(r)
    BY <1>4, <1>5, <1>6
  <1>10. BillInv'
    BY <1>2, <1>3, <1>7, <1>o, <1>8, <1>9, ItemsWritten DEF DisplayInv
  <1>11. Idle.pc # Moving
    BY IdleQuiet DEF Quiet
  <1>12. QED
    BY <1>8, <1>10, <1>11, MovesKept

LEMMA GenerateBillBills ==
  ASSUME DisplayInv, NEW r \in Request, GenerateBill(r)
  PROVE  BillInv' /\ \A q \in Request : MoveInv(q)'
  <1>1. CASE BillValidate(r)
    BY <1>1, QuietPlaces, GoQuiet DEF BillValidate, Validate, RowsUnchanged
  <1>2. QED
    BY <1>1, BillReadOrdersBills, BillFindOpenBills, BillCreateBills, BillAddItemsBills,
       BillSumBills, BillSyncBills DEF GenerateBill

-----------------------------------------------------------------------------
LEMMA DisplayInit == Init => DisplayInv
  <1> SUFFICES ASSUME Init PROVE DisplayInv
    OBVIOUS
  <1>1. Inv
    BY InitInv
  <1>2. \A r \in Request : tx[r] = Idle
    BY DEF Init
  <1>3. Idle.pc \notin Reading \cup Syncing /\ Idle.pc # Moving
    BY IdleQuiet DEF Quiet
  <1>4. \A b \in Bill : bill[b].items = {} /\ bill[b].charged = {}
    BY DEF Init, NoBill
  <1>5. \A r \in Request : Snapshot(r) = {}
    BY <1>2, <1>3 DEF Snapshot
  <1>6. Chain
    BY <1>4, <1>5 DEF Chain, Snapshots
  <1>7. (\A r \in Request : SyncInv(r) /\ MoveInv(r)) /\ \A q, r \in Request : Apart(q, r)
    BY <1>2, <1>3, Locations DEF SyncInv, MoveInv, Apart
  <1>8. TotalMatchesItems
    BY <1>4 DEF TotalMatchesItems
  <1>9. QED
    BY <1>1, <1>6, <1>7, <1>8 DEF DisplayInv, BillInv

LEMMA UnchangedBills ==
  ASSUME DisplayInv, UNCHANGED <<order, bill, tx>>
  PROVE  BillInv' /\ \A q \in Request : MoveInv(q)'
  <1>1. Billable' = Billable
    BY DEF Billable
  <1>2. \A r \in Request : Snapshot(r)' = Snapshot(r)
    BY DEF Snapshot
  <1>3. Snapshots' = Snapshots
    BY <1>2 DEF Snapshots
  <1>4. Chain'
    BY <1>1, <1>3 DEF DisplayInv, BillInv, Chain
  <1>5. \A r \in Request : SyncInv(r)' /\ MoveInv(r)'
    BY DEF DisplayInv, BillInv, SyncInv, MoveInv
  <1>6. \A q, r \in Request : q # r => Apart(q, r)'
    BY DEF DisplayInv, BillInv, Apart
  <1>7. TotalMatchesItems'
    BY DEF DisplayInv, BillInv, TotalMatchesItems
  <1>8. QED
    BY <1>4, <1>5, <1>6, <1>7 DEF BillInv

LEMMA DisplayNext ==
  ASSUME MovesApart, DisplayInv, [Next]_vars
  PROVE  DisplayInv'
  <1>1. Inv'
    BY NextInv DEF DisplayInv
  <1>2. ASSUME TimePasses \/ Retire \/ UNCHANGED vars
        PROVE  BillInv' /\ \A q \in Request : MoveInv(q)'
    BY <1>2, UnchangedBills DEF TimePasses, Retire, vars
  <1>3. ASSUME NEW r \in Diner, GuestStep(r) PROVE BillInv' /\ \A q \in Request : MoveInv(q)'
    BY <1>3, AddItemBills, CheckoutBills, GenerateBillBills, LookupBills DEF GuestStep, Request
  <1>4. ASSUME NEW r \in Kitchen, Transition(r) PROVE BillInv' /\ \A q \in Request : MoveInv(q)'
    BY <1>4, TransitionBills
  <1>5. ASSUME NEW r \in Cashier, Settle(r) PROVE BillInv' /\ \A q \in Request : MoveInv(q)'
    BY <1>5, SettleBills DEF Request
  <1>6. ASSUME NEW r \in Request, Abort(r) PROVE BillInv' /\ \A q \in Request : MoveInv(q)'
    BY <1>6, EndQuiet DEF Abort, RowsUnchanged
  <1>7. BillInv' /\ \A q \in Request : MoveInv(q)'
    BY <1>2, <1>3, <1>4, <1>5, <1>6 DEF Next
  <1>8. QED
    BY <1>1, <1>7 DEF DisplayInv

LEMMA OneDisplayApart ==
  ASSUME OneDisplay, DisplayInv
  PROVE  MovesApart
  BY DEF OneDisplay, DisplayInv, MoveInv, MovesApart, Moving

\* When moves of an order do not overlap the invariant of the bills holds.
THEOREM DisplayInvariance == Spec /\ []MovesApart => []DisplayInv
  <1>1. DisplayInv /\ MovesApart /\ [Next]_vars => DisplayInv'
    BY DisplayNext
  <1>2. QED
    BY <1>1, DisplayInit, PTL DEF Spec

\* It does when there is one display.
THEOREM OneDisplayInvariance ==
  ASSUME OneDisplay
  PROVE  Spec => []DisplayInv
  <1>1. DisplayInv => MovesApart
    BY OneDisplayApart
  <1>2. DisplayInv /\ [Next]_vars => DisplayInv'
    BY <1>1, DisplayNext
  <1>3. QED
    BY <1>2, DisplayInit, PTL DEF Spec

LEMMA BilledAreServed == DisplayInv => BilledOrdersServed
  BY SnapshotsOf DEF DisplayInv, BillInv, Chain, BilledOrdersServed, Billable

LEMMA TotalsAreSums == DisplayInv => TotalMatchesItems
  BY DEF DisplayInv, BillInv

\* When moves of an order do not overlap no guest pays for an order that was
\* not served, however bill requests overlap with the kitchen
\* (generate_or_get_bill, transition_order_status).
THEOREM ServedWhenApart == Spec /\ []MovesApart => []BilledOrdersServed
  BY BilledAreServed, DisplayInvariance, PTL

\* When moves of an order do not overlap the total of a bill is the sum of its
\* items, although it is summed before it is written and several requests may
\* do so (generate_or_get_bill).
THEOREM TotalsWhenApart == Spec /\ []MovesApart => []TotalMatchesItems
  BY TotalsAreSums, DisplayInvariance, PTL

\* With one display no guest pays for an order that was not served
\* (generate_or_get_bill, transition_order_status).
THEOREM OnlyServedBilled ==
  ASSUME OneDisplay
  PROVE  Spec => []BilledOrdersServed
  BY BilledAreServed, OneDisplayInvariance, PTL

\* With one display the total of a bill is the sum of its items
\* (generate_or_get_bill).
THEOREM TotalsMatch ==
  ASSUME OneDisplay
  PROVE  Spec => []TotalMatchesItems
  BY TotalsAreSums, OneDisplayInvariance, PTL

-----------------------------------------------------------------------------
(* Moves *)

\* Every order goes through the kitchen as the state machine says.
MovesAllowed ==
    [][\A o \in Placed : order'[o].status # order[o].status =>
           order'[o].status \in AllowedTransitions[order[o].status]]_vars

LEMMA MoveAllowed ==
  ASSUME DisplayInv, [Next]_vars, NEW o \in Placed, order'[o].status # order[o].status
  PROVE  order'[o].status \in AllowedTransitions[order[o].status]
  <1>1. o \in Order /\ order[o].status # "none"
    BY DEF Placed
  <1>2. ASSUME NEW r \in Request, KitchenCommit(r)
        PROVE  order'[o].status \in AllowedTransitions[order[o].status]
    <2>1. tx[r].pc = Moving /\ order' = [order EXCEPT ![tx[r].order].status = tx[r].status]
      BY <1>2 DEF KitchenCommit, At, Moving
    <2>2. tx[r].order = o /\ order'[o].status = tx[r].status
      BY <1>1, <2>1 DEF DisplayInv, Inv, TypeOK, OrderRow
    <2>3. QED
      BY <2>1, <2>2 DEF DisplayInv, MoveInv
  <1>3. ASSUME NEW r \in Request, CheckoutCommit(r)
        PROVE  FALSE
    <2>1. PICK p \in Order \ Placed :
             order' = [order EXCEPT ![p] = [status |-> "NEW", lines |-> tx[r].lines]]
      BY <1>3 DEF CheckoutCommit
    <2>2. p # o
      OBVIOUS
    <2>3. QED
      BY <1>1, <2>1, <2>2 DEF DisplayInv, Inv, TypeOK
  <1>4. order' = order \/ \E r \in Request : KitchenCommit(r) \/ CheckoutCommit(r)
    BY DEF Next, vars, TimePasses, Retire, GuestStep, AddItem, AddValidate, AddReadCart,
           AddCommit, Checkout, CheckoutValidate, CheckoutLock, Validate, Transition,
           KitchenRead, GenerateBill, BillValidate, BillReadOrders, BillFindOpen, BillCreate,
           BillAddItems, BillSum, BillSync, Lookup, LookupRead, LookupExpire, Settle,
           SettleReadBill, SettleCheckOrders, SettleWriteSession, SettleWriteBill,
           SettleCommit, Abort, RowsUnchanged, Request
  <1>5. QED
    BY <1>2, <1>3, <1>4

\* When moves of an order do not overlap it never skips a stage, goes back, or
\* leaves SERVED or CANCELLED (transition_order_status).
THEOREM MovesFollowTheMachine == Spec /\ []MovesApart => MovesAllowed
  <1>1. DisplayInv /\ [Next]_vars =>
            [\A o \in Placed : order'[o].status # order[o].status =>
                order'[o].status \in AllowedTransitions[order[o].status]]_vars
    BY MoveAllowed
  <1>2. QED
    BY <1>1, DisplayInvariance, PTL DEF Spec, MovesAllowed

-----------------------------------------------------------------------------
(* A settlement that overlaps with no order, bill or move *)

\* While a bill is being settled every other request is idle, adds an item or
\* looks the session up.
SettlesAlone ==
    \A r \in Request : tx[r].pc \in Settling =>
        \A q \in Request \ {r} : tx[q].pc \in Other

\* What a settlement has checked is still so.
Kept(r) ==
    /\ tx[r].pc \in Settling => bill[tx[r].bill].status = "OPEN"
    /\ tx[r].pc \in Checked => AllResolved

\* A closed table has come to rest.
AtRest ==
    Closed => AllResolved /\ OpenBill = {} /\ \A r \in Request : tx[r].pc \in Other

\* A bill is stamped when it is settled, and once.
Stamped ==
    \A b \in Bill : bill[b].stamps <= 1 /\ (bill[b].status # "SETTLED" => bill[b].stamps = 0)

AloneInv ==
    /\ Inv
    /\ \A r \in Request : Kept(r)
    /\ AtRest
    /\ Stamped
    /\ ~overtaken

\* Before the table is closed a step that nobody settles at keeps it all.
LEMMA NobodySettles ==
  ASSUME Inv', Stamped', ~overtaken', ~Closed', \A q \in Request : tx'[q].pc \notin Settling
  PROVE  AloneInv'
  <1>1. \A q \in Request : Kept(q)'
    BY Places DEF Kept
  <1>2. AtRest'
    BY DEF AtRest
  <1>3. QED
    BY <1>1, <1>2 DEF AloneInv

\* So does one that leaves the orders and the bills alone.
LEMMA RowsRest ==
  ASSUME AloneInv, Inv', NEW r \in Request, UNCHANGED <<order, bill, overtaken>>,
         \A q \in Request \ {r} : tx'[q] = tx[q],
         Kept(r)', Closed => tx'[r].pc \in Other
  PROVE  AloneInv'
  <1>1. AllResolved' = AllResolved /\ OpenBill' = OpenBill /\ (Closed' <=> Closed)
    BY DEF AllResolved, Placed, OpenBill, Closed
  <1>2. \A q \in Request \ {r} : Kept(q)'
    BY <1>1 DEF AloneInv, Kept
  <1>3. AtRest'
    BY <1>1 DEF AloneInv, AtRest
  <1>4. Stamped'
    BY DEF AloneInv, Stamped
  <1>5. \A q \in Request : Kept(q)'
    BY <1>2
  <1>6. QED
    BY <1>3, <1>4, <1>5 DEF AloneInv

LEMMA SettleReadRests ==
  ASSUME AloneInv, Inv', NEW r \in Request, SettleReadBill(r)
  PROVE  AloneInv'
  <1>1. PICK b \in OpenBill : Become(r, [tx[r] EXCEPT !.pc = "settle:bill read", !.bill = b])
    BY DEF SettleReadBill
  <1>2. tx'[r].pc \in Settling \ Checked /\ tx'[r].bill = b
    BY <1>1 DEF Become, AloneInv, Inv, TypeOK, Tx, Settling, Checked
  <1>3. UNCHANGED <<order, bill, overtaken>> /\ bill[b].status = "OPEN" /\ OpenBill # {}
    BY DEF SettleReadBill, RowsUnchanged, OpenBill
  <1>4. Kept(r)'
    BY <1>2, <1>3 DEF Kept
  <1>5. ~Closed
    BY <1>3 DEF AloneInv, AtRest
  <1>6. QED
    BY <1>3, <1>4, <1>5, OthersStay, RowsRest DEF AloneInv, Settle, Act

LEMMA SettleCheckRests ==
  ASSUME AloneInv, Inv', NEW r \in Request, SettleCheckOrders(r)
  PROVE  AloneInv'
  <1>1. tx[r].pc \in Settling /\ UNCHANGED <<order, bill, overtaken>>
    BY DEF SettleCheckOrders, At, Settling, RowsUnchanged
  <1>2. ~Closed
    BY <1>1, Places DEF AloneInv, AtRest
  <1>3. CASE End(r)
    <2>1. tx'[r].pc \in Other
      BY <1>3, EndPlace DEF AloneInv
    <2>2. Kept(r)'
      BY <2>1, Places DEF Kept
    <2>3. QED
      BY <1>1, <2>1, <2>2, OthersStay, RowsRest DEF AloneInv, Settle, Act
  <1>4. CASE /\ Become(r, [tx[r] EXCEPT !.pc = "settle:orders checked", !.session = session])
             /\ ~\E o \in Order : order[o].status \in UnresolvedStatuses
    <2>1. tx'[r].pc \in Checked /\ tx'[r].bill = tx[r].bill
      BY <1>4 DEF Become, AloneInv, Inv, TypeOK, Tx, Checked
    <2>2. AllResolved
      BY <1>4 DEF AllResolved, Placed, UnresolvedStatuses, AloneInv, Inv, TypeOK, OrderRow, OrderStatus
    <2>3. Kept(r)'
      BY <1>1, <2>1, <2>2 DEF Kept, AloneInv, AllResolved, Placed
    <2>4. QED
      BY <1>1, <1>2, <2>3, OthersStay, RowsRest DEF AloneInv, Settle, Act
  <1>5. QED
    BY <1>3, <1>4 DEF SettleCheckOrders

LEMMA SettleWriteRests ==
  ASSUME AloneInv, Inv', NEW r \in Request, SettleWriteSession(r) \/ SettleWriteBill(r)
  PROVE  AloneInv'
  <1>1. /\ UNCHANGED <<order, bill, overtaken>> /\ tx[r].pc \in Checked
        /\ Go(r, "settle:session written") \/ Go(r, "settle:bill written")
    BY DEF SettleWriteSession, SettleWriteBill, RowsUnchanged, At, Checked
  <1>2. tx'[r].pc \in Checked /\ tx'[r].bill = tx[r].bill
    BY <1>1, GoPlace DEF AloneInv, Checked, Location
  <1>3. Kept(r)'
    BY <1>1, <1>2, Places DEF Kept, AloneInv, AllResolved, Placed
  <1>4. ~Closed
    BY <1>1, Places DEF AloneInv, AtRest
  <1>5. QED
    BY <1>1, <1>3, <1>4, OthersStay, RowsRest DEF AloneInv, Settle, Act

LEMMA SettleCommitRests ==
  ASSUME SettlesAlone, AloneInv, Inv', NEW r \in Request, SettleCommit(r)
  PROVE  AloneInv'
  <1> DEFINE b == tx[r].bill
  <1>1. tx[r].pc \in Checked /\ tx[r].pc \in Settling /\ order' = order /\ End(r)
    BY Places DEF SettleCommit, At, Checked
  <1>2. b \in Bill /\ bill[b].status = "OPEN" /\ bill[b].stamps = 0
    BY <1>1 DEF AloneInv, Kept, Stamped, Inv, TargetInv, Target, Settling, Checked
  <1>3. /\ bill'[b].status = "SETTLED" /\ bill'[b].stamps = 1
        /\ \A c \in Bill : c # b => bill'[c] = bill[c]
    <2> DEFINE paid == [bill[b] EXCEPT !.status = "SETTLED", !.stamps = @ + 1]
    <2>1. bill' = [bill EXCEPT ![b] = paid] /\ bill \in [Bill -> BillRow]
      BY <1>2 DEF SettleCommit, AloneInv, Inv, TypeOK
    <2>2. paid.status = "SETTLED" /\ paid.stamps = 1
      BY <1>2, <2>1 DEF BillRow
    <2> HIDE DEF paid, b
    <2>3. QED
      BY <1>2, <2>1, <2>2
  <1>4. \A c \in Bill : bill[c].status = "OPEN" => c = b
    BY <1>2 DEF AloneInv, Inv, OneOpenBill, OpenBill
  <1>5. \A q \in Request \ {r} : tx'[q] = tx[q] /\ tx[q].pc \in Other
    BY <1>1, OthersStay DEF SettlesAlone, AloneInv, Settle, Act
  <1>6. ~overtaken'
    <2>1. \A q \in Request : ~LooksForBill(q)
      BY <1>1, <1>5 DEF LooksForBill, Other, Checked
    <2>2. QED
      BY <2>1 DEF SettleCommit, AloneInv
  <1> HIDE DEF b
  <1>7. OpenBill' = {}
    BY <1>3, <1>4 DEF OpenBill
  <1>8. Stamped'
    <2>1. \A c \in Bill : c # b => bill'[c].stamps <= 1 /\ (bill'[c].status # "SETTLED" => bill'[c].stamps = 0)
      BY <1>3 DEF AloneInv, Stamped
    <2>2. QED
      BY <1>3, <2>1 DEF Stamped
  <1>9. AllResolved'
    BY <1>1 DEF AloneInv, Kept, AllResolved, Placed
  <1>10. \A q \in Request : tx'[q].pc \in Other
    BY <1>1, <1>5, EndPlace DEF AloneInv
  <1>11. \A q \in Request : Kept(q)'
    BY <1>10, Places DEF Kept
  <1>12. AtRest'
    BY <1>7, <1>9, <1>10 DEF AtRest
  <1>13. QED
    BY <1>6, <1>8, <1>11, <1>12 DEF AloneInv

LEMMA SettleInit == Init => AloneInv
  <1> SUFFICES ASSUME Init PROVE AloneInv
    OBVIOUS
  <1>1. \A r \in Request : tx[r].pc = "idle"
    BY DEF Init, Idle
  <1>2. ~Closed /\ ~overtaken
    BY DEF Init, Closed, NoBill
  <1>3. Stamped
    BY DEF Init, Stamped, NoBill
  <1>4. \A r \in Request : Kept(r)
    BY <1>1, Places DEF Kept
  <1>5. QED
    BY <1>2, <1>3, <1>4, InitInv DEF AloneInv, AtRest

\* Only a settlement stamps a bill.
LEMMA ServeStamps ==
  ASSUME Inv, Stamped, NEW r \in Request, Serve(r)
  PROVE  Stamped' /\ overtaken' = overtaken
  <1>1. overtaken' = overtaken
    BY DEF Serve, CheckoutLock, CheckoutCommit, KitchenCommit, BillReadOrders, BillFindOpen,
           BillCreate, BillAddItems, BillSum, BillSync, RowsUnchanged
  <1>2. CASE bill' = bill
    BY <1>1, <1>2 DEF Stamped
  <1>3. CASE BillSync(r)
    <2>1. bill' = [bill EXCEPT ![tx[r].bill].items = @ \cup tx[r].served,
                               ![tx[r].bill].charged = tx[r].charged]
      BY <1>3 DEF BillSync
    <2>2. \A b \in Bill : bill'[b].status = bill[b].status /\ bill'[b].stamps = bill[b].stamps
      BY <2>1 DEF Inv, TypeOK, BillRow
    <2>3. QED
      BY <1>1, <2>2 DEF Stamped
  <1>4. CASE BillCreate(r) /\ ~OpenBillRefused
    <2>1. PICK b \in Bill :
             /\ bill[b].status = "none"
             /\ bill' = [bill EXCEPT ![b] = [NoBill EXCEPT
                              !.status = "OPEN",
                              !.items = tx[r].served,
                              !.charged = tx[r].served]]
      BY <1>4 DEF BillCreate
    <2>2. bill'[b].stamps = 0 /\ \A c \in Bill : c # b => bill'[c] = bill[c]
      BY <2>1 DEF Inv, TypeOK, NoBill
    <2>3. \A c \in Bill : c # b => bill'[c].stamps <= 1 /\ (bill'[c].status # "SETTLED" => bill'[c].stamps = 0)
      BY <2>2 DEF Stamped
    <2>4. QED
      BY <1>1, <2>2, <2>3 DEF Stamped
  <1>5. bill' = bill \/ BillSync(r) \/ (BillCreate(r) /\ ~OpenBillRefused)
    BY DEF Serve, CheckoutLock, CheckoutCommit, KitchenCommit, BillReadOrders, BillFindOpen,
           BillCreate, BillAddItems, BillSum, RowsUnchanged
  <1>6. QED
    BY <1>2, <1>3, <1>4, <1>5

LEMMA SettleNext ==
  ASSUME SettlesAlone, AloneInv, [Next]_vars
  PROVE  AloneInv'
  <1>1. Inv /\ Inv'
    BY NextInv DEF AloneInv
  <1>2. CASE TimePasses \/ Retire \/ UNCHANGED vars
    <2>1. UNCHANGED <<order, bill, tx, overtaken>>
      BY <1>2 DEF TimePasses, Retire, vars
    <2>2. AllResolved' = AllResolved /\ OpenBill' = OpenBill /\ (Closed' <=> Closed)
      BY <2>1 DEF AllResolved, Placed, OpenBill, Closed
    <2>3. \A r \in Request : Kept(r)'
      BY <2>1, <2>2 DEF AloneInv, Kept
    <2>4. AtRest' /\ Stamped'
      BY <2>1, <2>2 DEF AloneInv, AtRest, Stamped
    <2>5. QED
      BY <1>1, <2>1, <2>3, <2>4 DEF AloneInv
  <1>3. ASSUME NEW r \in Request, AddItem(r) \/ Lookup(r) \/ Abort(r) PROVE AloneInv'
    <2>1. tx'[r].pc \in Other /\ UNCHANGED <<order, bill>>
      BY <1>1, <1>3, AsidePlace
    <2>2. overtaken' = overtaken
      BY <1>3 DEF AddItem, AddValidate, AddReadCart, AddCommit, Validate, Lookup, LookupRead,
                  LookupExpire, Abort, RowsUnchanged
    <2>3. Kept(r)'
      BY <2>1, Places DEF Kept
    <2>4. QED
      BY <1>1, <1>3, <2>1, <2>2, <2>3, OthersStay, RowsRest DEF Act
  <1>4. ASSUME NEW r \in Request, Arrive(r) PROVE AloneInv'
    <2>1. tx'[r].pc \in Serving /\ ~Closed' /\ RowsUnchanged
      BY <1>1, <1>4, ArrivePlace DEF AloneInv, AtRest
    <2>2. Kept(r)'
      BY <2>1, Places DEF Kept
    <2>3. UNCHANGED <<order, bill, overtaken>> /\ ~Closed
      BY <2>1 DEF RowsUnchanged, Closed
    <2>4. QED
      BY <1>1, <1>4, <2>2, <2>3, OthersStay, RowsRest DEF Act
  <1>5. ASSUME NEW r \in Request, Serve(r) PROVE AloneInv'
    <2>1. tx[r].pc \in Serving /\ tx'[r].pc \in Serving \cup Other /\ (Closed' <=> Closed)
      BY <1>1, <1>5, ServePlace
    <2>2. ~Closed'
      BY <2>1, Places DEF AloneInv, AtRest
    <2>3. \A q \in Request \ {r} : tx[q].pc \notin Settling
      BY <2>1, Places DEF SettlesAlone
    <2>4. \A q \in Request : tx'[q].pc \notin Settling
      BY <1>1, <1>5, <2>1, <2>3, OthersStay, Places DEF Act
    <2>5. Stamped' /\ ~overtaken'
      BY <1>5, ServeStamps DEF AloneInv
    <2>6. QED
      BY <1>1, <2>2, <2>4, <2>5, NobodySettles
  <1>6. ASSUME NEW r \in Request, Settle(r) PROVE AloneInv'
    BY <1>1, <1>6, SettleReadRests, SettleCheckRests, SettleWriteRests, SettleCommitRests DEF Settle
  <1>7. QED
    BY <1>2, <1>3, <1>4, <1>5, <1>6, Kinds DEF Act

\* A settlement that is alone keeps what it has checked, and leaves the table
\* at rest (settle_bill).
THEOREM SettleInvariance == Spec /\ []SettlesAlone => []AloneInv
  <1>1. AloneInv /\ SettlesAlone /\ [Next]_vars => AloneInv'
    BY SettleNext
  <1>2. QED
    BY <1>1, SettleInit, PTL DEF Spec

\* A table whose settlement overlaps with no order, bill or move is closed only
\* with all its orders served or cancelled (settle_bill).
THEOREM ResolvedWhenAlone == Spec /\ []SettlesAlone => []ClosedMeansResolved
  <1>1. AloneInv => ClosedMeansResolved
    BY DEF AloneInv, AtRest, ClosedMeansResolved, AllResolved
  <1>2. QED
    BY <1>1, SettleInvariance, PTL

\* Then a second cashier who settles the bill is turned away, which two that
\* overlap are not (settle_bill).
THEOREM SettledOnceWhenAlone == Spec /\ []SettlesAlone => []SettledOnce
  <1>1. AloneInv => SettledOnce
    BY DEF AloneInv, Stamped, SettledOnce
  <1>2. QED
    BY <1>1, SettleInvariance, PTL

\* And the table gets one bill: none is created after it is closed
\* (generate_or_get_bill, settle_bill).
THEOREM OneBillWhenAlone == Spec /\ []SettlesAlone => [](\A b, c \in AnyBill : b = c)
  <1>1. AloneInv => \A b, c \in AnyBill : b = c
    BY DEF AloneInv, Inv, OneBillInv
  <1>2. QED
    BY <1>1, SettleInvariance, PTL

-----------------------------------------------------------------------------
(* What is closed stays as it is *)

\* The status of the session may still turn from CLOSED to EXPIRED, by a lookup
\* that read it before it was closed.
ClosedIsFinal ==
    [][Closed => UNCHANGED <<order, bill>> /\ session' \in {session, "EXPIRED"}]_vars

LEMMA RestIsFinal ==
  ASSUME AloneInv, [Next]_vars, Closed
  PROVE  UNCHANGED <<order, bill>> /\ session' \in {session, "EXPIRED"}
  <1>1. Inv /\ AllResolved /\ OpenBill = {} /\ \A r \in Request : tx[r].pc \in Other
    BY DEF AloneInv, AtRest
  <1>2. ASSUME NEW r \in Request, Arrive(r) \/ Serve(r) PROVE FALSE
    <2>1. CASE Arrive(r)
      BY <1>1, <2>1, ArrivePlace DEF RowsUnchanged, Closed
    <2>2. CASE Serve(r)
      BY <1>1, <2>2, ServePlace, Places
    <2>3. QED
      BY <1>2, <2>1, <2>2
  <1>3. ASSUME NEW r \in Request, Settle(r) PROVE FALSE
    <2>1. ~SettleReadBill(r)
      BY <1>1 DEF SettleReadBill
    <2>2. tx[r].pc \in Settling
      BY <1>3, <2>1 DEF Settle, SettleCheckOrders, SettleWriteSession, SettleWriteBill,
                        SettleCommit, At, Settling, Checked
    <2>3. QED
      BY <1>1, <2>2, Places
  <1>4. ASSUME NEW r \in Request, AddItem(r) \/ Lookup(r) \/ Abort(r)
        PROVE  UNCHANGED <<order, bill>> /\ session' \in {session, "EXPIRED"}
    <2>1. UNCHANGED <<order, bill>>
      BY <1>1, <1>4, AsidePlace
    <2>2. session' \in {session, "EXPIRED"}
      BY <1>4 DEF AddItem, AddValidate, AddReadCart, AddCommit, Validate, Lookup, LookupRead,
                  LookupExpire, Abort, RowsUnchanged, SessionUnchanged
    <2>3. QED
      BY <2>1, <2>2
  <1>5. CASE TimePasses \/ Retire \/ UNCHANGED vars
    BY <1>5 DEF TimePasses, Retire, vars
  <1>6. QED
    BY <1>2, <1>3, <1>4, <1>5, Kinds DEF Act

\* Then nothing happens at a table any more once it is closed: no order is
\* placed or moved and no bill is written (every handler of the module).
THEOREM FinalWhenAlone == Spec /\ []SettlesAlone => ClosedIsFinal
  <1>1. AloneInv /\ [Next]_vars =>
            [Closed => UNCHANGED <<order, bill>> /\ session' \in {session, "EXPIRED"}]_vars
    BY RestIsFinal
  <1>2. QED
    BY <1>1, SettleInvariance, PTL DEF Spec, ClosedIsFinal

\* In particular a settled bill is never touched again (settle_bill,
\* generate_or_get_bill).
THEOREM FrozenWhenAlone == Spec /\ []SettlesAlone => SettledBillFrozen
  <1>1. AloneInv /\ [Next]_vars =>
            [\A b \in Bill : bill[b].status = "SETTLED" => bill'[b] = bill[b]]_vars
    <2> SUFFICES ASSUME AloneInv, [Next]_vars, NEW b \in Bill, bill[b].status = "SETTLED"
                 PROVE  bill'[b] = bill[b]
      OBVIOUS
    <2>1. Closed
      BY DEF Closed
    <2>2. QED
      BY <2>1, RestIsFinal
  <1>2. QED
    BY <1>1, SettleInvariance, PTL DEF Spec, SettledBillFrozen

=============================================================================
