------------------------ MODULE DiningSession_proofs ------------------------
(***************************************************************************)
(* Proofs about DiningSession, for any number of guests, kitchen displays, *)
(* cashiers, cart items, orders and bills.                                 *)
(***************************************************************************)
EXTENDS DiningSession, WellFoundedInduction, TLAPS

\* The initial state satisfies the inductive invariant: an empty cart, no
\* order and no bill.
LEMMA InitInv == Init => Inv
  <1> SUFFICES ASSUME Init PROVE Inv
    OBVIOUS
  <1> USE DEF Init
  <1>1. TypeOK
    BY DEF TypeOK, SessionStatus, CartRow, OrderRow, BillRow, Tx, Location,
           Idle, NoOrder, NoBill
  <1>2. LockInv /\ TargetInv /\ InsertInv
    BY DEF LockInv, TargetInv, Target, InsertInv, At, Idle
  <1>3. AbsentInv /\ ClosedInv /\ OneBillInv
    BY DEF AbsentInv, ClosedInv, OneBillInv, AnyBill, Closed, NoOrder, NoBill, Idle
  <1>4. LinesConserved
    BY DEF LinesConserved, NoOrder
  <1>5. NoEmptyOrder /\ OneOpenBill
    BY DEF NoEmptyOrder, OneOpenBill, Placed, OpenBill, NoOrder, NoBill
  <1>6. QED
    BY <1>1, <1>2, <1>3, <1>4, <1>5 DEF Inv

\* What a transaction may look like without anything of the rows to rely on.
Sound(t) ==
    /\ t.session = "CLOSED" => Closed
    /\ t.pc = "bill:open found" => \A a \in t.added, m \in t.served \ t.added : m < a

\* A step that writes no row and takes no lock preserves the invariant, as
\* long as the request refers to rows that are there.
LEMMA QuietStep ==
  ASSUME Inv, NEW r \in Request, RowsUnchanged,
         NEW t \in Tx, tx' = [tx EXCEPT ![r] = t],
         t.pc # "checkout:locked",
         Target(r)', Sound(t),
         LooksForBill(r)' => LooksForBill(r) \/ ~Closed
  PROVE  Inv'
  <1> USE DEF Inv, RowsUnchanged, SessionUnchanged
  <1>1. TypeOK'
    BY DEF TypeOK
  <1>2. \A q \in Request : q # r => tx'[q] = tx[q]
    BY DEF TypeOK
  <1>3. tx'[r] = t
    BY DEF TypeOK
  <1>4. LockInv'
    BY <1>2, <1>3 DEF LockInv, CartFree, HoldsCart, At
  <1>5. TargetInv'
    BY <1>2 DEF TargetInv, Target, At, Placed
  <1>6. AbsentInv' /\ LinesConserved' /\ NoEmptyOrder' /\ OneOpenBill'
    BY DEF AbsentInv, LinesConserved, NoEmptyOrder, OneOpenBill, OpenBill, Placed
  <1>7. ClosedInv'
    BY <1>2, <1>3 DEF ClosedInv, Closed, Sound
  <1>8. InsertInv'
    BY <1>2, <1>3 DEF InsertInv, At, Sound
  <1>9. OneBillInv'
    BY <1>2 DEF OneBillInv, AnyBill, Closed, LooksForBill
  <1>10. QED
    BY <1>1, <1>4, <1>5, <1>6, <1>7, <1>8, <1>9

LEMMA IdleTx == Idle \in Tx /\ Idle.pc = "idle" /\ Idle.session = "ACTIVE"
  BY DEF Idle, Tx, Location, SessionStatus

\* Ending a request without writing preserves the invariant.
LEMMA IdleStep ==
  ASSUME Inv, NEW r \in Request, RowsUnchanged, End(r)
  PROVE  Inv'
  <1>1. Idle \in Tx /\ Idle.pc = "idle" /\ Sound(Idle)
    BY IdleTx DEF Sound
  <1>2. tx' = [tx EXCEPT ![r] = Idle]
    BY DEF End, Become
  <1>3. tx'[r].pc = "idle"
    BY <1>1, <1>2 DEF Inv, TypeOK
  <1>4. Target(r)' /\ ~LooksForBill(r)'
    BY <1>3 DEF Target, At, LooksForBill
  <1>5. QED
    BY <1>1, <1>2, <1>4, QuietStep

\* A request in flight has read the session as CLOSED only if it is closed.
LEMMA SoundTx ==
  ASSUME Inv, NEW r \in Request
  PROVE  Sound(tx[r])
  BY DEF Inv, ClosedInv, InsertInv, Sound, At

\* Moving on without reading or writing preserves the invariant when the
\* location reached says nothing about the rows.
LEMMA GoStep ==
  ASSUME Inv, NEW r \in Request, RowsUnchanged,
         NEW pc \in Location, Go(r, pc), pc \notin {"checkout:locked", "bill:open found"},
         Target(r)', LooksForBill(r)' => LooksForBill(r) \/ ~Closed
  PROVE  Inv'
  <1> DEFINE t == [tx[r] EXCEPT !.pc = pc]
  <1>1. t \in Tx /\ t.pc = pc /\ t.session = tx[r].session
    BY DEF Inv, TypeOK, Tx
  <1>2. tx' = [tx EXCEPT ![r] = t]
    BY DEF Go, Become
  <1> HIDE DEF t
  <1>3. Sound(t)
    BY <1>1, SoundTx DEF Sound
  <1>4. QED
    BY <1>1, <1>2, <1>3, QuietStep

\* The end of a request that leaves the bills alone, and does not reopen the
\* session, tells nothing new about bills.
LEMMA EndKeepsBills ==
  ASSUME Inv, NEW r \in Request, End(r), UNCHANGED <<bill, overtaken>>
  PROVE  InsertInv' /\ OneBillInv' /\ OneOpenBill'
  <1> USE DEF Inv
  <1>1. tx' = [tx EXCEPT ![r] = Idle] /\ Idle.pc = "idle"
    BY IdleTx DEF End, Become
  <1>2. \A q \in Request : tx'[q] = tx[q] \/ tx'[q].pc = "idle"
    BY <1>1 DEF TypeOK
  <1>3. InsertInv'
    BY <1>2 DEF InsertInv, At
  <1>4. OneBillInv'
    BY <1>2 DEF OneBillInv, AnyBill, Closed, LooksForBill
  <1>5. OneOpenBill'
    BY DEF OneOpenBill, OpenBill
  <1>6. QED
    BY <1>3, <1>4, <1>5

\* So does it tell nothing new about the table being closed.
LEMMA EndKeepsClosed ==
  ASSUME Inv, NEW r \in Request, End(r), UNCHANGED <<session, bill>>,
         cart'.status = cart.status
  PROVE  ClosedInv'
  <1>1. tx' = [tx EXCEPT ![r] = Idle] /\ Idle.session = "ACTIVE"
    BY IdleTx DEF End, Become
  <1>2. \A q \in Request : tx'[q] = tx[q] \/ tx'[q].session = "ACTIVE"
    BY <1>1 DEF Inv, TypeOK
  <1>3. QED
    BY <1>2 DEF Inv, ClosedInv, Closed

\* A request whose statement does not wait finds the cart unlocked, if it is
\* the cart that the statement needs.
LEMMA CartGranted ==
  ASSUME NEW r \in Request, Granted(r), WantsCart(r)
  PROVE  CartFree(r)
  BY DEF Granted, WaitsFor, CartFree

\* Then nobody at all holds it.
LEMMA NobodyHolds ==
  ASSUME Inv, NEW r \in Request, Granted(r), WantsCart(r)
  PROVE  \A q \in Request : tx[q].pc # "checkout:locked"
  BY CartGranted DEF CartFree, HoldsCart, WantsCart, At

\* Adding a line: nobody holds the lock, so no checkout has read the cart.
LEMMA AddCommitInv ==
  ASSUME Inv, NEW r \in Request, AddCommit(r)
  PROVE  Inv'
  <1> USE DEF Inv, AddCommit, SessionUnchanged
  <1>1. PICK l \in Line \ inserted :
           /\ cart' = [cart EXCEPT !.lines = @ \cup {l}]
           /\ inserted' = inserted \cup {l}
    OBVIOUS
  <1>2. /\ tx' = [tx EXCEPT ![r] = Idle]
        /\ UNCHANGED <<session, overdue, order, bill, overtaken>>
    BY DEF End, Become
  <1>3. Idle \in Tx /\ Idle.pc = "idle"
    BY IdleTx
  <1>4. TypeOK'
    BY <1>1, <1>2, <1>3 DEF TypeOK, CartRow
  <1>5. \A q \in Request : ~At(q, "checkout:locked")'
    <2>1. \A q \in Request : tx[q].pc # "checkout:locked"
      BY NobodyHolds DEF WantsCart, At
    <2>2. QED
      BY <1>2, <1>3, <2>1 DEF TypeOK, At
  <1>6. LockInv'
    BY <1>5 DEF LockInv
  <1>7. TargetInv'
    BY <1>2, <1>3 DEF TargetInv, Target, At, Placed, TypeOK
  <1>8. LinesConserved'
    <2> DEFINE ordered == UNION {order[o].lines : o \in Order}
    <2>0. inserted = cart.lines \cup ordered
      BY DEF LinesConserved
    <2>1. \A o \in Order : l \notin order[o].lines
      BY <1>1 DEF LinesConserved
    <2>2. cart'.lines = cart.lines \cup {l}
      BY <1>1 DEF TypeOK, CartRow
    <2>3. ordered' = ordered
      BY <1>2
    <2>4. inserted' = cart'.lines \cup ordered'
      <3> HIDE DEF ordered
      <3> QED
        BY <1>1, <2>0, <2>2, <2>3
    <2>5. \A o \in Order : order'[o].lines \cap cart'.lines = {}
      <3>1. \A o \in Order : order[o].lines \cap cart.lines = {}
        BY DEF LinesConserved
      <3>2. order' = order
        BY <1>2
      <3> QED
        BY ONLY <3>1, <3>2, <2>1, <2>2
    <2>6. QED
      BY <1>2, <2>4, <2>5 DEF LinesConserved
  <1>9. AbsentInv' /\ NoEmptyOrder'
    BY <1>2 DEF AbsentInv, NoEmptyOrder, Placed
  <1>10. InsertInv' /\ OneBillInv' /\ OneOpenBill'
    BY EndKeepsBills
  <1>11. ClosedInv'
    <2>1. cart'.status = cart.status
      BY <1>1 DEF TypeOK, CartRow
    <2>2. QED
      BY <2>1, EndKeepsClosed
  <1>12. QED
    BY <1>4, <1>6, <1>7, <1>8, <1>9, <1>10, <1>11

\* Locking the cart: what is read is what is there, and nobody else has it.
LEMMA CheckoutLockInv ==
  ASSUME Inv, NEW r \in Request, CheckoutLock(r)
  PROVE  Inv'
  <1> USE DEF Inv, CheckoutLock, RowsUnchanged, SessionUnchanged
  <1>1. CASE CartToCheckOut
    <2> DEFINE t == [tx[r] EXCEPT !.pc = "checkout:locked", !.lines = cart.lines]
    <2>1. tx' = [tx EXCEPT ![r] = t]
      BY <1>1 DEF Become
    <2>2. /\ t \in Tx /\ t.pc = "checkout:locked" /\ t.lines = cart.lines
          /\ t.session = tx[r].session
      BY ZenonT(60) DEF TypeOK, Tx, Location, CartRow
    <2> HIDE DEF t
    <2>3. tx'[r] = t
      BY <2>1 DEF TypeOK
    <2>n. \A q \in Request : tx[q].pc # "checkout:locked"
      BY NobodyHolds DEF WantsCart, At
    <2>4. \A q \in Request \ {r} : tx'[q] = tx[q] /\ tx[q].pc # "checkout:locked"
      BY <2>1, <2>n DEF TypeOK
    <2>5. TypeOK'
      BY <2>1, <2>2 DEF TypeOK
    <2>6. LockInv'
      BY <1>1, <2>2, <2>3, <2>4 DEF LockInv, CartFree, HoldsCart, At, CartToCheckOut
    <2>7. TargetInv'
      BY <2>2, <2>3, <2>4 DEF TargetInv, Target, At, Placed
    <2>8. AbsentInv' /\ LinesConserved' /\ NoEmptyOrder' /\ OneOpenBill'
      BY DEF AbsentInv, LinesConserved, NoEmptyOrder, OneOpenBill, OpenBill, Placed
    <2>9. ClosedInv' /\ InsertInv'
      BY <2>2, <2>3, <2>4 DEF ClosedInv, Closed, InsertInv, At
    <2>10. OneBillInv'
      BY <2>2, <2>3, <2>4 DEF OneBillInv, AnyBill, Closed, LooksForBill
    <2>11. QED
      BY <2>5, <2>6, <2>7, <2>8, <2>9, <2>10
  <1>2. CASE ~CartToCheckOut
    BY <1>2, IdleStep
  <1>3. QED
    BY <1>1, <1>2

\* Placing the order: the lines read under the lock are all the cart has,
\* so they leave it as they enter the order.
LEMMA CheckoutCommitInv ==
  ASSUME Inv, NEW r \in Request, CheckoutCommit(r)
  PROVE  Inv'
  <1> USE DEF Inv, CheckoutCommit, SessionUnchanged
  <1>1. PICK o \in Order \ Placed :
           order' = [order EXCEPT ![o] = [status |-> "NEW", lines |-> tx[r].lines]]
    OBVIOUS
  <1>2. /\ tx' = [tx EXCEPT ![r] = Idle]
        /\ UNCHANGED <<session, overdue, inserted, bill, overtaken>>
    BY DEF End, Become
  <1>3. Idle \in Tx /\ Idle.pc = "idle"
    BY IdleTx
  <1>4. tx[r].lines = cart.lines /\ cart.lines # {} /\ CartFree(r)
    BY DEF LockInv
  <1>5. cart' \in CartRow /\ cart'.lines = {} /\ cart'.status = cart.status
    BY <1>4 DEF TypeOK, CartRow
  <1>6. /\ order'[o].status = "NEW"
        /\ order'[o].lines = cart.lines
        /\ \A p \in Order \ {o} : order'[p] = order[p]
    BY <1>1, <1>4 DEF TypeOK
  <1>7. order[o].status = "none" /\ order[o].lines = {}
    BY <1>1 DEF AbsentInv, Placed
  <1>8. TypeOK'
    <2>1. order' \in [Order -> OrderRow]
      BY <1>1, <1>4 DEF TypeOK, OrderRow, CartRow, OrderStatus
    <2>2. QED
      BY <1>2, <1>3, <1>5, <2>1 DEF TypeOK
  <1>9. LockInv'
    BY <1>2, <1>3, <1>4 DEF TypeOK, LockInv, CartFree, HoldsCart, At
  <1>10. Placed' = Placed \cup {o}
    BY <1>1, <1>6 DEF Placed
  <1>11. TargetInv'
    BY <1>2, <1>3, <1>10 DEF TargetInv, Target, At, TypeOK
  <1>12. AbsentInv' /\ NoEmptyOrder'
    BY <1>2, <1>4, <1>6, <1>10 DEF AbsentInv, NoEmptyOrder
  <1>13. LinesConserved'
    BY <1>2, <1>5, <1>6, <1>7 DEF LinesConserved
  <1>14. InsertInv' /\ OneBillInv' /\ OneOpenBill'
    BY EndKeepsBills
  <1>15. ClosedInv'
    BY <1>2, <1>5, EndKeepsClosed
  <1>16. QED
    BY <1>8, <1>9, <1>11, <1>12, <1>13, <1>14, <1>15

\* A move in the kitchen leaves every row but the order's status alone.
LEMMA KitchenCommitInv ==
  ASSUME Inv, NEW r \in Request, KitchenCommit(r)
  PROVE  Inv'
  <1> USE DEF Inv, KitchenCommit, SessionUnchanged
  <1> DEFINE o == tx[r].order
             s == tx[r].status
  <1>1. /\ tx' = [tx EXCEPT ![r] = Idle]
        /\ UNCHANGED <<session, overdue, cart, inserted, bill, overtaken>>
    BY DEF End, Become
  <1>2. Idle \in Tx /\ Idle.pc = "idle"
    BY IdleTx
  <1>3. o \in Order /\ order[o].status # "none" /\ s \in OrderStatus
    BY DEF TargetInv, Target, Placed
  <1>4. order' = [order EXCEPT ![o].status = s]
    OBVIOUS
  <1> HIDE DEF o, s
  <1>5. order' \in [Order -> OrderRow]
    BY <1>3, <1>4 DEF TypeOK, OrderRow
  <1>6. /\ order'[o].status = s
        /\ order'[o].lines = order[o].lines
        /\ \A p \in Order \ {o} : order'[p] = order[p]
    BY <1>3, <1>4 DEF TypeOK, OrderRow
  <1>7. s # "none"
    BY <1>3 DEF OrderStatus
  <1>8. Placed' = Placed
    BY <1>3, <1>6, <1>7 DEF Placed
  <1>9. \A p \in Order : order'[p].lines = order[p].lines
    BY <1>6
  <1>10. TypeOK'
    BY <1>1, <1>2, <1>5 DEF TypeOK
  <1>11. LockInv' /\ TargetInv'
    BY <1>1, <1>2, <1>8 DEF TypeOK, LockInv, TargetInv, Target, CartFree, HoldsCart, At
  <1>12. AbsentInv' /\ NoEmptyOrder' /\ LinesConserved'
    BY <1>1, <1>8, <1>9 DEF AbsentInv, NoEmptyOrder, LinesConserved
  <1>13. InsertInv' /\ OneBillInv' /\ OneOpenBill'
    BY EndKeepsBills
  <1>14. ClosedInv'
    BY <1>1, EndKeepsClosed
  <1>15. QED
    BY <1>10, <1>11, <1>12, <1>13, <1>14

\* What the rows of a session other than its bills say does not change when
\* a request writes bills only.
LEMMA BillsOnly ==
  ASSUME Inv, NEW r \in Request, End(r),
         UNCHANGED <<session, overdue, cart, inserted, order, overtaken>>,
         bill' \in [Bill -> BillRow],
         \A b \in Bill : bill[b].status # "none" => bill'[b].status # "none",
         Closed' <=> Closed
  PROVE  TypeOK' /\ LockInv' /\ TargetInv' /\ LinesConserved' /\ NoEmptyOrder'
         /\ ClosedInv' /\ InsertInv'
  <1> USE DEF Inv
  <1>1. tx' = [tx EXCEPT ![r] = Idle]
    BY DEF End, Become
  <1>2. Idle \in Tx /\ Idle.pc = "idle" /\ Idle.session = "ACTIVE"
    BY IdleTx
  <1>3. TypeOK'
    BY <1>1, <1>2 DEF TypeOK
  <1>q. \A q \in Request : tx'[q] = tx[q] \/ tx'[q] = Idle
    BY <1>1 DEF TypeOK
  <1>4. LockInv'
    BY <1>1, <1>2 DEF TypeOK, LockInv, CartFree, HoldsCart, At
  <1>5. TargetInv'
    BY <1>1, <1>2 DEF TypeOK, TargetInv, Target, At, Placed
  <1>6. LinesConserved' /\ NoEmptyOrder'
    BY DEF LinesConserved, NoEmptyOrder, Placed
  <1>7. ClosedInv'
    BY <1>2, <1>q DEF ClosedInv
  <1>8. InsertInv'
    BY <1>2, <1>q DEF InsertInv, At
  <1>9. QED
    BY <1>3, <1>4, <1>5, <1>6, <1>7, <1>8

\* Creating a bill: none is OPEN.  Unless a settlement came in between none
\* is settled either.
LEMMA BillCreateInv ==
  ASSUME Inv, NEW r \in Request, BillCreate(r)
  PROVE  Inv'
  <1> USE DEF Inv, BillCreate, SessionUnchanged
  <1>1. CASE OpenBillRefused
    BY <1>1, IdleStep DEF RowsUnchanged
  <1>2. CASE ~OpenBillRefused
    <2> DEFINE new == [NoBill EXCEPT !.status = "OPEN",
                                     !.items = tx[r].served,
                                     !.charged = tx[r].served]
    <2>1. PICK b \in Bill :
             bill[b].status = "none" /\ bill' = [bill EXCEPT ![b] = new]
      BY <1>2
    <2>2. new \in BillRow /\ new.status = "OPEN"
      BY DEF TypeOK, Tx, BillRow, NoBill
    <2> HIDE DEF new
    <2>3. bill'[b] = new /\ \A c \in Bill \ {b} : bill'[c] = bill[c]
      BY <2>1 DEF TypeOK
    <2>4. bill' \in [Bill -> BillRow]
      BY <2>1, <2>2 DEF TypeOK
    <2>5. \A c \in Bill : bill[c].status # "none" => bill'[c].status # "none"
      BY <2>2, <2>3
    <2>c. Closed' <=> Closed
      BY <2>1, <2>2, <2>3 DEF Closed
    <2>6. TypeOK' /\ LockInv' /\ TargetInv' /\ LinesConserved' /\ NoEmptyOrder'
          /\ ClosedInv' /\ InsertInv'
      BY <2>4, <2>5, <2>c, BillsOnly
    <2>7. AbsentInv'
      BY <2>2, <2>3 DEF AbsentInv, Placed
    <2>8. \A c \in Bill : bill[c].status # "OPEN"
      BY <1>2 DEF OpenBillRefused, OpenBill
    <2>9. OneOpenBill'
      BY <2>3, <2>8 DEF OneOpenBill, OpenBill
    <2>10. OneBillInv'
      <3> SUFFICES ASSUME ~overtaken
                   PROVE  /\ \A c, d \in AnyBill' : c = d
                          /\ ~Closed'
        BY DEF OneBillInv
      <3>1. ~Closed
        BY DEF OneBillInv, LooksForBill, At
      <3>2. \A c \in Bill : bill[c].status = "none"
        BY <2>8, <3>1 DEF TypeOK, BillRow, Closed
      <3>3. AnyBill' \subseteq {b}
        BY <2>3, <3>2 DEF AnyBill
      <3>4. QED
        BY <2>c, <3>1, <3>3
    <2>11. QED
      BY <2>6, <2>7, <2>9, <2>10
  <1>3. QED
    BY <1>1, <1>2

\* Syncing a bill changes what it lists and charges for, not its status.
LEMMA BillSyncInv ==
  ASSUME Inv, NEW r \in Request, BillSync(r)
  PROVE  Inv'
  <1> USE DEF Inv, BillSync, SessionUnchanged
  <1> DEFINE b == tx[r].bill
             new == [bill[b] EXCEPT !.items = @ \cup tx[r].served,
                                    !.charged = tx[r].charged]
  <1>1. b \in Bill /\ bill[b].status # "none"
    BY DEF TargetInv, Target, At
  <1>2. bill' = [bill EXCEPT ![b] = new]
    BY <1>1 DEF TypeOK
  <1>3. new \in BillRow /\ new.status = bill[b].status
    <2>1. bill[b] \in BillRow /\ tx[r].served \subseteq Order /\ tx[r].charged \subseteq Order
      BY <1>1 DEF TypeOK, Tx
    <2>2. QED
      BY ONLY <2>1 DEF BillRow
  <1> HIDE DEF b, new
  <1>4. bill'[b] = new /\ \A c \in Bill \ {b} : bill'[c] = bill[c]
    BY <1>1, <1>2 DEF TypeOK
  <1>5. \A c \in Bill : bill'[c].status = bill[c].status
    BY <1>3, <1>4
  <1>6. bill' \in [Bill -> BillRow]
    BY <1>2, <1>3 DEF TypeOK
  <1>c. (Closed' <=> Closed) /\ AnyBill' = AnyBill /\ OpenBill' = OpenBill
    BY <1>5 DEF Closed, AnyBill, OpenBill
  <1>7. TypeOK' /\ LockInv' /\ TargetInv' /\ LinesConserved' /\ NoEmptyOrder'
        /\ ClosedInv' /\ InsertInv'
    BY <1>5, <1>6, <1>c, BillsOnly
  <1>8. AbsentInv'
    BY <1>1, <1>3, <1>4 DEF AbsentInv, Placed
  <1>9. OneOpenBill'
    BY <1>c DEF OneOpenBill
  <1>10. OneBillInv'
    <2>1. tx' = [tx EXCEPT ![r] = Idle] /\ Idle.pc = "idle"
      BY IdleTx DEF End, Become
    <2>2. \A q \in Request : tx'[q] = tx[q] \/ tx'[q].pc = "idle"
      BY <2>1 DEF TypeOK
    <2>3. overtaken' = overtaken
      OBVIOUS
    <2>4. Closed' => \A q \in Request : LooksForBill(q)' => LooksForBill(q)
      BY <2>2 DEF LooksForBill
    <2> HIDE DEF BillSync
    <2>5. QED
      BY <1>c, <2>3, <2>4 DEF OneBillInv
  <1>11. QED
    BY <1>7, <1>8, <1>9, <1>10

\* Settling: no checkout holds the lock, so archiving the cart takes nothing
\* from under its feet; afterwards the table is closed.
LEMMA SettleCommitInv ==
  ASSUME Inv, NEW r \in Request, SettleCommit(r)
  PROVE  Inv'
  <1> USE DEF Inv, SettleCommit
  <1> DEFINE b == tx[r].bill
             new == [bill[b] EXCEPT !.status = "SETTLED", !.stamps = @ + 1]
  <1>1. b \in Bill /\ bill[b].status # "none"
    BY DEF TargetInv, Target, At
  <1>2. bill' = [bill EXCEPT ![b] = new]
    BY <1>1 DEF TypeOK
  <1>3. new \in BillRow /\ new.status = "SETTLED" /\ new.items = bill[b].items
    <2>1. bill[b] \in BillRow
      BY <1>1 DEF TypeOK
    <2>2. bill[b].stamps + 1 \in Nat
      BY ONLY <2>1 DEF BillRow
    <2>3. new = [bill[b] EXCEPT !.status = "SETTLED", !.stamps = bill[b].stamps + 1]
      BY ONLY <2>1 DEF BillRow
    <2> HIDE DEF new
    <2>4. QED
      BY ONLY <2>1, <2>2, <2>3 DEF BillRow
  <1> HIDE DEF b, new
  <1>4. bill'[b] = new /\ \A c \in Bill \ {b} : bill'[c] = bill[c]
    BY <1>1, <1>2 DEF TypeOK
  <1>5. bill' \in [Bill -> BillRow]
    BY <1>2, <1>3 DEF TypeOK
  <1>6. cart' \in CartRow /\ cart'.status = "ARCHIVED" /\ cart'.lines = cart.lines
    BY DEF TypeOK, CartRow
  <1>7. tx' = [tx EXCEPT ![r] = Idle] /\ UNCHANGED <<overdue, inserted, order>>
    BY DEF End, Become
  <1>8. Idle \in Tx /\ Idle.pc = "idle" /\ Idle.session = "ACTIVE"
    BY IdleTx
  <1>q. \A q \in Request : tx'[q] = tx[q] \/ tx'[q] = Idle
    BY <1>7 DEF TypeOK
  <1>9. session' \in SessionStatus /\ session' # "ACTIVE"
    <2>1. CASE WritesSession(r)
      BY <2>1 DEF SettledSession, SessionStatus
    <2>2. CASE ~WritesSession(r)
      <3>1. Closed
        BY <2>2 DEF WritesSession, ClosedInv
      <3>2. QED
        BY <2>2, <3>1 DEF ClosedInv, TypeOK
    <2>3. QED
      BY <2>1, <2>2
  <1>10. overtaken' \in BOOLEAN
    BY Zenon
  <1>11. TypeOK'
    BY <1>5, <1>6, <1>7, <1>8, <1>9, <1>10 DEF TypeOK
  <1>12. LockInv'
    <2>1. \A q \in Request : tx[q].pc # "checkout:locked"
      BY NobodyHolds DEF WantsCart, At
    <2>2. QED
      BY <1>8, <1>q, <2>1 DEF LockInv, At
  <1>13. TargetInv'
    BY <1>3, <1>4, <1>7, <1>8, ZenonT(60) DEF TypeOK, TargetInv, Target, At, Placed
  <1>14. AbsentInv'
    BY <1>3, <1>4, <1>7 DEF AbsentInv, Placed
  <1>15. LinesConserved' /\ NoEmptyOrder'
    <2>1. inserted' = inserted /\ order' = order /\ cart'.lines = cart.lines
      BY <1>6, <1>7
    <2>2. LinesConserved'
      BY ONLY LinesConserved, <2>1 DEF LinesConserved
    <2>3. NoEmptyOrder'
      BY <2>1 DEF NoEmptyOrder, Placed
    <2>4. QED
      BY <2>2, <2>3
  <1>16. Closed'
    BY <1>1, <1>3, <1>4 DEF Closed
  <1>17. ClosedInv'
    BY <1>6, <1>9, <1>16 DEF ClosedInv
  <1>18. InsertInv'
    BY <1>8, <1>q DEF InsertInv, At
  <1>19. OneOpenBill'
    BY <1>3, <1>4 DEF OneOpenBill, OpenBill
  <1>20. OneBillInv'
    <2> SUFFICES ASSUME ~overtaken'
                 PROVE  /\ \A c, d \in AnyBill' : c = d
                        /\ \A q \in Request : ~LooksForBill(q)'
      BY DEF OneBillInv
    <2>1. ~overtaken /\ \A q \in Request : ~LooksForBill(q)
      BY Zenon
    <2>2. AnyBill' = AnyBill
      BY <1>1, <1>3, <1>4 DEF AnyBill
    <2>3. \A q \in Request : ~LooksForBill(q)'
      BY <1>8, <1>q, <2>1 DEF LooksForBill
    <2>4. QED
      BY <2>1, <2>2, <2>3 DEF OneBillInv
  <1>21. QED
    BY <1>11, <1>12, <1>13, <1>14, <1>15, <1>17, <1>18, <1>19, <1>20

\* A lookup writes EXPIRED, over whatever the status is by now.
LEMMA LookupExpireInv ==
  ASSUME Inv, NEW r \in Request, LookupExpire(r)
  PROVE  Inv'
  <1> USE DEF Inv, LookupExpire
  <1>1. tx' = [tx EXCEPT ![r] = Idle]
    BY DEF End, Become
  <1>2. Idle \in Tx /\ Idle.pc = "idle" /\ Idle.session = "ACTIVE"
    BY IdleTx
  <1>q. \A q \in Request : tx'[q] = tx[q] \/ tx'[q] = Idle
    BY <1>1 DEF TypeOK
  <1>3. TypeOK'
    BY <1>1, <1>2 DEF TypeOK, SessionStatus
  <1>4. LockInv'
    BY <1>1, <1>2 DEF TypeOK, LockInv, CartFree, HoldsCart, At
  <1>5. TargetInv'
    BY <1>2, <1>q DEF TargetInv, Target, At, Placed
  <1>6. AbsentInv' /\ LinesConserved' /\ NoEmptyOrder'
    BY DEF AbsentInv, LinesConserved, NoEmptyOrder, Placed
  <1>7. ClosedInv'
    BY <1>2, <1>q DEF ClosedInv, Closed
  <1>8. InsertInv' /\ OneBillInv' /\ OneOpenBill'
    BY EndKeepsBills
  <1>9. QED
    BY <1>3, <1>4, <1>5, <1>6, <1>7, <1>8

\* How a session ends on its own says nothing about any row but its own: one
\* that is retired was active.
LEMMA EndOfSessionInv ==
  ASSUME Inv, TimePasses \/ Retire
  PROVE  Inv'
  <1> USE DEF Inv
  <1>1. UNCHANGED <<cart, inserted, order, bill, tx, overtaken>>
    BY DEF TimePasses, Retire
  <1>2. session' \in SessionStatus /\ overdue' \in BOOLEAN
    BY DEF TimePasses, Retire, TypeOK, SessionStatus
  <1>3. TypeOK'
    BY <1>1, <1>2 DEF TypeOK
  <1>4. LockInv' /\ TargetInv' /\ InsertInv'
    BY <1>1 DEF LockInv, TargetInv, Target, InsertInv, CartFree, HoldsCart, At, Placed
  <1>5. AbsentInv' /\ LinesConserved' /\ NoEmptyOrder' /\ OneOpenBill'
    BY <1>1 DEF AbsentInv, LinesConserved, NoEmptyOrder, OneOpenBill, Placed, OpenBill
  <1>6. session' = session \/ session' = "EXPIRED"
    BY DEF TimePasses, Retire
  <1>7. ClosedInv'
    BY <1>1, <1>6 DEF ClosedInv, Closed
  <1>8. OneBillInv'
    BY <1>1 DEF OneBillInv, AnyBill, Closed, LooksForBill
  <1>9. QED
    BY <1>3, <1>4, <1>5, <1>7, <1>8

-----------------------------------------------------------------------------
\* A session found active belongs to a table that is not closed.
LEMMA ActiveIsOpen == Inv /\ CurrentlyActive => ~Closed
  BY DEF Inv, ClosedInv, CurrentlyActive

\* Finding the session active says nothing about any row.
LEMMA ValidateInv ==
  ASSUME Inv, NEW r \in Request,
         NEW pc \in {"add:validated", "checkout:validated", "bill:validated"},
         Validate(r, pc)
  PROVE  Inv'
  <1>1. /\ Go(r, pc) /\ RowsUnchanged /\ pc \in Location
        /\ pc \notin {"checkout:locked", "bill:open found"}
    BY DEF Validate, Location
  <1>2. tx'[r].pc = pc
    BY <1>1 DEF Go, Become, Inv, TypeOK, Tx
  <1>3. Target(r)'
    BY <1>2 DEF Target, At
  <1>4. ~Closed
    BY ActiveIsOpen DEF Validate
  <1>5. QED
    BY <1>1, <1>3, <1>4, GoStep

LEMMA AddItemInv ==
  ASSUME Inv, NEW r \in Request, AddItem(r)
  PROVE  Inv'
  <1>1. CASE AddValidate(r)
    BY <1>1, ValidateInv DEF AddValidate
  <1>2. CASE AddReadCart(r)
    <2>1. CASE End(r)
      BY <1>2, <2>1, IdleStep DEF AddReadCart
    <2>2. CASE Go(r, "add:cart read")
      <3>1. tx'[r].pc = "add:cart read"
        BY <2>2 DEF Go, Become, Inv, TypeOK, Tx
      <3>2. Target(r)' /\ "add:cart read" \in Location /\ ~LooksForBill(r)'
        BY <3>1 DEF Target, At, Location, LooksForBill
      <3>3. QED
        BY <1>2, <2>2, <3>2, GoStep DEF AddReadCart
    <2>3. QED
      BY <1>2, <2>1, <2>2 DEF AddReadCart
  <1>3. CASE AddCommit(r)
    BY <1>3, AddCommitInv
  <1>4. QED
    BY <1>1, <1>2, <1>3 DEF AddItem

LEMMA CheckoutInv ==
  ASSUME Inv, NEW r \in Request, Checkout(r)
  PROVE  Inv'
  BY ValidateInv, CheckoutLockInv, CheckoutCommitInv DEF Checkout, CheckoutValidate

LEMMA LookupInv ==
  ASSUME Inv, NEW r \in Request, Lookup(r)
  PROVE  Inv'
  <1>1. CASE LookupRead(r)
    <2>1. Go(r, "lookup:overdue") /\ RowsUnchanged
      BY <1>1 DEF LookupRead
    <2>2. tx'[r].pc = "lookup:overdue"
      BY <2>1 DEF Go, Become, Inv, TypeOK, Tx
    <2>3. Target(r)' /\ "lookup:overdue" \in Location /\ ~LooksForBill(r)'
      BY <2>2 DEF Target, At, Location, LooksForBill
    <2>4. QED
      BY <2>1, <2>3, GoStep
  <1>2. CASE LookupExpire(r)
    BY <1>2, LookupExpireInv
  <1>3. QED
    BY <1>1, <1>2 DEF Lookup

\* The kitchen reads an order that is there and picks a legal move.
LEMMA TransitionInv ==
  ASSUME Inv, NEW r \in Request, Transition(r)
  PROVE  Inv'
  <1>1. CASE KitchenRead(r)
    <2>1. PICK o \in Placed : \E s \in AllowedTransitions[order[o].status] :
             Become(r, [tx[r] EXCEPT !.pc = "kitchen:read", !.order = o, !.status = s])
      BY <1>1 DEF KitchenRead
    <2>2. PICK s \in AllowedTransitions[order[o].status] :
             Become(r, [tx[r] EXCEPT !.pc = "kitchen:read", !.order = o, !.status = s])
      BY <2>1
    <2>3. order[o].status \in OrderStatus
      BY DEF Inv, TypeOK, OrderRow, Placed
    <2>4. s \in OrderStatus
      BY <2>3 DEF AllowedTransitions, OrderStatus
    <2> DEFINE t == [tx[r] EXCEPT !.pc = "kitchen:read", !.order = o, !.status = s]
    <2>5. tx' = [tx EXCEPT ![r] = t]
      BY <2>2 DEF Become
    <2>6. /\ t \in Tx /\ t.pc = "kitchen:read" /\ t.order = o /\ t.status = s
          /\ t.session = tx[r].session
      BY <2>4, ZenonT(60) DEF Inv, TypeOK, Tx, Location, Placed
    <2> HIDE DEF t
    <2>7. tx'[r] = t
      BY <2>5 DEF Inv, TypeOK
    <2>8. Placed' = Placed
      BY <1>1 DEF KitchenRead, RowsUnchanged, Placed
    <2>9. Target(r)' /\ ~LooksForBill(r)'
      BY <2>4, <2>6, <2>7, <2>8 DEF Target, At, LooksForBill
    <2>10. Sound(t)
      BY <2>6, SoundTx DEF Sound
    <2>11. QED
      BY <1>1, <2>5, <2>6, <2>9, <2>10, QuietStep DEF KitchenRead
  <1>2. CASE KitchenCommit(r)
    BY <1>2, KitchenCommitInv
  <1>3. QED
    BY <1>1, <1>2 DEF Transition

\* A request that has a bill that is there may move on as it likes.
LEMMA BillTargetStep ==
  ASSUME Inv, NEW r \in Request, RowsUnchanged,
         NEW t \in Tx, tx' = [tx EXCEPT ![r] = t],
         t.pc \notin {"checkout:locked", "kitchen:read", "bill:validated",
                      "bill:orders read", "bill:none open"},
         t.bill \in Bill, bill[t.bill].status # "none", Sound(t)
  PROVE  Inv'
  <1>1. tx'[r] = t
    BY DEF Inv, TypeOK
  <1>2. Target(r)' /\ ~LooksForBill(r)'
    BY <1>1 DEF Target, At, RowsUnchanged, LooksForBill
  <1>3. QED
    BY <1>2, QuietStep

LEMMA StrictlyOlder ==
  ASSUME NEW m \in Nat, NEW o \in Nat, m <= o, m # o
  PROVE  m < o
  OBVIOUS

\* The newest of the orders that remain is newer than the others.
LEMMA NextNewest ==
  ASSUME Inv, NEW r \in Request, At(r, "bill:open found"), NEW o \in NextItems(r)
  PROVE  /\ o \in tx[r].served \ tx[r].added
         /\ \A a \in tx[r].added \cup {o}, m \in tx[r].served \ (tx[r].added \cup {o}) : m < a
  <1> DEFINE rest == tx[r].served \ tx[r].added
  <1>1. o \in rest /\ \A p \in rest : p <= o
    BY DEF NextItems
  <1>2. tx[r].served \subseteq Nat /\ tx[r].added \subseteq Nat
    BY OrderAssumption DEF Inv, TypeOK, Tx
  <1>3. \A a \in tx[r].added, m \in rest : m < a
    BY DEF Inv, InsertInv
  <1> HIDE DEF rest
  <1>4. ASSUME NEW m \in rest, m # o PROVE m < o
    <2>1. m \in Nat /\ o \in Nat /\ m <= o
      BY <1>1, <1>2 DEF rest
    <2>2. QED
      BY <1>4, <2>1, StrictlyOlder
  <1>5. QED
    BY <1>1, <1>3, <1>4 DEF rest

\* Inserting the items of one more order.
LEMMA BillAddItemsInv ==
  ASSUME Inv, NEW r \in Request, BillAddItems(r)
  PROVE  Inv'
  <1>1. CASE End(r)
    BY <1>1, IdleStep DEF BillAddItems
  <1>2. CASE ~End(r)
    <2>1. PICK o \in NextItems(r) :
             Become(r, [tx[r] EXCEPT
                 !.pc = IF tx[r].added \cup {o} = tx[r].served THEN "bill:items added" ELSE @,
                 !.added = tx[r].added \cup {o}])
      BY <1>2 DEF BillAddItems
    <2> DEFINE t == [tx[r] EXCEPT
                 !.pc = IF tx[r].added \cup {o} = tx[r].served THEN "bill:items added" ELSE @,
                 !.added = tx[r].added \cup {o}]
    <2>2. tx' = [tx EXCEPT ![r] = t] /\ RowsUnchanged
      BY <2>1 DEF BillAddItems, Become
    <2>3. tx[r] \in Tx /\ tx[r].pc = "bill:open found"
      BY DEF BillAddItems, At, Inv, TypeOK
    <2>4. /\ o \in tx[r].served
          /\ \A a \in tx[r].added \cup {o}, m \in tx[r].served \ (tx[r].added \cup {o}) : m < a
      BY <2>3, NextNewest DEF At
    <2>5. /\ t.pc \in {"bill:open found", "bill:items added"} /\ t.bill = tx[r].bill
          /\ t.served = tx[r].served /\ t.added = tx[r].added \cup {o}
          /\ t.session = tx[r].session
      BY <2>3 DEF Tx
    <2>6. t \in Tx
      BY <2>3, <2>4 DEF Tx, Location
    <2> HIDE DEF t
    <2>7. Sound(t)
      BY <2>4, <2>5, SoundTx DEF Sound
    <2>8. t.bill \in Bill /\ bill[t.bill].status # "none"
      BY <2>3, <2>5 DEF Inv, TargetInv, Target, At
    <2>9. QED
      BY <2>2, <2>5, <2>6, <2>7, <2>8, BillTargetStep
  <1>3. QED
    BY <1>1, <1>2

\* The statements of a bill request that write nothing.
LEMMA GenerateBillInv ==
  ASSUME Inv, NEW r \in Request, GenerateBill(r)
  PROVE  Inv'
  <1>t. tx[r] \in Tx /\ Sound(tx[r])
    BY SoundTx DEF Inv, TypeOK
  <1>1. CASE BillValidate(r)
    BY <1>1, ValidateInv DEF BillValidate
  <1>2. CASE BillReadOrders(r)
    <2> DEFINE t == [tx[r] EXCEPT !.pc = "bill:orders read", !.served = Billable]
    <2>1. tx' = [tx EXCEPT ![r] = t] /\ RowsUnchanged
      BY <1>2 DEF BillReadOrders, Become
    <2>2. t \in Tx /\ t.pc = "bill:orders read" /\ t.session = tx[r].session
      BY <1>t DEF Tx, Location, Billable
    <2> HIDE DEF t
    <2>3. tx'[r] = t
      BY <2>1 DEF Inv, TypeOK
    <2>4. Target(r)' /\ LooksForBill(r)
      BY <1>2, <2>2, <2>3 DEF Target, At, LooksForBill, BillReadOrders
    <2>5. Sound(t)
      BY <1>t, <2>2 DEF Sound
    <2>6. QED
      BY <2>1, <2>2, <2>4, <2>5, QuietStep
  <1>3. CASE BillFindOpen(r)
    <2>1. CASE End(r)
      BY <1>3, <2>1, IdleStep DEF BillFindOpen
    <2>2. CASE Go(r, "bill:none open")
      <3>1. tx'[r].pc = "bill:none open"
        BY <2>2 DEF Go, Become, Inv, TypeOK, Tx
      <3>2. Target(r)' /\ "bill:none open" \in Location /\ LooksForBill(r)
        BY <1>3, <3>1 DEF Target, At, Location, LooksForBill, BillFindOpen
      <3>3. QED
        BY <1>3, <2>2, <3>2, GoStep DEF BillFindOpen
    <2>3. ASSUME NEW b \in OpenBill,
                 Become(r, [tx[r] EXCEPT !.pc = "bill:open found", !.bill = b,
                                         !.served = tx[r].served \ bill[b].items,
                                         !.added = {}])
          PROVE  Inv'
      <3> DEFINE t == [tx[r] EXCEPT !.pc = "bill:open found", !.bill = b,
                                    !.served = tx[r].served \ bill[b].items,
                                    !.added = {}]
      <3>1. tx' = [tx EXCEPT ![r] = t] /\ RowsUnchanged
        BY <1>3, <2>3 DEF BillFindOpen, Become
      <3>2. /\ t \in Tx /\ t.pc = "bill:open found" /\ t.bill = b /\ t.added = {}
            /\ t.session = tx[r].session
        BY <1>t DEF Tx, Location, OpenBill
      <3> HIDE DEF t
      <3>3. b \in Bill /\ bill[b].status # "none"
        BY DEF OpenBill
      <3>4. Sound(t)
        BY <1>t, <3>2 DEF Sound
      <3>5. QED
        BY <3>1, <3>2, <3>3, <3>4, BillTargetStep
    <2>4. QED
      BY <1>3, <2>1, <2>2, <2>3 DEF BillFindOpen
  <1>4. CASE BillCreate(r)
    BY <1>4, BillCreateInv
  <1>5. CASE BillAddItems(r)
    BY <1>5, BillAddItemsInv
  <1>6. CASE BillSum(r)
    <2> DEFINE t == [tx[r] EXCEPT !.pc = "bill:summed", !.charged = NewTotal(r)]
    <2>1. tx' = [tx EXCEPT ![r] = t] /\ RowsUnchanged
      BY <1>6 DEF BillSum, Become
    <2>2. tx[r].bill \in Bill /\ bill[tx[r].bill].status # "none"
      BY <1>6 DEF BillSum, Inv, TargetInv, Target, At
    <2>3. NewTotal(r) \subseteq Order
      BY <1>t, <2>2 DEF NewTotal, Inv, TypeOK, BillRow, Tx
    <2>4. /\ t \in Tx /\ t.pc = "bill:summed" /\ t.bill = tx[r].bill
          /\ t.session = tx[r].session
      BY <1>t, <2>3 DEF Tx, Location
    <2> HIDE DEF t
    <2>5. Sound(t)
      BY <1>t, <2>4 DEF Sound
    <2>6. QED
      BY <2>1, <2>2, <2>4, <2>5, BillTargetStep
  <1>7. CASE BillSync(r)
    BY <1>7, BillSyncInv
  <1>8. QED
    BY <1>1, <1>2, <1>3, <1>4, <1>5, <1>6, <1>7 DEF GenerateBill

\* A settlement goes on with the same bill.
LEMMA SettleGoesOn ==
  ASSUME Inv, NEW r \in Request, RowsUnchanged,
         NEW pc \in {"settle:session written", "settle:bill written"}, Go(r, pc),
         tx[r].pc \in {"settle:orders checked", "settle:session written"}
  PROVE  Inv'
  <1> DEFINE t == [tx[r] EXCEPT !.pc = pc]
  <1>1. tx' = [tx EXCEPT ![r] = t]
    BY DEF Go, Become
  <1>2. t \in Tx /\ t.pc = pc /\ t.bill = tx[r].bill /\ t.session = tx[r].session
    <2>1. tx[r] \in Tx
      BY DEF Inv, TypeOK
    <2>2. pc \in Location
      BY DEF Location
    <2>3. QED
      BY <2>1, <2>2 DEF Tx
  <1> HIDE DEF t
  <1>3. t.bill \in Bill /\ bill[t.bill].status # "none"
    BY <1>2 DEF Inv, TargetInv, Target, At
  <1>4. Sound(t)
    BY <1>2, SoundTx DEF Sound
  <1>5. QED
    BY <1>1, <1>2, <1>3, <1>4, BillTargetStep

LEMMA SettleInv ==
  ASSUME Inv, NEW r \in Request, Settle(r)
  PROVE  Inv'
  <1>t. tx[r] \in Tx /\ Sound(tx[r])
    BY SoundTx DEF Inv, TypeOK
  <1>1. CASE SettleReadBill(r)
    <2>1. PICK b \in OpenBill :
             Become(r, [tx[r] EXCEPT !.pc = "settle:bill read", !.bill = b])
      BY <1>1 DEF SettleReadBill
    <2> DEFINE t == [tx[r] EXCEPT !.pc = "settle:bill read", !.bill = b]
    <2>2. tx' = [tx EXCEPT ![r] = t] /\ RowsUnchanged
      BY <1>1, <2>1 DEF SettleReadBill, Become
    <2>3. b \in Bill /\ bill[b].status # "none"
      BY DEF OpenBill
    <2>4. /\ t \in Tx /\ t.pc = "settle:bill read" /\ t.bill = b
          /\ t.session = tx[r].session
      BY <1>t, <2>3 DEF Tx, Location
    <2> HIDE DEF t
    <2>5. Sound(t)
      BY <1>t, <2>4 DEF Sound
    <2>6. QED
      BY <2>2, <2>3, <2>4, <2>5, BillTargetStep
  <1>2. CASE SettleCheckOrders(r)
    <2> DEFINE t == [tx[r] EXCEPT !.pc = "settle:orders checked", !.session = session]
    <2>1. CASE End(r)
      BY <1>2, <2>1, IdleStep DEF SettleCheckOrders
    <2>2. CASE Become(r, t)
      <3>1. tx' = [tx EXCEPT ![r] = t] /\ RowsUnchanged
        BY <1>2, <2>2 DEF SettleCheckOrders, Become
      <3>2. /\ t \in Tx /\ t.pc = "settle:orders checked" /\ t.bill = tx[r].bill
            /\ t.session = session
        BY <1>t DEF Tx, Location, Inv, TypeOK
      <3> HIDE DEF t
      <3>3. t.bill \in Bill /\ bill[t.bill].status # "none"
        BY <1>2, <3>2 DEF SettleCheckOrders, Inv, TargetInv, Target, At
      <3>4. Sound(t)
        BY <3>2 DEF Sound, Inv, ClosedInv
      <3>5. QED
        BY <3>1, <3>2, <3>3, <3>4, BillTargetStep
    <2>3. QED
      BY <1>2, <2>1, <2>2 DEF SettleCheckOrders
  <1>3. CASE SettleWriteSession(r)
    BY <1>3, SettleGoesOn DEF SettleWriteSession, At
  <1>4. CASE SettleWriteBill(r)
    BY <1>4, SettleGoesOn DEF SettleWriteBill, At
  <1>5. CASE SettleCommit(r)
    BY <1>5, SettleCommitInv
  <1>6. QED
    BY <1>1, <1>2, <1>3, <1>4, <1>5 DEF Settle

\* Steps of no request at all.
LEMMA StutterInv == Inv /\ UNCHANGED vars => Inv'
  <1> SUFFICES ASSUME Inv, UNCHANGED vars PROVE Inv'
    OBVIOUS
  <1> USE DEF Inv, vars
  <1>1. TypeOK' /\ LockInv' /\ TargetInv' /\ InsertInv'
    BY DEF TypeOK, LockInv, TargetInv, Target, InsertInv, CartFree, HoldsCart, At, Placed
  <1>2. AbsentInv' /\ LinesConserved' /\ NoEmptyOrder'
    BY DEF AbsentInv, LinesConserved, NoEmptyOrder, Placed
  <1>3. ClosedInv' /\ OneOpenBill' /\ OneBillInv'
    BY DEF ClosedInv, OneOpenBill, OneBillInv, Closed, OpenBill, AnyBill, LooksForBill
  <1>4. QED
    BY <1>1, <1>2, <1>3

\* Every step preserves the invariant.
LEMMA NextInv == Inv /\ [Next]_vars => Inv'
  <1> SUFFICES ASSUME Inv, [Next]_vars PROVE Inv'
    OBVIOUS
  <1>1. CASE TimePasses \/ Retire
    BY <1>1, EndOfSessionInv
  <1>2. ASSUME NEW r \in Diner, GuestStep(r) PROVE Inv'
    BY <1>2, AddItemInv, CheckoutInv, GenerateBillInv, LookupInv DEF GuestStep, Request
  <1>3. ASSUME NEW r \in Kitchen, Transition(r) PROVE Inv'
    BY <1>3, TransitionInv DEF Request
  <1>4. ASSUME NEW r \in Cashier, Settle(r) PROVE Inv'
    BY <1>4, SettleInv DEF Request
  <1>5. ASSUME NEW r \in Request, Abort(r) PROVE Inv'
    BY <1>5, IdleStep DEF Abort
  <1>6. CASE UNCHANGED vars
    BY <1>6, StutterInv
  <1>7. QED
    BY <1>1, <1>2, <1>3, <1>4, <1>5, <1>6 DEF Next

-----------------------------------------------------------------------------
\* Whatever the requests do and however they interleave, the inductive
\* invariant holds (all handlers of DiningSession).
THEOREM Invariance == Spec => []Inv
  <1>1. QED
    BY InitInv, NextInv, PTL DEF Spec

\* Every variable has its type in every reachable state (all handlers).
THEOREM TypeCorrect == Spec => []TypeOK
  <1>1. Inv => TypeOK
    BY DEF Inv
  <1>2. QED
    BY <1>1, Invariance, PTL

\* Checkouts neither lose a cart item nor order it twice (checkout_cart).
THEOREM Conservation == Spec => []LinesConserved
  <1>1. Inv => LinesConserved
    BY DEF Inv
  <1>2. QED
    BY <1>1, Invariance, PTL

\* The loser of a race of two checkouts places no order (checkout_cart).
THEOREM OrdersNotEmpty == Spec => []NoEmptyOrder
  <1>1. Inv => NoEmptyOrder
    BY DEF Inv
  <1>2. QED
    BY <1>1, Invariance, PTL

\* A session never has two OPEN bills (generate_or_get_bill).
THEOREM SingleOpenBill == Spec => []OneOpenBill
  <1>1. Inv => OneOpenBill
    BY DEF Inv
  <1>2. QED
    BY <1>1, Invariance, PTL

\* No order is on two bills, before or after the table is closed, unless a
\* bill was settled past a request that was about to create one
\* (generate_or_get_bill, settle_bill).
THEOREM BilledOnce == Spec => []BilledOnceUnlessOvertaken
  <1>1. Inv => BilledOnceUnlessOvertaken
    <2> SUFFICES ASSUME Inv, ~overtaken, NEW b \in Bill, NEW c \in Bill, b # c
                 PROVE  bill[b].items \cap bill[c].items = {}
      BY DEF BilledOnceUnlessOvertaken
    <2>1. bill[b].status = "none" \/ bill[c].status = "none"
      BY DEF Inv, OneBillInv, AnyBill
    <2>2. bill[b].items = {} \/ bill[c].items = {}
      BY <2>1 DEF Inv, AbsentInv
    <2>3. QED
      BY <2>2
  <1>2. QED
    BY <1>1, Invariance, PTL

-----------------------------------------------------------------------------
(* Requests do not wait for one another in a circle *)

\* A set of natural numbers has a least one.
LEMMA LeastNumber ==
  ASSUME NEW M, M \subseteq Nat, M # {}
  PROVE  \E m \in M : \A n \in M : ~(n < m)
  <1>1. PICK m \in M : \A n \in M : <<n, m>> \notin OpToRel(<, Nat)
    BY NatLessThanWellFounded, WFMin
  <1>2. ASSUME NEW n \in M, n < m PROVE FALSE
    <2>1. <<n, m>> \in OpToRel(<, Nat)
      BY <1>2 DEF OpToRel
    <2>2. QED
      BY <1>1, <2>1
  <1>3. QED
    BY <1>2

\* A set of requests each of which waits for one of them.
Circle(S) == \A r \in S : \E q \in S : WaitsFor(r, q)

\* A checkout that holds the cart waits for nothing, hence nobody in a circle
\* waits for the cart, hence nobody in a circle holds the bill, hence nobody
\* holds the session: all of them are inserting items.
LEMMA CircleInserts ==
  ASSUME NEW S \in SUBSET Request, Circle(S), NEW r \in S
  PROVE  /\ At(r, "bill:open found")
         /\ \E q \in S, o \in NextItems(r) : HoldsItems(q, tx[r].bill, o)
  <1>1. \A q \in S : tx[q].pc # "checkout:locked"
    BY DEF Circle, WaitsFor, WantsCart, WantsSession, WantsBill, At
  <1>2. \A q \in S : tx[q].pc # "settle:bill written"
    BY <1>1 DEF Circle, WaitsFor, HoldsCart, WantsSession, WantsBill, At
  <1>3. \A q \in S : tx[q].pc # "settle:session written"
    BY <1>1, <1>2 DEF Circle, WaitsFor, WantsCart, WantsSession, HoldsBill, At
  <1>4. PICK q \in S : WaitsFor(r, q)
    BY DEF Circle
  <1>5. ~HoldsCart(q) /\ ~HoldsSession(q) /\ ~HoldsBill(q, tx[r].bill)
    BY <1>1, <1>2, <1>3 DEF HoldsCart, HoldsSession, HoldsBill, At
  <1>6. QED
    BY <1>4, <1>5 DEF WaitsFor

\* The orders whose items a request inserts next are all one.
LEMMA OneNextItem ==
  ASSUME Inv, NEW r \in Request, NEW o \in NextItems(r), NEW p \in NextItems(r)
  PROVE  o = p
  <1>1. tx[r].served \subseteq Nat
    BY OrderAssumption DEF Inv, TypeOK, Tx
  <1>2. o \in Nat /\ p \in Nat /\ o <= p /\ p <= o
    BY <1>1 DEF NextItems
  <1>3. QED
    BY <1>2

\* Among those who are inserting items the one whose next order is the oldest
\* waits for nobody: whoever holds items of that order goes on to older ones.
LEMMA NoCircle ==
  ASSUME Inv, NEW S \in SUBSET Request, S # {}, Circle(S)
  PROVE  FALSE
  <1> DEFINE next == {o \in Order : \E r \in S : o \in NextItems(r)}
  <1>1. \A r \in S : NextItems(r) \subseteq Order
    BY DEF NextItems, Inv, TypeOK, Tx
  <1>2. next \subseteq Nat /\ next # {}
    <2>1. PICK r \in S : TRUE
      OBVIOUS
    <2>2. PICK o \in NextItems(r) : TRUE
      BY CircleInserts
    <2>3. o \in next
      BY <1>1
    <2>4. QED
      BY <2>3, OrderAssumption
  <1>3. PICK m \in next : \A n \in next : ~(n < m)
    <2> HIDE DEF next
    <2>1. QED
      BY <1>2, LeastNumber
  <1>4. PICK r \in S : m \in NextItems(r)
    OBVIOUS
  <1>5. PICK q \in S, o \in NextItems(r) : HoldsItems(q, tx[r].bill, o)
    BY CircleInserts
  <1>6. o = m
    BY <1>4, OneNextItem
  <1>7. m \in tx[q].added
    BY <1>5, <1>6 DEF HoldsItems
  <1>8. PICK p \in NextItems(q) : TRUE
    BY CircleInserts
  <1>9. At(q, "bill:open found")
    BY CircleInserts
  <1>10. p < m
    BY <1>7, <1>8, <1>9 DEF NextItems, Inv, InsertInv
  <1>11. p \in next
    BY <1>1, <1>8
  <1>12. QED
    <2> HIDE DEF next
    <2>1. QED
      BY <1>3, <1>10, <1>11

\* However many requests there are, no requests wait for one another in a
\* circle (settle_bill, generate_or_get_bill, checkout_cart, add_item,
\* get_active_session_for_customer).
THEOREM NoDeadlock == Spec => []NoCircularWait
  <1>1. Inv => NoCircularWait
    <2> SUFFICES ASSUME Inv, NEW S \in SUBSET Request, S # {},
                        ~\E r \in S : \A q \in S : ~WaitsFor(r, q)
                 PROVE  FALSE
      BY DEF NoCircularWait
    <2>1. Circle(S)
      BY DEF Circle
    <2>2. QED
      BY <2>1, NoCircle
  <1>2. QED
    BY <1>1, Invariance, PTL

-----------------------------------------------------------------------------
\* The only steps that change the cart, the cart items or the orders.
LEMMA Effects ==
  ASSUME [Next]_vars
  PROVE  \/ UNCHANGED <<cart, inserted, order>>
         \/ \E r \in Request : AddCommit(r)
         \/ \E r \in Request : CheckoutCommit(r)
         \/ \E r \in Request : KitchenCommit(r)
         \/ \E r \in Request : SettleCommit(r)
  <1> DEFINE quiet == UNCHANGED <<cart, inserted, order>>
  <1>1. ASSUME NEW r \in Diner, AddItem(r) PROVE quiet \/ AddCommit(r)
    BY <1>1 DEF AddItem, AddValidate, Validate, AddReadCart, RowsUnchanged
  <1>2. ASSUME NEW r \in Diner, Checkout(r) PROVE quiet \/ CheckoutCommit(r)
    BY <1>2 DEF Checkout, CheckoutValidate, Validate, CheckoutLock, RowsUnchanged
  <1>3. ASSUME NEW r \in Diner, GenerateBill(r) PROVE quiet
    BY <1>3 DEF GenerateBill, BillValidate, Validate, BillReadOrders, BillFindOpen,
                BillCreate, BillAddItems, BillSum, BillSync, RowsUnchanged
  <1>l. ASSUME NEW r \in Diner, Lookup(r) PROVE quiet
    BY <1>l DEF Lookup, LookupRead, LookupExpire, RowsUnchanged
  <1>4. ASSUME NEW r \in Kitchen, Transition(r) PROVE quiet \/ KitchenCommit(r)
    BY <1>4 DEF Transition, KitchenRead, RowsUnchanged
  <1>5. ASSUME NEW r \in Cashier, Settle(r) PROVE quiet \/ SettleCommit(r)
    BY <1>5 DEF Settle, SettleReadBill, SettleCheckOrders, SettleWriteSession,
                SettleWriteBill, RowsUnchanged
  <1>6. ASSUME NEW r \in Request, Abort(r) PROVE quiet
    BY <1>6 DEF Abort, RowsUnchanged
  <1>7. CASE TimePasses \/ Retire
    BY <1>7 DEF TimePasses, Retire
  <1>8. CASE UNCHANGED vars
    BY <1>8 DEF vars
  <1> HIDE DEF quiet
  <1>9. CASE Next
    BY <1>1, <1>2, <1>3, <1>l, <1>4, <1>5, <1>6, <1>7, <1>9
       DEF Next, GuestStep, Request, quiet
  <1>10. QED
    BY <1>8, <1>9

\* A checkout that commits finds the table open: the lock it holds on the
\* cart kept the settlement from archiving it.
LEMMA CheckoutOnlyWhileOpen ==
  ASSUME Inv, NEW r \in Request, CheckoutCommit(r)
  PROVE  ~Closed
  BY DEF CheckoutCommit, Inv, LockInv, ClosedInv

LEMMA KitchenKeepsLines ==
  ASSUME Inv, NEW r \in Request, KitchenCommit(r)
  PROVE  /\ Placed' = Placed
         /\ \A o \in Order : order'[o].lines = order[o].lines
  <1> USE DEF Inv, KitchenCommit
  <1>1. tx[r].order \in Order /\ order[tx[r].order].status # "none" /\ tx[r].status \in OrderStatus
    BY DEF TargetInv, Target, Placed
  <1>2. /\ order'[tx[r].order].status = tx[r].status
        /\ order'[tx[r].order].lines = order[tx[r].order].lines
        /\ \A p \in Order \ {tx[r].order} : order'[p] = order[p]
    BY <1>1 DEF TypeOK, OrderRow
  <1>3. tx[r].status # "none"
    BY <1>1 DEF OrderStatus
  <1>4. QED
    BY <1>1, <1>2, <1>3 DEF Placed

\* Nobody gets an order in once the bill is settled (checkout_cart,
\* settle_bill).
THEOREM ClosedForOrders == Spec => NoOrderAfterClose
  <1>1. ASSUME Inv, [Next]_vars
        PROVE  Closed => Placed' = Placed
    <2> SUFFICES ASSUME Closed PROVE Placed' = Placed
      OBVIOUS
    <2>1. CASE UNCHANGED <<cart, inserted, order>>
      BY <2>1 DEF Placed
    <2>2. ASSUME NEW r \in Request, AddCommit(r) PROVE Placed' = Placed
      BY <2>2 DEF AddCommit, Placed
    <2>3. ASSUME NEW r \in Request, CheckoutCommit(r) PROVE FALSE
      BY <1>1, <2>3, CheckoutOnlyWhileOpen
    <2>4. ASSUME NEW r \in Request, KitchenCommit(r) PROVE Placed' = Placed
      BY <1>1, <2>4, KitchenKeepsLines
    <2>5. ASSUME NEW r \in Request, SettleCommit(r) PROVE Placed' = Placed
      BY <2>5 DEF SettleCommit, Placed
    <2>6. QED
      BY <1>1, <2>1, <2>2, <2>3, <2>4, <2>5, Effects
  <1>2. Inv /\ [Next]_vars => [Closed => Placed' = Placed]_vars
    BY <1>1
  <1>3. QED
    BY <1>2, Invariance, PTL DEF Spec, NoOrderAfterClose

-----------------------------------------------------------------------------
\* A session that has just been opened is one in which nothing is ordered.
LEMMA PlacementInit == Init => Placement!Init
  BY DEF Init, Placement!Init, NoOrder

\* However requests interleave, a committed checkout is one Place, a
\* committed cart item one Add, a settlement one Close, and any other step
\* changes nothing (add_item, checkout_cart, settle_bill).
LEMMA PlacementNext == Inv /\ [Next]_vars => [Placement!Next]_(Placement!vars)
  <1> SUFFICES ASSUME Inv, [Next]_vars
               PROVE  Placement!Next \/ UNCHANGED Placement!vars
    OBVIOUS
  <1> DEFINE placed == [o \in Order |-> order[o].lines]
  <1>1. CASE UNCHANGED <<cart, inserted, order>>
    BY <1>1 DEF Placement!vars
  <1>2. ASSUME NEW r \in Request, AddCommit(r) PROVE Placement!Next
    <2>1. PICK l \in Line \ inserted :
             /\ cart' = [cart EXCEPT !.lines = @ \cup {l}]
             /\ inserted' = inserted \cup {l}
      BY <1>2 DEF AddCommit
    <2>2. cart'.lines = cart.lines \cup {l} /\ cart'.status = cart.status
      BY <2>1 DEF Inv, TypeOK, CartRow
    <2>3. order' = order
      BY <1>2 DEF AddCommit
    <2>4. Placement!Add(l)
      BY <2>1, <2>2, <2>3 DEF Placement!Add
    <2>5. QED
      BY <2>4 DEF Placement!Next
  <1>3. ASSUME NEW r \in Request, CheckoutCommit(r) PROVE Placement!Next
    <2>1. PICK o \in Order \ Placed :
             order' = [order EXCEPT ![o] = [status |-> "NEW", lines |-> tx[r].lines]]
      BY <1>3 DEF CheckoutCommit
    <2>2. cart.status = "ACTIVE" /\ tx[r].lines = cart.lines /\ cart.lines # {}
      BY <1>3 DEF CheckoutCommit, Inv, LockInv
    <2>3. cart' = [cart EXCEPT !.lines = @ \ tx[r].lines] /\ inserted' = inserted
      BY <1>3 DEF CheckoutCommit
    <2>4. cart'.lines = {} /\ cart'.status = cart.status
      BY <2>2, <2>3 DEF Inv, TypeOK, CartRow
    <2>5. placed[o] = {}
      BY <2>1 DEF Inv, AbsentInv
    <2>6. placed' = [placed EXCEPT ![o] = cart.lines]
      BY <2>1, <2>2 DEF Inv, TypeOK
    <2>7. Placement!Place(o)
      BY <2>2, <2>3, <2>4, <2>5, <2>6 DEF Placement!Place
    <2>8. QED
      BY <2>1, <2>7 DEF Placement!Next
  <1>4. ASSUME NEW r \in Request, KitchenCommit(r) PROVE UNCHANGED Placement!vars
    <2>1. placed' = placed
      BY <1>4, KitchenKeepsLines
    <2>2. UNCHANGED <<cart, inserted>>
      BY <1>4 DEF KitchenCommit
    <2>3. QED
      BY <2>1, <2>2 DEF Placement!vars
  <1>5. ASSUME NEW r \in Request, SettleCommit(r) PROVE Placement!Next
    <2>1. cart'.status = "ARCHIVED" /\ cart'.lines = cart.lines
      BY <1>5 DEF SettleCommit, Inv, TypeOK, CartRow
    <2>2. inserted' = inserted /\ order' = order
      BY <1>5 DEF SettleCommit
    <2>3. Placement!Close
      BY <2>1, <2>2 DEF Placement!Close
    <2>4. QED
      BY <2>3 DEF Placement!Next
  <1>6. QED
    BY <1>1, <1>2, <1>3, <1>4, <1>5, Effects

\* The session implements OrderPlacement: orders are placed as if each were
\* one indivisible action (add_item, checkout_cart, settle_bill).
THEOREM PlacementRefined == Spec => ImplementsPlacement
  <1>1. QED
    BY PlacementInit, PlacementNext, Invariance, PTL
       DEF Spec, ImplementsPlacement, Placement!Spec

-----------------------------------------------------------------------------
(* Requests that do not overlap *)

\* At most one request is in flight.
Solo == \A q, r \in Request : ~At(q, "idle") /\ ~At(r, "idle") => q = r

\* Nobody but r is in flight.
Lone(r) == \A q \in Request \ {r} : tx[q].pc = "idle"

\* The places of requests that a closed table has no use for, and those of
\* a settlement.
Serving == {"checkout:validated", "checkout:locked", "kitchen:read",
            "bill:validated", "bill:orders read", "bill:none open",
            "bill:open found", "bill:items added", "bill:summed"}
Checked == {"settle:orders checked", "settle:session written", "settle:bill written"}
Settling == {"settle:bill read"} \cup Checked
Other == {"idle", "add:validated", "add:cart read", "lookup:overdue"}

AllResolved == \A o \in Placed : order[o].status \in {"SERVED", "CANCELLED"}

\* What a request has checked still holds when it goes on.
Unchanged(r) ==
    /\ tx[r].pc \in Serving => ~Closed
    /\ tx[r].pc \in Settling => bill[tx[r].bill].status = "OPEN"
    /\ tx[r].pc \in Checked => AllResolved

SerialInv ==
    /\ Inv
    /\ \A r \in Request : Unchanged(r)
    /\ Closed => AllResolved

LEMMA Places ==
  /\ Serving \cap Settling = {} /\ Other \cap (Serving \cup Settling) = {}
  /\ Checked \subseteq Settling /\ "idle" \in Other
  /\ Location = Serving \cup Settling \cup Other
  BY DEF Serving, Settling, Other, Checked, Location

LEMMA EndPlace ==
  ASSUME Inv, NEW r \in Request, End(r)
  PROVE  tx'[r].pc \in Other
  BY DEF End, Become, Inv, TypeOK, Idle, Other

LEMMA GoPlace ==
  ASSUME Inv, NEW r \in Request, NEW pc \in Location, Go(r, pc)
  PROVE  tx'[r].pc = pc /\ tx'[r].bill = tx[r].bill
  BY DEF Go, Become, Inv, TypeOK, Tx

\* A request that ends keeps the invariant when it leaves orders and bills alone.
LEMMA OtherSerial ==
  ASSUME SerialInv, Inv', NEW r \in Request, Lone(r)', tx'[r].pc \in Other,
         order' = order, bill' = bill
  PROVE  SerialInv'
  <1>1. \A q \in Request : Unchanged(q)'
    BY Places DEF Unchanged, Lone
  <1>2. QED
    BY <1>1 DEF SerialInv, AllResolved, Placed, Closed

\* A request that a closed table would have refused goes on or ends.
LEMMA ServingSerial ==
  ASSUME Inv', NEW r \in Request, Lone(r)', tx'[r].pc \in Serving \cup Other,
         ~Closed'
  PROVE  SerialInv'
  <1>1. \A q \in Request : Unchanged(q)'
    BY Places DEF Unchanged, Lone
  <1>2. QED
    BY <1>1 DEF SerialInv

\* A request arrives that is served at a table that is not closed.
Arrive(r) == CheckoutValidate(r) \/ BillValidate(r) \/ KitchenRead(r)

\* A step of a request that is served, once it is in flight.
Serve(r) ==
    \/ CheckoutLock(r) \/ CheckoutCommit(r) \/ KitchenCommit(r)
    \/ BillReadOrders(r) \/ BillFindOpen(r) \/ BillCreate(r)
    \/ BillAddItems(r) \/ BillSum(r) \/ BillSync(r)

\* What can be moved is not resolved.
LEMMA ArrivePlace ==
  ASSUME Inv, Closed => AllResolved, NEW r \in Request, Arrive(r)
  PROVE  /\ tx[r].pc = "idle" /\ tx'[r].pc \in Serving
         /\ ~Closed' /\ RowsUnchanged
  <1>c. RowsUnchanged => (Closed' <=> Closed)
    BY DEF RowsUnchanged, Closed
  <1>1. CASE CheckoutValidate(r) \/ BillValidate(r)
    <2>1. PICK pc \in {"checkout:validated", "bill:validated"} : Validate(r, pc)
      BY <1>1 DEF CheckoutValidate, BillValidate
    <2>2. pc \in Serving /\ pc \in Location
      BY DEF Serving, Location
    <2>3. QED
      BY <1>c, <2>1, <2>2, GoPlace, ActiveIsOpen DEF Validate, At
  <1>2. CASE KitchenRead(r)
    <2>1. PICK o \in Placed : \E s \in AllowedTransitions[order[o].status] :
             Become(r, [tx[r] EXCEPT !.pc = "kitchen:read", !.order = o, !.status = s])
      BY <1>2 DEF KitchenRead
    <2>2. order[o].status \in OrderStatus
      BY DEF Inv, TypeOK, OrderRow, Placed
    <2>3. order[o].status \notin {"SERVED", "CANCELLED"}
      BY <2>1, <2>2 DEF AllowedTransitions, OrderStatus
    <2>4. ~Closed /\ RowsUnchanged /\ tx[r].pc = "idle"
      BY <1>2, <2>3 DEF AllResolved, KitchenRead, At
    <2>5. PICK s \in AllowedTransitions[order[o].status] :
             Become(r, [tx[r] EXCEPT !.pc = "kitchen:read", !.order = o, !.status = s])
      BY <2>1
    <2>6. tx'[r].pc \in Serving
      BY <2>5 DEF Become, Inv, TypeOK, Tx, Serving
    <2>7. QED
      BY <1>c, <2>4, <2>6
  <1>3. QED
    BY <1>1, <1>2 DEF Arrive

\* Creating or syncing a bill closes no table.
LEMMA BillKeepsClosed ==
  ASSUME Inv, NEW r \in Request, BillCreate(r) \/ BillSync(r)
  PROVE  Closed' <=> Closed
  <1>1. CASE BillSync(r)
    <2>1. bill' = [bill EXCEPT ![tx[r].bill].items = @ \cup tx[r].served,
                               ![tx[r].bill].charged = tx[r].charged]
      BY <1>1 DEF BillSync
    <2>2. \A b \in Bill : bill'[b].status = bill[b].status
      BY <2>1 DEF Inv, TypeOK, BillRow
    <2>3. QED
      BY <2>2 DEF Closed
  <1>2. CASE BillCreate(r)
    <2>1. CASE OpenBillRefused
      BY <1>2, <2>1 DEF BillCreate, Closed
    <2>2. CASE ~OpenBillRefused
      <3>1. PICK b \in Bill :
               /\ bill[b].status = "none"
               /\ bill' = [bill EXCEPT ![b] = [NoBill EXCEPT
                                !.status = "OPEN",
                                !.items = tx[r].served,
                                !.charged = tx[r].served]]
        BY <1>2, <2>2 DEF BillCreate
      <3>2. bill'[b].status = "OPEN" /\ \A c \in Bill \ {b} : bill'[c] = bill[c]
        BY <3>1 DEF Inv, TypeOK, NoBill
      <3>3. QED
        BY <3>1, <3>2 DEF Closed
    <2>3. QED
      BY <2>1, <2>2
  <1>3. QED
    BY <1>1, <1>2

LEMMA ServePlace ==
  ASSUME Inv, NEW r \in Request, Serve(r)
  PROVE  /\ tx[r].pc \in Serving /\ tx'[r].pc \in Serving \cup Other
         /\ Closed' <=> Closed
  <1>a. tx[r].pc \in Serving
    BY DEF Serve, CheckoutLock, CheckoutCommit, KitchenCommit, BillReadOrders, BillFindOpen,
           BillCreate, BillAddItems, BillSum, BillSync, At, Serving
  <1>b. bill' = bill \/ BillCreate(r) \/ BillSync(r)
    BY DEF Serve, CheckoutLock, CheckoutCommit, KitchenCommit, BillReadOrders, BillFindOpen,
           BillAddItems, BillSum, RowsUnchanged
  <1>1. tx[r].pc \in Serving /\ (Closed' <=> Closed)
    BY <1>a, <1>b, BillKeepsClosed DEF Closed
  <1> SUFFICES tx'[r].pc \in Serving \cup Other
    BY <1>1
  <1>2. tx[r] \in Tx
    BY DEF Inv, TypeOK
  <1>3. ASSUME NEW t, Become(r, t), t.pc \in Serving \cup Other
        PROVE  tx'[r].pc \in Serving \cup Other
    BY <1>3 DEF Become, Inv, TypeOK
  <1>4. CASE End(r)
    BY <1>4, EndPlace
  <1>5. CASE Go(r, "bill:none open")
    BY <1>5, GoPlace DEF Location, Serving
  <1>6. CASE CheckoutLock(r)
    <2> DEFINE t == [tx[r] EXCEPT !.pc = "checkout:locked", !.lines = cart.lines]
    <2>1. t.pc \in Serving
      BY <1>2 DEF Tx, Serving
    <2>2. Become(r, t) \/ End(r)
      BY <1>6 DEF CheckoutLock
    <2> HIDE DEF t
    <2>3. QED
      BY <1>3, <1>4, <2>1, <2>2
  <1>7. CASE BillReadOrders(r)
    <2> DEFINE t == [tx[r] EXCEPT !.pc = "bill:orders read", !.served = Billable]
    <2>1. t.pc \in Serving
      BY <1>2 DEF Tx, Serving
    <2>2. Become(r, t)
      BY <1>7 DEF BillReadOrders
    <2> HIDE DEF t
    <2>3. QED
      BY <1>3, <2>1, <2>2
  <1>8. CASE BillSum(r)
    <2> DEFINE t == [tx[r] EXCEPT !.pc = "bill:summed", !.charged = NewTotal(r)]
    <2>1. t.pc \in Serving
      BY <1>2 DEF Tx, Serving
    <2>2. Become(r, t)
      BY <1>8 DEF BillSum
    <2> HIDE DEF t
    <2>3. QED
      BY <1>3, <2>1, <2>2
  <1>9. CASE BillFindOpen(r)
    <2>1. ASSUME NEW b \in OpenBill,
                 Become(r, [tx[r] EXCEPT !.pc = "bill:open found", !.bill = b,
                                         !.served = tx[r].served \ bill[b].items,
                                         !.added = {}])
          PROVE  tx'[r].pc \in Serving
      BY <1>2, <2>1 DEF Become, Inv, TypeOK, Tx, Serving
    <2>2. QED
      BY <1>4, <1>5, <1>9, <2>1 DEF BillFindOpen
  <1>10. CASE BillAddItems(r)
    <2>1. ASSUME NEW o, Become(r, [tx[r] EXCEPT
                   !.pc = IF tx[r].added \cup {o} = tx[r].served THEN "bill:items added" ELSE @,
                   !.added = tx[r].added \cup {o}])
          PROVE  tx'[r].pc \in Serving
      <3> DEFINE t == [tx[r] EXCEPT
                   !.pc = IF tx[r].added \cup {o} = tx[r].served THEN "bill:items added" ELSE @,
                   !.added = tx[r].added \cup {o}]
      <3>1. t.pc \in Serving
        BY <1>2, <1>10 DEF Tx, Serving, BillAddItems, At
      <3>2. tx'[r] = t
        BY <2>1 DEF Become, Inv, TypeOK
      <3> HIDE DEF t
      <3>3. QED
        BY <3>1, <3>2
    <2>2. QED
      BY <1>4, <1>10, <2>1 DEF BillAddItems
  <1>11. QED
    BY <1>4, <1>5, <1>6, <1>7, <1>8, <1>9, <1>10
       DEF Serve, CheckoutCommit, KitchenCommit, BillCreate, BillSync

\* A request that adds an item, or looks the session up, asks nothing of orders
\* or bills, and one that is aborted changes nothing.
LEMMA AsidePlace ==
  ASSUME Inv, NEW r \in Request, AddItem(r) \/ Lookup(r) \/ Abort(r)
  PROVE  tx'[r].pc \in Other /\ UNCHANGED <<order, bill>>
  <1>1. ASSUME NEW pc \in Other, Go(r, pc) PROVE tx'[r].pc \in Other
    BY <1>1, GoPlace, Places
  <1>2. CASE AddValidate(r)
    BY <1>1, <1>2 DEF AddValidate, Validate, Other, RowsUnchanged
  <1>3. CASE AddReadCart(r)
    BY <1>1, <1>3, EndPlace DEF AddReadCart, Other, RowsUnchanged
  <1>4. CASE AddCommit(r)
    BY <1>4, EndPlace DEF AddCommit
  <1>5. CASE Abort(r)
    BY <1>5, EndPlace DEF Abort, RowsUnchanged
  <1>6. CASE LookupRead(r)
    BY <1>1, <1>6 DEF LookupRead, Other, RowsUnchanged
  <1>7. CASE LookupExpire(r)
    BY <1>7, EndPlace DEF LookupExpire
  <1>8. QED
    BY <1>2, <1>3, <1>4, <1>5, <1>6, <1>7 DEF AddItem, Lookup

\* What a request may do.
Act(r) == AddItem(r) \/ Lookup(r) \/ Abort(r) \/ Arrive(r) \/ Serve(r) \/ Settle(r)

\* Every step is one of a request or concerns none.
LEMMA Kinds ==
  ASSUME Next
  PROVE  TimePasses \/ Retire \/ \E r \in Request : Act(r)
  BY DEF Next, GuestStep, Checkout, GenerateBill, Transition, Request, Arrive, Serve, Act

\* A step of r concerns no other request.
LEMMA OthersStay ==
  ASSUME Inv, NEW r \in Request, Act(r)
  PROVE  \A q \in Request \ {r} : tx'[q] = tx[q]
  <1> SUFFICES \E t : tx' = [tx EXCEPT ![r] = t]
    BY DEF Inv, TypeOK
  <1>1. ASSUME AddItem(r) \/ Lookup(r) \/ Abort(r) \/ Arrive(r)
        PROVE  \E t : tx' = [tx EXCEPT ![r] = t]
    BY <1>1 DEF AddItem, AddValidate, AddReadCart, AddCommit, Lookup, LookupRead, LookupExpire,
           Abort, Arrive, CheckoutValidate, BillValidate, Validate, KitchenRead, Go, End, Become
  <1>2. ASSUME BillAddItems(r)
        PROVE  \E t : tx' = [tx EXCEPT ![r] = t]
    <2>1. \E o \in NextItems(r) :
             \/ End(r)
             \/ Become(r, [tx[r] EXCEPT
                   !.pc = IF tx[r].added \cup {o} = tx[r].served THEN "bill:items added" ELSE @,
                   !.added = tx[r].added \cup {o}])
      BY <1>2 DEF BillAddItems
    <2>2. QED
      BY <2>1 DEF End, Become
  <1>3. ASSUME Serve(r), ~BillAddItems(r)
        PROVE  \E t : tx' = [tx EXCEPT ![r] = t]
    BY <1>3 DEF Serve, CheckoutLock, CheckoutCommit, KitchenCommit, BillReadOrders, BillFindOpen,
           BillCreate, BillSum, BillSync, Go, End, Become
  <1>4. ASSUME Settle(r)
        PROVE  \E t : tx' = [tx EXCEPT ![r] = t]
    BY <1>4 DEF Settle, SettleReadBill, SettleCheckOrders, SettleWriteSession, SettleWriteBill,
           SettleCommit, Go, End, Become
  <1>5. QED
    BY <1>1, <1>2, <1>3, <1>4 DEF Act

\* A request that does something was in flight before, or is so now.
LEMMA ActsInFlight ==
  ASSUME SerialInv, NEW r \in Request, Act(r)
  PROVE  tx[r].pc # "idle" \/ tx'[r].pc # "idle"
  <1>1. Inv /\ (Closed => AllResolved)
    BY DEF SerialInv
  <1>2. CASE Arrive(r)
    BY <1>1, <1>2, ArrivePlace, Places
  <1>3. CASE Serve(r)
    BY <1>1, <1>3, ServePlace, Places
  <1>4. CASE AddValidate(r)
    BY <1>1, <1>4, GoPlace DEF AddValidate, Validate, Location
  <1>5. CASE SettleReadBill(r)
    <2>1. PICK b \in OpenBill : Become(r, [tx[r] EXCEPT !.pc = "settle:bill read", !.bill = b])
      BY <1>5 DEF SettleReadBill
    <2>2. QED
      BY <1>1, <2>1 DEF Become, Inv, TypeOK, Tx
  <1>6. CASE \/ AddReadCart(r) \/ AddCommit(r) \/ LookupExpire(r) \/ Abort(r)
             \/ SettleCheckOrders(r) \/ SettleWriteSession(r) \/ SettleWriteBill(r)
             \/ SettleCommit(r)
    BY <1>6 DEF AddReadCart, AddCommit, LookupExpire, Abort, SettleCheckOrders,
                SettleWriteSession, SettleWriteBill, SettleCommit, At
  <1>7. CASE LookupRead(r)
    BY <1>1, <1>7, GoPlace DEF LookupRead, Location
  <1>8. QED
    BY <1>2, <1>3, <1>4, <1>5, <1>6, <1>7 DEF Act, AddItem, Lookup, Settle

LEMMA OthersIdle ==
  ASSUME SerialInv, Solo, Solo', NEW r \in Request, Act(r)
  PROVE  Lone(r)'
  <1>1. tx[r].pc # "idle" \/ tx'[r].pc # "idle"
    BY ActsInFlight
  <1>2. \A q \in Request \ {r} : tx'[q] = tx[q]
    BY OthersStay DEF SerialInv
  <1>3. QED
    BY <1>1, <1>2 DEF Solo, Lone, At

\* The orders were resolved when they were checked, and nobody else moves them.
LEMMA SettleSerial ==
  ASSUME SerialInv, Inv', NEW r \in Request, Lone(r)', Settle(r)
  PROVE  SerialInv'
  <1>0. \A q \in Request \ {r} : Unchanged(q)'
    BY Places DEF Lone, Unchanged
  <1>1. Inv
    BY DEF SerialInv
  <1>2. CASE SettleReadBill(r)
    <2>1. PICK b \in OpenBill : Become(r, [tx[r] EXCEPT !.pc = "settle:bill read", !.bill = b])
      BY <1>2 DEF SettleReadBill
    <2>2. tx'[r].pc \in Settling \ Checked /\ tx'[r].bill = b
      BY <1>1, <2>1 DEF Become, Inv, TypeOK, Tx, Settling, Checked
    <2>3. UNCHANGED <<order, bill>> /\ bill[b].status = "OPEN"
      BY <1>2 DEF SettleReadBill, RowsUnchanged, OpenBill
    <2>4. Unchanged(r)'
      BY <2>2, <2>3, Places DEF Unchanged
    <2>5. QED
      BY <1>0, <2>3, <2>4 DEF SerialInv, AllResolved, Placed, Closed
  <1>3. CASE SettleCheckOrders(r)
    <2>1. UNCHANGED <<order, bill>>
      BY <1>3 DEF SettleCheckOrders, RowsUnchanged
    <2>2. CASE End(r)
      BY <1>1, <2>1, <2>2, EndPlace, OtherSerial
    <2>3. CASE /\ Become(r, [tx[r] EXCEPT !.pc = "settle:orders checked", !.session = session])
               /\ ~\E o \in Order : order[o].status \in UnresolvedStatuses
      <3>1. tx'[r].pc \in Checked /\ tx'[r].bill = tx[r].bill
        BY <1>1, <2>3 DEF Become, Inv, TypeOK, Tx, Checked
      <3>2. tx[r].pc \in Settling
        BY <1>3 DEF SettleCheckOrders, At, Settling, Checked
      <3>3. AllResolved
        BY <1>1, <2>3 DEF AllResolved, Placed, UnresolvedStatuses, Inv, TypeOK, OrderRow, OrderStatus
      <3>4. Unchanged(r)'
        BY <2>1, <3>1, <3>2, <3>3, Places DEF Unchanged, SerialInv, AllResolved, Placed
      <3>5. QED
        BY <1>0, <2>1, <3>4 DEF SerialInv, AllResolved, Placed, Closed
    <2>4. QED
      BY <1>3, <2>2, <2>3 DEF SettleCheckOrders
  <1>w. CASE SettleWriteSession(r) \/ SettleWriteBill(r)
    <2>1. /\ UNCHANGED <<order, bill>> /\ tx[r].pc \in Checked
          /\ Go(r, "settle:session written") \/ Go(r, "settle:bill written")
      BY <1>w DEF SettleWriteSession, SettleWriteBill, RowsUnchanged, At, Checked
    <2>2. tx'[r].pc \in Checked /\ tx'[r].bill = tx[r].bill
      BY <1>1, <2>1, GoPlace DEF Checked, Location
    <2>3. Unchanged(r)'
      BY <2>1, <2>2, Places DEF Unchanged, SerialInv, AllResolved, Placed
    <2>4. QED
      BY <1>0, <2>1, <2>3 DEF SerialInv, AllResolved, Placed, Closed
  <1>4. CASE SettleCommit(r)
    <2>1. tx[r].pc \in Checked /\ order' = order /\ End(r)
      BY <1>4 DEF SettleCommit, At, Checked
    <2>2. AllResolved'
      BY <2>1 DEF SerialInv, Unchanged, AllResolved, Placed
    <2>3. Unchanged(r)'
      BY <1>1, <2>1, EndPlace, Places DEF Unchanged
    <2>4. QED
      BY <1>0, <2>2, <2>3 DEF SerialInv
  <1>5. QED
    BY <1>2, <1>3, <1>w, <1>4 DEF Settle

LEMMA SerialInit == Init => SerialInv
  <1> SUFFICES ASSUME Init PROVE SerialInv
    OBVIOUS
  <1>1. \A r \in Request : tx[r].pc = "idle"
    BY DEF Init, Idle
  <1>2. ~Closed
    BY DEF Init, Closed, NoBill
  <1>3. QED
    BY <1>1, <1>2, InitInv, Places DEF SerialInv, Unchanged

LEMMA SerialNext ==
  ASSUME Solo, Solo', SerialInv, [Next]_vars
  PROVE  SerialInv'
  <1>1. Inv /\ Inv'
    BY NextInv DEF SerialInv
  <1>2. CASE TimePasses \/ Retire
    <2>1. UNCHANGED <<order, bill, tx>>
      BY <1>2 DEF TimePasses, Retire
    <2>2. QED
      BY <1>1, <2>1 DEF SerialInv, Unchanged, AllResolved, Placed, Closed
  <1>3. ASSUME NEW r \in Request, Act(r) PROVE SerialInv'
    <2>1. Lone(r)'
      BY <1>3, OthersIdle
    <2>2. CASE AddItem(r) \/ Lookup(r) \/ Abort(r)
      BY <1>1, <2>1, <2>2, AsidePlace, OtherSerial
    <2>3. CASE Arrive(r)
      BY <1>1, <2>1, <2>3, ArrivePlace, ServingSerial DEF SerialInv
    <2>4. CASE Serve(r)
      BY <1>1, <2>1, <2>4, ServePlace, ServingSerial DEF SerialInv, Unchanged
    <2>5. CASE Settle(r)
      BY <1>1, <2>1, <2>5, SettleSerial
    <2>6. QED
      BY <1>3, <2>2, <2>3, <2>4, <2>5 DEF Act
  <1>4. CASE UNCHANGED vars
    BY <1>1, <1>4 DEF vars, SerialInv, Unchanged, AllResolved, Placed, Closed
  <1>5. QED
    BY <1>2, <1>3, <1>4, Kinds

\* When requests do not overlap what one has checked holds up to its commit
\* (every handler of DiningSession).
THEOREM SerialInvariance == Spec /\ []Solo => []SerialInv
  <1>1. SerialInv /\ Solo /\ Solo' /\ [Next]_vars => SerialInv'
    BY SerialNext
  <1>2. QED
    BY <1>1, SerialInit, PTL DEF Spec

-----------------------------------------------------------------------------
(* Requests that do not overlap implement the atomic service *)

Adding == {"add:validated", "add:cart read"}
Listing == {"bill:orders read", "bill:none open"}
Extending == {"bill:open found", "bill:items added", "bill:summed"}

\* What a request has read is still so, up to its commit.
Current(r) ==
    /\ tx[r].pc \in Adding => ~Closed
    /\ tx[r].pc = "lookup:overdue" => session # "CLOSED"
    /\ tx[r].pc = "kitchen:read" => tx[r].status \in AllowedTransitions[order[tx[r].order].status]
    /\ tx[r].pc \in Listing => tx[r].served = Billable
    /\ tx[r].pc = "bill:none open" => tx[r].served # {} /\ OpenBill = {}
    /\ tx[r].pc \in Extending =>
           /\ bill[tx[r].bill].status = "OPEN"
           /\ tx[r].served # {}
           /\ tx[r].served \cup bill[tx[r].bill].items = Billable
    /\ tx[r].pc = "bill:summed" => tx[r].charged = Billable

\* An OPEN bill was never settled, and a closed table has none.
PaidInv ==
    /\ \A b \in Bill : bill[b].items \subseteq Billable
    /\ \A b \in OpenBill : bill[b].stamps = 0
    /\ Closed => OpenBill = {}

ServiceInv == SerialInv /\ PaidInv /\ \A r \in Request : Current(r)

LEMMA StepService ==
  ASSUME SerialInv', PaidInv', NEW r \in Request, Lone(r)', Current(r)'
  PROVE  ServiceInv'
  <1>1. \A q \in Request \ {r} : Current(q)'
    BY DEF Lone, Current, Adding, Listing, Extending
  <1>2. QED
    BY <1>1 DEF ServiceInv

LEMMA EndService ==
  ASSUME Inv, SerialInv', PaidInv', NEW r \in Request, Lone(r)', End(r)
  PROVE  ServiceInv'
  <1>1. tx'[r].pc = "idle"
    BY DEF End, Become, Inv, TypeOK, Idle
  <1>2. Current(r)'
    BY <1>1 DEF Current, Adding, Listing, Extending
  <1>3. QED
    BY <1>2, StepService

LEMMA PaidKept ==
  ASSUME PaidInv, UNCHANGED <<order, bill>>
  PROVE  PaidInv'
  BY DEF PaidInv, OpenBill, Billable, Closed

LEMMA AddItemService ==
  ASSUME ServiceInv, SerialInv', NEW r \in Request, Lone(r)', AddItem(r)
  PROVE  ServiceInv'
  <1>1. Inv /\ PaidInv /\ Current(r)
    BY DEF ServiceInv, SerialInv
  <1>2. PaidInv'
    BY <1>1, PaidKept DEF AddItem, AddValidate, AddReadCart, AddCommit, Validate, RowsUnchanged
  <1>3. ASSUME NEW pc \in Adding, Go(r, pc), ~Closed'
        PROVE  ServiceInv'
    <2>1. tx'[r].pc = pc
      BY <1>1, <1>3, GoPlace DEF Adding, Location
    <2>2. Current(r)'
      BY <1>3, <2>1 DEF Current, Adding, Listing, Extending
    <2>3. QED
      BY <1>2, <2>2, StepService
  <1>4. CASE AddValidate(r)
    <2>1. Go(r, "add:validated") /\ ~Closed'
      BY <1>1, <1>4, ActiveIsOpen DEF AddValidate, Validate, RowsUnchanged, Closed
    <2>2. QED
      BY <1>3, <2>1 DEF Adding
  <1>5. CASE AddReadCart(r)
    <2>1. ~Closed'
      BY <1>1, <1>5 DEF AddReadCart, At, Current, Adding, RowsUnchanged, Closed
    <2>2. End(r) \/ Go(r, "add:cart read")
      BY <1>5 DEF AddReadCart
    <2>3. QED
      BY <1>1, <1>2, <1>3, <2>1, <2>2, EndService DEF Adding
  <1>6. CASE AddCommit(r)
    BY <1>1, <1>2, <1>6, EndService DEF AddCommit
  <1>7. QED
    BY <1>4, <1>5, <1>6 DEF AddItem

LEMMA CheckoutService ==
  ASSUME ServiceInv, SerialInv', NEW r \in Request, Lone(r)', Checkout(r)
  PROVE  ServiceInv'
  <1>1. Inv /\ PaidInv
    BY DEF ServiceInv, SerialInv
  <1>2. ASSUME PaidInv', tx'[r].pc \in {"checkout:validated", "checkout:locked"}
        PROVE  ServiceInv'
    <2>1. Current(r)'
      BY <1>2 DEF Current, Adding, Listing, Extending
    <2>2. QED
      BY <1>2, <2>1, StepService
  <1>3. CASE CheckoutValidate(r)
    <2>1. PaidInv'
      BY <1>1, <1>3, PaidKept DEF CheckoutValidate, Validate, RowsUnchanged
    <2>2. tx'[r].pc = "checkout:validated"
      BY <1>1, <1>3, GoPlace DEF CheckoutValidate, Validate, Location
    <2>3. QED
      BY <1>2, <2>1, <2>2
  <1>4. CASE CheckoutLock(r)
    <2>1. PaidInv'
      BY <1>1, <1>4, PaidKept DEF CheckoutLock, RowsUnchanged
    <2>2. CASE Become(r, [tx[r] EXCEPT !.pc = "checkout:locked", !.lines = cart.lines])
      <3>1. tx'[r].pc = "checkout:locked"
        BY <1>1, <2>2 DEF Become, Inv, TypeOK, Tx
      <3>2. QED
        BY <1>2, <2>1, <3>1
    <2>3. CASE End(r)
      BY <1>1, <2>1, <2>3, EndService
    <2>4. QED
      BY <1>4, <2>2, <2>3 DEF CheckoutLock
  <1>5. CASE CheckoutCommit(r)
    <2>1. bill' = bill /\ End(r)
      BY <1>5 DEF CheckoutCommit
    <2>2. PICK o \in Order \ Placed :
             order' = [order EXCEPT ![o] = [status |-> "NEW", lines |-> tx[r].lines]]
      BY <1>5 DEF CheckoutCommit
    <2>3. Billable' = Billable
      <3>1. order[o].status # "SERVED" /\ order'[o].status # "SERVED"
        BY <1>1, <2>2 DEF Placed, Inv, TypeOK
      <3>2. \A p \in Order \ {o} : order'[p] = order[p]
        BY <1>1, <2>2 DEF Inv, TypeOK
      <3>3. QED
        BY <3>1, <3>2 DEF Billable
    <2>4. PaidInv'
      BY <1>1, <2>1, <2>3 DEF PaidInv, OpenBill, Closed
    <2>5. QED
      BY <1>1, <2>1, <2>4, EndService
  <1>6. QED
    BY <1>3, <1>4, <1>5 DEF Checkout

\* The move is still allowed when it is written: no SERVED order is moved.
LEMMA TransitionService ==
  ASSUME ServiceInv, SerialInv', NEW r \in Request, Lone(r)', Transition(r)
  PROVE  ServiceInv'
  <1>1. Inv /\ PaidInv /\ Current(r)
    BY DEF ServiceInv, SerialInv
  <1>2. CASE KitchenRead(r)
    <2>1. PaidInv' /\ order' = order
      BY <1>1, <1>2, PaidKept DEF KitchenRead, RowsUnchanged
    <2>2. PICK o \in Placed : \E s \in AllowedTransitions[order[o].status] :
             Become(r, [tx[r] EXCEPT !.pc = "kitchen:read", !.order = o, !.status = s])
      BY <1>2 DEF KitchenRead
    <2>3. PICK s \in AllowedTransitions[order[o].status] :
             Become(r, [tx[r] EXCEPT !.pc = "kitchen:read", !.order = o, !.status = s])
      BY <2>2
    <2>4. tx'[r].pc = "kitchen:read" /\ tx'[r].order = o /\ tx'[r].status = s
      BY <1>1, <2>3 DEF Become, Inv, TypeOK, Tx
    <2>5. Current(r)'
      BY <2>1, <2>3, <2>4 DEF Current, Adding, Listing, Extending
    <2>6. QED
      BY <2>1, <2>5, StepService
  <1>3. CASE KitchenCommit(r)
    <2> DEFINE o == tx[r].order
    <2>1. /\ bill' = bill /\ End(r) /\ o \in Placed
          /\ order' = [order EXCEPT ![o].status = tx[r].status]
          /\ tx[r].status \in AllowedTransitions[order[o].status]
      BY <1>1, <1>3 DEF KitchenCommit, At, Current, Inv, TargetInv, Target
    <2>2. order[o].status # "SERVED"
      BY <2>1 DEF AllowedTransitions, OrderStatus
    <2>3. \A p \in Order \ {o} : order'[p] = order[p]
      BY <1>1, <2>1 DEF Inv, TypeOK
    <2>4. Billable \subseteq Billable'
      BY <2>2, <2>3 DEF Billable
    <2>5. PaidInv'
      BY <1>1, <2>1, <2>4 DEF PaidInv, OpenBill, Closed
    <2>6. QED
      BY <1>1, <2>1, <2>5, EndService
  <1>4. QED
    BY <1>2, <1>3 DEF Transition

LEMMA BillReadsService ==
  ASSUME ServiceInv, SerialInv', NEW r \in Request, Lone(r)',
         BillValidate(r) \/ BillReadOrders(r) \/ BillFindOpen(r)
  PROVE  ServiceInv'
  <1>1. Inv /\ PaidInv /\ Current(r)
    BY DEF ServiceInv, SerialInv
  <1>2. UNCHANGED <<order, bill>>
    BY DEF BillValidate, Validate, BillReadOrders, BillFindOpen, RowsUnchanged
  <1>3. PaidInv' /\ Billable' = Billable /\ OpenBill' = OpenBill
    BY <1>1, <1>2, PaidKept DEF Billable, OpenBill
  <1>4. CASE BillValidate(r)
    <2>1. tx'[r].pc = "bill:validated"
      BY <1>1, <1>4, GoPlace DEF BillValidate, Validate, Location
    <2>2. Current(r)'
      BY <2>1 DEF Current, Adding, Listing, Extending
    <2>3. QED
      BY <1>3, <2>2, StepService
  <1>5. CASE BillReadOrders(r)
    <2>1. Become(r, [tx[r] EXCEPT !.pc = "bill:orders read", !.served = Billable])
      BY <1>5 DEF BillReadOrders
    <2>2. tx'[r].pc = "bill:orders read" /\ tx'[r].served = Billable
      BY <1>1, <2>1 DEF Become, Inv, TypeOK, Tx
    <2>3. Current(r)'
      BY <1>3, <2>2 DEF Current, Adding, Listing, Extending
    <2>4. QED
      BY <1>3, <2>3, StepService
  <1>6. CASE BillFindOpen(r)
    <2>1. tx[r].served = Billable
      BY <1>1, <1>6 DEF BillFindOpen, At, Current, Listing
    <2>2. CASE End(r)
      BY <1>1, <1>3, <2>2, EndService
    <2>3. CASE OpenBill = {} /\ tx[r].served # {} /\ Go(r, "bill:none open")
      <3>1. tx'[r].pc = "bill:none open" /\ tx'[r].served = tx[r].served
        BY <1>1, <2>3 DEF Go, Become, Inv, TypeOK, Tx
      <3>2. Current(r)'
        BY <1>3, <2>1, <2>3, <3>1 DEF Current, Adding, Listing, Extending
      <3>3. QED
        BY <1>3, <3>2, StepService
    <2>4. ASSUME NEW b \in OpenBill, tx[r].served \ bill[b].items # {},
                 Become(r, [tx[r] EXCEPT !.pc = "bill:open found", !.bill = b,
                                         !.served = tx[r].served \ bill[b].items,
                                         !.added = {}])
          PROVE  ServiceInv'
      <3>1. /\ tx'[r].pc = "bill:open found" /\ tx'[r].bill = b
            /\ tx'[r].served = tx[r].served \ bill[b].items
        BY <1>1, <2>4 DEF Become, Inv, TypeOK, Tx
      <3>2. b \in Bill /\ bill[b].status = "OPEN" /\ bill[b].items \subseteq Billable
        BY <1>1, <2>4 DEF PaidInv, OpenBill, Closed
      <3>3. (tx[r].served \ bill[b].items) \cup bill[b].items = Billable
        BY <2>1, <3>2
      <3>4. Current(r)'
        BY <1>2, <1>3, <2>4, <3>1, <3>2, <3>3 DEF Current, Adding, Listing, Extending
      <3>5. QED
        BY <1>3, <3>4, StepService
    <2>5. QED
      BY <1>6, <2>2, <2>3, <2>4 DEF BillFindOpen
  <1>7. QED
    BY <1>4, <1>5, <1>6

\* The bill that is created, or synced, lists the served orders.
LEMMA BillWritesService ==
  ASSUME ServiceInv, SerialInv', NEW r \in Request, Lone(r)', BillCreate(r) \/ BillSync(r)
  PROVE  ServiceInv'
  <1>1. Inv /\ PaidInv /\ Current(r) /\ ~Closed
    BY DEF ServiceInv, SerialInv, Unchanged, Serving, BillCreate, BillSync, At
  <1>2. order' = order /\ End(r) /\ Billable' = Billable
    BY DEF BillCreate, BillSync, Billable
  <1>c. ~Closed'
    BY <1>1, BillKeepsClosed
  <1>3. CASE BillCreate(r)
    <2>1. OpenBill = {} /\ tx[r].served = Billable
      BY <1>1, <1>3 DEF BillCreate, At, Current, Listing
    <2>2. PICK b \in Bill : bill' = [bill EXCEPT ![b] = [NoBill EXCEPT
                                        !.status = "OPEN",
                                        !.items = tx[r].served,
                                        !.charged = tx[r].served]]
      BY <1>3, <2>1 DEF BillCreate, OpenBillRefused
    <2>3. bill'[b].items = Billable /\ bill'[b].stamps = 0
      BY <1>1, <2>1, <2>2 DEF Inv, TypeOK, NoBill
    <2>4. \A c \in Bill \ {b} : bill'[c] = bill[c]
      BY <1>1, <2>2 DEF Inv, TypeOK
    <2>5. PaidInv'
      BY <1>1, <1>2, <1>c, <2>3, <2>4 DEF PaidInv, OpenBill
    <2>6. QED
      BY <1>1, <1>2, <2>5, EndService
  <1>4. CASE BillSync(r)
    <2> DEFINE b == tx[r].bill
    <2>1. /\ b \in Bill /\ bill[b].status = "OPEN"
          /\ tx[r].served \cup bill[b].items = Billable
      BY <1>1, <1>4 DEF BillSync, At, Current, Extending, Inv, TargetInv, Target
    <2>2. bill' = [bill EXCEPT ![b].items = @ \cup tx[r].served, ![b].charged = tx[r].charged]
      BY <1>4 DEF BillSync
    <2> HIDE DEF b
    <2>3. bill[b] \in BillRow
      BY <1>1, <2>1 DEF Inv, TypeOK
    <2>4. bill'[b].items = Billable /\ bill'[b].stamps = bill[b].stamps
      BY <1>1, <2>1, <2>2, <2>3 DEF Inv, TypeOK, BillRow
    <2>5. bill[b].stamps = 0
      BY <1>1, <2>1 DEF PaidInv, OpenBill, Closed
    <2>6. \A c \in Bill \ {b} : bill'[c] = bill[c]
      BY <1>1, <2>2 DEF Inv, TypeOK
    <2>7. PaidInv'
      BY <1>1, <1>2, <1>c, <2>4, <2>5, <2>6 DEF PaidInv, OpenBill
    <2>8. QED
      BY <1>1, <1>2, <2>7, EndService
  <1>5. QED
    BY <1>3, <1>4

LEMMA BillStepsService ==
  ASSUME ServiceInv, SerialInv', NEW r \in Request, Lone(r)', BillAddItems(r) \/ BillSum(r)
  PROVE  ServiceInv'
  <1>1. Inv /\ PaidInv /\ Current(r)
    BY DEF ServiceInv, SerialInv
  <1>2. UNCHANGED <<order, bill>>
    BY DEF BillAddItems, BillSum, RowsUnchanged
  <1>3. PaidInv' /\ Billable' = Billable
    BY <1>1, <1>2, PaidKept DEF Billable
  <1>4. /\ bill[tx[r].bill].status = "OPEN" /\ tx[r].served # {}
        /\ tx[r].served \cup bill[tx[r].bill].items = Billable
    BY <1>1 DEF BillAddItems, BillSum, At, Current, Extending
  <1>5. CASE BillAddItems(r)
    <2>1. CASE End(r)
      BY <1>1, <1>3, <2>1, EndService
    <2>2. ASSUME NEW o, Become(r, [tx[r] EXCEPT
                   !.pc = IF tx[r].added \cup {o} = tx[r].served THEN "bill:items added" ELSE @,
                   !.added = tx[r].added \cup {o}])
          PROVE  ServiceInv'
      <3> DEFINE t == [tx[r] EXCEPT
                   !.pc = IF tx[r].added \cup {o} = tx[r].served THEN "bill:items added" ELSE @,
                   !.added = tx[r].added \cup {o}]
      <3>a. /\ t.pc \in {"bill:open found", "bill:items added"} /\ t.served = tx[r].served
            /\ t.bill = tx[r].bill
        BY <1>1, <1>5 DEF Inv, TypeOK, Tx, BillAddItems, At
      <3>b. tx'[r] = t
        BY <1>1, <2>2 DEF Become, Inv, TypeOK
      <3> HIDE DEF t
      <3>1. /\ tx'[r].pc \in {"bill:open found", "bill:items added"}
            /\ tx'[r].served = tx[r].served /\ tx'[r].bill = tx[r].bill
        BY <3>a, <3>b
      <3>2. Current(r)'
        BY <1>2, <1>3, <1>4, <3>1 DEF Current, Adding, Listing, Extending
      <3>3. QED
        BY <1>3, <3>2, StepService
    <2>3. QED
      BY <1>5, <2>1, <2>2 DEF BillAddItems
  <1>6. CASE BillSum(r)
    <2> DEFINE sum == NewTotal(r)
    <2>1. Become(r, [tx[r] EXCEPT !.pc = "bill:summed", !.charged = sum])
      BY <1>6 DEF BillSum
    <2>2. sum = Billable
      BY <1>4 DEF NewTotal
    <2> HIDE DEF sum
    <2>3. /\ tx'[r].pc = "bill:summed" /\ tx'[r].served = tx[r].served
          /\ tx'[r].bill = tx[r].bill /\ tx'[r].charged = sum
      BY <1>1, <2>1 DEF Become, Inv, TypeOK, Tx
    <2>4. Current(r)'
      BY <1>2, <1>3, <1>4, <2>2, <2>3 DEF Current, Adding, Listing, Extending
    <2>5. QED
      BY <1>3, <2>4, StepService
  <1>7. QED
    BY <1>5, <1>6

\* A session looked up as ACTIVE is not closed before it is marked EXPIRED.
LEMMA LookupService ==
  ASSUME ServiceInv, SerialInv', NEW r \in Request, Lone(r)', Lookup(r)
  PROVE  ServiceInv'
  <1>1. Inv /\ PaidInv
    BY DEF ServiceInv, SerialInv
  <1>2. PaidInv'
    BY <1>1, PaidKept DEF Lookup, LookupRead, LookupExpire, RowsUnchanged
  <1>3. CASE LookupRead(r)
    <2>1. tx'[r].pc = "lookup:overdue" /\ session' # "CLOSED"
      BY <1>1, <1>3, GoPlace DEF LookupRead, Location, RowsUnchanged, SessionUnchanged
    <2>2. Current(r)'
      BY <2>1 DEF Current, Adding, Listing, Extending
    <2>3. QED
      BY <1>2, <2>2, StepService
  <1>4. CASE LookupExpire(r)
    BY <1>1, <1>2, <1>4, EndService DEF LookupExpire
  <1>5. QED
    BY <1>3, <1>4 DEF Lookup

\* Settling the one OPEN bill leaves none.
LEMMA SettleService ==
  ASSUME ServiceInv, SerialInv', NEW r \in Request, Lone(r)', Settle(r)
  PROVE  ServiceInv'
  <1>1. Inv /\ PaidInv /\ Unchanged(r)
    BY DEF ServiceInv, SerialInv
  <1>2. CASE SettleReadBill(r) \/ SettleCheckOrders(r) \/ SettleWriteSession(r)
             \/ SettleWriteBill(r)
    <2>1. PaidInv'
      BY <1>1, <1>2, PaidKept DEF SettleReadBill, SettleCheckOrders, SettleWriteSession,
                                  SettleWriteBill, RowsUnchanged
    <2>2. CASE End(r)
      BY <1>1, <2>1, <2>2, EndService
    <2>3. CASE ~End(r)
      <3>1. tx'[r].pc \in Settling
        <4>1. CASE SettleReadBill(r)
          <5>1. PICK b \in OpenBill : Become(r, [tx[r] EXCEPT !.pc = "settle:bill read", !.bill = b])
            BY <4>1 DEF SettleReadBill
          <5>2. QED
            BY <1>1, <5>1 DEF Become, Inv, TypeOK, Tx, Settling, Checked
        <4>2. CASE SettleCheckOrders(r)
          <5>1. Become(r, [tx[r] EXCEPT !.pc = "settle:orders checked", !.session = session])
            BY <2>3, <4>2 DEF SettleCheckOrders
          <5>2. QED
            BY <1>1, <5>1 DEF Become, Inv, TypeOK, Tx, Settling, Checked
        <4>3. CASE SettleWriteSession(r) \/ SettleWriteBill(r)
          BY <1>1, <4>3, GoPlace DEF SettleWriteSession, SettleWriteBill, Location, Settling, Checked
        <4>4. QED
          BY <1>2, <4>1, <4>2, <4>3
      <3>2. Current(r)'
        BY <3>1 DEF Settling, Checked, Current, Adding, Listing, Extending
      <3>3. QED
        BY <2>1, <3>2, StepService
    <2>4. QED
      BY <2>2, <2>3
  <1>3. CASE SettleCommit(r)
    <2> DEFINE b == tx[r].bill
    <2>1. b \in Bill /\ bill[b].status = "OPEN" /\ order' = order /\ End(r)
      BY <1>1, <1>3 DEF SettleCommit, At, Unchanged, Settling, Checked, Inv, TargetInv, Target
    <2>2. bill' = [bill EXCEPT ![b].status = "SETTLED", ![b].stamps = @ + 1]
      BY <1>3 DEF SettleCommit
    <2> HIDE DEF b
    <2>3. bill[b] \in BillRow
      BY <1>1, <2>1 DEF Inv, TypeOK
    <2>4. bill'[b].status = "SETTLED" /\ bill'[b].items = bill[b].items
      BY <1>1, <2>1, <2>2, <2>3 DEF Inv, TypeOK, BillRow
    <2>5. \A c \in Bill \ {b} : bill'[c] = bill[c]
      BY <1>1, <2>2 DEF Inv, TypeOK
    <2>6. OpenBill = {b}
      BY <1>1, <2>1 DEF Inv, OneOpenBill, OpenBill
    <2>7. OpenBill' = {}
      BY <2>4, <2>5, <2>6 DEF OpenBill
    <2>8. Billable' = Billable
      BY <2>1 DEF Billable
    <2>9. PaidInv'
      BY <1>1, <2>1, <2>4, <2>5, <2>7, <2>8 DEF PaidInv
    <2>10. QED
      BY <1>1, <2>1, <2>9, EndService
  <1>4. QED
    BY <1>2, <1>3 DEF Settle

LEMMA ServiceInit == Init => ServiceInv
  <1> SUFFICES ASSUME Init PROVE ServiceInv
    OBVIOUS
  <1>1. SerialInv
    BY SerialInit
  <1>2. \A r \in Request : Current(r)
    BY DEF Init, Idle, Current, Adding, Listing, Extending
  <1>3. PaidInv
    BY DEF Init, NoBill, PaidInv, OpenBill
  <1>4. QED
    BY <1>1, <1>2, <1>3 DEF ServiceInv

LEMMA ServiceNext ==
  ASSUME Solo, Solo', ServiceInv, [Next]_vars
  PROVE  ServiceInv'
  <1>1. SerialInv /\ SerialInv' /\ Inv /\ PaidInv
    BY SerialNext DEF ServiceInv, SerialInv
  <1>2. CASE TimePasses \/ Retire
    <2>2. UNCHANGED <<order, bill, tx>> /\ (session' = session \/ session' = "EXPIRED")
      BY <1>2 DEF TimePasses, Retire
    <2>1. PaidInv'
      BY <1>1, <2>2, PaidKept
    <2>3. \A r \in Request : Current(r)'
      BY <2>2 DEF ServiceInv, Current, Adding, Listing, Extending, Billable, OpenBill, Closed
    <2>4. QED
      BY <1>1, <2>1, <2>3 DEF ServiceInv
  <1>3. ASSUME NEW r \in Request, Act(r) PROVE ServiceInv'
    <2>1. Lone(r)'
      BY <1>1, <1>3, OthersIdle
    <2>2. CASE AddItem(r)
      BY <1>1, <2>1, <2>2, AddItemService
    <2>3. CASE Checkout(r)
      BY <1>1, <2>1, <2>3, CheckoutService
    <2>4. CASE Transition(r)
      BY <1>1, <2>1, <2>4, TransitionService
    <2>5. CASE GenerateBill(r)
      BY <1>1, <2>1, <2>5, BillReadsService, BillWritesService, BillStepsService DEF GenerateBill
    <2>6. CASE Settle(r)
      BY <1>1, <2>1, <2>6, SettleService
    <2>7. CASE Abort(r)
      BY <1>1, <2>1, <2>7, PaidKept, EndService DEF Abort, RowsUnchanged
    <2>l. CASE Lookup(r)
      BY <1>1, <2>1, <2>l, LookupService
    <2>8. QED
      BY <1>3, <2>2, <2>3, <2>4, <2>5, <2>6, <2>7, <2>l
         DEF Act, Arrive, Serve, Checkout, Transition, GenerateBill
  <1>4. CASE UNCHANGED vars
    <2>1. UNCHANGED <<session, order, bill, tx>>
      BY <1>4 DEF vars
    <2>2. \A r \in Request : Current(r)'
      BY <2>1 DEF ServiceInv, Current, Adding, Listing, Extending, Billable, OpenBill, Closed
    <2>3. QED
      BY <1>1, <2>1, <2>2, PaidKept DEF ServiceInv
  <1>5. QED
    BY <1>2, <1>3, <1>4, Kinds

-----------------------------------------------------------------------------
(* The refinement: a commit is the atomic action, all else stutters *)

LEMMA ServiceStutters ==
  ASSUME RowsUnchanged
  PROVE  UNCHANGED Service!vars
  BY DEF RowsUnchanged, SessionUnchanged, Service!vars

\* As long as the table is not closed it is taken.
LEMMA OpenIsTaken ==
  ASSUME Inv, ~Closed
  PROVE  Service!Taken
  BY DEF Inv, TypeOK, CartRow, ClosedInv, Service!Taken

LEMMA AddItemAtomic ==
  ASSUME ServiceInv, NEW r \in Request, AddItem(r)
  PROVE  [Service!Next]_(Service!vars)
  <1>1. CASE AddValidate(r) \/ AddReadCart(r)
    BY <1>1, ServiceStutters DEF AddValidate, Validate, AddReadCart
  <1>2. CASE AddCommit(r)
    <2>1. ~Closed
      BY <1>2 DEF AddCommit, At, ServiceInv, Current, Adding
    <2>2. Service!Taken
      BY <2>1, OpenIsTaken DEF ServiceInv, SerialInv
    <2>3. Service!AddItem
      BY <1>2, <2>2 DEF AddCommit, SessionUnchanged, Service!AddItem
    <2>4. QED
      BY <2>3 DEF Service!Next
  <1>3. QED
    BY <1>1, <1>2 DEF AddItem

LEMMA CheckoutAtomic ==
  ASSUME ServiceInv, NEW r \in Request, Checkout(r)
  PROVE  [Service!Next]_(Service!vars)
  <1>1. CASE CheckoutValidate(r) \/ CheckoutLock(r)
    BY <1>1, ServiceStutters DEF CheckoutValidate, Validate, CheckoutLock
  <1>2. CASE CheckoutCommit(r)
    <2>1. ~Closed
      BY <1>2 DEF CheckoutCommit, At, ServiceInv, SerialInv, Unchanged, Serving
    <2>2. tx[r].lines = cart.lines /\ cart.lines # {} /\ cart \in CartRow
      BY <1>2 DEF CheckoutCommit, At, ServiceInv, SerialInv, Inv, LockInv, TypeOK
    <2>3. cart' = [cart EXCEPT !.lines = {}]
      BY <1>2, <2>2 DEF CheckoutCommit
    <2>4. PICK o \in Order \ Placed :
             order' = [order EXCEPT ![o] = [status |-> "NEW", lines |-> tx[r].lines]]
      BY <1>2 DEF CheckoutCommit
    <2>5. order[o].status = "none"
      BY <2>4 DEF Placed
    <2>t. Service!Taken
      BY <2>1, OpenIsTaken DEF ServiceInv, SerialInv
    <2>6. Service!PlaceOrder
      BY <1>2, <2>t, <2>2, <2>3, <2>4, <2>5 DEF CheckoutCommit, SessionUnchanged, Service!PlaceOrder
    <2>7. QED
      BY <2>6 DEF Service!Next
  <1>3. QED
    BY <1>1, <1>2 DEF Checkout

LEMMA TransitionAtomic ==
  ASSUME ServiceInv, NEW r \in Request, Transition(r)
  PROVE  [Service!Next]_(Service!vars)
  <1>1. CASE KitchenRead(r)
    BY <1>1, ServiceStutters DEF KitchenRead
  <1>2. CASE KitchenCommit(r)
    <2>1. /\ tx[r].order \in Placed
          /\ tx[r].status \in AllowedTransitions[order[tx[r].order].status]
      BY <1>2 DEF KitchenCommit, At, ServiceInv, Current, SerialInv, Inv, TargetInv, Target
    <2>2. Service!AllowedTransitions = AllowedTransitions
      BY DEF Service!AllowedTransitions, AllowedTransitions, Service!OrderStatus, OrderStatus
    <2>3. Service!MoveOrder
      BY <1>2, <2>1, <2>2 DEF KitchenCommit, SessionUnchanged, Placed, Service!MoveOrder
    <2>4. QED
      BY <2>3 DEF Service!Next
  <1>3. QED
    BY <1>1, <1>2 DEF Transition

\* A row is its fields.
LEMMA SameRow ==
  ASSUME NEW x \in BillRow, NEW y \in BillRow, x.status = y.status, x.items = y.items,
         x.charged = y.charged, x.stamps = y.stamps
  PROVE  x = y
  BY DEF BillRow

LEMMA GenerateBillAtomic ==
  ASSUME ServiceInv, NEW r \in Request, GenerateBill(r)
  PROVE  [Service!Next]_(Service!vars)
  <1>1. CASE BillValidate(r) \/ BillReadOrders(r) \/ BillFindOpen(r) \/ BillAddItems(r) \/ BillSum(r)
    BY <1>1, ServiceStutters DEF BillValidate, Validate, BillReadOrders, BillFindOpen,
                                 BillAddItems, BillSum
  <1>2. Service!ServedOrders = Billable /\ Service!Unpaid = OpenBill
    BY DEF Service!ServedOrders, Service!Unpaid, Billable, OpenBill
  <1> DEFINE paid == [status |-> "OPEN", items |-> Billable, charged |-> Billable, stamps |-> 0]
  <1>3. ASSUME ~Closed, Billable # {}, NEW b \in Bill,
               IF OpenBill = {} THEN bill[b].status = "none" ELSE b \in OpenBill,
               bill' = [bill EXCEPT ![b] = paid],
               UNCHANGED <<session, cart, inserted, order>>
        PROVE  [Service!Next]_(Service!vars)
    <2>t. Service!Taken
      BY <1>3, OpenIsTaken DEF ServiceInv, SerialInv
    <2>1. Service!ProduceBill
      BY <1>2, <1>3, <2>t DEF Service!ProduceBill
    <2>2. QED
      BY <2>1 DEF Service!Next
  <1>4. CASE BillCreate(r)
    <2>1. ~Closed
      BY <1>4 DEF BillCreate, At, ServiceInv, SerialInv, Unchanged, Serving
    <2>2. tx[r].served = Billable /\ Billable # {} /\ OpenBill = {}
      BY <1>4 DEF BillCreate, At, ServiceInv, Current, Listing
    <2>3. PICK b \in Bill : /\ bill[b].status = "none"
                            /\ bill' = [bill EXCEPT ![b] = [NoBill EXCEPT
                                        !.status = "OPEN",
                                        !.items = tx[r].served,
                                        !.charged = tx[r].served]]
      BY <1>4, <2>2 DEF BillCreate, OpenBillRefused
    <2>4. [NoBill EXCEPT !.status = "OPEN", !.items = Billable, !.charged = Billable] = paid
      <3> DEFINE row == [NoBill EXCEPT !.status = "OPEN", !.items = Billable, !.charged = Billable]
      <3>1. Billable \subseteq Order
        BY DEF Billable
      <3>2. row \in BillRow /\ paid \in BillRow
        BY <3>1 DEF NoBill, BillRow
      <3>3. /\ row.status = paid.status /\ row.items = paid.items
            /\ row.charged = paid.charged /\ row.stamps = paid.stamps
        BY DEF NoBill
      <3> HIDE DEF row, paid
      <3>4. QED
        BY <3>2, <3>3, SameRow DEF row
    <2>5. bill' = [bill EXCEPT ![b] = paid]
      BY <2>2, <2>3, <2>4
    <2> HIDE DEF paid
    <2>6. QED
      BY <1>3, <1>4, <2>1, <2>2, <2>3, <2>5 DEF BillCreate, SessionUnchanged
  <1>5. CASE BillSync(r)
    <2> DEFINE b == tx[r].bill
    <2>1. ~Closed
      BY <1>5 DEF BillSync, At, ServiceInv, SerialInv, Unchanged, Serving
    <2>2. /\ bill[b].status = "OPEN" /\ tx[r].served # {}
          /\ tx[r].served \cup bill[b].items = Billable /\ tx[r].charged = Billable
      BY <1>5 DEF BillSync, At, ServiceInv, Current, Extending
    <2>3. b \in Bill /\ bill \in [Bill -> BillRow]
      BY <1>5 DEF BillSync, At, ServiceInv, SerialInv, Inv, TypeOK, TargetInv, Target
    <2>4. bill' = [bill EXCEPT ![b].items = @ \cup tx[r].served, ![b].charged = tx[r].charged]
      BY <1>5 DEF BillSync
    <2> HIDE DEF b
    <2>5. b \in OpenBill /\ bill[b].stamps = 0
      BY <2>2, <2>3 DEF ServiceInv, PaidInv, OpenBill
    <2>6. bill' = [bill EXCEPT ![b] = [bill[b] EXCEPT !.items = Billable, !.charged = Billable]]
      BY <2>2, <2>3, <2>4 DEF BillRow
    <2>7. [bill[b] EXCEPT !.items = Billable, !.charged = Billable] = paid
      <3> DEFINE row == [bill[b] EXCEPT !.items = Billable, !.charged = Billable]
      <3>1. Billable \subseteq Order /\ bill[b] \in BillRow
        BY <2>3 DEF Billable
      <3>2. row \in BillRow /\ paid \in BillRow
        BY <3>1 DEF BillRow
      <3>3. /\ row.status = paid.status /\ row.items = paid.items
            /\ row.charged = paid.charged /\ row.stamps = paid.stamps
        BY <2>2, <2>5, <3>1 DEF BillRow
      <3> HIDE DEF row, paid
      <3>4. QED
        BY <3>2, <3>3, SameRow DEF row
    <2>8. bill' = [bill EXCEPT ![b] = paid]
      BY <2>6, <2>7
    <2>9. Billable # {}
      BY <2>2
    <2> HIDE DEF paid
    <2>10. QED
      BY <1>3, <1>5, <2>1, <2>3, <2>5, <2>8, <2>9 DEF BillSync, SessionUnchanged
  <1>6. QED
    BY <1>1, <1>4, <1>5 DEF GenerateBill

LEMMA SettleAtomic ==
  ASSUME ServiceInv, NEW r \in Request, Settle(r)
  PROVE  [Service!Next]_(Service!vars)
  <1>1. CASE SettleReadBill(r) \/ SettleCheckOrders(r) \/ SettleWriteSession(r)
             \/ SettleWriteBill(r)
    BY <1>1, ServiceStutters DEF SettleReadBill, SettleCheckOrders, SettleWriteSession,
                                 SettleWriteBill
  <1>2. CASE SettleCommit(r)
    <2> DEFINE b == tx[r].bill
    <2>1. /\ b \in OpenBill /\ AllResolved /\ bill \in [Bill -> BillRow]
      BY <1>2 DEF SettleCommit, At, ServiceInv, SerialInv, Unchanged, Settling, Checked,
                  Inv, TypeOK, TargetInv, Target, OpenBill
    <2>2. ~Closed
      BY <2>1 DEF ServiceInv, PaidInv
    <2>3. \A o \in Order : order[o].status \notin Service!UnresolvedStatuses
      BY <2>1 DEF AllResolved, Placed, Service!UnresolvedStatuses
    <2>4. bill' = [bill EXCEPT ![b].status = "SETTLED", ![b].stamps = @ + 1]
      BY <1>2 DEF SettleCommit
    <2> HIDE DEF b
    <2>5. bill[b].stamps = 0
      BY <2>1 DEF ServiceInv, PaidInv
    <2>6. bill' = [bill EXCEPT ![b].status = "SETTLED", ![b].stamps = 1]
      BY <2>1, <2>4, <2>5 DEF BillRow, OpenBill
    <2>7. b \in Service!Unpaid
      BY <2>1 DEF OpenBill, Service!Unpaid
    <2>t. Service!Taken /\ session' = "CLOSED"
      <3>1. Service!Taken
        BY <2>2, OpenIsTaken DEF ServiceInv, SerialInv
      <3>2. WritesSession(r)
        BY <2>2 DEF WritesSession, ServiceInv, SerialInv, Inv, ClosedInv
      <3>3. QED
        BY <1>2, <3>1, <3>2 DEF SettleCommit, SettledSession
    <2>8. Service!CloseTable
      BY <1>2, <2>t, <2>3, <2>6, <2>7 DEF SettleCommit, Service!CloseTable
    <2>9. QED
      BY <2>8 DEF Service!Next
  <1>3. QED
    BY <1>1, <1>2 DEF Settle

LEMMA LookupAtomic ==
  ASSUME ServiceInv, NEW r \in Request, Lookup(r)
  PROVE  [Service!Next]_(Service!vars)
  <1>1. CASE LookupRead(r)
    BY <1>1, ServiceStutters DEF LookupRead
  <1>2. CASE LookupExpire(r)
    <2>1. session \in {"ACTIVE", "EXPIRED"}
      BY <1>2 DEF LookupExpire, At, ServiceInv, Current, SerialInv, Inv, TypeOK, SessionStatus
    <2>2. session' = "EXPIRED" /\ UNCHANGED <<cart, inserted, order, bill>>
      BY <1>2 DEF LookupExpire
    <2>3. CASE session = "ACTIVE"
      <3>1. Service!Expire
        BY <2>2, <2>3 DEF Service!Expire
      <3>2. QED
        BY <3>1 DEF Service!Next
    <2>4. CASE session = "EXPIRED"
      BY <2>2, <2>4 DEF Service!vars
    <2>5. QED
      BY <2>1, <2>3, <2>4
  <1>3. QED
    BY <1>1, <1>2 DEF Lookup

LEMMA StepAtomic ==
  ASSUME ServiceInv, [Next]_vars
  PROVE  [Service!Next]_(Service!vars)
  <1>1. CASE Retire
    <2>1. Service!Expire
      BY <1>1 DEF Retire, Service!Expire
    <2>2. QED
      BY <2>1 DEF Service!Next
  <1>t. CASE TimePasses
    BY <1>t DEF TimePasses, Service!vars
  <1>2. ASSUME NEW r \in Diner, GuestStep(r) PROVE [Service!Next]_(Service!vars)
    BY <1>2, AddItemAtomic, CheckoutAtomic, GenerateBillAtomic, LookupAtomic
       DEF GuestStep, Request
  <1>3. ASSUME NEW r \in Kitchen, Transition(r) PROVE [Service!Next]_(Service!vars)
    BY <1>3, TransitionAtomic DEF Request
  <1>4. ASSUME NEW r \in Cashier, Settle(r) PROVE [Service!Next]_(Service!vars)
    BY <1>4, SettleAtomic DEF Request
  <1>5. ASSUME NEW r \in Request, Abort(r) PROVE [Service!Next]_(Service!vars)
    BY <1>5, ServiceStutters DEF Abort
  <1>6. CASE UNCHANGED vars
    BY <1>6, ServiceStutters DEF vars, RowsUnchanged, SessionUnchanged
  <1>7. QED
    BY <1>1, <1>t, <1>2, <1>3, <1>4, <1>5, <1>6 DEF Next

\* When requests do not overlap, each takes effect as one action with all its
\* checks true at once: the bill lists exactly the served orders and the table
\* closes with all of them resolved (every handler of DiningSession).
THEOREM ServiceRefined == Spec /\ []Solo => ImplementsService
  <1>1. Init => Service!Init
    BY DEF Init, Service!Init, NoOrder, NoBill
  <1>2. ServiceInv /\ Solo /\ Solo' /\ [Next]_vars => ServiceInv'
    BY ServiceNext
  <1>3. ServiceInv /\ [Next]_vars => [Service!Next]_(Service!vars)
    BY StepAtomic
  <1>4. QED
    BY <1>1, <1>2, <1>3, ServiceInit, PTL DEF Spec, ImplementsService, Service!Spec

=============================================================================
