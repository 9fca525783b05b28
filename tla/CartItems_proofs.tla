-------------------------- MODULE CartItems_proofs --------------------------
(***************************************************************************)
(* Proofs about CartItems, for any number of requests, menu items, units   *)
(* and changes of the menu.                                                *)
(***************************************************************************)
EXTENDS CartItems, TLAPS

\* Fields of a transaction that a step changes keep their types.
LEMMA IdleTx == Idle \in Tx /\ Idle.pc = "idle" /\ \A m \in Item : Idle.seen[m] = NoRow
  BY DEF Idle, Tx, Location, NoRow, Row

LEMMA SeenOfRows == TypeOK => \A m \in Item : SeenOf(m) \in [Item -> Row]
  BY DEF TypeOK, SeenOf, NoRow, Row

LEMMA MinusNat == \A a, b \in Nat : Minus(a, b) \in Nat /\ a + Minus(b, a) = b + Minus(a, b)
  BY DEF Minus

\* What a new row and a new quantity make of the rows.
LEMMA NewRow ==
  ASSUME row \in [Item -> Row], NEW m \in Item, NEW n \in Nat,
         row' = [row EXCEPT ![m] = [id |-> @.id + 1, quantity |-> n]]
  PROVE  /\ row' \in [Item -> Row]
         /\ row'[m].id = row[m].id + 1 /\ row'[m].quantity = n
         /\ \A k \in Item \ {m} : row'[k] = row[k]
  <1>1. [id |-> row[m].id + 1, quantity |-> n] \in Row
    BY DEF Row
  <1>2. QED
    BY <1>1

LEMMA NewQuantity ==
  ASSUME row \in [Item -> Row], NEW m \in Item, NEW n \in Nat,
         row' = [row EXCEPT ![m].quantity = n]
  PROVE  /\ row' \in [Item -> Row]
         /\ row'[m].id = row[m].id /\ row'[m].quantity = n
         /\ \A k \in Item \ {m} : row'[k] = row[k]
  <1>1. row[m] \in Row
    OBVIOUS
  <1>2. [row[m] EXCEPT !.quantity = n] \in Row
    BY <1>1 DEF Row
  <1>3. [row[m] EXCEPT !.quantity = n].id = row[m].id /\ [row[m] EXCEPT !.quantity = n].quantity = n
    BY <1>1 DEF Row
  <1>4. QED
    BY <1>2, <1>3

\* A request that has read the row of an item is about that item.
AboutItem(r) ==
    /\ tx[r].pc \in {"add", "update", "remove"} => tx[r].item \in Item
    /\ tx[r].pc \in {"no cart", "cart inserted"} => tx[r].n = 0 \/ tx[r].item \in Item

Typed == TypeOK /\ \A r \in Guest : AboutItem(r)

\* A step that changes transactions only.
LEMMA TypedTx ==
  ASSUME Typed, NEW r \in Guest, NEW t \in Tx, Become(r, t), RowsUnchanged, AboutItem(r)'
  PROVE  Typed'
  <1>1. TypeOK'
    BY DEF Typed, TypeOK, Become, RowsUnchanged, MenuVars
  <1>2. \A q \in Guest : q # r => tx'[q] = tx[q]
    BY DEF Typed, TypeOK, Become
  <1>3. \A q \in Guest : AboutItem(q)'
    BY <1>2 DEF AboutItem, Typed
  <1>4. QED
    BY <1>1, <1>3 DEF Typed

\* A step that ends a transaction with its writes.
LEMMA TypedEnd ==
  ASSUME Typed, NEW r \in Guest, End(r), UNCHANGED MenuVars,
         cart' \in {"none", "ACTIVE"}, row' \in [Item -> Row],
         asked' \in [Item -> Nat], taken' \in [Item -> Nat], ordered' \in [Item -> Nat],
         stale' \subseteq Item, late' \in Nat
  PROVE  Typed'
  <1>1. TypeOK'
    BY IdleTx DEF Typed, TypeOK, End, Become, MenuVars
  <1>2. tx'[r] = Idle /\ \A q \in Guest : q # r => tx'[q] = tx[q]
    BY DEF Typed, TypeOK, End, Become
  <1>3. \A q \in Guest : AboutItem(q)'
    BY <1>2, IdleTx DEF AboutItem, Typed
  <1>4. QED
    BY <1>1, <1>3 DEF Typed

LEMMA InitTyped == Init => Typed
  <1> SUFFICES ASSUME Init PROVE Typed
    OBVIOUS
  <1>1. TypeOK
    BY IdleTx, CartAssumption DEF Init, TypeOK, NoRow, Row
  <1>2. \A r \in Guest : AboutItem(r)
    BY IdleTx DEF Init, AboutItem
  <1>3. QED
    BY <1>1, <1>2 DEF Typed

\* Requests that read: what they remember.
LEMMA ReadTyped ==
  ASSUME Typed, NEW r \in Guest,
         \/ FindNoCart(r) \/ InsertCart(r) \/ AddRead(r) \/ UpdateRead(r)
         \/ RemoveRead(r) \/ ClearRead(r) \/ CheckoutLock(r) \/ Abort(r)
  PROVE  Typed'
  <1> USE DEF Typed
  <1>0. RowsUnchanged
    BY DEF FindNoCart, InsertCart, AddRead, UpdateRead, RemoveRead, ClearRead, CheckoutLock, Abort
  <1>1. ASSUME End(r) PROVE Typed'
    BY <1>0, <1>1, IdleTx, TypedTx DEF End, AboutItem, Become, TypeOK
  <1>2. ASSUME NEW t \in Tx, Become(r, t),
               /\ t.pc \in {"add", "update", "remove"} => t.item \in Item
               /\ t.pc \in {"no cart", "cart inserted"} => t.n = 0 \/ t.item \in Item
        PROVE  Typed'
    <2>1. tx'[r] = t
      BY <1>2 DEF Become, TypeOK
    <2>2. AboutItem(r)'
      BY <1>2, <2>1 DEF AboutItem
    <2>3. QED
      BY <1>0, <1>2, <2>2, TypedTx
  <1>3. CASE FindNoCart(r)
    <2>1. ASSUME Become(r, [Idle EXCEPT !.pc = "no cart"]) PROVE Typed'
      BY <2>1, <1>2 DEF Idle, Tx, Location, NoRow, Row
    <2>2. ASSUME NEW m \in Item, NEW n \in Nat,
                 Become(r, [Idle EXCEPT !.pc = "no cart", !.item = m, !.n = n])
          PROVE  Typed'
      BY <2>2, <1>2 DEF Idle, Tx, Location, NoRow, Row
    <2>3. QED
      BY <1>3, <2>1, <2>2, CartAssumption DEF FindNoCart
  <1>4. CASE InsertCart(r)
    <2>1. ASSUME Become(r, [tx[r] EXCEPT !.pc = "cart inserted"]), At(r, "no cart") PROVE Typed'
      <3>1. tx[r] \in Tx /\ AboutItem(r)
        BY DEF TypeOK
      <3>2. QED
        BY <2>1, <3>1, <1>2 DEF AboutItem, At, Tx, Location
    <2>2. QED
      BY <1>1, <1>4, <2>1 DEF InsertCart
  <1>5. CASE AddRead(r) \/ UpdateRead(r)
    <2>1. PICK m \in Item : \E n \in Nat : \E pc \in {"add", "update"} :
              Become(r, [pc |-> pc, item |-> m, n |-> n, seen |-> SeenOf(m)])
      BY <1>5, CartAssumption DEF AddRead, UpdateRead
    <2>2. QED
      BY <2>1, <1>2, SeenOfRows DEF Tx, Location
  <1>6. CASE RemoveRead(r)
    <2>1. PICK m \in Item : Become(r, [pc |-> "remove", item |-> m, n |-> 0, seen |-> SeenOf(m)])
      BY <1>6 DEF RemoveRead
    <2>2. QED
      BY <2>1, <1>2, SeenOfRows DEF Tx, Location
  <1>7. CASE ClearRead(r) \/ CheckoutLock(r)
    <2>1. PICK pc \in {"clear", "locked"} : Become(r, [Idle EXCEPT !.pc = pc, !.seen = row])
      BY <1>7 DEF ClearRead, CheckoutLock
    <2>2. QED
      BY <2>1, <1>2 DEF Idle, Tx, Location, TypeOK
  <1>8. QED
    BY <1>1, <1>3, <1>4, <1>5, <1>6, <1>7 DEF Abort

\* Requests that write and end.
LEMMA WriteTyped ==
  ASSUME Typed, NEW r \in Guest,
         \/ CommitCart(r) \/ AddInsert(r) \/ AddIncrement(r)
         \/ UpdateCommit(r) \/ DeleteCommit(r) \/ CheckoutCommit(r)
  PROVE  Typed'
  <1> USE DEF Typed
  <1>0. /\ row \in [Item -> Row] /\ stale \subseteq Item /\ late \in Nat
        /\ asked \in [Item -> Nat] /\ taken \in [Item -> Nat] /\ ordered \in [Item -> Nat]
        /\ tx[r].n \in Nat /\ tx[r].seen \in [Item -> Row]
        /\ cart \in {"none", "ACTIVE"}
        /\ AboutItem(r)
    BY DEF TypeOK, Tx
  <1>1. End(r) /\ UNCHANGED MenuVars
    BY DEF CommitCart, AddInsert, AddIncrement, UpdateCommit, DeleteCommit, CheckoutCommit
  <1>2. Changed(r) \subseteq Item
    BY DEF Changed
  <1>3. DeleteSeen(r) => row' \in [Item -> Row]
    BY <1>0 DEF DeleteSeen, Row
  <1>4. CASE CommitCart(r)
    <2>1. CASE tx[r].n = 0
      BY <1>0, <1>1, <1>4, <2>1, TypedEnd DEF CommitCart, NewCartStatus
    <2>2. CASE tx[r].n # 0
      <3>1. tx[r].item \in Item
        BY <1>0, <1>4, <2>2 DEF CommitCart, AboutItem, At
      <3>2. row' = [row EXCEPT ![tx[r].item] = [id |-> @.id + 1, quantity |-> tx[r].n]]
        BY <1>4, <2>2 DEF CommitCart
      <3>3. row' \in [Item -> Row]
        BY <1>0, <3>1, <3>2, NewRow
      <3>4. asked' = [asked EXCEPT ![tx[r].item] = @ + tx[r].n]
        BY <1>4, <2>2 DEF CommitCart
      <3>5. asked' \in [Item -> Nat]
        BY <1>0, <3>1, <3>4
      <3>6. QED
        BY <1>0, <1>1, <1>4, <3>3, <3>5, TypedEnd DEF CommitCart, NewCartStatus
    <2>3. QED
      BY <2>1, <2>2
  <1>5. CASE AddInsert(r)
    <2>1. At(r, "add")
      BY <1>5 DEF AddInsert
    <2>2. tx[r].item \in Item
      BY <1>0, <2>1 DEF AboutItem, At
    <2>3. row' \in [Item -> Row]
      BY <1>0, <1>5, <2>2, NewRow DEF AddInsert
    <2>4. asked' \in [Item -> Nat]
      BY <1>0, <1>5, <2>2 DEF AddInsert
    <2>5. QED
      BY <1>0, <1>1, <1>5, <2>3, <2>4, TypedEnd DEF AddInsert
  <1>6. CASE AddIncrement(r)
    <2>1. Seen(r).quantity \in Nat
      BY <1>0, <1>6 DEF AddIncrement, AboutItem, At, Seen, Row
    <2>2. Seen(r).quantity + tx[r].n \in Nat /\ tx[r].item \in Item
      <3>1. At(r, "add")
        BY <1>6 DEF AddIncrement
      <3>2. tx[r].item \in Item
        BY <1>0, <3>1 DEF AboutItem, At
      <3>3. QED
        BY <1>0, <2>1, <3>2
    <2>3. row' \in [Item -> Row]
      BY <1>0, <1>6, <2>2, NewQuantity DEF AddIncrement
    <2>4. asked' \in [Item -> Nat] /\ stale' \subseteq Item
      BY <1>0, <1>2, <1>6, <2>2 DEF AddIncrement
    <2>5. QED
      BY <1>0, <1>1, <1>6, <2>3, <2>4, TypedEnd DEF AddIncrement
  <1>7. CASE UpdateCommit(r)
    <2>1. Seen(r).quantity \in Nat
      BY <1>0, <1>7 DEF UpdateCommit, AboutItem, At, Seen, Row
    <2>2. /\ Minus(tx[r].n, Seen(r).quantity) \in Nat
          /\ Minus(Seen(r).quantity, tx[r].n) \in Nat
      BY <1>0, <2>1, MinusNat
    <2>3. tx[r].item \in Item
      BY <1>0, <1>7 DEF UpdateCommit, AboutItem, At
    <2>4. row' \in [Item -> Row]
      BY <1>0, <1>7, <2>3, NewQuantity DEF UpdateCommit
    <2>5. stale' \subseteq Item /\ asked' \in [Item -> Nat] /\ taken' \in [Item -> Nat]
      BY <1>0, <1>2, <1>7, <2>2, <2>3 DEF UpdateCommit
    <2>6. QED
      BY <1>0, <1>1, <1>7, <2>4, <2>5, TypedEnd DEF UpdateCommit
  <1>8. CASE DeleteCommit(r)
    <2>1. row' \in [Item -> Row]
      BY <1>3, <1>8 DEF DeleteCommit
    <2>2. \A m \in Item : Gone(m) \in Nat
      BY <1>0, <2>1, MinusNat DEF Gone, Row
    <2>3. taken' \in [Item -> Nat]
      BY <1>0, <1>8, <2>2 DEF DeleteCommit
    <2>4. QED
      BY <1>0, <1>1, <1>8, <2>1, <2>3, TypedEnd DEF DeleteCommit
  <1>9. CASE CheckoutCommit(r)
    <2>1. row' \in [Item -> Row]
      BY <1>3, <1>9 DEF CheckoutCommit, EmptyCart
    <2>2. ordered' \in [Item -> Nat]
      BY <1>0, <1>9 DEF CheckoutCommit, Row
    <2>3. late' \in Nat /\ stale' \subseteq Item
      BY <1>0, <1>2, <1>9 DEF CheckoutCommit
    <2>4. QED
      BY <1>0, <1>1, <1>9, <2>1, <2>2, <2>3, TypedEnd DEF CheckoutCommit
  <1>10. QED
    BY <1>4, <1>5, <1>6, <1>7, <1>8, <1>9

\* The menu changes without touching the cart.
LEMMA MenuTyped ==
  ASSUME Typed, NEW m \in Item, MenuChanges(m)
  PROVE  Typed'
  <1>1. /\ UNCHANGED <<cart, row, tx, asked, taken, ordered, stale, late>>
        /\ off' \subseteq Item /\ soldOut' \in 0..MaxSoldOut
    BY CartAssumption DEF MenuChanges, Typed, TypeOK
  <1>2. QED
    BY <1>1 DEF Typed, TypeOK, AboutItem

LEMMA NextTyped == Typed /\ [Next]_vars => Typed'
  <1> SUFFICES ASSUME Typed, [Next]_vars PROVE Typed'
    OBVIOUS
  <1>1. CASE UNCHANGED vars
    BY <1>1 DEF vars, Typed, TypeOK, AboutItem
  <1>2. QED
    BY <1>1, ReadTyped, WriteTyped, MenuTyped DEF Next, Request

\* Rows, requests and counts keep their types (the cart requests).
THEOREM TypeCorrect == Spec => []TypeOK
  <1>1. Typed => TypeOK
    BY DEF Typed
  <1>2. QED
    BY <1>1, InitTyped, NextTyped, PTL DEF Spec

LEMMA AlwaysTyped == Spec => []Typed
  BY InitTyped, NextTyped, PTL DEF Spec

-----------------------------------------------------------------------------
(* Who excludes whom. *)

Locks ==
    /\ \A q, r \in Guest : q # r =>
           /\ ~(At(q, "locked") /\ At(r, "locked"))
           /\ ~(At(q, "cart inserted") /\ At(r, "cart inserted"))
    /\ \A r \in Guest :
           /\ At(r, "cart inserted") => cart = "none"
           /\ tx[r].pc \in {"add", "locked"} => cart = "ACTIVE"
    /\ cart = "none" => \A m \in Item : row[m].quantity = 0

\* A step of r that leaves the rows alone and takes no lock, or that r ends by.
LEMMA LocksTx ==
  ASSUME Typed, Locks, NEW r \in Guest, NEW t, Become(r, t), UNCHANGED <<cart, row>>,
         t.pc \in {"add", "locked"} => cart = "ACTIVE",
         t.pc = "locked" => \A q \in Guest \ {r} : ~At(q, "locked"),
         t.pc = "cart inserted" =>
             (\A q \in Guest \ {r} : ~At(q, "cart inserted")) /\ cart = "none"
  PROVE  Locks'
  <1>1. tx'[r] = t /\ \A q \in Guest : q # r => tx'[q] = tx[q]
    BY DEF Typed, TypeOK, Become
  <1>2. QED
    BY <1>1 DEF Locks, At

LEMMA ReadLocks ==
  ASSUME Typed, Locks, NEW r \in Guest,
         \/ FindNoCart(r) \/ InsertCart(r) \/ AddRead(r) \/ UpdateRead(r)
         \/ RemoveRead(r) \/ ClearRead(r) \/ CheckoutLock(r) \/ Abort(r)
  PROVE  Locks'
  <1>0. UNCHANGED <<cart, row>>
    BY DEF FindNoCart, InsertCart, AddRead, UpdateRead, RemoveRead, ClearRead, CheckoutLock,
           Abort, RowsUnchanged
  <1>1. ASSUME End(r) PROVE Locks'
    BY <1>0, <1>1, IdleTx, LocksTx DEF End
  <1>2. ASSUME NEW t, Become(r, t), t.pc \in {"no cart", "add", "update", "remove", "clear"},
               t.pc = "add" => cart = "ACTIVE"
        PROVE  Locks'
    BY <1>0, <1>2, LocksTx
  <1>3. CASE FindNoCart(r)
    <2>1. /\ [Idle EXCEPT !.pc = "no cart"].pc = "no cart"
          /\ \A m, n : [Idle EXCEPT !.pc = "no cart", !.item = m, !.n = n].pc = "no cart"
      BY DEF Idle
    <2>2. QED
      BY <1>2, <1>3, <2>1 DEF FindNoCart
  <1>4. CASE InsertCart(r)
    <2>1. [tx[r] EXCEPT !.pc = "cart inserted"].pc = "cart inserted"
      BY DEF Typed, TypeOK, Tx
    <2>2. ASSUME Become(r, [tx[r] EXCEPT !.pc = "cart inserted"]), cart = "none" PROVE Locks'
      BY <1>0, <1>4, <2>1, <2>2, LocksTx DEF InsertCart
    <2>3. QED
      BY <1>1, <1>4, <2>2 DEF InsertCart
  <1>5. CASE AddRead(r)
    BY <1>2, <1>5 DEF AddRead
  <1>6. CASE UpdateRead(r)
    BY <1>2, <1>6 DEF UpdateRead
  <1>7. CASE RemoveRead(r)
    BY <1>2, <1>7 DEF RemoveRead
  <1>8. CASE ClearRead(r)
    <2>1. [Idle EXCEPT !.pc = "clear", !.seen = row].pc = "clear"
      BY DEF Idle
    <2>2. QED
      BY <1>2, <1>8, <2>1 DEF ClearRead
  <1>9. CASE CheckoutLock(r)
    <2>1. [Idle EXCEPT !.pc = "locked", !.seen = row].pc = "locked"
      BY DEF Idle
    <2>2. cart = "ACTIVE"
      <3>1. PICK m \in Item : row[m].quantity > 0
        BY <1>9 DEF CheckoutLock, Orderable, InCart
      <3>2. cart = "none" => row[m].quantity = 0
        BY DEF Locks
      <3>3. cart # "none"
        BY <3>1, <3>2
      <3>4. QED
        BY <3>3 DEF Typed, TypeOK
    <2>3. QED
      BY <1>0, <1>9, <2>1, <2>2, LocksTx DEF CheckoutLock, CartFree
  <1>10. QED
    BY <1>1, <1>3, <1>4, <1>5, <1>6, <1>7, <1>8, <1>9 DEF Abort

(* What the requests that write do to the rows and to the counts. *)

\* The row of m is inserted with n units.
Inserted(m, n) ==
    /\ row[m].quantity = 0
    /\ \A q \in Guest : ~At(q, "locked")
    /\ row'[m].id = row[m].id + 1 /\ row'[m].quantity = n
    /\ asked'[m] = asked[m] + n
    /\ \A k \in Item \ {m} : row'[k] = row[k] /\ asked'[k] = asked[k]
    /\ UNCHANGED <<taken, ordered, stale, late>>

\* r gives the row of m, as it has read it, another quantity.
Overwritten(r, m, new, more, less) ==
    /\ tx[r].seen[m].quantity > 0
    /\ Alive(tx[r].seen[m], m)
    /\ row'[m].id = row[m].id /\ row'[m].quantity = new
    /\ new + less = tx[r].seen[m].quantity + more
    /\ asked'[m] = asked[m] + more
    /\ taken'[m] = taken[m] + less
    /\ stale' = stale \cup Changed(r)
    /\ \A k \in Item \ {m} : row'[k] = row[k] /\ asked'[k] = asked[k] /\ taken'[k] = taken[k]
    /\ UNCHANGED <<ordered, late>>

\* Nothing is written.
Nothing == UNCHANGED <<row, asked, taken, ordered, stale, late>>

LEMMA CommitCartEffect ==
  ASSUME Typed, Locks, NEW r \in Guest, CommitCart(r)
  PROVE  Nothing \/ \E m \in Item, n \in Nat : Inserted(m, n)
  <1>0. /\ row \in [Item -> Row] /\ asked \in [Item -> Nat]
        /\ tx[r].n \in Nat
        /\ AboutItem(r)
        /\ At(r, "cart inserted")
    BY DEF Typed, TypeOK, Tx, CommitCart
  <1>1. cart = "none" /\ \A m \in Item : row[m].quantity = 0
    BY <1>0 DEF Locks
  <1>2. \A q \in Guest : ~At(q, "locked")
    BY <1>1 DEF Locks, At
  <1>3. CASE tx[r].n = 0
    BY <1>3 DEF CommitCart, Nothing
  <1>4. CASE tx[r].n # 0
    <2>1. tx[r].item \in Item
      BY <1>0, <1>4 DEF AboutItem, At
    <2>2. /\ row' = [row EXCEPT ![tx[r].item] = [id |-> @.id + 1, quantity |-> tx[r].n]]
          /\ asked' = [asked EXCEPT ![tx[r].item] = @ + tx[r].n]
          /\ UNCHANGED <<taken, ordered, stale, late>>
      BY <1>4 DEF CommitCart
    <2>3. /\ row'[tx[r].item].id = row[tx[r].item].id + 1
          /\ row'[tx[r].item].quantity = tx[r].n
          /\ \A k \in Item \ {tx[r].item} : row'[k] = row[k]
      BY <1>0, <2>1, <2>2, NewRow
    <2>4. /\ asked'[tx[r].item] = asked[tx[r].item] + tx[r].n
          /\ \A k \in Item \ {tx[r].item} : asked'[k] = asked[k]
      BY <1>0, <2>1, <2>2
    <2>5. Inserted(tx[r].item, tx[r].n)
      BY <1>1, <1>2, <2>1, <2>2, <2>3, <2>4 DEF Inserted
    <2>6. QED
      BY <1>0, <2>1, <2>5
  <1>5. QED
    BY <1>3, <1>4

LEMMA AddInsertEffect ==
  ASSUME Typed, NEW r \in Guest, AddInsert(r)
  PROVE  Nothing \/ \E m \in Item, n \in Nat : Inserted(m, n)
  <1>0. /\ row \in [Item -> Row] /\ asked \in [Item -> Nat]
        /\ tx[r].n \in Nat
        /\ AboutItem(r)
        /\ At(r, "add")
    BY DEF Typed, TypeOK, Tx, AddInsert
  <1>1. tx[r].item \in Item
    BY <1>0 DEF AboutItem, At
  <1>2. \A q \in Guest : ~At(q, "locked")
    BY <1>0 DEF AddInsert, CartFree, At
  <1>3. CASE row[tx[r].item].quantity > 0
    BY <1>3 DEF AddInsert, Nothing
  <1>4. CASE ~(row[tx[r].item].quantity > 0)
    <2>1. row[tx[r].item].quantity = 0
      BY <1>0, <1>1, <1>4 DEF Row
    <2>2. /\ row' = [row EXCEPT ![tx[r].item] = [id |-> @.id + 1, quantity |-> tx[r].n]]
          /\ asked' = [asked EXCEPT ![tx[r].item] = @ + tx[r].n]
          /\ UNCHANGED <<taken, ordered, stale, late>>
      BY <1>4 DEF AddInsert
    <2>3. /\ row'[tx[r].item].id = row[tx[r].item].id + 1
          /\ row'[tx[r].item].quantity = tx[r].n
          /\ \A k \in Item \ {tx[r].item} : row'[k] = row[k]
      BY <1>0, <1>1, <2>2, NewRow
    <2>4. /\ asked'[tx[r].item] = asked[tx[r].item] + tx[r].n
          /\ \A k \in Item \ {tx[r].item} : asked'[k] = asked[k]
      BY <1>0, <1>1, <2>2
    <2>5. Inserted(tx[r].item, tx[r].n)
      BY <1>2, <2>1, <2>2, <2>3, <2>4 DEF Inserted
    <2>6. QED
      BY <1>0, <1>1, <2>5
  <1>5. QED
    BY <1>3, <1>4

LEMMA AddIncrementEffect ==
  ASSUME Typed, NEW r \in Guest, AddIncrement(r)
  PROVE  Nothing \/ \E m \in Item, new, more, less \in Nat : Overwritten(r, m, new, more, less)
  <1>0. /\ row \in [Item -> Row] /\ asked \in [Item -> Nat] /\ taken \in [Item -> Nat]
        /\ tx[r].n \in Nat /\ tx[r].seen \in [Item -> Row]
        /\ AboutItem(r)
        /\ At(r, "add")
        /\ Seen(r).quantity > 0
    BY DEF Typed, TypeOK, Tx, AddIncrement
  <1>1. tx[r].item \in Item /\ Seen(r) \in Row /\ Seen(r).quantity \in Nat
    <2>1. tx[r].item \in Item
      BY <1>0 DEF AboutItem, At
    <2>2. QED
      BY <1>0, <2>1 DEF Seen, Row
  <1>2. CASE ~Alive(Seen(r), tx[r].item)
    BY <1>2 DEF AddIncrement, Nothing
  <1>3. CASE Alive(Seen(r), tx[r].item)
    <2>1. /\ row' = [row EXCEPT ![tx[r].item].quantity = Seen(r).quantity + tx[r].n]
          /\ asked' = [asked EXCEPT ![tx[r].item] = @ + tx[r].n]
          /\ stale' = stale \cup Changed(r)
          /\ UNCHANGED <<taken, ordered, late>>
      BY <1>3 DEF AddIncrement
    <2>2. Seen(r).quantity + tx[r].n \in Nat
      BY <1>0, <1>1
    <2>3. /\ row'[tx[r].item].id = row[tx[r].item].id
          /\ row'[tx[r].item].quantity = Seen(r).quantity + tx[r].n
          /\ \A k \in Item \ {tx[r].item} : row'[k] = row[k]
      BY <1>0, <1>1, <2>1, <2>2, NewQuantity
    <2>4. /\ asked'[tx[r].item] = asked[tx[r].item] + tx[r].n
          /\ \A k \in Item \ {tx[r].item} : asked'[k] = asked[k]
      BY <1>0, <1>1, <2>1
    <2>5. Overwritten(r, tx[r].item, Seen(r).quantity + tx[r].n, tx[r].n, 0)
      <3>1. taken'[tx[r].item] = taken[tx[r].item] + 0
        BY <1>0, <1>1, <2>1
      <3>2. Seen(r).quantity + tx[r].n + 0 = Seen(r).quantity + tx[r].n
        BY <2>2
      <3>3. QED
        BY <1>0, <1>3, <2>1, <2>3, <2>4, <3>1, <3>2 DEF Overwritten, Seen
    <2>6. QED
      BY <1>0, <1>1, <2>2, <2>5
  <1>4. QED
    BY <1>2, <1>3

LEMMA UpdateEffect ==
  ASSUME Typed, NEW r \in Guest, UpdateCommit(r)
  PROVE  Nothing \/ \E m \in Item, new, more, less \in Nat : Overwritten(r, m, new, more, less)
  <1> DEFINE old == Seen(r).quantity
             new == tx[r].n
             more == Minus(new, old)
             less == Minus(old, new)
  <1>0. /\ row \in [Item -> Row] /\ asked \in [Item -> Nat] /\ taken \in [Item -> Nat]
        /\ tx[r].n \in Nat /\ tx[r].seen \in [Item -> Row]
        /\ AboutItem(r)
        /\ At(r, "update")
    BY DEF Typed, TypeOK, Tx, UpdateCommit
  <1>1. tx[r].item \in Item /\ Seen(r) \in Row /\ old \in Nat
    <2>1. tx[r].item \in Item
      BY <1>0 DEF AboutItem, At
    <2>2. QED
      BY <1>0, <2>1 DEF Seen, Row
  <1>2. more \in Nat /\ less \in Nat /\ new + less = old + more
    BY <1>0, <1>1, MinusNat
  <1>3. CASE ~(new # old /\ Alive(Seen(r), tx[r].item))
    BY <1>3 DEF UpdateCommit, Nothing
  <1>4. CASE new # old /\ Alive(Seen(r), tx[r].item)
    <2>1. /\ row' = [row EXCEPT ![tx[r].item].quantity = tx[r].n]
          /\ asked' = [asked EXCEPT ![tx[r].item] = @ + more]
          /\ taken' = [taken EXCEPT ![tx[r].item] = @ + less]
          /\ stale' = stale \cup Changed(r)
          /\ UNCHANGED <<ordered, late>>
      BY <1>4 DEF UpdateCommit
    <2> HIDE DEF more, less
    <2>2. /\ row'[tx[r].item].id = row[tx[r].item].id
          /\ row'[tx[r].item].quantity = tx[r].n
          /\ \A k \in Item \ {tx[r].item} : row'[k] = row[k]
      BY <1>0, <1>1, <2>1, NewQuantity
    <2>3. /\ asked'[tx[r].item] = asked[tx[r].item] + more
          /\ taken'[tx[r].item] = taken[tx[r].item] + less
          /\ \A k \in Item \ {tx[r].item} : asked'[k] = asked[k] /\ taken'[k] = taken[k]
      BY <1>0, <1>1, <1>2, <2>1
    <2>4. Seen(r).quantity > 0
      BY <1>4 DEF Alive
    <2>5. Overwritten(r, tx[r].item, new, more, less)
      BY <1>2, <1>4, <2>1, <2>2, <2>3, <2>4 DEF Overwritten, Seen
    <2>6. QED
      BY <1>0, <1>1, <1>2, <2>5
  <1>5. QED
    BY <1>3, <1>4

\* The rows that r has read and that are still there get quantity 0.
Emptied(r) ==
    \A m \in Item : IF Alive(tx[r].seen[m], m)
                    THEN row'[m].id = row[m].id /\ row'[m].quantity = 0
                    ELSE row'[m] = row[m]

LEMMA DeleteSeenEffect ==
  ASSUME Typed, NEW r \in Guest, DeleteSeen(r)
  PROVE  Emptied(r)
  <1>1. row \in [Item -> Row]
    BY DEF Typed, TypeOK
  <1>2. \A m \in Item : [row[m] EXCEPT !.quantity = 0].id = row[m].id
                        /\ [row[m] EXCEPT !.quantity = 0].quantity = 0
    BY <1>1 DEF Row
  <1>3. QED
    BY <1>2 DEF DeleteSeen, Emptied

LEMMA WriteLocks ==
  ASSUME Typed, Locks, NEW r \in Guest,
         \/ CommitCart(r) \/ AddInsert(r) \/ AddIncrement(r)
         \/ UpdateCommit(r) \/ DeleteCommit(r) \/ CheckoutCommit(r)
  PROVE  Locks'
  <1>1. End(r)
    BY DEF CommitCart, AddInsert, AddIncrement, UpdateCommit, DeleteCommit, CheckoutCommit
  <1>2. tx'[r].pc = "idle" /\ \A q \in Guest : q # r => tx'[q] = tx[q]
    BY <1>1, IdleTx DEF Typed, TypeOK, Become, End
  <1>3. CASE CommitCart(r)
    <2>1. cart = "none" /\ \A q \in Guest : q # r => ~At(q, "cart inserted")
      BY <1>3 DEF CommitCart, Locks
    <2>2. cart' = "ACTIVE"
      BY <1>3 DEF CommitCart, NewCartStatus
    <2>3. QED
      BY <1>2, <2>1, <2>2 DEF Locks, At
  <1>4. ASSUME cart' = cart, cart = "none" => \A m \in Item : row'[m].quantity = 0
        PROVE  Locks'
    BY <1>2, <1>4 DEF Locks, At
  <1>5. CASE AddInsert(r)
    BY <1>4, <1>5 DEF AddInsert, Locks, At
  <1>6. CASE AddIncrement(r) \/ UpdateCommit(r)
    <2>1. cart' = cart
      BY <1>6 DEF AddIncrement, UpdateCommit
    <2>2. CASE Nothing
      BY <1>4, <2>1, <2>2 DEF Nothing, Locks
    <2>3. CASE \E m \in Item, new, more, less \in Nat : Overwritten(r, m, new, more, less)
      <3>1. PICK m \in Item : Alive(tx[r].seen[m], m)
        BY <2>3 DEF Overwritten
      <3>2. row[m].quantity > 0
        BY <3>1 DEF Alive
      <3>3. cart = "none" => row[m].quantity = 0
        BY DEF Locks
      <3>4. QED
        BY <1>4, <2>1, <3>2, <3>3
    <2>4. QED
      BY <1>6, <2>2, <2>3, AddIncrementEffect, UpdateEffect
  <1>7. CASE DeleteCommit(r) \/ CheckoutCommit(r)
    <2>1. cart' = cart /\ DeleteSeen(r)
      BY <1>7 DEF DeleteCommit, CheckoutCommit, EmptyCart
    <2>2. Emptied(r)
      BY <2>1, DeleteSeenEffect
    <2>3. cart = "none" => \A m \in Item : row'[m].quantity = 0
      BY <2>2 DEF Emptied, Locks
    <2>4. QED
      BY <1>4, <2>1, <2>3
  <1>8. QED
    BY <1>3, <1>5, <1>6, <1>7

LEMMA NextLocks == Typed /\ Locks /\ [Next]_vars => Locks'
  <1> SUFFICES ASSUME Typed, Locks, [Next]_vars PROVE Locks'
    OBVIOUS
  <1>1. CASE UNCHANGED <<cart, row, tx>>
    BY <1>1 DEF Locks, At
  <1>2. QED
    BY <1>1, ReadLocks, WriteLocks DEF Next, Request, MenuChanges, vars

\* No two checkouts hold the cart, and no two requests create it.
LEMMA AlwaysLocks == Spec => [](Typed /\ Locks)
  <1>1. Init => Locks
    <2> SUFFICES ASSUME Init PROVE Locks
      OBVIOUS
    <2>1. \A r \in Guest : tx[r].pc = "idle"
      BY IdleTx DEF Init
    <2>2. \A m \in Item : row[m].quantity = 0
      BY DEF Init, NoRow
    <2>3. QED
      BY <2>1, <2>2 DEF Locks, At
  <1>2. QED
    BY <1>1, NextLocks, AlwaysTyped, PTL DEF Spec

-----------------------------------------------------------------------------
(* Orders with items that are not available. *)

\* r is going to order an item that is not available any more.
Endangered(r) == At(r, "locked") /\ \E m \in off : tx[r].seen[m].quantity > 0

\* An order in danger has not been counted, its item has.
LateInv ==
    /\ late <= soldOut
    /\ \A r \in Guest : Endangered(r) => late < soldOut

LEMMA OnlyCheckoutLocks ==
  ASSUME Typed, NEW r \in Guest, Request(r), ~CheckoutLock(r)
  PROVE  tx'[r].pc # "locked"
  <1>1. ASSUME NEW t, Become(r, t), t.pc # "locked" PROVE tx'[r].pc # "locked"
    BY <1>1 DEF Become, Typed, TypeOK
  <1>2. CASE End(r)
    BY <1>1, <1>2, IdleTx DEF End
  <1>3. CASE FindNoCart(r)
    <2>1. /\ [Idle EXCEPT !.pc = "no cart"].pc = "no cart"
          /\ \A m, n : [Idle EXCEPT !.pc = "no cart", !.item = m, !.n = n].pc = "no cart"
      BY DEF Idle
    <2>2. QED
      BY <1>1, <1>3, <2>1 DEF FindNoCart
  <1>4. CASE InsertCart(r)
    <2>1. [tx[r] EXCEPT !.pc = "cart inserted"].pc = "cart inserted"
      BY DEF Typed, TypeOK, Tx
    <2>2. QED
      BY <1>1, <1>2, <1>4, <2>1 DEF InsertCart
  <1>5. CASE AddRead(r)
    BY <1>1, <1>5 DEF AddRead
  <1>6. CASE UpdateRead(r)
    BY <1>1, <1>6 DEF UpdateRead
  <1>7. CASE RemoveRead(r)
    BY <1>1, <1>7 DEF RemoveRead
  <1>8. CASE ClearRead(r)
    <2>1. [Idle EXCEPT !.pc = "clear", !.seen = row].pc = "clear"
      BY DEF Idle
    <2>2. QED
      BY <1>1, <1>8, <2>1 DEF ClearRead
  <1>9. CASE CommitCart(r) \/ AddInsert(r) \/ AddIncrement(r) \/ UpdateCommit(r)
             \/ DeleteCommit(r) \/ CheckoutCommit(r) \/ Abort(r)
    <2>1. End(r)
      BY <1>9 DEF CommitCart, AddInsert, AddIncrement, UpdateCommit, DeleteCommit,
           CheckoutCommit, Abort
    <2>2. QED
      BY <1>2, <2>1
  <1>10. QED
    BY <1>3, <1>4, <1>5, <1>6, <1>7, <1>8, <1>9 DEF Request

LEMMA NextLate == Typed /\ Locks /\ LateInv /\ [Next]_vars => LateInv'
  <1> SUFFICES ASSUME Typed, Locks, LateInv, [Next]_vars PROVE LateInv'
    OBVIOUS
  <1>0. late \in Nat /\ soldOut \in Nat
    BY CartAssumption DEF Typed, TypeOK
  <1>1. CASE UNCHANGED vars
    BY <1>1 DEF vars, LateInv, Endangered, At
  <1>2. ASSUME NEW m \in Item, MenuChanges(m) PROVE LateInv'
    <2>1. late' = late /\ tx' = tx
      BY <1>2 DEF MenuChanges
    <2>2. CASE soldOut' = soldOut /\ off' \subseteq off
      BY <2>1, <2>2 DEF LateInv, Endangered, At
    <2>3. CASE soldOut' = soldOut + 1
      BY <1>0, <2>1, <2>3 DEF LateInv
    <2>4. QED
      BY <1>2, <2>2, <2>3 DEF MenuChanges
  <1>3. ASSUME NEW r \in Guest, Request(r) PROVE LateInv'
    <2>1. off' = off /\ soldOut' = soldOut
      BY <1>3 DEF Request, FindNoCart, InsertCart, CommitCart, AddRead, AddInsert, AddIncrement,
           UpdateRead, UpdateCommit, RemoveRead, ClearRead, DeleteCommit, CheckoutLock,
           CheckoutCommit, Abort, RowsUnchanged, MenuVars
    <2>2. CASE CheckoutCommit(r)
      <3>1. tx'[r].pc = "idle" /\ \A q \in Guest : q # r => tx'[q] = tx[q]
        BY <2>2, IdleTx DEF CheckoutCommit, Typed, TypeOK, Become, End
      <3>2. \A q \in Guest : ~Endangered(q)'
        BY <2>2, <3>1 DEF CheckoutCommit, Endangered, Locks, At
      <3>3. late' <= soldOut
        <4>1. CASE Endangered(r)
          BY <1>0, <2>2, <4>1 DEF CheckoutCommit, LateInv
        <4>2. CASE ~Endangered(r)
          BY <2>2, <4>2 DEF CheckoutCommit, Endangered, LateInv
        <4>3. QED
          BY <4>1, <4>2
      <3>4. QED
        BY <2>1, <3>2, <3>3 DEF LateInv
    <2>3. CASE ~CheckoutCommit(r)
      <3>1. late' = late
        BY <1>3, <2>3 DEF Request, FindNoCart, InsertCart, CommitCart, AddRead, AddInsert,
             AddIncrement, UpdateRead, UpdateCommit, RemoveRead, ClearRead, DeleteCommit,
             CheckoutLock, Abort, RowsUnchanged
      <3>2. \A q \in Guest : q # r => tx'[q] = tx[q]
        BY <1>3 DEF Request, FindNoCart, InsertCart, CommitCart, AddRead, AddInsert,
             AddIncrement, UpdateRead, UpdateCommit, RemoveRead, ClearRead, DeleteCommit,
             CheckoutLock, CheckoutCommit, Abort, Become, End, Typed, TypeOK
      <3>3. ~Endangered(r)'
        <4>1. CASE CheckoutLock(r)
          <5>1. tx'[r].seen = row
            BY <4>1 DEF CheckoutLock, Become, Idle, Typed, TypeOK
          <5>2. QED
            BY <2>1, <4>1, <5>1 DEF CheckoutLock, Orderable, InCart, Endangered, Typed, TypeOK
        <4>2. CASE ~CheckoutLock(r)
          BY <1>3, <4>2, OnlyCheckoutLocks DEF Endangered, At
        <4>3. QED
          BY <4>1, <4>2
      <3>4. QED
        BY <2>1, <3>1, <3>2, <3>3 DEF LateInv, Endangered, At
    <2>4. QED
      BY <2>2, <2>3
  <1>4. QED
    BY <1>1, <1>2, <1>3 DEF Next

\* Each time an item becomes unavailable at most one order is still placed with
\* it: two checkouts never hold the cart, and each makes its own check under
\* the lock (checkout_cart).
THEOREM FewLateOrders == Spec => []LateOrdersBounded
  <1>1. Init => LateInv
    BY IdleTx DEF Init, LateInv, Endangered
  <1>2. LateInv => LateOrdersBounded
    BY DEF LateInv, LateOrdersBounded
  <1>3. QED
    BY <1>1, <1>2, NextLate, AlwaysLocks, PTL DEF Spec

-----------------------------------------------------------------------------
(* Units are lost by stale quantities only. *)

\* The writes, by what they do to the rows.
LEMMA WriteEffect ==
  ASSUME Typed, Locks, NEW r \in Guest, Request(r)
  PROVE  \/ Nothing
         \/ \E m \in Item, n \in Nat : Inserted(m, n)
         \/ \E m \in Item, new, more, less \in Nat : Overwritten(r, m, new, more, less)
         \/ DeleteCommit(r)
         \/ CheckoutCommit(r)
  <1>1. CASE FindNoCart(r) \/ InsertCart(r) \/ AddRead(r) \/ UpdateRead(r)
             \/ RemoveRead(r) \/ ClearRead(r) \/ CheckoutLock(r) \/ Abort(r)
    BY <1>1 DEF FindNoCart, InsertCart, AddRead, UpdateRead, RemoveRead, ClearRead,
         CheckoutLock, Abort, RowsUnchanged, Nothing
  <1>2. QED
    BY <1>1, CommitCartEffect, AddInsertEffect, AddIncrementEffect, UpdateEffect DEF Request

LEMMA NextConserved == Typed /\ Locks /\ UnitsConserved /\ [Next]_vars => UnitsConserved'
  <1> SUFFICES ASSUME Typed, Locks, UnitsConserved, [Next]_vars,
                      NEW k \in Item, k \notin stale'
               PROVE  asked'[k] = row'[k].quantity + ordered'[k] + taken'[k]
    BY DEF UnitsConserved
  <1>0. /\ row[k].quantity \in Nat /\ asked[k] \in Nat /\ ordered[k] \in Nat /\ taken[k] \in Nat
        /\ row[k].id \in Nat
    BY DEF Typed, TypeOK, Row
  <1>1. k \notin stale => asked[k] = row[k].quantity + ordered[k] + taken[k]
    BY DEF UnitsConserved
  <1>2. CASE UNCHANGED vars \/ \E m \in Item : MenuChanges(m)
    BY <1>1, <1>2 DEF vars, MenuChanges
  <1>3. ASSUME NEW r \in Guest, Request(r)
        PROVE  asked'[k] = row'[k].quantity + ordered'[k] + taken'[k]
    <2>0. tx[r].seen \in [Item -> Row] /\ tx[r].seen[k].quantity \in Nat
      BY DEF Typed, TypeOK, Tx, Row
    <2>1. CASE Nothing
      BY <1>1, <2>1 DEF Nothing
    <2>2. ASSUME NEW m \in Item, NEW n \in Nat, Inserted(m, n)
          PROVE  asked'[k] = row'[k].quantity + ordered'[k] + taken'[k]
      BY <1>0, <1>1, <2>2 DEF Inserted
    <2>3. ASSUME NEW m \in Item, NEW new \in Nat, NEW more \in Nat, NEW less \in Nat,
                 Overwritten(r, m, new, more, less)
          PROVE  asked'[k] = row'[k].quantity + ordered'[k] + taken'[k]
      <3>1. k \notin stale /\ k \notin Changed(r)
        BY <2>3 DEF Overwritten
      <3>2. CASE k = m
        <4>1. tx[r].seen[k] = row[k]
          BY <2>3, <3>1, <3>2 DEF Overwritten, Changed
        <4>2. QED
          BY <1>0, <1>1, <2>3, <3>1, <3>2, <4>1 DEF Overwritten
      <3>3. CASE k # m
        BY <1>1, <2>3, <3>1, <3>3 DEF Overwritten
      <3>4. QED
        BY <3>2, <3>3
    <2>4. CASE DeleteCommit(r)
      <3>1. Emptied(r)
        BY <2>4, DeleteSeenEffect DEF DeleteCommit
      <3>2. row'[k].quantity \in Nat /\ row'[k].quantity <= row[k].quantity
        BY <1>0, <3>1 DEF Emptied
      <3>3. taken'[k] = taken[k] + (row[k].quantity - row'[k].quantity)
        BY <1>0, <2>4, <3>2 DEF DeleteCommit, Gone, Minus
      <3>4. asked'[k] = asked[k] /\ ordered'[k] = ordered[k] /\ k \notin stale
        BY <2>4 DEF DeleteCommit
      <3>5. QED
        BY <1>0, <1>1, <3>2, <3>3, <3>4
    <2>5. CASE CheckoutCommit(r)
      <3>1. Emptied(r)
        BY <2>5, DeleteSeenEffect DEF CheckoutCommit, EmptyCart
      <3>2. /\ k \notin stale /\ k \notin Changed(r)
            /\ ordered'[k] = ordered[k] + tx[r].seen[k].quantity
            /\ asked'[k] = asked[k] /\ taken'[k] = taken[k]
        BY <2>5 DEF CheckoutCommit
      <3>3. CASE tx[r].seen[k].quantity = 0
        <4>1. row'[k] = row[k]
          BY <3>1, <3>3 DEF Emptied, Alive
        <4>2. QED
          BY <1>0, <1>1, <3>2, <3>3, <4>1
      <3>4. CASE tx[r].seen[k].quantity > 0
        <4>1. tx[r].seen[k] = row[k]
          BY <3>2, <3>4 DEF Changed
        <4>2. row'[k].quantity = 0
          BY <3>1, <3>4, <4>1 DEF Emptied, Alive
        <4>3. QED
          BY <1>0, <1>1, <3>2, <4>1, <4>2
      <3>5. QED
        BY <2>0, <3>3, <3>4
    <2>6. QED
      BY <1>3, <2>1, <2>2, <2>3, <2>4, <2>5, WriteEffect
  <1>4. QED
    BY <1>2, <1>3 DEF Next

\* As long as no request has used a quantity that was changed since it was
\* read, every unit that was asked for is in the cart, in an order or was taken
\* out, through every overlap of the cart requests (add_item, checkout_cart).
THEOREM Conservation == Spec => []UnitsConserved
  <1>1. Init => UnitsConserved
    BY DEF Init, UnitsConserved, NoRow
  <1>2. QED
    BY <1>1, NextConserved, AlwaysLocks, PTL DEF Spec

-----------------------------------------------------------------------------
(* No units are invented. *)

\* What a request has read of an item has an id that is not used again.  While
\* the row is there, and until a checkout that has read it commits, the units
\* read were asked for, besides those ordered.
Reads(r, m) ==
    /\ tx[r].seen[m].quantity > 0 => tx[r].seen[m].id <= row[m].id
    /\ At(r, "locked") => IF tx[r].seen[m].quantity > 0 THEN row[m].id = tx[r].seen[m].id
                                                         ELSE row[m].quantity = 0
    /\ tx[r].seen[m].quantity > 0 /\ (At(r, "locked") \/ Alive(tx[r].seen[m], m)) =>
           ordered[m] + tx[r].seen[m].quantity <= asked[m]

CountInv ==
    /\ NothingInvented
    /\ \A r \in Guest, m \in Item : Reads(r, m)

\* A request that reads remembers the rows as they are, or nothing.
LEMMA ReadSeen ==
  ASSUME Typed, NEW r \in Guest, NEW m \in Item,
         \/ FindNoCart(r) \/ InsertCart(r) \/ AddRead(r) \/ UpdateRead(r)
         \/ RemoveRead(r) \/ ClearRead(r) \/ CheckoutLock(r) \/ Abort(r)
  PROVE  /\ \/ tx'[r].seen[m] = row[m]
            \/ ~At(r, "locked")' /\ tx'[r].seen[m] \in {NoRow, tx[r].seen[m]}
         /\ RowsUnchanged
  <1>0. RowsUnchanged
    BY DEF FindNoCart, InsertCart, AddRead, UpdateRead, RemoveRead, ClearRead, CheckoutLock, Abort
  <1>1. CASE CheckoutLock(r)
    <2>1. tx'[r].seen = row
      BY <1>1 DEF CheckoutLock, Become, Idle, Typed, TypeOK
    <2>2. QED
      BY <1>0, <2>1
  <1>2. CASE ~CheckoutLock(r)
    <2>0. ~At(r, "locked")'
      BY <1>2, OnlyCheckoutLocks DEF Request, At
    <2>1. ASSUME NEW t, Become(r, t), t.seen[m] \in {NoRow, row[m], tx[r].seen[m]}
          PROVE  tx'[r].seen[m] \in {NoRow, row[m], tx[r].seen[m]}
      BY <2>1 DEF Become, Typed, TypeOK
    <2>2. \A k \in Item : SeenOf(k)[m] \in {row[m], NoRow}
      BY DEF SeenOf
    <2>3. ASSUME End(r) PROVE tx'[r].seen[m] \in {NoRow, row[m], tx[r].seen[m]}
      BY <2>1, <2>3, IdleTx DEF End
    <2>4. ASSUME FindNoCart(r) PROVE tx'[r].seen[m] \in {NoRow, row[m], tx[r].seen[m]}
      <3>1. /\ [Idle EXCEPT !.pc = "no cart"].seen[m] = NoRow
            /\ \A k, n : [Idle EXCEPT !.pc = "no cart", !.item = k, !.n = n].seen[m] = NoRow
        BY DEF Idle
      <3>2. QED
        BY <2>1, <2>4, <3>1 DEF FindNoCart
    <2>5. ASSUME InsertCart(r) PROVE tx'[r].seen[m] \in {NoRow, row[m], tx[r].seen[m]}
      <3>1. [tx[r] EXCEPT !.pc = "cart inserted"].seen[m] = tx[r].seen[m]
        BY DEF Typed, TypeOK, Tx
      <3>2. QED
        BY <2>1, <2>3, <2>5, <3>1 DEF InsertCart
    <2>6. ASSUME AddRead(r) PROVE tx'[r].seen[m] \in {NoRow, row[m], tx[r].seen[m]}
      BY <2>1, <2>2, <2>6 DEF AddRead
    <2>7. ASSUME UpdateRead(r) PROVE tx'[r].seen[m] \in {NoRow, row[m], tx[r].seen[m]}
      BY <2>1, <2>2, <2>7 DEF UpdateRead
    <2>8. ASSUME RemoveRead(r) PROVE tx'[r].seen[m] \in {NoRow, row[m], tx[r].seen[m]}
      BY <2>1, <2>2, <2>8 DEF RemoveRead
    <2>9. ASSUME ClearRead(r) PROVE tx'[r].seen[m] \in {NoRow, row[m], tx[r].seen[m]}
      <3>1. [Idle EXCEPT !.pc = "clear", !.seen = row].seen[m] = row[m]
        BY DEF Idle
      <3>2. QED
        BY <2>1, <2>9, <3>1 DEF ClearRead
    <2>10. tx'[r].seen[m] \in {NoRow, row[m], tx[r].seen[m]}
      BY <1>2, <2>3, <2>4, <2>5, <2>6, <2>7, <2>8, <2>9 DEF Abort
    <2>11. QED
      BY <1>0, <2>0, <2>10
  <1>3. QED
    BY <1>1, <1>2

\* A step by which r only reads.
LEMMA ReadCount ==
  ASSUME Typed, CountInv, NEW r \in Guest,
         \/ FindNoCart(r) \/ InsertCart(r) \/ AddRead(r) \/ UpdateRead(r)
         \/ RemoveRead(r) \/ ClearRead(r) \/ CheckoutLock(r) \/ Abort(r)
  PROVE  CountInv'
  <1>1. UNCHANGED <<row, ordered, asked>>
    <2>1. RowsUnchanged
      BY DEF FindNoCart, InsertCart, AddRead, UpdateRead, RemoveRead, ClearRead, CheckoutLock, Abort
    <2>2. QED
      BY <2>1 DEF RowsUnchanged
  <1>2. \A q \in Guest : q # r => tx'[q] = tx[q]
    BY DEF FindNoCart, InsertCart, AddRead, UpdateRead, RemoveRead, ClearRead, CheckoutLock,
         Abort, Become, End, Typed, TypeOK
  <1>3. NothingInvented'
    BY <1>1 DEF CountInv, NothingInvented
  <1>4. ASSUME NEW q \in Guest, NEW m \in Item PROVE Reads(q, m)'
    <2>0. row[m].id \in Nat /\ row[m].quantity \in Nat /\ ordered[m] + row[m].quantity <= asked[m]
      BY DEF Typed, TypeOK, Row, CountInv, NothingInvented
    <2>1. CASE q # r
      BY <1>1, <1>2, <2>1 DEF CountInv, Reads, At, Alive
    <2>2. CASE q = r
      <3>1. CASE tx'[r].seen[m] = row[m]
        <4>1. tx'[r].seen[m] = row'[m]
          BY <1>1, <3>1
        <4>2. ordered'[m] + row'[m].quantity <= asked'[m] /\ row'[m].id \in Nat
              /\ row'[m].quantity \in Nat
          BY <1>1, <2>0
        <4>3. QED
          BY <2>2, <4>1, <4>2 DEF Reads
      <3>2. CASE ~At(r, "locked")' /\ tx'[r].seen[m] = NoRow
        BY <2>2, <3>2 DEF Reads, NoRow
      <3>3. CASE ~At(r, "locked")' /\ tx'[r].seen[m] = tx[r].seen[m]
        BY <1>1, <2>2, <3>3 DEF CountInv, Reads, At, Alive
      <3>4. QED
        BY <3>1, <3>2, <3>3, ReadSeen
    <2>3. QED
      BY <2>1, <2>2
  <1>5. QED
    BY <1>3, <1>4 DEF CountInv

\* A step by which r writes: what it must do to one item.
LEMMA WriteCount ==
  ASSUME Typed, Locks, CountInv, NEW r \in Guest, Request(r), End(r)
  PROVE  CountInv'
  <1>0. tx'[r] = Idle /\ \A q \in Guest : q # r => tx'[q] = tx[q]
    BY DEF End, Become, Typed, TypeOK
  <1>1. ASSUME NEW k \in Item,
               ordered'[k] + row'[k].quantity <= asked'[k],
               \A q \in Guest \ {r} : Reads(q, k) => Reads(q, k)'
        PROVE  ordered'[k] + row'[k].quantity <= asked'[k] /\ \A q \in Guest : Reads(q, k)'
    <2>1. Reads(r, k)'
      BY <1>0, IdleTx DEF Reads, At, NoRow
    <2>2. QED
      BY <1>1, <2>1 DEF CountInv
  <1> SUFFICES ASSUME NEW k \in Item
               PROVE  /\ ordered'[k] + row'[k].quantity <= asked'[k]
                      /\ \A q \in Guest \ {r} : Reads(q, k) => Reads(q, k)'
    BY <1>1 DEF CountInv, NothingInvented
  <1>2. /\ row[k].id \in Nat /\ row[k].quantity \in Nat
        /\ asked[k] \in Nat /\ ordered[k] \in Nat
        /\ ordered[k] + row[k].quantity <= asked[k]
        /\ \A q \in Guest : /\ Reads(q, k)
                            /\ tx[q].seen[k].id \in Nat /\ tx[q].seen[k].quantity \in Nat
    BY DEF Typed, TypeOK, Row, Tx, CountInv, NothingInvented
  <1>3. CASE row'[k] = row[k] /\ ordered'[k] = ordered[k] /\ asked'[k] = asked[k]
    BY <1>0, <1>2, <1>3 DEF Reads, At, Alive
  <1>4. ASSUME NEW n \in Nat, Inserted(k, n)
        PROVE  /\ ordered'[k] + row'[k].quantity <= asked'[k]
               /\ \A q \in Guest \ {r} : Reads(q, k) => Reads(q, k)'
    <2>1. ordered'[k] + row'[k].quantity <= asked'[k]
      BY <1>2, <1>4 DEF Inserted
    <2>2. \A q \in Guest \ {r} : Reads(q, k) => Reads(q, k)'
      BY <1>0, <1>2, <1>4 DEF Inserted, Reads, At, Alive
    <2>3. QED
      BY <2>1, <2>2
  <1>5. ASSUME NEW new \in Nat, NEW more \in Nat, NEW less \in Nat,
               Overwritten(r, k, new, more, less)
        PROVE  /\ ordered'[k] + row'[k].quantity <= asked'[k]
               /\ \A q \in Guest \ {r} : Reads(q, k) => Reads(q, k)'
    <2>1. ordered[k] + tx[r].seen[k].quantity <= asked[k]
      BY <1>2, <1>5 DEF Overwritten, Reads
    <2>2. ordered'[k] + row'[k].quantity <= asked'[k]
      BY <1>2, <1>5, <2>1 DEF Overwritten
    <2>3. /\ row'[k].id = row[k].id /\ row[k].quantity > 0
          /\ asked'[k] = asked[k] + more /\ ordered'[k] = ordered[k]
      BY <1>5 DEF Overwritten, Alive
    <2>4. \A q \in Guest \ {r} : Reads(q, k) => Reads(q, k)'
      BY <1>0, <1>2, <2>3 DEF Reads, At, Alive
    <2>5. QED
      BY <2>2, <2>4
  <1>6. CASE DeleteCommit(r)
    <2>1. Emptied(r) /\ ordered' = ordered /\ asked' = asked
      BY <1>6, DeleteSeenEffect DEF DeleteCommit
    <2>2. ordered'[k] + row'[k].quantity <= asked'[k]
      BY <1>2, <2>1 DEF Emptied
    <2>3. \A q \in Guest \ {r} : Reads(q, k) => Reads(q, k)'
      BY <1>0, <1>2, <2>1 DEF Emptied, Reads, At, Alive
    <2>4. QED
      BY <2>2, <2>3
  <1>7. CASE CheckoutCommit(r)
    <2>1. Emptied(r) /\ asked' = asked /\ At(r, "locked")
          /\ ordered'[k] = ordered[k] + tx[r].seen[k].quantity
      BY <1>7, DeleteSeenEffect DEF CheckoutCommit, EmptyCart
    <2>2. \A q \in Guest \ {r} : ~At(q, "locked")
      BY <2>1 DEF Locks
    <2>3. CASE tx[r].seen[k].quantity = 0
      <3>1. row'[k] = row[k] /\ ordered'[k] = ordered[k] /\ asked'[k] = asked[k]
        BY <1>2, <2>1, <2>3 DEF Emptied, Alive
      <3>2. QED
        BY <1>3, <3>1
    <2>4. CASE tx[r].seen[k].quantity > 0
      <3>1. row[k].id = tx[r].seen[k].id /\ ordered[k] + tx[r].seen[k].quantity <= asked[k]
        BY <1>2, <2>1, <2>4 DEF Reads
      <3>2. row'[k].quantity = 0 /\ row'[k].id = row[k].id
        BY <1>2, <2>1, <2>4, <3>1 DEF Emptied, Alive
      <3>3. ordered'[k] + row'[k].quantity <= asked'[k]
        BY <1>2, <2>1, <3>1, <3>2
      <3>4. \A q \in Guest \ {r} : Reads(q, k) => Reads(q, k)'
        BY <1>0, <1>2, <2>2, <3>2 DEF Reads, At, Alive
      <3>5. QED
        BY <3>3, <3>4
    <2>5. QED
      BY <1>2, <2>3, <2>4
  <1>8. ASSUME NEW m \in Item, m # k,
               \/ \E n \in Nat : Inserted(m, n)
               \/ \E new, more, less \in Nat : Overwritten(r, m, new, more, less)
        PROVE  row'[k] = row[k] /\ ordered'[k] = ordered[k] /\ asked'[k] = asked[k]
    BY <1>8 DEF Inserted, Overwritten
  <1>9. CASE Nothing
    BY <1>3, <1>9 DEF Nothing
  <1>10. QED
    BY <1>3, <1>4, <1>5, <1>6, <1>7, <1>8, <1>9, WriteEffect

LEMMA NextCount == Typed /\ Locks /\ CountInv /\ [Next]_vars => CountInv'
  <1> SUFFICES ASSUME Typed, Locks, CountInv, [Next]_vars PROVE CountInv'
    OBVIOUS
  <1>1. CASE UNCHANGED <<row, tx, ordered, asked>>
    BY <1>1 DEF CountInv, NothingInvented, Reads, At, Alive
  <1>2. ASSUME NEW r \in Guest, Request(r) PROVE CountInv'
    <2>1. CASE CommitCart(r) \/ AddInsert(r) \/ AddIncrement(r) \/ UpdateCommit(r)
               \/ DeleteCommit(r) \/ CheckoutCommit(r)
      BY <1>2, <2>1, WriteCount DEF CommitCart, AddInsert, AddIncrement, UpdateCommit,
           DeleteCommit, CheckoutCommit
    <2>2. QED
      BY <1>2, <2>1, ReadCount DEF Request
  <1>3. QED
    BY <1>1, <1>2 DEF Next, MenuChanges, vars

\* Nobody has more units in orders and cart than were asked for, whatever
\* quantities requests write over each other (add_item, update_item_quantity,
\* checkout_cart).
THEOREM NoneInvented == Spec => []NothingInvented
  <1>1. Init => CountInv
    BY IdleTx DEF Init, CountInv, NothingInvented, Reads, At, NoRow
  <1>2. CountInv => NothingInvented
    BY DEF CountInv
  <1>3. QED
    BY <1>1, <1>2, NextCount, AlwaysLocks, PTL DEF Spec

-----------------------------------------------------------------------------
(* What exclusion would conserve all units. *)

\* Two requests in flight have never read the same row.  Nothing in the code
\* guarantees it; a lock on the cart_items row that is read would.  Requests
\* about other items, first additions of an item and the creation of the cart
\* still overlap.
RowsApart ==
    \A q, r \in Guest, m \in Item :
        tx[q].seen[m].quantity > 0 /\ tx[r].seen[m].quantity > 0 => q = r

\* What a request has read of a row is still so, and was so whenever a
\* quantity that had been read was used.
Fresh ==
    /\ \A r \in Guest, m \in Item : tx[r].seen[m].quantity > 0 => row[m] = tx[r].seen[m]
    /\ stale = {}

\* A row is only written by the one request that has read it, or as the first.
LEMMA WrittenByReader ==
  ASSUME Typed, Locks, Fresh, RowsApart, NEW r \in Guest, NEW q \in Guest, q # r, Request(r),
         NEW m \in Item, tx[q].seen[m].quantity > 0
  PROVE  row'[m] = row[m]
  <1>1. row[m] = tx[q].seen[m] /\ ~(tx[r].seen[m].quantity > 0)
    BY DEF Fresh, RowsApart
  <1>2. CASE Nothing
    BY <1>2 DEF Nothing
  <1>3. ASSUME NEW k \in Item, NEW n \in Nat, Inserted(k, n) PROVE row'[m] = row[m]
    <2>1. k # m
      BY <1>1, <1>3 DEF Inserted
    <2>2. QED
      BY <1>3, <2>1 DEF Inserted
  <1>4. ASSUME NEW k \in Item, NEW new \in Nat, NEW more \in Nat, NEW less \in Nat,
               Overwritten(r, k, new, more, less)
        PROVE  row'[m] = row[m]
    <2>1. k # m
      BY <1>1, <1>4 DEF Overwritten
    <2>2. QED
      BY <1>4, <2>1 DEF Overwritten
  <1>5. ASSUME DeleteSeen(r) PROVE row'[m] = row[m]
    BY <1>1, <1>5, DeleteSeenEffect DEF Emptied, Alive
  <1>6. QED
    BY <1>2, <1>3, <1>4, <1>5, WriteEffect DEF DeleteCommit, CheckoutCommit, EmptyCart

\* A request has read a row as it is, or reads it with this step, or ends.
LEMMA NextFresh == Typed /\ Locks /\ Fresh /\ RowsApart /\ [Next]_vars => Fresh'
  <1> SUFFICES ASSUME Typed, Locks, Fresh, RowsApart, [Next]_vars PROVE Fresh'
    OBVIOUS
  <1>1. CASE UNCHANGED <<row, tx, stale>>
    BY <1>1 DEF Fresh
  <1>2. ASSUME NEW r \in Guest, Request(r) PROVE Fresh'
    <2>1. Changed(r) = {}
      BY DEF Changed, Fresh
    <2>2. stale' = {}
      <3>1. stale' = stale \/ stale' = stale \cup Changed(r)
        BY <1>2, WriteEffect DEF Nothing, Inserted, Overwritten, DeleteCommit, CheckoutCommit
      <3>2. QED
        BY <2>1, <3>1 DEF Fresh
    <2>3. \A q \in Guest : q # r => tx'[q] = tx[q]
      <3>1. \E t : Become(r, t)
        BY <1>2 DEF Request, FindNoCart, InsertCart, CommitCart, AddRead, AddInsert, AddIncrement,
             UpdateRead, UpdateCommit, RemoveRead, ClearRead, DeleteCommit, CheckoutLock,
             CheckoutCommit, Abort, End
      <3>2. QED
        BY <3>1 DEF Become, Typed, TypeOK
    <2>4. ASSUME NEW m \in Item, tx'[r].seen[m].quantity > 0 PROVE row'[m] = tx'[r].seen[m]
      <3>1. CASE CommitCart(r) \/ AddInsert(r) \/ AddIncrement(r) \/ UpdateCommit(r)
                 \/ DeleteCommit(r) \/ CheckoutCommit(r)
        <4>1. tx'[r] = Idle
          BY <3>1 DEF CommitCart, AddInsert, AddIncrement, UpdateCommit, DeleteCommit,
               CheckoutCommit, End, Become, Typed, TypeOK
        <4>2. QED
          BY <2>4, <4>1, IdleTx DEF NoRow
      <3>2. CASE FindNoCart(r) \/ InsertCart(r) \/ AddRead(r) \/ UpdateRead(r)
                 \/ RemoveRead(r) \/ ClearRead(r) \/ CheckoutLock(r) \/ Abort(r)
        <4>1. tx'[r].seen[m] \in {NoRow, row[m], tx[r].seen[m]} /\ row' = row
          BY <3>2, ReadSeen DEF RowsUnchanged
        <4>2. QED
          BY <2>4, <4>1 DEF Fresh, NoRow
      <3>3. QED
        BY <1>2, <3>1, <3>2 DEF Request
    <2>5. ASSUME NEW q \in Guest, q # r, NEW m \in Item, tx'[q].seen[m].quantity > 0
          PROVE  row'[m] = tx'[q].seen[m]
      <3>1. tx'[q] = tx[q]
        BY <2>3, <2>5
      <3>2. row'[m] = row[m]
        BY <1>2, <2>5, <3>1, WrittenByReader
      <3>3. QED
        BY <2>5, <3>1, <3>2 DEF Fresh
    <2>6. QED
      BY <2>2, <2>4, <2>5 DEF Fresh
  <1>3. QED
    BY <1>1, <1>2 DEF Next, MenuChanges, vars

\* With a lock on the rows that are read no unit is ever lost: what was asked
\* for is in the cart, in an order or was taken out, for every item
\* (add_item, update_item_quantity, checkout_cart).
THEOREM ConservedWhenApart ==
  Spec /\ []RowsApart
      => [](\A m \in Item : asked[m] = row[m].quantity + ordered[m] + taken[m])
  <1>1. Init => Fresh
    BY IdleTx DEF Init, Fresh, NoRow
  <1>2. Fresh /\ UnitsConserved => \A m \in Item : asked[m] = row[m].quantity + ordered[m] + taken[m]
    BY DEF Fresh, UnitsConserved
  <1>3. QED
    BY <1>1, <1>2, NextFresh, AlwaysLocks, Conservation, PTL DEF Spec

=============================================================================
