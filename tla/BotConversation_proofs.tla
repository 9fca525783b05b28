----------------------- MODULE BotConversation_proofs -----------------------
(***************************************************************************)
(* Proofs about BotConversation, for any restaurants, tables, dishes and   *)
(* texts, and any number of sessions and orders.                           *)
(***************************************************************************)
EXTENDS BotConversation, TLAPS

HasServed(n) == \E o \in 1..MaxOrder : orders[o].status = "SERVED" /\ orders[o].visit = n

\* What no message changes.
Aside == UNCHANGED <<available, moves, unserved>>

\* A guest who sits has a table, in a session that has a number, and every dish
\* in the cart was chosen there.
SeatedInv ==
    Seated => /\ session.visit \in 1..MaxVisit
              /\ session.table \in Table
              /\ cart \subseteq chosen[session.visit]

\* Orders are placed in sessions, and displays move orders that were placed.
OrderInv ==
    /\ \A o \in 1..MaxOrder : orders[o].status # "none" => orders[o].visit \in 1..MaxVisit
    /\ \A d \in Display : moves[d] # NoMove => orders[moves[d].order].status # "none"

\* A bill is offered for a session that has a served order, and keeps it unless
\* a display writes over it.
OfferInv ==
    \A n \in 1..MaxVisit : Btn("REQUEST_BILL", n) \in chat => HasServed(n) \/ n \in unserved

Inv ==
    /\ TypeOK
    /\ SeatedInv
    /\ OrderInv
    /\ OfferInv
    /\ OrderFromOwnSession

LEMMA InitInv == Init => Inv
  <1> SUFFICES ASSUME Init PROVE Inv
    OBVIOUS
  <1>1. TypeOK
    BY BotAssumption DEF Init, TypeOK, Session, OrderRow, Move
  <1>2. SeatedInv /\ OrderInv /\ OfferInv /\ OrderFromOwnSession
    BY DEF Init, SeatedInv, Seated, OrderInv, OfferInv, OrderFromOwnSession
  <1>3. QED
    BY <1>1, <1>2 DEF Inv

-----------------------------------------------------------------------------
(* Buttons. *)

\* Where the operand of a button comes from.
LEMMA Operand ==
  ASSUME NEW b \in Button
  PROVE  /\ b.do = "SELECT_TABLE" => b.on \in Table
         /\ b.do = "VIEW_CAT" => b.on \in Restaurant
         /\ b.do = "ADD_ITEM" => b.on \in Item
  BY DEF Button, Plain, Btn

\* Buttons that do not offer the bill.
Harmless == {b \in Button : b.do # "REQUEST_BILL"}

LEMMA PlainButtons ==
  ASSUME NEW names \in SUBSET {"VIEW_MENU", "VIEW_CART", "CLEAR_CART", "CHECKOUT", "ORDER_STATUS"}
  PROVE  Do(names) \subseteq Harmless
  BY DEF Do, Harmless, Button, Plain, Btn

LEMMA OtherButtons ==
  /\ \A t \in Table : Btn("SELECT_TABLE", t) \in Harmless
  /\ \A r \in Restaurant : Btn("VIEW_CAT", r) \in Harmless
  /\ \A i \in Item : Btn("ADD_ITEM", i) \in Harmless
  BY DEF Harmless, Button, Btn

-----------------------------------------------------------------------------
(* Shapes of steps. *)

\* An answer offers buttons, among them the bill only if there is one to have.
LEMMA Answered ==
  ASSUME Inv, NEW S \in SUBSET Button, chat' = chat \cup S,
         \A n \in 1..MaxVisit : Btn("REQUEST_BILL", n) \in S => HasServed(n),
         \A n : HasServed(n) => HasServed(n)', Aside
  PROVE  chat' \subseteq Button /\ OfferInv'
  BY DEF Inv, TypeOK, OfferInv, Aside

LEMMA HarmlessOffer ==
  ASSUME NEW S \in SUBSET Harmless
  PROVE  S \subseteq Button /\ \A n : Btn("REQUEST_BILL", n) \notin S
  BY DEF Harmless, Btn

\* A step that changes neither session, cart, orders nor choices.
LEMMA AnswerStep ==
  ASSUME Inv, AnswerOnly, NEW S \in SUBSET Button, chat' = chat \cup S,
         \A n \in 1..MaxVisit : Btn("REQUEST_BILL", n) \in S => HasServed(n),
         Aside
  PROVE  Inv'
  <1>1. UNCHANGED <<session, cart, orders, chosen>>
    BY DEF AnswerOnly
  <1>2. chat' \subseteq Button /\ OfferInv'
    BY <1>1, Answered DEF HasServed
  <1>3. QED
    BY <1>1, <1>2 DEF Inv, TypeOK, SeatedInv, Seated, OrderInv, OrderFromOwnSession, Aside

LEMMA HarmlessStep ==
  ASSUME Inv, AnswerOnly, NEW S \in SUBSET Harmless, chat' = chat \cup S, Aside
  PROVE  Inv'
  BY HarmlessOffer, AnswerStep

LEMMA ErrorInv ==
  ASSUME Inv, Error, Aside
  PROVE  Inv'
  <1> DEFINE S == {}
  <1>1. S \in SUBSET Harmless
    OBVIOUS
  <1>2. chat' = chat \cup S /\ AnswerOnly
    BY DEF Error
  <1> HIDE DEF S
  <1>3. QED
    BY <1>1, <1>2, HarmlessStep

-----------------------------------------------------------------------------
(* Sessions and tables. *)

LEMMA OfferTablesInv ==
  ASSUME Inv, OfferTables, Aside
  PROVE  Inv'
  <1>1. PICK r \in Default : Offer({Btn("SELECT_TABLE", t) : t \in TablesOf(r)})
    BY DEF OfferTables
  <1> DEFINE S == {Btn("SELECT_TABLE", t) : t \in TablesOf(r)}
  <1>2. S \in SUBSET Harmless
    BY OtherButtons DEF TablesOf
  <1>3. chat' = chat \cup S /\ AnswerOnly
    BY <1>1 DEF Offer, OfferTables
  <1> HIDE DEF S
  <1>4. QED
    BY <1>2, <1>3, HarmlessStep

LEMMA Categories ==
  ASSUME NEW r \in Restaurant, SendCategories(r)
  PROVE  \E S \in SUBSET Harmless : chat' = chat \cup S
  BY OtherButtons DEF SendCategories, Offer

LEMMA SendCategoriesInv ==
  ASSUME Inv, NEW r \in Restaurant, SendCategories(r), AnswerOnly, Aside
  PROVE  Inv'
  BY Categories, HarmlessStep

LEMMA HomeType ==
  ASSUME NEW x \in Table \cup Item
  PROVE  Home[x] \in Restaurant
  BY BotAssumption

\* A step that leaves orders and choices alone keeps what is said of orders.
LEMMA SameOrders ==
  ASSUME Inv, orders' = orders, chosen' = chosen, Aside, NEW S \in SUBSET Harmless, chat' = chat \cup S
  PROVE  chat' \subseteq Button /\ OfferInv' /\ OrderInv' /\ OrderFromOwnSession'
  <1>1. chat' \subseteq Button /\ OfferInv'
    BY HarmlessOffer, Answered DEF HasServed
  <1>2. QED
    BY <1>1 DEF Inv, OrderInv, OrderFromOwnSession, Aside

LEMMA EnterInv ==
  ASSUME Inv, NEW t \in Table, Enter(t), Aside
  PROVE  Inv'
  <1>1. orders' = orders /\ chosen' = chosen /\ SendCategories(Home[t])
    BY DEF Enter
  <1>2. PICK S \in SUBSET Harmless : chat' = chat \cup S
    BY <1>1, HomeType, Categories
  <1>3. chat' \subseteq Button /\ OfferInv' /\ OrderInv' /\ OrderFromOwnSession'
    BY <1>1, <1>2, SameOrders
  <1>4. session' \in Session /\ cart' \subseteq Item /\ SeatedInv'
    <2>1. CASE Seated /\ session.table = t
      BY <2>1, <1>1 DEF Enter, Inv, TypeOK, SeatedInv, Seated
    <2>2. CASE ~(Seated /\ session.table = t)
      <3>1. /\ session.visit < MaxVisit
            /\ session' = [visit |-> session.visit + 1, table |-> t, live |-> TRUE, bill |-> FALSE]
            /\ cart' = {}
        BY <2>2 DEF Enter, CartOfNewSession
      <3>2. session.visit + 1 \in 1..MaxVisit
        BY <3>1, BotAssumption DEF Inv, TypeOK, Session
      <3>3. QED
        BY <3>1, <3>2, BotAssumption DEF Session, SeatedInv, Seated
    <2>3. QED
      BY <2>1, <2>2
  <1>5. QED
    BY <1>1, <1>3, <1>4 DEF Inv, TypeOK, Aside

LEMMA SelectTableInv ==
  ASSUME Inv, NEW t \in Table, SelectTable(t), Aside
  PROVE  Inv'
  BY EnterInv, ErrorInv DEF SelectTable

-----------------------------------------------------------------------------
(* The handlers of a guest who has a session. *)

LEMMA SendDishesInv ==
  ASSUME Inv, NEW c, SendDishes(c), Aside
  PROVE  Inv'
  <1>1. CASE c # Here
    BY <1>1, ErrorInv DEF SendDishes
  <1>2. CASE c = Here
    <2> DEFINE S == {Btn("ADD_ITEM", i) : i \in {j \in available : Home[j] = Here}} \cup Do({"VIEW_MENU"})
    <2>1. S \in SUBSET Harmless
      BY OtherButtons, PlainButtons DEF Inv, TypeOK
    <2>2. chat' = chat \cup S /\ AnswerOnly
      BY <1>2 DEF SendDishes, Offer
    <2> HIDE DEF S
    <2>3. QED
      BY <2>1, <2>2, HarmlessStep
  <1>3. QED
    BY <1>1, <1>2

LEMMA AddItemInv ==
  ASSUME Inv, Seated, NEW i \in Item, AddItem(i), Aside
  PROVE  Inv'
  <1>1. CASE ~Orderable(i)
    BY <1>1, ErrorInv DEF AddItem
  <1>2. CASE Orderable(i)
    <2> DEFINE S == Do({"VIEW_CART", "VIEW_MENU", "CHECKOUT"})
               n == session.visit
    <2>1. /\ cart' = cart \cup {i}
          /\ chosen' = [chosen EXCEPT ![n] = chosen[n] \cup {i}]
          /\ session' = session /\ orders' = orders
          /\ chat' = chat \cup S
      BY <1>2 DEF AddItem, Offer
    <2>2. n \in 1..MaxVisit
      BY DEF Inv, SeatedInv
    <2>3. S \in SUBSET Button /\ \A k : Btn("REQUEST_BILL", k) \notin S
      BY PlainButtons, HarmlessOffer
    <2> HIDE DEF S
    <2>4. chat' \subseteq Button /\ OfferInv'
      BY <2>1, <2>3, Answered DEF HasServed
    <2>5. /\ chosen' \in [1..MaxVisit -> SUBSET Item]
          /\ chosen'[n] = chosen[n] \cup {i}
          /\ \A k \in 1..MaxVisit : chosen[k] \subseteq chosen'[k]
      BY <2>1, <2>2 DEF Inv, TypeOK
    <2>6. SeatedInv'
      BY <2>1, <2>2, <2>5 DEF Inv, SeatedInv, Seated
    <2>7. OrderInv' /\ OrderFromOwnSession'
      BY <2>1, <2>5 DEF Inv, OrderInv, OrderFromOwnSession, Aside
    <2>8. QED
      BY <2>1, <2>4, <2>5, <2>6, <2>7 DEF Inv, TypeOK, Aside
  <1>3. QED
    BY <1>1, <1>2

LEMMA SendCartInv ==
  ASSUME Inv, SendCart, Aside
  PROVE  Inv'
  <1> DEFINE S == Do(IF cart = {} THEN {"VIEW_MENU"} ELSE {"CHECKOUT", "VIEW_MENU", "CLEAR_CART"})
  <1>1. S \in SUBSET Harmless
    BY PlainButtons
  <1>2. chat' = chat \cup S /\ AnswerOnly
    BY DEF SendCart, Offer
  <1> HIDE DEF S
  <1>3. QED
    BY <1>1, <1>2, HarmlessStep

LEMMA ClearCartInv ==
  ASSUME Inv, ClearCart, Aside
  PROVE  Inv'
  <1> DEFINE S == Do({"VIEW_MENU"})
  <1>1. S \in SUBSET Harmless
    BY PlainButtons
  <1>2. cart' = {} /\ session' = session /\ orders' = orders /\ chosen' = chosen /\ chat' = chat \cup S
    BY DEF ClearCart, Offer
  <1> HIDE DEF S
  <1>3. chat' \subseteq Button /\ OfferInv' /\ OrderInv' /\ OrderFromOwnSession'
    BY <1>1, <1>2, SameOrders
  <1>4. QED
    BY <1>2, <1>3 DEF Inv, TypeOK, SeatedInv, Seated, Aside

LEMMA CheckoutInv ==
  ASSUME Inv, Seated, Checkout, Aside
  PROVE  Inv'
  <1>1. CASE ~CanCheckOut
    BY <1>1, ErrorInv DEF Checkout
  <1>2. CASE CanCheckOut
    <2> DEFINE S == Do({"ORDER_STATUS", "VIEW_MENU"})
               row == [visit |-> session.visit, items |-> cart, status |-> "NEW"]
    <2>1. /\ cart' = {} /\ session' = session /\ chosen' = chosen
          /\ chat' = chat \cup S
      BY <1>2 DEF Checkout, Offer
    <2>2. PICK o \in 1..MaxOrder :
             orders[o].status = "none" /\ orders' = [orders EXCEPT ![o] = row]
      BY <1>2 DEF Checkout
    <2>3. /\ session.visit \in 1..MaxVisit
          /\ cart \subseteq chosen[session.visit]
          /\ cart \subseteq Item
      BY DEF Inv, SeatedInv, TypeOK
    <2>4. row \in OrderRow /\ row.status = "NEW" /\ row.visit = session.visit /\ row.items = cart
      BY <2>3 DEF OrderRow, OrderStatus
    <2> HIDE DEF row
    <2>5. /\ orders' \in [1..MaxOrder -> OrderRow]
          /\ orders'[o] = row
          /\ \A p \in 1..MaxOrder : p # o => orders'[p] = orders[p]
      BY <2>2, <2>4 DEF Inv, TypeOK
    <2>6. \A n : HasServed(n) => HasServed(n)'
      BY <2>2, <2>5 DEF HasServed
    <2>7. S \in SUBSET Button /\ \A k : Btn("REQUEST_BILL", k) \notin S
      BY PlainButtons, HarmlessOffer
    <2> HIDE DEF S
    <2>8. chat' \subseteq Button /\ OfferInv'
      BY <2>1, <2>6, <2>7, Answered
    <2>9. OrderInv' /\ OrderFromOwnSession'
      <3>1. \A d \in Display : moves[d] # NoMove => moves[d].order \in 1..MaxOrder
        BY DEF Inv, TypeOK, Move
      <3>2. \A p \in 1..MaxOrder : orders[p].status # "none" => orders'[p] = orders[p]
        BY <2>2, <2>5
      <3>3. OrderInv'
        BY <2>3, <2>4, <2>5, <3>1, <3>2 DEF Inv, OrderInv, Aside
      <3>4. OrderFromOwnSession'
        BY <2>1, <2>3, <2>4, <2>5 DEF Inv, OrderFromOwnSession
      <3>5. QED
        BY <3>3, <3>4
    <2>10. QED
      BY <2>1, <2>5, <2>8, <2>9 DEF Inv, TypeOK, SeatedInv, Seated, Aside
  <1>3. QED
    BY <1>1, <1>2

\* The bill is offered to a guest who has been served in this session.
LEMMA BillOffered ==
  ASSUME Inv, Seated
  PROVE  /\ OfferBill \subseteq Button
         /\ \A n : Btn("REQUEST_BILL", n) \in OfferBill => HasServed(n)
  <1>1. session.visit \in 1..MaxVisit
    BY DEF Inv, SeatedInv
  <1>2. Served # {} => HasServed(session.visit)
    BY DEF Served, Placed, HasServed
  <1>3. \A b \in OfferBill : b = Btn("REQUEST_BILL", session.visit) /\ Served # {}
    BY DEF OfferBill
  <1>4. \A n : Btn("REQUEST_BILL", n) = Btn("REQUEST_BILL", session.visit) => n = session.visit
    BY DEF Btn
  <1>5. OfferBill \subseteq Button
    BY <1>1, <1>3 DEF Button
  <1>6. QED
    BY <1>2, <1>3, <1>4, <1>5

LEMMA SendStatusInv ==
  ASSUME Inv, Seated, SendStatus, Aside
  PROVE  Inv'
  <1>1. CASE Placed = {}
    BY <1>1, PlainButtons, HarmlessStep DEF SendStatus, Offer
  <1>2. CASE Placed # {}
    <2> DEFINE R == Do({"ORDER_STATUS", "VIEW_MENU"})
               S == R \cup OfferBill
    <2>1. R \in SUBSET Button /\ \A k : Btn("REQUEST_BILL", k) \notin R
      BY PlainButtons, HarmlessOffer
    <2>2. chat' = chat \cup S /\ AnswerOnly
      BY <1>2 DEF SendStatus, Offer
    <2> HIDE DEF R
    <2>3. S \in SUBSET Button /\ \A n : Btn("REQUEST_BILL", n) \in S => HasServed(n)
      BY <2>1, BillOffered
    <2> HIDE DEF S
    <2>4. QED
      BY <2>2, <2>3, AnswerStep
  <1>3. QED
    BY <1>1, <1>2

LEMMA RequestBillInv ==
  ASSUME Inv, RequestBill, Aside
  PROVE  Inv'
  <1> DEFINE S == Do({"ORDER_STATUS", "VIEW_MENU"})
  <1>1. S \in SUBSET Harmless
    BY PlainButtons
  <1>2. /\ session' = [session EXCEPT !.bill = session.bill \/ Served # {}]
        /\ cart' = cart /\ orders' = orders /\ chosen' = chosen /\ chat' = chat \cup S
    BY DEF RequestBill, Offer
  <1> HIDE DEF S
  <1>3. chat' \subseteq Button /\ OfferInv' /\ OrderInv' /\ OrderFromOwnSession'
    BY <1>1, <1>2, SameOrders
  <1>4. /\ session' \in Session /\ session'.live = session.live
        /\ session'.visit = session.visit /\ session'.table = session.table
    BY <1>2 DEF Inv, TypeOK, Session
  <1>5. QED
    BY <1>2, <1>3, <1>4 DEF Inv, TypeOK, SeatedInv, Seated, Aside

LEMMA WelcomeBackInv ==
  ASSUME Inv, WelcomeBack, Aside
  PROVE  Inv'
  BY PlainButtons, HarmlessStep DEF WelcomeBack, Offer

LEMMA HereType ==
  ASSUME Inv, Seated
  PROVE  Here \in Restaurant
  BY HomeType DEF Inv, SeatedInv, Here

-----------------------------------------------------------------------------
(* Steps of the guest. *)

LEMMA SayInv ==
  ASSUME Inv, NEW words \in Texts, Say(words)
  PROVE  Inv'
  <1>1. Aside
    BY DEF Say, Aside
  <1>2. CASE ~Seated
    BY <1>1, <1>2, OfferTablesInv DEF Say
  <1>3. CASE Seated /\ RequestBill
    BY <1>1, <1>3, RequestBillInv
  <1>4. CASE Seated /\ SendCart
    BY <1>1, <1>4, SendCartInv
  <1>5. CASE Seated /\ Checkout
    BY <1>1, <1>5, CheckoutInv
  <1>6. CASE Seated /\ SendStatus
    BY <1>1, <1>6, SendStatusInv
  <1>7. CASE Seated /\ SendCategories(Here) /\ AnswerOnly
    BY <1>1, <1>7, HereType, SendCategoriesInv
  <1>8. CASE Seated /\ WelcomeBack
    BY <1>1, <1>8, WelcomeBackInv
  <1>9. QED
    BY <1>2, <1>3, <1>4, <1>5, <1>6, <1>7, <1>8 DEF Say

LEMMA TapInv ==
  ASSUME Inv, NEW b, Tap(b)
  PROVE  Inv'
  <1>1. Aside /\ b \in Button
    BY DEF Tap, Inv, TypeOK, Aside
  <1>2. CASE b.do = "SELECT_TABLE" /\ SelectTable(b.on)
    BY <1>1, <1>2, Operand, SelectTableInv
  <1>3. CASE OfferTables
    BY <1>1, <1>3, OfferTablesInv
  <1>4. CASE Seated /\ SendCategories(Here) /\ AnswerOnly
    BY <1>1, <1>4, HereType, SendCategoriesInv
  <1>5. CASE SendDishes(b.on)
    BY <1>1, <1>5, SendDishesInv
  <1>6. CASE Seated /\ b.do = "ADD_ITEM" /\ AddItem(b.on)
    BY <1>1, <1>6, Operand, AddItemInv
  <1>7. CASE SendCart
    BY <1>1, <1>7, SendCartInv
  <1>8. CASE ClearCart
    BY <1>1, <1>8, ClearCartInv
  <1>9. CASE Seated /\ Checkout
    BY <1>1, <1>9, CheckoutInv
  <1>10. CASE Seated /\ SendStatus
    BY <1>1, <1>10, SendStatusInv
  <1>11. CASE RequestBill
    BY <1>1, <1>11, RequestBillInv
  <1>12. QED
    BY <1>2, <1>3, <1>4, <1>5, <1>6, <1>7, <1>8, <1>9, <1>10, <1>11 DEF Tap

-----------------------------------------------------------------------------
(* Steps of the staff, and time. *)

\* A display gives an order a status; a session that loses its served order by
\* that is noted.
LEMMA StatusSet ==
  ASSUME Inv, NEW o \in 1..MaxOrder, NEW s \in OrderStatus, orders[o].status # "none",
         SetStatus(o, s), UNCHANGED <<session, cart, available, chat, chosen>>,
         moves' \in [Display -> Move], \A d \in Display : moves'[d] \in {NoMove, moves[d]}
  PROVE  Inv'
  <1>1. /\ orders' = [orders EXCEPT ![o].status = s]
        /\ unserved \subseteq unserved'
        /\ orders[o].status = "SERVED" /\ s # "SERVED" => orders[o].visit \in unserved'
        /\ unserved' \subseteq unserved \cup {orders[o].visit}
    BY DEF SetStatus
  <1>2. orders[o].visit \in 1..MaxVisit
    BY DEF Inv, OrderInv
  <1>3. s # "none"
    BY DEF OrderStatus
  <1>4. /\ orders' \in [1..MaxOrder -> OrderRow]
        /\ orders'[o].status = s
        /\ \A p \in 1..MaxOrder : /\ orders'[p].visit = orders[p].visit
                                  /\ orders'[p].items = orders[p].items
                                  /\ p # o => orders'[p].status = orders[p].status
    BY <1>1 DEF Inv, TypeOK, OrderRow
  <1>5. unserved' \subseteq 1..MaxVisit
    BY <1>1, <1>2 DEF Inv, TypeOK
  <1>6. ASSUME NEW n, HasServed(n) PROVE HasServed(n)' \/ n \in unserved'
    <2>1. PICK p \in 1..MaxOrder : orders[p].status = "SERVED" /\ orders[p].visit = n
      BY <1>6 DEF HasServed
    <2>2. CASE p # o
      BY <1>4, <2>1, <2>2 DEF HasServed
    <2>3. CASE p = o /\ s # "SERVED"
      BY <1>1, <2>1, <2>3
    <2>4. CASE p = o /\ s = "SERVED"
      BY <1>4, <2>1, <2>4 DEF HasServed
    <2>5. QED
      BY <2>2, <2>3, <2>4
  <1>7. OfferInv'
    BY <1>1, <1>6 DEF Inv, OfferInv
  <1>8. OrderInv' /\ OrderFromOwnSession'
    <2>1. \A d \in Display : moves[d] # NoMove => moves[d].order \in 1..MaxOrder
      BY DEF Inv, TypeOK, Move
    <2>2. \A p \in 1..MaxOrder : orders'[p].status # "none" <=> orders[p].status # "none"
      BY <1>3, <1>4
    <2>3. OrderInv'
      BY <1>4, <2>1, <2>2 DEF Inv, OrderInv
    <2>4. OrderFromOwnSession'
      BY <1>4, <2>2 DEF Inv, OrderFromOwnSession
    <2>5. QED
      BY <2>3, <2>4
  <1>9. QED
    BY <1>4, <1>5, <1>7, <1>8 DEF Inv, TypeOK, SeatedInv, Seated

LEMMA AllowedStatus ==
  ASSUME Inv, NEW o \in 1..MaxOrder, orders[o].status # "none",
         NEW s \in AllowedTransitions[orders[o].status]
  PROVE  s \in OrderStatus
  <1>1. orders[o].status \in OrderStatus
    BY DEF Inv, TypeOK, OrderRow
  <1>2. QED
    BY <1>1 DEF AllowedTransitions, OrderStatus

LEMMA KitchenMovesInv ==
  ASSUME Inv, NEW o \in 1..MaxOrder, KitchenMoves(o)
  PROVE  Inv'
  <1>1. PICK s \in AllowedTransitions[orders[o].status] : SetStatus(o, s)
    BY DEF KitchenMoves
  <1>2. /\ orders[o].status # "none"
        /\ UNCHANGED <<session, cart, available, moves, chat, chosen>>
    BY DEF KitchenMoves
  <1>3. s \in OrderStatus /\ moves' \in [Display -> Move]
    BY <1>2, AllowedStatus DEF Inv, TypeOK
  <1>4. QED
    BY <1>1, <1>2, <1>3, StatusSet

LEMMA KitchenReadsInv ==
  ASSUME Inv, NEW d \in Display, KitchenReads(d)
  PROVE  Inv'
  <1>1. PICK o \in 1..MaxOrder :
            /\ orders[o].status # "none"
            /\ \E s \in AllowedTransitions[orders[o].status] :
                   moves' = [moves EXCEPT ![d] = [order |-> o, status |-> s]]
    BY DEF KitchenReads
  <1>2. PICK s \in OrderStatus : moves' = [moves EXCEPT ![d] = [order |-> o, status |-> s]]
    BY <1>1, AllowedStatus
  <1>3. moves' \in [Display -> Move]
    BY <1>2 DEF Inv, TypeOK, Move
  <1>4. UNCHANGED <<session, cart, orders, available, chat, chosen, unserved>>
    BY DEF KitchenReads
  <1>5. QED
    <2>1. OrderInv'
      BY <1>1, <1>2, <1>4 DEF Inv, TypeOK, OrderInv
    <2>2. QED
      BY <1>3, <1>4, <2>1 DEF Inv, TypeOK, SeatedInv, Seated, OfferInv, HasServed, OrderFromOwnSession

LEMMA KitchenWritesInv ==
  ASSUME Inv, NEW d \in Display, KitchenWrites(d)
  PROVE  Inv'
  <1>1. /\ moves[d] # NoMove
        /\ SetStatus(moves[d].order, moves[d].status)
        /\ moves' = [moves EXCEPT ![d] = NoMove]
        /\ UNCHANGED <<session, cart, available, chat, chosen>>
    BY DEF KitchenWrites
  <1>2. moves[d].order \in 1..MaxOrder /\ moves[d].status \in OrderStatus
    BY <1>1 DEF Inv, TypeOK, Move
  <1>3. orders[moves[d].order].status # "none"
    BY <1>1 DEF Inv, OrderInv
  <1>4. moves' \in [Display -> Move] /\ \A e \in Display : moves'[e] \in {NoMove, moves[e]}
    BY <1>1 DEF Inv, TypeOK, Move
  <1>5. QED
    BY <1>1, <1>2, <1>3, <1>4, StatusSet

\* The session ends.
LEMMA SessionEnds ==
  ASSUME Inv, session' \in Session, session'.live = FALSE,
         UNCHANGED <<cart, orders, available, moves, chat, chosen, unserved>>
  PROVE  Inv'
  BY DEF Inv, TypeOK, SeatedInv, Seated, OrderInv, OfferInv, HasServed, OrderFromOwnSession

LEMMA SettleInv ==
  ASSUME Inv, Settle
  PROVE  Inv'
  <1>1. session' \in Session /\ session'.live = FALSE
    BY DEF Settle, Inv, TypeOK, Session
  <1>2. QED
    BY <1>1, SessionEnds DEF Settle

LEMMA SessionTimesOutInv ==
  ASSUME Inv, SessionTimesOut
  PROVE  Inv'
  <1>1. session' \in Session /\ session'.live = FALSE
    BY DEF SessionTimesOut, Inv, TypeOK, Session
  <1>2. QED
    BY <1>1, SessionEnds DEF SessionTimesOut

LEMMA MenuChangesInv ==
  ASSUME Inv, NEW i \in Item, MenuChanges(i)
  PROVE  Inv'
  BY DEF MenuChanges, Inv, TypeOK, SeatedInv, Seated, OrderInv, OfferInv, HasServed, OrderFromOwnSession

LEMMA NextInv ==
  ASSUME Inv, [Next]_vars
  PROVE  Inv'
  <1>1. CASE UNCHANGED vars
    BY <1>1 DEF vars, Inv, TypeOK, SeatedInv, Seated, OrderInv, OfferInv, HasServed, OrderFromOwnSession
  <1>2. ASSUME NEW t \in Table, Scan(t)
        PROVE  Inv'
    BY <1>2, EnterInv DEF Scan, Aside
  <1>3. QED
    BY <1>1, <1>2, SayInv, TapInv, KitchenMovesInv, KitchenReadsInv, KitchenWritesInv,
       SettleInv, SessionTimesOutInv, MenuChangesInv DEF Next

-----------------------------------------------------------------------------
\* The inductive invariant of a conversation.
THEOREM Invariance == Spec => []Inv
  BY InitInv, NextInv, PTL DEF Spec

\* Session, cart, orders and chat keep their types whatever is written and
\* tapped (process_webhook_payload).
THEOREM TypeCorrect == Spec => []TypeOK
  <1>1. Inv => TypeOK
    BY DEF Inv
  <1>2. QED
    BY Invariance, <1>1, PTL

\* What a guest orders was chosen in the session that pays for it, however often
\* she changes tables and whichever old button she taps (checkout_cart,
\* create_or_resume_direct_session).
THEOREM OwnOrders == Spec => []OrderFromOwnSession
  <1>1. Inv => OrderFromOwnSession
    BY DEF Inv
  <1>2. QED
    BY Invariance, <1>1, PTL

\* A bill that the chat offers can be had as long as its session lasts: it was
\* offered when an order was served, and only a display that had read this order
\* before takes that back (_send_order_status, generate_or_get_bill,
\* transition_order_status).
THEOREM BillThere == Spec => []OfferedBillExists
  <1>1. Inv => OfferedBillExists
    <2> SUFFICES ASSUME Inv, Seated, Btn("REQUEST_BILL", session.visit) \in chat
                 PROVE  Served # {} \/ session.visit \in unserved
      BY DEF OfferedBillExists
    <2> SUFFICES ASSUME session.visit \notin unserved PROVE Served # {}
      OBVIOUS
    <2>1. PICK o \in 1..MaxOrder : orders[o].status = "SERVED" /\ orders[o].visit = session.visit
      BY DEF Inv, SeatedInv, OfferInv, HasServed
    <2>2. o \in Served
      BY <2>1 DEF Served, Placed
    <2>3. QED
      BY <2>2
  <1>2. QED
    BY Invariance, <1>1, PTL

=============================================================================
