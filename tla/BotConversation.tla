---------------------------- MODULE BotConversation ----------------------------
(***************************************************************************)
(* The WhatsApp conversation of one guest: which handler a text or a tap   *)
(* on a button reaches, what the handler does to session, cart, orders and *)
(* bill, and which buttons its answer offers.                              *)
(*                                                                         *)
(* Buttons stay in the chat, so one that was offered long ago, in another  *)
(* session or at another restaurant, can be tapped at any time.  A message *)
(* is handled in one step here; how requests of guests interleave is the   *)
(* subject of DiningSession, CartItems and SessionEntry.  The displays of  *)
(* the kitchen may read an order in one step and write it in a later one.  *)
(* Answers are left out except for the buttons they carry; a menu has one  *)
(* category per restaurant.                                                *)
(***************************************************************************)
EXTENDS Naturals, OrderLifecycle

CONSTANTS
    Restaurant,   \* the restaurants, each with one menu category
    Table,        \* their tables
    Item,         \* their menu items
    Home,         \* the restaurant of each table and item
    Default,      \* what _get_default_restaurant may return
    Texts,        \* the texts the guest may write, each a set of Keywords
    Display,      \* slots for requests of kitchen displays that others get into
    None,         \* not a table or an operand of a button
    MaxVisit,     \* how many sessions the guest ever opens (bound)
    MaxOrder      \* how many orders she ever places (bound)

\* The words the bot looks for; "check" is part of "checkout".
Keyword == {"bill", "check", "cart", "checkout", "pay", "confirm", "status", "order", "menu"}

ASSUME BotAssumption ==
    /\ Home \in [Table \cup Item -> Restaurant]
    /\ Default \subseteq Restaurant
    /\ Texts \subseteq SUBSET Keyword
    /\ \A words \in Texts : "checkout" \in words => "check" \in words
    /\ None \notin Table \cup Item \cup Restaurant
    /\ MaxVisit \in Nat /\ MaxOrder \in Nat

VARIABLES
    session,     \* the session of the guest: the latest one
    cart,        \* the items in its cart
    orders,      \* the orders of the guest
    available,   \* the items that are available
    moves,       \* the move each display has found allowed and not written yet
    chat,        \* the buttons in the chat
    chosen,      \* history: the items chosen in each session
    unserved     \* history: the sessions with a served order that a display
                 \* has written over

vars == <<session, cart, orders, available, moves, chat, chosen, unserved>>

Session == [visit : 0..MaxVisit, table : Table \cup {None}, live : BOOLEAN, bill : BOOLEAN]

OrderRow == [visit  : 0..MaxVisit,
             items  : SUBSET Item,
             status : OrderStatus \cup {"none"}]

\* Order 0 stands for no move.
NoMove == [order |-> 0, status |-> "none"]

Move == [order : 1..MaxOrder, status : OrderStatus] \cup {NoMove}

\* REQUEST_BILL carries no operand in the code; here it has the session it
\* was offered in.
Btn(do, on) == [do |-> do, on |-> on]

Plain == {Btn(do, None) : do \in {"VIEW_MENU", "VIEW_CART", "CLEAR_CART", "CHECKOUT", "ORDER_STATUS"}}

Button ==
    Plain \cup {Btn("SELECT_TABLE", t) : t \in Table} \cup {Btn("VIEW_CAT", r) : r \in Restaurant}
          \cup {Btn("ADD_ITEM", i) : i \in Item} \cup {Btn("REQUEST_BILL", n) : n \in 1..MaxVisit}

TypeOK ==
    /\ session \in Session
    /\ cart \subseteq Item
    /\ orders \in [1..MaxOrder -> OrderRow]
    /\ available \subseteq Item
    /\ moves \in [Display -> Move]
    /\ chat \subseteq Button
    /\ chosen \in [1..MaxVisit -> SUBSET Item]
    /\ unserved \subseteq 1..MaxVisit

Init ==
    /\ session = [visit |-> 0, table |-> None, live |-> FALSE, bill |-> FALSE]
    /\ cart = {}
    /\ orders = [o \in 1..MaxOrder |-> [visit |-> 0, items |-> {}, status |-> "none"]]
    /\ available = Item
    /\ moves = [d \in Display |-> NoMove]
    /\ chat = {}
    /\ chosen = [n \in 1..MaxVisit |-> {}]
    /\ unserved = {}

-----------------------------------------------------------------------------
Seated == session.live

Here == Home[session.table]

Placed == {o \in 1..MaxOrder : orders[o].status # "none" /\ orders[o].visit = session.visit}

Served == {o \in Placed : orders[o].status = "SERVED"}

Offer(buttons) == chat' = chat \cup buttons

Do(names) == {Btn(do, None) : do \in names}

\* The answer is all there is to it.
AnswerOnly == UNCHANGED <<session, cart, orders, chosen>>

Error == UNCHANGED chat /\ AnswerOnly

-----------------------------------------------------------------------------
(* Sessions and tables *)

TablesOf(r) == {t \in Table : Home[t] = r}

OfferTables ==
    /\ \E r \in Default : Offer({Btn("SELECT_TABLE", t) : t \in TablesOf(r)})
    /\ AnswerOnly

SendCategories(r) == Offer({Btn("VIEW_CAT", r)})

\* Fault: the cart goes with the guest.
SameCart == cart

\* Fault: the cart starts with a line for no item.
BlankLine == {None}

\* A cart belongs to a session; the one of a new session is empty.
CartOfNewSession == {}

\* create_or_resume_direct_session, and then the welcome with the menu.
Enter(t) ==
    /\ IF Seated /\ session.table = t
       THEN UNCHANGED <<session, cart>>
       ELSE /\ session.visit < MaxVisit
            /\ session' = [visit |-> session.visit + 1, table |-> t, live |-> TRUE, bill |-> FALSE]
            /\ cart' = CartOfNewSession
    /\ SendCategories(Home[t])
    /\ UNCHANGED <<orders, chosen>>

\* The table tapped must belong to the default restaurant of the moment.
SelectTable(t) == \E r \in Default : IF Home[t] = r THEN Enter(t) ELSE Error

-----------------------------------------------------------------------------
(* The handlers of a guest who has a session *)

SendDishes(category) ==
    IF category # Here
    THEN Error
    ELSE /\ Offer({Btn("ADD_ITEM", i) : i \in {j \in available : Home[j] = Here}} \cup Do({"VIEW_MENU"}))
         /\ AnswerOnly

Orderable(i) == i \in available /\ Home[i] = Here

AddItem(i) ==
    IF Orderable(i)
    THEN /\ cart' = cart \cup {i}
         /\ chosen' = [chosen EXCEPT ![session.visit] = @ \cup {i}]
         /\ Offer(Do({"VIEW_CART", "VIEW_MENU", "CHECKOUT"}))
         /\ UNCHANGED <<session, orders>>
    ELSE Error

SendCart ==
    /\ Offer(Do(IF cart = {} THEN {"VIEW_MENU"} ELSE {"CHECKOUT", "VIEW_MENU", "CLEAR_CART"}))
    /\ AnswerOnly

ClearCart ==
    /\ cart' = {}
    /\ Offer(Do({"VIEW_MENU"}))
    /\ UNCHANGED <<session, orders, chosen>>

CanCheckOut == cart # {} /\ cart \subseteq available

Checkout ==
    IF CanCheckOut
    THEN /\ \E o \in 1..MaxOrder :
                /\ orders[o].status = "none"
                /\ \A p \in 1..(o - 1) : orders[p].status # "none"
                /\ orders' = [orders EXCEPT ![o] = [visit |-> session.visit, items |-> cart, status |-> "NEW"]]
         /\ cart' = {}
         /\ Offer(Do({"ORDER_STATUS", "VIEW_MENU"}))
         /\ UNCHANGED <<session, chosen>>
    ELSE Error

\* Fault: the bill is offered as soon as an order was placed.
OfferBillEarly == {Btn("REQUEST_BILL", n) : n \in {session.visit : o \in Placed}}

\* The bill is offered when something was served.
OfferBill == {Btn("REQUEST_BILL", n) : n \in {session.visit : o \in Served}}

SendStatus ==
    /\ Offer(IF Placed = {} THEN Do({"VIEW_MENU"})
                            ELSE Do({"ORDER_STATUS", "VIEW_MENU"}) \cup OfferBill)
    /\ AnswerOnly

RequestBill ==
    /\ session' = [session EXCEPT !.bill = @ \/ Served # {}]
    /\ Offer(Do({"ORDER_STATUS", "VIEW_MENU"}))
    /\ UNCHANGED <<cart, orders, chosen>>

WelcomeBack ==
    /\ Offer(Do({"VIEW_MENU", "VIEW_CART", "ORDER_STATUS"}))
    /\ AnswerOnly

-----------------------------------------------------------------------------
(* Routing *)

\* The words looked for first decide: "check", so "checkout", asks for the bill.
Intent(words) ==
    IF     words \cap {"bill", "check"} # {}              THEN "bill"
    ELSE IF words \cap {"cart"} # {}                       THEN "cart"
    ELSE IF words \cap {"checkout", "pay", "confirm"} # {} THEN "checkout"
    ELSE IF words \cap {"status", "order"} # {}            THEN "status"
    ELSE IF words \cap {"menu"} # {}                       THEN "menu"
    ELSE "welcome"

Say(words) ==
    /\ IF ~Seated
       THEN OfferTables
       ELSE \/ Intent(words) = "bill" /\ RequestBill
            \/ Intent(words) = "cart" /\ SendCart
            \/ Intent(words) = "checkout" /\ Checkout
            \/ Intent(words) = "status" /\ SendStatus
            \/ Intent(words) = "menu" /\ SendCategories(Here) /\ AnswerOnly
            \/ Intent(words) = "welcome" /\ WelcomeBack
    /\ UNCHANGED <<available, moves, unserved>>

\* "START <token>", or the token of a table by itself.
Scan(t) == Enter(t) /\ UNCHANGED <<available, moves, unserved>>

\* A tap on a button that is in the chat.
Tap(b) ==
    /\ b \in chat
    /\ \/ b.do = "SELECT_TABLE" /\ SelectTable(b.on)
       \/ b.do # "SELECT_TABLE" /\ ~Seated /\ OfferTables
       \/ Seated /\ \/ b.do = "VIEW_MENU" /\ SendCategories(Here) /\ AnswerOnly
                    \/ b.do = "VIEW_CAT" /\ SendDishes(b.on)
                    \/ b.do = "ADD_ITEM" /\ AddItem(b.on)
                    \/ b.do = "VIEW_CART" /\ SendCart
                    \/ b.do = "CLEAR_CART" /\ ClearCart
                    \/ b.do = "CHECKOUT" /\ Checkout
                    \/ b.do = "ORDER_STATUS" /\ SendStatus
                    \/ b.do = "REQUEST_BILL" /\ RequestBill
    /\ UNCHANGED <<available, moves, unserved>>

-----------------------------------------------------------------------------
(* The staff, and time *)

\* The status column gets the status s; a served order may lose its status.
SetStatus(o, s) ==
    /\ orders' = [orders EXCEPT ![o].status = s]
    /\ unserved' = unserved \cup
           {n \in {orders[o].visit} : orders[o].status = "SERVED" /\ s # "SERVED"}

\* transition_order_status, when nothing comes between its read and its write.
KitchenMoves(o) ==
    /\ orders[o].status # "none"
    /\ \E s \in AllowedTransitions[orders[o].status] : SetStatus(o, s)
    /\ UNCHANGED <<session, cart, available, moves, chat, chosen>>

\* Otherwise it reads the order, without a lock, and checks the move ...
KitchenReads(d) ==
    /\ moves[d] = NoMove
    /\ \E o \in {p \in 1..MaxOrder : orders[p].status # "none"} :
           \E s \in AllowedTransitions[orders[o].status] :
               moves' = [moves EXCEPT ![d] = [order |-> o, status |-> s]]
    /\ UNCHANGED <<session, cart, orders, available, chat, chosen, unserved>>

\* ... and writes it over whatever the status is by then.
KitchenWrites(d) ==
    /\ moves[d] # NoMove
    /\ SetStatus(moves[d].order, moves[d].status)
    /\ moves' = [moves EXCEPT ![d] = NoMove]
    /\ UNCHANGED <<session, cart, available, chat, chosen>>

Settle ==
    /\ session.bill
    /\ \A o \in Placed : orders[o].status \notin UnresolvedStatuses
    /\ session' = [session EXCEPT !.live = FALSE, !.bill = FALSE]
    /\ UNCHANGED <<cart, orders, available, moves, chat, chosen, unserved>>

SessionTimesOut ==
    /\ session.live
    /\ session' = [session EXCEPT !.live = FALSE]
    /\ UNCHANGED <<cart, orders, available, moves, chat, chosen, unserved>>

\* An item is sold out, or available again.
MenuChanges(i) ==
    /\ available' = IF i \in available THEN available \ {i} ELSE available \cup {i}
    /\ UNCHANGED <<session, cart, orders, moves, chat, chosen, unserved>>

Next ==
    \/ \E words \in Texts : Say(words)
    \/ \E t \in Table : Scan(t)
    \/ \E b \in chat : Tap(b)
    \/ \E o \in 1..MaxOrder : KitchenMoves(o)
    \/ \E d \in Display : KitchenReads(d) \/ KitchenWrites(d)
    \/ Settle
    \/ SessionTimesOut
    \/ \E i \in Item : MenuChanges(i)

Spec == Init /\ [][Next]_vars

-----------------------------------------------------------------------------
(***************************************************************************)
(* Properties.                                                             *)
(***************************************************************************)

\* An order contains only what was chosen in the session that pays for it,
\* also when the guest changes tables with a full cart (checkout_cart,
\* create_or_resume_direct_session).
OrderFromOwnSession ==
    \A o \in 1..MaxOrder :
        orders[o].status # "none" => orders[o].items \subseteq chosen[orders[o].visit]

\* A bill that the chat offers can be had as long as its session lasts, unless
\* a display that had read the served order before it was served has written
\* over it (_send_order_status, generate_or_get_bill, transition_order_status).
OfferedBillExists ==
    Seated /\ Btn("REQUEST_BILL", session.visit) \in chat
        => session.bill \/ Served # {} \/ session.visit \in unserved

(***************************************************************************)
(* A property the code does not have.                                      *)
(***************************************************************************)

\* A guest who writes 'checkout', as _handle_text_message says she may, has
\* ordered what her cart holds.
CheckoutCommandOrders ==
    [][\A words \in Texts :
           "checkout" \in words /\ Seated /\ CanCheckOut /\ Say(words) => cart' = {}]_vars

=============================================================================
