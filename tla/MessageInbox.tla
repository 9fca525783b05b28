---------------------------- MODULE MessageInbox ----------------------------
(***************************************************************************)
(* What the webhook promises, with no requests, transactions or locks in   *)
(* sight: messages are handled in groups, each group in one step; a        *)
(* message is handled once; and what the handled messages did to the cart  *)
(* and the orders of the session is done exactly once with it.             *)
(***************************************************************************)
EXTENDS Naturals

CONSTANTS
    Message,    \* the inbound messages
    Addition,   \* those that put a line into the cart; they stand for the line
    Checkout,   \* those that order what the cart holds
    Earlier     \* the additions handled before

VARIABLES
    handled,    \* the messages that need not be handled again
    times,      \* how often each message took effect
    cart,       \* the lines in the cart
    ordered     \* the lines in the order that each checkout placed

vars == <<handled, times, cart, ordered>>

Init ==
    /\ handled = Earlier
    /\ times = [m \in Message |-> IF m \in Earlier THEN 1 ELSE 0]
    /\ cart = Earlier
    /\ ordered = [m \in Message |-> {}]

\* Orders for the checkouts in effect, made of these lines, none in two of them.
Orders(effect, lines) ==
    {order \in [effect \cap Checkout -> SUBSET lines] :
        \A c, d \in effect \cap Checkout : c # d => order[c] \cap order[d] = {}}

\* Some new messages are handled.  Some of them take effect, the others were
\* refused; lines that are not ordered are in the cart.
Handle(new, effect) ==
    /\ handled' = handled \cup new
    /\ times' = [m \in Message |-> IF m \in effect THEN 1 ELSE times[m]]
    /\ \E order \in Orders(effect, cart \cup (effect \cap Addition)) :
           /\ ordered' = [m \in Message |-> IF m \in effect \cap Checkout THEN order[m] ELSE ordered[m]]
           /\ cart' = (cart \cup (effect \cap Addition)) \ UNION {order[c] : c \in effect \cap Checkout}

Next == \E new \in SUBSET (Message \ handled) : \E effect \in SUBSET new : Handle(new, effect)

Spec == Init /\ [][Next]_vars

=============================================================================
