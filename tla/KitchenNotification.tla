------------------------ MODULE KitchenNotification ------------------------
(***************************************************************************)
(* The kitchen moves an order on and the guest is told by WhatsApp.        *)
(*                                                                         *)
(* A kitchen request is two database transactions: one moves the order and *)
(* commits; the second looks up the record of the notification, inserts it *)
(* when there is none, sends the message and commits the outcome.  The     *)
(* message is outside of both: a rollback does not take it back, and when  *)
(* its answer is lost the request cannot tell whether it was delivered.    *)
(***************************************************************************)
EXTENDS OrderLifecycle, Naturals, FiniteSets

CONSTANTS
    Kitchen,     \* slots for the requests of the kitchen displays
    Order,       \* the orders of one session
    None,        \* not an order
    MaxRequest,  \* how many requests are made (bound)
    MaxCrash     \* how many of them may die (bound)

ASSUME NotificationAssumption ==
    /\ IsFiniteSet(Kitchen)
    /\ None \notin Order
    /\ MaxRequest \in Nat
    /\ MaxCrash \in Nat

VARIABLES
    order,     \* status of the orders rows
    session,   \* status of the customer_sessions row
    record,    \* committed order_notifications rows, by order and status
    tx,        \* what each request in flight knows
    told,      \* how often the guest was told a status: never, once, 2 = more often
    reached,   \* history: the statuses each order has been committed with
    troubled,  \* history: the notifications some attempt of which failed
    late,      \* history: how many messages reached the guest after the session was closed
    requests,  \* how many requests have been made
    crashes,   \* how many of them have died
    checked    \* a settlement has found every order resolved

vars == <<order, session, record, tx, told, reached, troubled, late, requests, crashes, checked>>

\* The statuses the kitchen can give to an order.
Notified == {"ACCEPTED", "PREPARING", "READY", "SERVED", "CANCELLED"}

\* PENDING is never committed: the record is committed with the outcome.
DeliveryStatus == {"none", "SENT", "FAILED"}

Location == {"idle", "read", "moved", "session open", "no record",
             "record ready", "answered"}

Tx == [pc      : Location,
       order   : Order \cup {None},
       status  : Notified \cup {"none"},
       fresh   : BOOLEAN,     \* it has inserted the record itself
       success : BOOLEAN]     \* what the WhatsApp client reported

Idle == [pc |-> "idle", order |-> None, status |-> "none",
         fresh |-> FALSE, success |-> FALSE]

TypeOK ==
    /\ order \in [Order -> OrderStatus]
    /\ session \in {"ACTIVE", "CLOSED"}
    /\ record \in [Order \X Notified -> DeliveryStatus]
    /\ tx \in [Kitchen -> Tx]
    /\ told \in [Order \X Notified -> 0..2]
    /\ reached \in [Order -> SUBSET OrderStatus]
    /\ troubled \subseteq Order \X Notified
    /\ late \in Nat
    /\ requests \in 0..MaxRequest
    /\ crashes \in 0..MaxCrash
    /\ checked \in BOOLEAN

\* The orders have just been placed.
Init ==
    /\ order = [o \in Order |-> "NEW"]
    /\ session = "ACTIVE"
    /\ record = [n \in Order \X Notified |-> "none"]
    /\ tx = [r \in Kitchen |-> Idle]
    /\ told = [n \in Order \X Notified |-> 0]
    /\ reached = [o \in Order |-> {"NEW"}]
    /\ troubled = {}
    /\ late = 0
    /\ requests = 0
    /\ crashes = 0
    /\ checked = FALSE

-----------------------------------------------------------------------------
At(r, pc) == tx[r].pc = pc

Become(r, t) == tx' = [tx EXCEPT ![r] = t]

Go(r, pc) == Become(r, [tx[r] EXCEPT !.pc = pc])

End(r) == Become(r, Idle)

\* The notification a request is about.
Key(r) == <<tx[r].order, tx[r].status>>

(* The first transaction: transition_order_status, then db.commit(). *)

\* The order is read without a lock and the move is checked against it.
ReadOrder(r) ==
    /\ At(r, "idle")
    /\ requests < MaxRequest
    /\ requests' = requests + 1
    /\ \E o \in Order : \E s \in AllowedTransitions[order[o]] :
           Become(r, [tx[r] EXCEPT !.pc = "read", !.order = o, !.status = s])
    /\ UNCHANGED <<order, session, record, told, reached, troubled, late, crashes, checked>>

MoveOrder(r) ==
    /\ At(r, "read")
    /\ order' = [order EXCEPT ![tx[r].order] = tx[r].status]
    /\ reached' = [reached EXCEPT ![tx[r].order] = @ \cup {tx[r].status}]
    /\ Go(r, "moved")
    /\ UNCHANGED <<session, record, told, troubled, late, requests, crashes, checked>>

(* The second transaction: send_kitchen_status_notification. *)

\* Fault: the guest is told before the move is committed.
Early == {"read", "moved"}

\* Where the notification starts: after the commit of the move.
Moved == {"moved"}

\* Fault: there is no text for a cancellation.
TemplatesButCancelled == Notified \ {"CANCELLED"}

\* The statuses there is a message for.
Templates == {"ACCEPTED", "PREPARING", "READY", "SERVED", "CANCELLED"}

\* Fault: the status of the session is not looked at.
AnySession == TRUE

\* A closed session gets no message.
Notifiable == session # "CLOSED"

ReadSession(r) ==
    /\ tx[r].pc \in Moved
    /\ IF tx[r].status \in Templates /\ Notifiable THEN Go(r, "session open") ELSE End(r)
    /\ UNCHANGED <<order, session, record, told, reached, troubled, late, requests, crashes, checked>>

\* The idempotency check: a record that is SENT ends the request, one that
\* FAILED is used again.
ReadRecord(r) ==
    /\ At(r, "session open")
    /\ CASE record[Key(r)] = "SENT"   -> End(r)
         [] record[Key(r)] = "FAILED" -> Go(r, "record ready")
         [] record[Key(r)] = "none"   -> Go(r, "no record")
    /\ UNCHANGED <<order, session, record, told, reached, troubled, late, requests, crashes, checked>>

\* Fault: there is no unique constraint.
NoConstraint(r) == FALSE

\* The request has inserted the record and not committed it.
Undecided(r) == tx[r].fresh /\ tx[r].pc \in {"record ready", "answered"}

\* The insert waits for an undecided insert of the same key and fails on
\* uq_order_notification_order_status_type when the record is there; the
\* error ends the request, without a message.
InsertRecord(r) ==
    /\ At(r, "no record")
    /\ \A q \in Kitchen \ {r} : ~(Undecided(q) /\ Key(q) = Key(r))
    /\ IF record[Key(r)] = "none"
       THEN Become(r, [tx[r] EXCEPT !.pc = "record ready", !.fresh = TRUE])
       ELSE End(r)
    /\ UNCHANGED <<order, session, record, told, reached, troubled, late, requests, crashes, checked>>

\* What the WhatsApp API can make of a message: deliver it and say so, refuse
\* it, or deliver it while its answer is lost to a timeout.
Outcome == [delivered : BOOLEAN, success : BOOLEAN] \ {[delivered |-> FALSE, success |-> TRUE]}

Again(n) == IF n < 2 THEN n + 1 ELSE n

Dispatch(r) ==
    /\ At(r, "record ready")
    /\ \E out \in Outcome :
           /\ told' = IF out.delivered THEN [told EXCEPT ![Key(r)] = Again(@)] ELSE told
           /\ Become(r, [tx[r] EXCEPT !.pc = "answered", !.success = out.success])
           /\ troubled' = IF out.success THEN troubled ELSE troubled \cup {Key(r)}
           /\ late' = IF out.delivered /\ session = "CLOSED" THEN late + 1 ELSE late
    /\ UNCHANGED <<order, session, record, reached, requests, crashes, checked>>

\* Fault: a failure leaves the record as it was inserted.
PendingOnFailure(r) == IF tx[r].success THEN "SENT" ELSE "PENDING"

\* Fault: the result of the client is not looked at.
AlwaysSent(r) == "SENT"

\* Only what changed is written: a failure of a request that had read FAILED
\* leaves the row to what another one has made of it.
Verdict(r) == IF tx[r].success THEN "SENT" ELSE IF tx[r].fresh THEN "FAILED" ELSE record[Key(r)]

\* The outcome is written by primary key, over what it is by now.
CommitRecord(r) ==
    /\ At(r, "answered")
    /\ record' = [record EXCEPT ![Key(r)] = Verdict(r)]
    /\ End(r)
    /\ UNCHANGED <<order, session, told, reached, troubled, late, requests, crashes, checked>>

-----------------------------------------------------------------------------
InFlight(r) == ~At(r, "idle")

\* The process dies or loses the database: what is not committed is rolled
\* back, what was sent stays sent, and nobody takes up the request again.
Crash(r) ==
    /\ InFlight(r)
    /\ crashes < MaxCrash
    /\ crashes' = crashes + 1
    /\ End(r)
    /\ troubled' = IF tx[r].status = "none" THEN troubled ELSE troubled \cup {Key(r)}
    /\ UNCHANGED <<order, session, record, told, reached, late, requests, checked>>

\* settle_bill looks at the orders first and closes the session later; the
\* kitchen may move an order in between.
CheckOrders ==
    /\ session = "ACTIVE" /\ ~checked
    /\ \A o \in Order : order[o] \notin UnresolvedStatuses
    /\ checked' = TRUE
    /\ UNCHANGED <<order, session, record, tx, told, reached, troubled, late, requests, crashes>>

CloseSession ==
    /\ session = "ACTIVE" /\ checked
    /\ session' = "CLOSED"
    /\ UNCHANGED <<order, record, tx, told, reached, troubled, late, requests, crashes, checked>>

UpdateOrderStatus(r) ==
    \/ ReadOrder(r) \/ MoveOrder(r) \/ ReadSession(r) \/ ReadRecord(r)
    \/ InsertRecord(r) \/ Dispatch(r) \/ CommitRecord(r)

Next ==
    \/ \E r \in Kitchen : UpdateOrderStatus(r) \/ Crash(r)
    \/ CheckOrders \/ CloseSession

Spec == Init /\ [][Next]_vars

\* A request in flight goes on; PostgreSQL grants the wait for an undecided
\* insert in turn, hence strong fairness.
FairSpec == Spec /\ \A r \in Kitchen : SF_vars(InFlight(r) /\ UpdateOrderStatus(r))

-----------------------------------------------------------------------------
(***************************************************************************)
(* Properties that hold however requests interleave and die.               *)
(***************************************************************************)

\* The guest is only told what was committed: the message goes out after the
\* commit of the move (update_order_status).
TruthfulMessages ==
    \A o \in Order, s \in Notified : told[<<o, s>>] > 0 => s \in reached[o]

\* A notification recorded as SENT has reached the guest
\* (send_kitchen_status_notification).
SentMeansTold ==
    \A n \in Order \X Notified : record[n] = "SENT" => told[n] > 0

\* Unless an attempt has failed or died, the guest is told a status once,
\* although several requests may have made the same move
\* (send_kitchen_status_notification).
ToldOnceUnlessTrouble ==
    \A n \in (Order \X Notified) \ troubled : told[n] <= 1

\* A guest who has paid gets no more messages than kitchen requests can be under
\* way when the session was closed, although moves go on after it: a stale one
\* may even reopen the order for further ones (send_kitchen_status_notification).
LateMessagesBounded == late <= Cardinality(Kitchen)

\* The statuses an order has before it is served.
Stages == <<"NEW", "ACCEPTED", "PREPARING", "READY", "SERVED">>

\* Although each request checks its move against a status that may be stale by
\* the time it writes, no order is given a status without having had the ones
\* before it (transition_order_status).
NoStageSkipped ==
    \A o \in Order : \A k \in 2..5 : Stages[k] \in reached[o] => Stages[k - 1] \in reached[o]

\* Every status an order gets is told, or its failure is recorded, unless a
\* request dies or the session is closed before (update_order_status).
EveryMoveIsRecorded ==
    \A o \in Order, s \in Notified :
        s \in reached[o] ~> \/ record[<<o, s>>] # "none"
                           \/ session = "CLOSED"
                           \/ crashes > 0

Ledger == INSTANCE NotificationLedger
    WITH Status <- Notified, trouble <- troubled, ledger <- record

\* Requests, stale checks, undecided records and lost answers add up to this:
\* each step tells the guest a status the order has had, for the first time
\* or after trouble, or notes an outcome there was
\* (update_order_status, send_kitchen_status_notification).
ImplementsLedger == Ledger!Spec

=============================================================================
