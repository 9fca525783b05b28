---------------------------- MODULE WhatsAppWebhook ----------------------------
(***************************************************************************)
(* Inbound WhatsApp messages: Meta posts batches of messages to the        *)
(* webhook and repeats a batch until it is answered with 200; each post is *)
(* one database transaction in which every message of the batch is         *)
(* recorded, so that a repetition is skipped, and handled.                 *)
(*                                                                         *)
(* The messages are those of one session.  They put lines into its cart,   *)
(* order what the cart holds or ask for the bill; the locks this takes are *)
(* held until the whole batch is decided, so that two posts can wait for   *)
(* each other.  A message that is refused, or that only asks to be shown   *)
(* something, is recorded and has no effect.  Quantities and what is on    *)
(* the bill are the subjects of CartItems and DiningSession.               *)
(***************************************************************************)
EXTENDS Naturals, Sequences, FiniteSets

CONSTANTS
    Worker,       \* slots for the webhook requests that run at a time
    Batch,        \* the posts Meta makes
    Message,      \* the ids of inbound messages
    Payload,      \* the messages of each batch, in order
    Addition,     \* the messages that add a line to the cart; they stand for the line
    Checkout,     \* the messages that check the cart out
    BillRequest,  \* the messages that ask for the bill
    Earlier,      \* the additions before the session is observed, in no batch any more
    AnswerPoint,  \* when FastAPI answers: before and/or after get_db commits
    None,         \* not a batch
    MaxTrouble    \* how many requests die, fail to write or repeat a 200 (bound)

ASSUME WebhookAssumption ==
    /\ None \notin Batch
    /\ Payload \in [Batch -> Seq(Message)]
    /\ Addition \subseteq Message
    /\ Checkout \subseteq Message \ Addition
    /\ BillRequest = Message \ (Addition \cup Checkout)
    /\ Earlier \subseteq Addition
    /\ AnswerPoint \subseteq {"committed", "uncommitted"}
    /\ MaxTrouble \in Nat

VARIABLES
    events,     \* the webhook_events rows
    cart,       \* the lines in the cart
    ordered,    \* the lines in the order that each checkout placed
    bill,       \* whether the session has its OPEN bill
    executed,   \* how often each message took effect
    acked,      \* the batches answered with 200
    tx,         \* the transaction of each request in flight
    lost,       \* history: the messages undone in a request answered with 200
    trouble     \* how many requests have died, failed to write or repeated a 200

vars == <<events, cart, ordered, bill, executed, acked, tx, lost, trouble>>

Location == {"idle", "look up", "record", "handle", "bill", "committed", "answered"}

\* What a transaction has written and not committed, and the lock on the
\* carts row it holds: KEY SHARE of an inserted line or FOR UPDATE.
Write == [recorded : SUBSET Message,              \* webhook_events rows
          done     : SUBSET Message,              \* the messages that took effect
          cart     : SUBSET Addition,             \* lines it has added and not ordered
          ordered  : [Checkout -> SUBSET Addition],
          newBill  : BOOLEAN,                     \* it has inserted the bill
          hold     : {"none", "share", "exclusive"}]

NoWrite == [recorded |-> {}, done |-> {}, cart |-> {},
            ordered |-> [c \in Checkout |-> {}], newBill |-> FALSE, hold |-> "none"]

\* How the transaction was lost, if it was: in a flush, or in another statement.
Failure == {"no", "flush", "statement"}

Tx == [pc     : Location,
       batch  : Batch \cup {None},
       i      : Nat \ {0},        \* the message of the batch that is next
       write  : Write,
       failed : Failure,
       undone : SUBSET Message]   \* recorded in this request and rolled back

Idle == [pc |-> "idle", batch |-> None, i |-> 1, write |-> NoWrite, failed |-> "no", undone |-> {}]

TypeOK ==
    /\ events \subseteq Message
    /\ cart \subseteq Addition
    /\ ordered \in [Message -> SUBSET Addition]
    /\ bill \in BOOLEAN
    /\ executed \in [Message -> Nat]
    /\ acked \subseteq Batch
    /\ tx \in [Worker -> Tx]
    /\ lost \subseteq Message
    /\ trouble \in 0..MaxTrouble

Init ==
    /\ events = Earlier
    /\ cart = Earlier
    /\ ordered = [m \in Message |-> {}]
    /\ bill = FALSE
    /\ executed = [m \in Message |-> IF m \in Earlier THEN 1 ELSE 0]
    /\ acked = {}
    /\ tx = [w \in Worker |-> Idle]
    /\ lost = {}
    /\ trouble = 0

-----------------------------------------------------------------------------
At(w, pc) == tx[w].pc = pc

Become(w, t) == tx' = [tx EXCEPT ![w] = t]

End(w) == Become(w, Idle)

DatabaseUnchanged == UNCHANGED <<events, cart, ordered, bill, executed>>

AnswersUnchanged == UNCHANGED <<acked, lost>>

MoreToDo(w) == tx[w].i <= Len(Payload[tx[w].batch])

Current(w) == Payload[tx[w].batch][tx[w].i]

\* On to the next message of the batch.
Advance(t) == [t EXCEPT !.pc = "look up", !.i = @ + 1]

\* What a rollback that the request survives leaves: its locks are free, and
\* what it had recorded is not recorded any more.
Undone(t) == [t EXCEPT !.write = NoWrite, !.undone = @ \cup t.write.recorded]

-----------------------------------------------------------------------------
(* process_webhook *)

\* Meta posts a batch; it may do so more than once, and even after a 200 when
\* that did not reach it.
Deliver(w, b) ==
    /\ At(w, "idle")
    /\ IF b \in acked
       THEN trouble < MaxTrouble /\ trouble' = trouble + 1
       ELSE UNCHANGED trouble
    /\ Become(w, [Idle EXCEPT !.pc = "look up", !.batch = b])
    /\ DatabaseUnchanged /\ AnswersUnchanged

\* Fault: nobody asks, the unique index refuses a duplicate anyway.
NeverAsked(w) == FALSE

\* get_by_message_id.
Known(w) == Current(w) \in events \cup tx[w].write.recorded

\* A message that has been recorded is skipped.  Once a statement has failed
\* nothing can be queried any more: the request is answered with 500.  (Every
\* message has an id: the schema requires it, and Meta's are not empty.)
LookUp(w) ==
    /\ At(w, "look up")
    /\ MoreToDo(w)
    /\ CASE tx[w].failed # "no" -> End(w)
         [] tx[w].failed = "no" /\ Known(w) -> Become(w, Advance(tx[w]))
         [] OTHER -> Become(w, [tx[w] EXCEPT !.pc = "record"])
    /\ UNCHANGED trouble
    /\ DatabaseUnchanged /\ AnswersUnchanged

\* Fault: message_id is not unique.
NeverDuplicate(w) == FALSE

\* The unique message_id refuses the row.
Duplicate(w) == Current(w) \in events

\* The insert of v's that w's insert of the same message id waits for.
RecordWaits(w, v) == Current(w) \in tx[v].write.recorded

\* Fault: the id of the post's entry is recorded.
EntryId(w) == tx[w].batch

\* The message_id of the row that process_webhook records.
EventId(w) == Current(w)

\* When the row is refused the exception leaves process_webhook: 500.
\* Otherwise the message is handled, unless a business rule rejects it at once.
Record(w) ==
    /\ At(w, "record")
    /\ \A v \in Worker \ {w} : ~RecordWaits(w, v)
    /\ IF Duplicate(w)
       THEN End(w)
       ELSE LET t == [tx[w] EXCEPT !.write.recorded = @ \cup {EventId(w)}]
            IN  Become(w, Advance(t)) \/ Become(w, [t EXCEPT !.pc = "handle"])
    /\ UNCHANGED trouble
    /\ DatabaseUnchanged /\ AnswersUnchanged

-----------------------------------------------------------------------------
(* handle_inbound_message: the guest is told of an effect in the same step *)

\* The lock of v on the carts row that w waits for.
CartWaits(w, v) ==
    \/ Current(w) \in Addition /\ tx[v].write.hold = "exclusive"
    \/ Current(w) \in Checkout /\ tx[v].write.hold # "none"

CartFree(w) == \A v \in Worker \ {w} : ~CartWaits(w, v)

\* add_item: the foreign key of the new line shares the carts row.
AddLine(w) ==
    /\ At(w, "handle")
    /\ Current(w) \in Addition
    /\ CartFree(w)
    /\ Become(w, Advance([tx[w] EXCEPT
           !.write.done = @ \cup {Current(w)},
           !.write.cart = @ \cup {Current(w)},
           !.write.hold = IF @ = "none" THEN "share" ELSE @]))
    /\ UNCHANGED trouble
    /\ DatabaseUnchanged /\ AnswersUnchanged

\* Fault: the cart is read without FOR UPDATE.
ReadUnlocked(w, t) == t

\* The lock is taken whatever becomes of the checkout.
LockCart(w, t) == [t EXCEPT !.write.hold = "exclusive"]

\* checkout_cart orders what the cart holds, unless that is nothing or a dish
\* in it has become unavailable.
CheckOut(w) ==
    /\ At(w, "handle")
    /\ Current(w) \in Checkout
    /\ CartFree(w)
    /\ LET t == LockCart(w, tx[w])
           lines == (cart \ UNION {t.write.ordered[c] : c \in Checkout}) \cup t.write.cart
       IN  \/ Become(w, Advance(t))
           \/ /\ lines # {}
              /\ Become(w, Advance([t EXCEPT !.write.done = @ \cup {Current(w)},
                                             !.write.cart = {},
                                             !.write.ordered[Current(w)] = lines]))
    /\ UNCHANGED trouble
    /\ DatabaseUnchanged /\ AnswersUnchanged

\* generate_or_get_bill finds the OPEN bill, or will insert one.
ReadBill(w) ==
    /\ At(w, "handle")
    /\ Current(w) \in BillRequest
    /\ IF bill \/ tx[w].write.newBill
       THEN Become(w, Advance([tx[w] EXCEPT !.write.done = @ \cup {Current(w)}]))
       ELSE Become(w, [tx[w] EXCEPT !.pc = "bill"])
    /\ UNCHANGED trouble
    /\ DatabaseUnchanged /\ AnswersUnchanged

\* Fault: the rollback takes the record of the messages, not what they did.
ForgetRecords(t) == [t EXCEPT !.write.recorded = {}, !.undone = @ \cup t.write.recorded]

\* session.rollback() undoes the whole batch so far; the request then shows
\* the bill of the other transaction and goes on.
RolledBack(t) == Undone(t)

\* The undecided bill of v that w's insert waits for.
BillWaits(v) == tx[v].write.newBill

\* uq_bill_session_open refuses the insert when a bill has been committed
\* since ReadBill.
InsertBill(w) ==
    /\ At(w, "bill")
    /\ \A v \in Worker \ {w} : ~BillWaits(v)
    /\ Become(w, Advance(IF bill THEN RolledBack(tx[w])
                                  ELSE [tx[w] EXCEPT !.write.newBill = TRUE,
                                                     !.write.done = @ \cup {Current(w)}]))
    /\ UNCHANGED trouble
    /\ DatabaseUnchanged /\ AnswersUnchanged

-----------------------------------------------------------------------------
(* Failures inside a handler, swallowed by handle_inbound_message *)

\* The database drops the transaction; the request goes on without it.
Fail(w, how) == Become(w, Advance([Undone(tx[w]) EXCEPT !.failed = how]))

\* A flush of the handler fails.
FlushFails(w) ==
    /\ tx[w].pc \in {"handle", "bill"}
    /\ trouble < MaxTrouble
    /\ trouble' = trouble + 1
    /\ Fail(w, "flush")
    /\ DatabaseUnchanged /\ AnswersUnchanged

\* w waits for v.
Waits(w, v) ==
    /\ w # v
    /\ \/ At(w, "record") /\ RecordWaits(w, v)
       \/ At(w, "handle") /\ CartWaits(w, v)
       \/ At(w, "bill") /\ BillWaits(v)

\* w is in a circle of requests each of which waits for the next.
InCircle(w) ==
    \E n \in 2..Cardinality(Worker) : \E ring \in [1..n -> Worker] :
        /\ ring[1] = w
        /\ \A k \in 1..n : Waits(ring[k], ring[(k % n) + 1])

\* PostgreSQL ends a circle by an error in the statement of one member: the
\* insert of the record, which ends the request with 500, the insert of a
\* line or of the bill, both of them flushes, or the SELECT FOR UPDATE.
DeadlockVictim(w) ==
    /\ InCircle(w)
    /\ CASE At(w, "record") -> End(w)
         [] At(w, "handle") /\ Current(w) \in Checkout -> Fail(w, "statement")
         [] OTHER -> Fail(w, "flush")
    /\ UNCHANGED trouble
    /\ DatabaseUnchanged /\ AnswersUnchanged

-----------------------------------------------------------------------------
(* get_db and the answer *)

Commit(t) ==
    /\ events' = events \cup t.recorded
    /\ executed' = [m \in Message |-> IF m \in t.done THEN executed[m] + 1 ELSE executed[m]]
    /\ ordered' = [m \in Message |-> IF m \in t.done \cap Checkout THEN t.ordered[m] ELSE ordered[m]]
    /\ cart' = (cart \cup t.cart) \ UNION {t.ordered[c] : c \in Checkout}
    /\ bill' = (bill \/ t.newBill)

\* Fault: the request is answered as if it had been committed.
AnswerAnyway(w) == Become(w, [Idle EXCEPT !.pc = "committed", !.batch = tx[w].batch])

\* The commit of a session whose flush has failed raises: 500.
CommitRaises(w) == End(w)

\* PostgreSQL takes the COMMIT of a transaction in which a statement has
\* failed for a ROLLBACK and reports no error: 200.
CommitFirst(w) ==
    /\ "committed" \in AnswerPoint
    /\ At(w, "look up")
    /\ ~MoreToDo(w)
    /\ IF tx[w].failed = "flush"
       THEN CommitRaises(w) /\ DatabaseUnchanged
       ELSE /\ Become(w, [Idle EXCEPT !.pc = "committed", !.batch = tx[w].batch,
                                      !.undone = tx[w].undone])
            /\ Commit(tx[w].write)
    /\ UNCHANGED trouble
    /\ AnswersUnchanged

AnswerCommitted(w) ==
    /\ At(w, "committed")
    /\ acked' = acked \cup {tx[w].batch}
    /\ lost' = lost \cup tx[w].undone
    /\ End(w)
    /\ UNCHANGED trouble
    /\ DatabaseUnchanged

AnswerFirst(w) ==
    /\ "uncommitted" \in AnswerPoint
    /\ At(w, "look up")
    /\ ~MoreToDo(w)
    /\ acked' = acked \cup {tx[w].batch}
    /\ lost' = lost \cup tx[w].undone \cup tx[w].write.recorded
    /\ Become(w, [tx[w] EXCEPT !.pc = "answered"])
    /\ UNCHANGED trouble
    /\ DatabaseUnchanged

\* What an exception would have undone has been undone before.
CommitAnswered(w) ==
    /\ At(w, "answered")
    /\ Commit(tx[w].write)
    /\ lost' = lost \ tx[w].write.recorded
    /\ End(w)
    /\ UNCHANGED <<acked, trouble>>

\* The process or its connection dies: the transaction is lost.
Crash(w) ==
    /\ ~At(w, "idle")
    /\ trouble < MaxTrouble
    /\ trouble' = trouble + 1
    /\ End(w)
    /\ DatabaseUnchanged /\ AnswersUnchanged

\* The staff asks for the bill of the session.
CashierBill ==
    /\ ~bill
    /\ \A v \in Worker : ~tx[v].write.newBill
    /\ bill' = TRUE
    /\ UNCHANGED <<events, cart, ordered, executed, tx, trouble>>
    /\ AnswersUnchanged

-----------------------------------------------------------------------------
Proceed(w) ==
    \/ LookUp(w) \/ Record(w)
    \/ AddLine(w) \/ CheckOut(w) \/ ReadBill(w) \/ InsertBill(w)
    \/ CommitFirst(w) \/ AnswerCommitted(w) \/ AnswerFirst(w) \/ CommitAnswered(w)

Next ==
    \/ \E w \in Worker, b \in Batch : Deliver(w, b)
    \/ \E w \in Worker : Proceed(w) \/ DeadlockVictim(w) \/ FlushFails(w) \/ Crash(w)
    \/ CashierBill

Spec == Init /\ [][Next]_vars

\* A request that runs goes on, and PostgreSQL grants locks in turn and breaks
\* circles; Meta repeats a batch until it is answered, and some repetition
\* finds a free worker.
DeliverAgain(b) == b \notin acked /\ \E w \in Worker : Deliver(w, b)

Fairness ==
    /\ \A w \in Worker :
           SF_vars(Proceed(w)) /\ SF_vars(InsertBill(w))
    /\ WF_vars(\E w \in Worker : DeadlockVictim(w))
    /\ \A b \in Batch : SF_vars(DeliverAgain(b))

FairSpec == Spec /\ Fairness

-----------------------------------------------------------------------------
\* However often Meta delivers a message, to however many workers, it takes
\* effect once (process_webhook, webhook_events.message_id).
ExecutedOnce == \A m \in Message : executed[m] <= 1

\* A line that was added is in the cart or in one order, and a line whose
\* addition was undone is in neither, whatever batches are repeated, rolled
\* back, chosen as a victim or answered early (checkout_cart, add_item, get_db).
LineConserved ==
    \A m \in Addition :
        /\ executed[m] > 0 <=> m \in cart \/ \E c \in Checkout : m \in ordered[c]
        /\ \A c \in Checkout : m \in ordered[c] =>
               m \notin cart /\ \A d \in Checkout \ {c} : m \notin ordered[d]

\* The messages of a batch.
In(b) == {Payload[b][i] : i \in 1..Len(Payload[b])}

\* A batch answered with 200 has been processed and is recorded, but for the
\* messages undone in a request that went on: by the rollback of a bill
\* request, as the victim of a deadlock at the end of the batch, or after the
\* early answer of FastAPI (process_webhook).
AckedUnlessLost == \A b \in acked : In(b) \subseteq events \cup lost

\* Meta does not repeat a batch for ever: it is answered with 200 at last, also
\* when a request that had recorded some or all of its messages died, or another
\* batch had recorded them.  This says nothing of what became of the messages,
\* see AckedUnlessLost (process_webhook, get_by_message_id).
EveryBatchAcked == \A b \in Batch : <>(b \in acked)

\* Repetitions, parallel posts, rollbacks and deadlocks are invisible: the
\* webhook is an inbox that handles each message once (process_webhook).
Inbox == INSTANCE MessageInbox WITH handled <- events, times <- executed

ImplementsInbox == Inbox!Spec

(***************************************************************************)
(* A property the code does not have.                                      *)
(***************************************************************************)

\* A guest who was told of success can rely on it: an effect is kept until it
\* is committed (send after commit, as the kitchen endpoint does).
ToldIsDone ==
    [][\A w \in Worker : \A m \in tx[w].write.done :
           m \in tx'[w].write.done \/ executed'[m] > executed[m]]_vars

=============================================================================
