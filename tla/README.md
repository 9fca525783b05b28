# Verification of the WhatsApp restaurant ordering backend

The program (`src/`, Python, FastAPI, SQLAlchemy, PostgreSQL) lets the guests of a
restaurant open a dining session by QR code or table list, fill a cart, order in
rounds, follow the kitchen, and ask for one bill that the staff settles. Guests
mostly talk to it over WhatsApp; kitchen and cashier use HTTP endpoints.

This directory holds TLA+ models of the parts that keep state, TLC instances that
check them, and TLAPS proofs of what they check, for any number of requests and rows.

## 1. The system

### Components, their state and their operations

| Component | Code (`src/app/`) | State | Operations |
| --- | --- | --- | --- |
| Dining session | `services/order.py`, `services/billing.py` | `customer_sessions.status`, `carts`, `orders`, `order_items`, `bills`, `bill_items` | `checkout_cart`, `transition_order_status`, `generate_or_get_bill`, `settle_bill` |
| Cart | `services/cart.py`, `repositories/cart.py` | `carts`, `cart_items` | `get_cart`, `add_item`, `update_item_quantity`, `remove_item`, `clear_cart` |
| Session entry | `services/session.py`, `repositories/customer.py` | `customers`, `customer_sessions` | `create_or_resume_direct_session`, `create_or_resume_qr_session`, lookup with expiry |
| Kitchen notifications | `services/order_notifications.py`, `endpoints/kitchen.py` | `order_notifications`, messages sent | `update_order_status`, `send_kitchen_status_notification` |
| Webhook | `integrations/whatsapp/router.py`, `database/session.py` | `webhook_events`, one transaction per post | `process_webhook`, `record_event`, `get_db` |
| Conversation | `integrations/whatsapp/bot.py` | none of its own; the buttons in the guest's chat | `_handle_text_message`, `_handle_interactive_callback` and the handlers they call |
| WhatsApp client | `integrations/whatsapp/client.py` | none that matters | `send_text`, `send_buttons`, `send_list` |
| Catalogue | `services/customer_menu.py`, `services/restaurant.py` | `restaurants`, `restaurant_tables`, `menu_*` | read only |
| Rest | `core/`, `main.py`, `migrations/`, `scripts/` | none at run time | configuration, start, schema, simulator |

Components interact by function calls inside one request and through the shared
tables between requests. A request is one database transaction (`get_db`,
`database/session.py:46-59`); the kitchen and billing endpoints also commit
explicitly. There is no other shared state and there are no background tasks.

### What is hard here

* **Concurrency.** PostgreSQL runs the requests at READ COMMITTED. The only lock
  the code takes is `FOR UPDATE` on the cart in `checkout_cart`; everything else
  is read, checked and then written by primary key. Unique constraints
  (`uq_bill_session_open`, `uq_cart_item_cart_menu_item`,
  `uq_order_notification_order_status_type`, `webhook_events.message_id`, the
  cart's session, the customer's id) are the other means of exclusion. The test
  suite runs on SQLite with one connection, where none of this can go wrong.
* **Failure.** A request may die between two statements; a statement may fail and
  its exception be swallowed (`bot.py:109`); `generate_or_get_bill` rolls the
  transaction of its caller back (`billing.py:195`).
* **Deadlock.** A batch of messages is one transaction and holds the locks of all
  its messages; two batches with their messages in different orders wait for each
  other.
* **Delivery.** Meta repeats a post until it is answered with 200, possibly in
  parallel; an answer of the WhatsApp API may be lost after delivery; a message
  once sent is not taken back by a rollback.
* **Time.** Sessions expire after eight hours, by a clock that nothing locks.
* **Old messages.** Buttons stay in the chat and can be tapped at any later time.

`PROJECT.json` lists each of these at its line under `hazards`.

### What makes each component correct

* Session: an accepted cart line ends in exactly one order; no order enters a
  closed session; one OPEN bill; every order on one bill; the bill's amounts match
  its items; a bill is settled once; a closed table has no unresolved order and
  nothing unpaid; no requests wait for one another in a circle.
* Cart: no units lost or invented; a dish that sells out is not ordered for long.
* Entry: one active session per customer; a session is retired only for a reason;
  a closed session stays closed.
* Notifications: true, once, none forgotten, none to a guest who has paid; no stage
  of an order skipped.
* Webhook: each message takes effect once, in one piece with its record; what was
  answered with 200 was done; every batch is answered; a success that was reported
  is real.
* Conversation: commands do what they say; carts stay within their session; what
  is offered can be had.

## 2. Modules

```
OrderLifecycle          kitchen's state machine of an order
   |-- DiningSession    the core: requests as transactions
   |      |-- INSTANCE OrderPlacement   atomic basket        (abstract, implemented)
   |      |-- INSTANCE TableService     serial service       (abstract, implemented without overlaps)
   |      `-- DiningSession_proofs <-- Exclusion_proofs           TLAPS
   |-- KitchenNotification
   |      |-- INSTANCE NotificationLedger   told once, recorded truly   (abstract, implemented)
   |      `-- KitchenNotification_proofs      TLAPS
   |-- BotConversation     <-- BotConversation_proofs        TLAPS
   `-- TableService
WhatsAppWebhook         posts as transactions
   |-- INSTANCE MessageInbox   each message handled once     (abstract, implemented)
   `-- WhatsAppWebhook_proofs                 TLAPS
CartItems    <-- CartItems_proofs             TLAPS
SessionEntry <-- SessionEntry_proofs          TLAPS
BillAmounts  <-- BillAmounts_proofs           TLAPS
MC*          instances for TLC
```

Definitions whose comment begins with "Fault:" are not part of a specification.
Each is a plausible mistake in the definition that follows it; `PROJECT.json` says
under `mutants` which property TLC finds violated when it takes that one's place.

### How a request becomes actions

`DiningSession`, `CartItems`, `SessionEntry`, `KitchenNotification` and
`WhatsAppWebhook` treat a transaction alike. Each request slot `r` has a record
`tx[r]` with its control location and what it has read. One action is one SQL
statement (or a run of statements that nobody else can tell from one): it reads
the committed rows and remembers them. What a request writes is seen by nobody
before its commit, so the writes after its last read are one action with the
commit, with one exception: a statement that may have to wait for a lock while the
request already holds another one is a step of its own (the items of a bill request,
inserted one by one, and its update of the bill; the flush of `settle_bill`, which
writes session, bill and cart in this order; the UPDATE that retires sessions), because
a request that waits with a lock in hand is what deadlocks are made of. Locks and
undecided unique-index entries are not variables; they follow from the control
location of the request that holds them. Four rules of PostgreSQL and SQLAlchemy
matter and are modelled where they occur:

* an UPDATE by primary key overwrites whatever is there by then;
* an INSERT that meets an undecided entry of the same unique key waits, and fails
  when the entry is committed; the request then ends without effect (or goes the
  way its `except` names);
* an UPDATE of a deleted row fails the request, a DELETE of one does not;
* SQLAlchemy writes no column that has the value it was read with: a session that
  was read as CLOSED is not closed again, a record read as FAILED is not written
  by another failure.

A slot that ends goes back to `idle` and serves the next request, so a slot is
not a person but a degree of concurrency. Request slots of different kinds may be
the same constant: with `Diner = Kitchen = Cashier = {r}` requests never overlap.

### DiningSession

| TLA+ | Code |
| --- | --- |
| `AddItem`: validate, read cart, commit | `CartService.add_item` |
| `Checkout`: validate, lock, commit | `OrderService.checkout_cart` |
| `Transition`: read, commit | `OrderService.transition_order_status` |
| `GenerateBill`: validate, read orders, find the OPEN bill, then create it, or add items (newest order first), sum and sync | `BillingService.generate_or_get_bill` |
| `Settle`: read bill, check orders, write session, write bill, archive cart and commit | `BillingService.settle_bill` |
| `Lookup`: read, then write EXPIRED by primary key | `get_active_session_for_customer` |
| `Retire` | `expire_active_sessions_for_customer`, at a change of table |
| `TimePasses` | `expires_at` (`overdue`) |
| `WaitsFor` | the locks: the cart's `FOR UPDATE`, updated rows of session and bill, undecided bill items |

A cart row is an opaque `Line`, inserted once; quantities are the subject of
`CartItems`, prices of `BillAmounts`. The items of an order reach a bill together, so bill items are
sets of orders, and a total is recorded as the set of orders it was summed over.
`stamps` counts how often `settled_at` of a bill was written. `BillStatus.VOID` is
never set by the code and does not occur.

A table counts as closed (`Closed`) when its bill is settled. The status of the session
does not tell: a lookup that found the session overdue before may write EXPIRED over
CLOSED (`repositories/customer.py:74`), and the properties have to hold in that case too.
`overtaken` is a history variable: a bill was settled while another request was
about to look for an OPEN bill or to create one.

`OrderPlacement` says what adding, checking out and closing promise with no
transactions in sight: a basket that becomes one order in one step.
`ImplementsPlacement` is the refinement; it holds for any interleaving (checked,
and proved). `TableService` is the whole service with one action per request.
`ImplementsService` holds when requests do not overlap (checked with one slot, and
proved). When they do it does not; section 4 says how.

### CartItems

| TLA+ | Code |
| --- | --- |
| `FindNoCart`, `InsertCart`, `CommitCart` | `CartRepository.get_or_create_active_cart` |
| `AddRead`, then `AddInsert` or `AddIncrement` | `CartService.add_item`, `add_or_increment` |
| `UpdateRead`, `UpdateCommit`; `RemoveRead`, `ClearRead`, `DeleteCommit` | `update_item_quantity`; `remove_item`, `clear_cart` |
| `CheckoutLock`, `CheckoutCommit` | `OrderService.checkout_cart` |
| `MenuChanges` | `menu_items.is_available`, changed by the staff outside this code |

Rows have an identity and a quantity. `asked`, `taken` and `ordered` are history
variables that count units; `stale` holds the items of which some request used a
quantity that another one had changed since it was read, the only way in which
units get lost. `off` holds the dishes that are unavailable, and `late` counts the
orders placed with one: `checkout_cart` looks at the dishes and commits later.

### SessionEntry

| TLA+ | Code |
| --- | --- |
| `Begin` | the transaction begins; restaurant and table are looked up |
| `FindCustomer`, `InsertCustomer`, `FirstSession` | `CustomerRepository.get_or_create`, and the first session |
| `ReadSessions`, `LookUp`, `MarkStale` | `get_active_session_for_customer`, with its expiry of stale rows |
| `Resume`; `AskRetire`, `Retire`, `SitDown` | `create_or_resume_direct_session`: the same table; another one |
| `ReadSettled`, `CloseSession` | `settle_bill`, as far as the session goes |
| `TimePasses` | `expires_at` |

All sessions of one customer. A QR code stands for its table. A session is numbered by
its `created_at`, which is `now()` of PostgreSQL: the time when the transaction of
the request began, and not when it committed (`models/base.py:19`). So a request gets
the number of its session at `Begin`, and the newest session found by a lookup is not
always the one committed last.

The UPDATE that retires sessions takes the rows that are ACTIVE when it starts
(`AskRetire`), waits for those that another request has written (`Locked`), looks at
them again (`Retire`) and holds them to the commit. It never sees a session that another
request has inserted while it waited: a guest who changes tables twice at the same
time may end at both.

`timedOut` is the clock: the sessions whose `expires_at` has passed, apart from the
`status` column, which is written later by whoever notices. `before` holds the sessions
that were there when the request that created a session began; two sessions overlap
(`Overlap`) when neither was there for the other. That is a fact of the history and
not of the moment.

### KitchenNotification

| TLA+ | Code |
| --- | --- |
| `ReadOrder`, `MoveOrder` | `transition_order_status` and the commit, `endpoints/kitchen.py:67` |
| `ReadSession`, `ReadRecord`, `InsertRecord`, `Dispatch`, `CommitRecord` | `send_kitchen_status_notification` |
| `CheckOrders`, `CloseSession` | `settle_bill`, as far as it is seen from here |

The two transactions of a kitchen request and the message between them. `told`
counts what the guest received; `Outcome` includes delivery whose answer is lost.
`reached` is every status an order was ever committed with: `order` itself may be
overwritten by a request that had read an older status. `late` counts the messages
that reach the guest after the table was paid. `Verdict`
is what the row gets: a request that had read FAILED and fails again writes nothing, so a
SENT that came in between stays. `checked` stands for a settlement that has found every
order resolved and has not closed the session yet; a request may move an order in
between. That such a settlement dies is left out: what follows is what happens when it
takes its time.

`NotificationLedger` has neither requests nor a unique constraint: orders move on, a
status the order has had is told for the first time or after trouble, and outcomes
are noted, SENT only of what was told, and SENT stays. `ImplementsLedger` maps `troubled` and `record` to
it. `TruthfulMessages` follows from it and is proved only.

### WhatsAppWebhook

| TLA+ | Code |
| --- | --- |
| `Deliver`, `LookUp`, `Record` | `process_webhook`: the loop over the messages, `get_by_message_id`, `record_event` |
| `AddLine`, `CheckOut`, `ReadBill`, `InsertBill` | the handlers, for what they write and lock |
| `FlushFails`, `DeadlockVictim` | an exception in a handler, swallowed at `bot.py:109` |
| `CommitFirst`, `AnswerCommitted` / `AnswerFirst`, `CommitAnswered` | `get_db` and the answer, in either order |

A post is a batch of messages in one transaction. Its messages add lines to one
cart, check it out, or ask for the bill, and what they write and lock
(`tx[w].write`) is kept until the batch is decided: the message records, the lock on
the `carts` row (shared by the foreign key of a new line, exclusive by `FOR UPDATE`),
and the row of the OPEN bill. So batches can wait for each other, and PostgreSQL
breaks a circle by an error in one of them.

What such an error does depends on the statement. The insert of the record is
outside the handler: the answer is 500. A failed flush leaves a SQLAlchemy session
whose next use raises: 500. A failed `SELECT ... FOR UPDATE` leaves a transaction that
PostgreSQL has aborted and SQLAlchemy believes sound: the next query raises, but when
the message was the last one there is none, PostgreSQL takes the COMMIT for a
ROLLBACK without an error, and the answer is 200.

`AnswerPoint` covers both behaviours of FastAPI that `requirements.txt`
(`fastapi>=0.115.0`) admits: answer after the dependency's commit, or before it.
`lost` holds the messages undone in a request that was answered with 200 all the
same: rolled back by a bill request of the batch, lost by a swallowed error, or lost
after an early answer.

`MessageInbox` knows nothing of workers, transactions and locks: sets of messages are
handled in one step, each once, and a message that takes effect is handled.
`ImplementsInbox` maps `events` and `executed` to it.

### BotConversation

One guest, several restaurants, one message at a time: keyword routing (`Intent`,
`Say`), buttons (`Tap`), the handlers, and the buttons each answer offers. `chat`
never forgets a button. A text is the set of keywords it contains, so that
`"checkout"` always comes with `"check"`. A text whose whole body is a QR token is
`Scan`. Other restaurants' dishes and tables can be reached by old buttons.

A kitchen display moves an order in one step (`KitchenMoves`), or reads it in one
(`KitchenReads`) and writes it in a later one (`KitchenWrites`), over whatever the status
is by then (`order.py:276-292`). A move that had been read before an order was served
takes SERVED back; `unserved` holds the visits in which that happened.

### BillAmounts

Cents, ten-thousandths of tax, `quantize` with its round-half-even, and a bill
that grows in rounds. The two branches of `generate_or_get_bill` are two actions that
compute the same thing differently: `CreateBill` sums the items of the served orders and
then copies them to the bill (`billing.py:171-198`); `AddMissing` copies what the bill
lacks and `Recalculate` reads the bill again and sums its own copies
(`billing.py:136-165`), with orders served in between. One sync at a time; how syncs
overlap is the subject of `TotalMatchesItems` in `DiningSession`.

## 3. Runs

| Run | What it shows | Bound |
| --- | --- | --- |
| `dining_concurrent` | what every interleaving preserves, a lookup that writes EXPIRED over CLOSED included; no circular wait; implements `OrderPlacement` | 3 guests, 1 display, 1 cashier, 2 lines, 2 orders, 2 bills |
| `dining_serial` | without overlap: implements `TableService`, a closed table has no unresolved order | 1 slot, 3 lines, 3 orders, 2 bills |
| `settle_twice` | violation: two cashiers settle one bill | 1 guest, 1 display, 2 cashiers, 1 line, 1 order, 1 bill |
| `settle_stale_bill` | violation without any race: served order on no bill | 1 slot, 2 lines, 2 orders, 2 bills |
| `cart_concurrent` | units are never invented, and lost only to a stale write; a sold-out dish is ordered at most once more | 2 requests, 2 items, 3 units of each, 1 dish sells out |
| `session_concurrent` | live sessions bounded by concurrency; a second ACTIVE one needs overlapping entries; retired for a reason; closed stays closed unless timed out | 2 requests, 1 cashier, 2 tables, 4 sessions |
| `kitchen_concurrent` | implements `NotificationLedger`: told only what was committed; SENT means told, told once unless trouble, few messages after payment, no stage skipped, every status recorded | 2 displays, 1 order, 4 requests, 1 crash |
| `webhook_concurrent` | implements `MessageInbox`; lines are in the cart or in one order; an answered batch is recorded unless a named rollback lost it; every batch is answered | 2 workers, batches of 2 and 3 messages that lock in opposite order, 1 failure |
| `webhook_told_early` | violation: success told, transaction lost | 2 workers, 1 failure |
| `bot_conversation` | isolation and offers under old buttons and stale moves of the kitchen | 2 restaurants, 3 tables, 1 dish, 2 visits, 2 orders, 1 stale move at a time |
| `bot_checkout_text` | violation: the command `checkout` does not check out | the same |
| `bill_amounts` | rounding; the sync ends with what the creation would have charged; a bill never gets cheaper | 3 items, 6 prices around the half cent, 5 % |

**Why the bounds are enough.** A race needs two requests, and the longest chain
of reads in a request is met by a third that commits in between: hence up to three
slots. Two lines, orders and bills distinguish "this one" from "another one", and
every property relates at most two of them. Two cashiers in `dining_concurrent` would
add nothing but a second settlement of the same bill, which `settle_twice` shows to be
possible; the theorems hold for any number. That bill requests which insert the items of
several orders cannot wait for each other in a circle needs three orders to be
interesting (two insert orders that differ); an instance of two guests and three orders
was checked with TLC, apart from the runs, with the same result, and `NoDeadlock` is proved for all.
The serial run has three orders so that
an order can be billed, another synced and a third left out. Four kitchen requests
are a whole life of an order, or a shorter one with two moves made twice; no
request of the kitchen waits for one of another order. Two visits, tables and
restaurants distinguish old from current; the second restaurant is reached by its QR code
and has sold out everything, which is what a guest with old buttons needs to meet. With two
tables and four sessions a guest leaves a table, comes back and leaves again while a
request still remembers the first. The two webhook batches
hold every kind of message and take the locks in opposite order, and the third
message of one runs after a rollback. Larger instances are seldom needed: all
invariants are proved for every size.

`CHECK_DEADLOCK FALSE` is set where a bounded system really ends (the table is
closed, all orders are done, the bound on units or sessions is used up, every batch
is answered). The conversation never ends and is checked for deadlock; that nobody
waits for ever elsewhere is what `NoCircularWait` and the liveness properties say.

**Symmetry** is used only with safety properties, over slots and values no
expression tells apart.

**Fairness.** `EveryMoveIsRecorded` assumes that a request in
flight goes on, and strong fairness for its steps because PostgreSQL grants a
contested lock in turn. Nothing forces a request to arrive. A kitchen request may
die, and `EveryMoveIsRecorded` excuses what follows such a death. `EveryBatchAcked`
assumes `SF Proceed` and `SF InsertBill` for each worker (a request goes on, and a lock
that comes free again and again is granted in turn: PostgreSQL queues those who
wait), `WF DeadlockVictim` (its deadlock detector runs after `deadlock_timeout`) and
`SF DeliverAgain` for each batch (Meta repeats a post until it is answered, and some
repetition finds a free worker). Failures are bounded in number, since a request
that always dies is never answered; deadlocks are not.

`EveryBatchAcked` says that Meta comes to an end with a batch and no more: a batch that
is answered may have lost its messages (`lost`, section 4).

## 4. Where the code and its words part

Four runs end in a violation; `PROJECT.json` quotes the sentence each of them
contradicts under `findings`.

* `settle_twice`: `docs/production-readiness.md:73` promises that the second of two
  settlements meets SETTLED and is refused. `settle_bill` reads the bill without a lock
  (`billing.py:269`), both find it OPEN and both settle it.
* `settle_stale_bill`: `settle_bill` does not compare the bill with the served
  orders. The simulator generates the bill again before it settles, the endpoint
  does not.
* `webhook_told_early`: the webhook confirms before it commits.
* `bot_checkout_text`: `"check" in body_lower` is tested before `"checkout"`
  (`bot.py:148`), so that the text "checkout" asks for the bill. "confirm" and "pay" do
  order.

The models show more; each of these needs an overlap and is why a property is
checked with one slot, or excuses a case. A property that excuses a case does not catch
it: it says that nothing else goes wrong. Under `hazards` `PROJECT.json` names for each
what is excused.

* `settle_bill` reads bill and orders without a lock. A checkout that commits after
  that read leaves a NEW order in a closed session (`ClosedMeansResolved`,
  `billing.py:281`); a bill request that had found no OPEN bill makes a second bill
  for the orders just paid (`overtaken` in `BilledOnceUnlessOvertaken`, `billing.py:117`);
  one that had found it adds to the settled bill (`SettledBillFrozen`,
  `billing.py:163`), and another settlement settles it again (`SettledOnce`, `:269`).
  Locking the `customer_sessions` row in all four handlers would serialise
  them; section 5 proves that this is enough, and that adding items need not take part.
* A lookup that found the session overdue writes EXPIRED over CLOSED
  (`ClosedStaysUnlessTimedOut`, `repositories/customer.py:74`). The table stays closed: cart
  and bill are final.
* With two displays `transition_order_status` can overwrite CANCELLED (`order.py:291`),
  or SERVED and so reopen an order; `NoStageSkipped` says how far this can go, and
  `unserved` in `BotConversation` excuses a bill that was offered and cannot be had any
  more. `add_or_increment`
  loses an increment (`stale` in `CartItems`, `repositories/cart.py:82`).
* A notification that was delivered but whose answer was lost is FAILED, and the
  next request for the same move sends it again (`troubled` in `KitchenNotification`,
  `order_notifications.py:175`), although the docstring at `:109` promises that none is
  dispatched twice. Messages of two overlapping requests can also overtake each other,
  and one per kitchen request in flight can reach a guest who has paid
  (`LateMessagesBounded`).
* A bill request's `rollback()` belongs in a savepoint: in the webhook it undoes the
  messages before it, and the batch is answered with 200 (`lost` in `WhatsAppWebhook`,
  `billing.py:195`).
* Two batches that lock in opposite order are broken apart by PostgreSQL; when the
  victim is a checkout that ends its batch, everything in the batch is rolled back and
  answered with 200 (`lost`, `bot.py:111`). Re-raising database errors there would make
  Meta repeat the batch.
* A dish that sells out between the check and the commit of a checkout is ordered
  (`LateOrdersBounded`, `order.py:153`).

* A message without an id (`router.py:138`) is neither recorded nor recognised when it
  comes again; Meta gives every message one, and `WhatsAppWebhook` has no others.

The passing runs bound the damage: no race loses or duplicates an order line
(`LinesConserved`), gives a session two OPEN bills (`OneOpenBill`), bills an order
that was not served (`BilledOrdersServed`, one display), executes a message twice or without its record
(`ExecutedOnce`, `ImplementsInbox`), gives a customer more live sessions than she has
requests in flight (`LiveBounded`), or has an order pay for dishes of another session
(`OrderFromOwnSession`).

## 5. Proofs

Each module proves `THEOREM Invariance == Spec => []Inv` for an inductive `Inv`, from
the assumption on the constants that the specification states, and derives the
properties from it. There is one lemma for each action that writes rows, lemmas
for steps that only move a control location, and `NextInv` joins them.

### The core

`DiningSession_proofs` proves, for all sets of requests, lines, orders and bills
and from `NoneAssumption` and `OrderAssumption`, that `DiningSession` keeps `Inv`, and
from it `TypeOK`, `LinesConserved`, `NoEmptyOrder`, `OneOpenBill`,
`BilledOnceUnlessOvertaken` and `NoCircularWait`, the action property
`NoOrderAfterClose`, and the refinement `ImplementsPlacement`.

The properties are not inductive alone. `Inv` adds:

* `LockInv`: a request that has locked the cart is the only one, and what it read
  is what the cart holds. Without it a checkout could order lines that are gone.
  It holds because adding waits for the lock and so does settlement.
* `AbsentInv`: rows that were not inserted have no items; an order that is placed
  later is disjoint from all others for this reason.
* `TargetInv`: what a request in flight refers to exists.
* `ClosedInv`: the table is closed exactly when the cart is archived, then the session
  is not ACTIVE any more, CLOSED or not, and nobody has read CLOSED before. It gives
  `NoOrderAfterClose`, because a checkout needs an ACTIVE cart when it locks.
* `OneBillInv`: unless a settlement overtook a bill request there is one bill at most, and
  once it is settled nobody is left who would create another: a request that validates the
  session later finds it no longer ACTIVE.
* `InsertInv`: a bill request inserts the items of newer orders first. Of requests that
  wait for each other's items each waits for an order older than all that it has
  inserted.

`NoDeadlock` then goes through the kinds of locks. A checkout that has the cart waits for
nothing; who waits for the cart waits for a checkout; who waits for a bill waits for a
settlement that has it and waits for the cart at most; who waits for the session waits for a settlement; and
requests that wait for bill items have inserted orders in descending order: the one that waits for
the least order waits for one that is not in the circle.

The run `dining_concurrent` checks the conjuncts of `Inv` that say something about the
system; the auxiliary ones were checked the same way before they were proved.

The refinement
proof maps `CheckoutCommit` to `Place`, `AddCommit` to `Add`, `SettleCommit` to
`Close`, and all else to stuttering.

### What exclusion the core would need

Some properties fail when certain requests overlap. `Exclusion_proofs` proves them, for any
number of slots of each kind, for the behaviours in which just these do not. Each
theorem has the form `Spec /\ []Apart => []P`, where `Apart` is a state predicate that a
row lock would guarantee; no lock is modelled, since the code takes none.

* **Moves of one order** (`MovesApart`: two requests in flight never move the same order).
  Then `BilledOrdersServed` and `TotalMatchesItems` hold, and so does `MovesAllowed`: an order takes
  only the moves of the state machine. A bill is summed before it is written
  and no lock protects it, so neither of the first two is obvious. A served order is
  never moved again (`MoveInv`), so the served orders only grow, and what any two
  requests have read of them, or any two bills list, contain one another (`Chain`). Two
  requests that both have something to add to a bill want therefore to add an order in
  common, the unique index lets one of them pass (`Alone`), and the total that one has
  summed is of the bill it leaves (`SyncInv`). One display keeps moves apart by itself
  (`OneDisplay`): the instance of `dining_concurrent`. With two, one takes an order to SERVED
  and it is billed, then the other commits a move it had decided when the order was
  ACCEPTED.
* **Settlement** (`SettlesAlone`: while one request settles, every other one is idle, adds
  an item, or looks up the session). Then `ClosedMeansResolved`, `SettledOnce` and
  `SettledBillFrozen` hold, there is one bill (`OneBillWhenAlone`), and
  after the table is closed no step changes an order or a bill, and the session only to
  EXPIRED, by a lookup (`ClosedIsFinal`). `AloneInv`: a settlement's bill stays OPEN, what it
  has checked stays resolved (`Kept`), and a closed table has no OPEN bill and nobody in
  flight who could order, cook or bill (`AtRest`).
* **All requests** (`Solo`: at most one is in flight). Then `DiningSession` implements
  `TableService` (`ServiceRefined`, in `DiningSession_proofs`). `ServiceInv` says what each request in
  flight has read is still so: the session is not closed, the move is still allowed, the
  served orders read are the served orders, the bill found is OPEN and with what is to be
  added lists exactly these, and the total is of them (`Current`, `Unchanged`). Then every commit
  is the atomic action, with all the checks that were made one by one true at once, and
  all other steps stutter.

An instance with a single slot satisfies the last two, which is what `dining_serial`
checks. `AloneInv` and `ServiceInv` were checked by TLC before they were proved, the former
on two guests, two displays and two cashiers with `SettlesAlone` as a constraint.

### Kitchen notifications

`KitchenNotification_proofs`, for a finite set of request slots and any orders, proves
`TypeOK`, `TruthfulMessages`, `SentMeansTold`, `ToldOnceUnlessTrouble`,
`LateMessagesBounded` and `NoStageSkipped`, and the refinement `ImplementsLedger`.

* What makes a message unique is the undecided insert: of two requests with an
  uncommitted record of the same key one would have waited, and a request that
  uses a committed record again found it FAILED, which means that an attempt was in
  trouble before. The invariant says so for every location of a request.
* `LateMessagesBounded` is a counting argument: after the session is closed,
  `late + |Sending| <= |Kitchen|`, where `Sending` are the requests past the check of the
  session. A closed session admits no new one, and each message takes one out.
* `NothingForgotten` is the safety part of `EveryMoveIsRecorded`: while the session is open and
  nothing has died, a status that an order got is recorded or a request is on its way
  to record it. What remains for TLC is that requests come to their end.
* `ImplementsLedger` needs more than the invariants that follow from it: that the message
  of a request which goes out now is the first or follows trouble (`FirstOrTrouble`), that
  a move was allowed from a status the order has had, and that an outcome
  committed now, perhaps over another request's, is one there was.

### Cart

`CartItems_proofs` proves `TypeOK`, `UnitsConserved`, `NothingInvented` and
`LateOrdersBounded`, for any requests and items. The invariant says which
units a request may still use: the row it has read keeps its id, no later row of the
item has it, and as long as that row is there, or is locked by a checkout, the units
read and those ordered are at most those asked for. A locked checkout that holds a
dish sold out since is the only one, and leaves `late < soldOut`.

`UnitsConserved` excepts the items of which a stale quantity was used. `ConservedWhenApart`
says what a lock on the `cart_items` rows that are read would buy: while no two requests
in flight have read the same row (`RowsApart`) no unit of any item is lost. Removals and
first additions need no lock of their own; what a request has read is still so (`Fresh`).

### Session entry

`SessionEntry_proofs` proves all five properties of the run, for any finite number of
requests. `Seen` says what an entering request knows of the sessions that were there when
it began and are still ACTIVE: it will mark them, it has found them, or it passed them
over for the one it found. `AllLeft`: one that changes tables retires every one of them.
A session that came up later is none of those, and overlaps with the one it creates.

`LiveBounded` is a counting argument. A request is *pending* when it will create a session
without looking again. `RoomInv` says for every set `Q` of pending requests that the live
sessions which none of `Q` retires, and one for each of `Q`, are no more than the request
slots: whichever of them go through, there is room. The set matters, since what one
pending request retires another one may have just created.

`OneActiveUnlessOverlap` and `RetiredForCause` except overlapping entries. While a customer's
entries do not overlap (`EntriesApart`, what a lock on her `customers` row would give;
lookups, settlements and timeouts may still overlap with one) she has one ACTIVE session
at most (`OneActiveWhenApart`), and it is retired only when its time has passed or by her
own move to another table (`RetiredWhenApart`).

### Webhook

`WhatsAppWebhook_proofs` proves `TypeOK`, `ExecutedOnce`, `LineConserved` and
`AckedUnlessLost`, and the refinement `ImplementsInbox`. The invariant:

* uncommitted records are new and those of different workers are disjoint, since
  an insert waits for the undecided one; effects in a transaction are recorded in it;
* lines are ordered only under the exclusive lock, which one worker has at a time, and
  only lines that are in the cart or of its own transaction, each in one order;
* a prefix of the batch is covered: what the worker has been through is committed,
  recorded in its transaction, or in its `undone`.

Every step but the commit stutters in the inbox, and the commit handles the records
of the transaction in one step.

### Conversation

`BotConversation_proofs` proves `TypeOK`, `OrderFromOwnSession` and `OfferedBillExists`, for
any restaurants, tables, dishes and texts. The first needs that the cart is empty
when a session begins and then only holds what was chosen in it; the second, that a
bill is only offered with a served order, and that only a stale move of a display takes
SERVED back, which `unserved` records.

### Amounts

`BillAmounts_proofs`, for any finite set of items and any prices and tax rate, proves
`RoundsDoNotShow`, `TaxIsFair`, and that no step makes a grand total smaller
(`NeverCheaper`). The invariant `Charged` says of which items the amounts are: those of the
bill, or, while a sync adds to it, some of them; the copies on the bill cost what the
orders' items cost.

Subtotals are sums over finite sets, defined by a fold, and what a fold computes is
induction over the set. The library's induction theorems take a predicate as a
parameter, which the provers cannot instantiate. The proof takes the smallest
counterexample instead: strict inclusion of finite sets is well-founded
(`FS_StrictSubsetOrderingWellFounded`), so the sets on which two functions that obey the
recursion of a sum differ, or on which there is no such function, have a least member
(`WFMin`), and that one without an element is no counterexample (`SumsUnique`, `SumsExist`). From the
recursion follow `SumWithout` and `SumOfUnion`. The other half is the
rounding: `TaxNear` and `GrandTotalMonotone` are arithmetic on `\div` and `%`.

### Only model-checked

* Liveness: `EveryMoveIsRecorded` and `EveryBatchAcked`. Fairness and ENABLED are
  out of the prover's reach.
* That `ServedIsBilled`, `SettledOnce`, `ToldIsDone` and `CheckoutCommandOrders` fail: each
  violation is a trace of TLC.

Every other property of a passing run is stated by a theorem; those named above under a
hypothesis are stated under it.

## 6. Not modelled, and why

* Catalogue, configuration, logging, start, migrations: no state that changes.
* Authentication of posts (signature) and the verification handshake: a request
  that fails them takes no step.
* Message texts, truncation, list limits, and the rest of the WhatsApp client: layout.
* Which restaurant is the default when none is configured: the database's choice, a
  constant set in `BotConversation`.
* Collisions of order and bill numbers: a failed request like any other.
* What becomes of the served orders of a guest who changes tables without paying
  (`session.py:175`): the code retires the session on purpose and no document says what
  should happen, so that there is no property to state.
* `scripts/simulate_chat.py` calls the services one after the other: it is the
  serial instance.
* SQLite, which the tests use, ignores `FOR UPDATE` and serialises writers; the
  models are of PostgreSQL, the database of production.
* Prices that change between add and checkout: no code here changes a price, and
  the cart keeps the price of the first addition.

## 7. Plan

Done: core, cart, entry, notifications, webhook, conversation and amounts, each checked
and proved as far as section 5 says. Left:

1. A composition of `WhatsAppWebhook` and `DiningSession`, in which the effect of a
   message is a handler with all its statements and not one step; and of
   `SessionEntry` with it, for the abandoned unpaid session.
