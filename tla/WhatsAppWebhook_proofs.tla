----------------------- MODULE WhatsAppWebhook_proofs -----------------------
(***************************************************************************)
(* Proofs about WhatsAppWebhook, for any number of workers, batches and    *)
(* messages, any trouble, and both points at which FastAPI may answer.     *)
(***************************************************************************)
EXTENDS WhatsAppWebhook, TLAPS

(* The inductive invariant. *)

Cur(t) == Payload[t.batch][t.i]

\* What an undecided transaction has written can be committed: its messages
\* are new, the lines it orders are in the cart or its own, each in one order,
\* and it orders lines only under the exclusive lock.
Sound(x) ==
    /\ x.recorded \cap events = {}
    /\ x.done \subseteq x.recorded
    /\ x.cart \subseteq x.done
    /\ \A c \in Checkout :
           /\ x.ordered[c] # {} => c \in x.done /\ x.hold = "exclusive"
           /\ x.ordered[c] \subseteq cart \cup x.done
           /\ x.ordered[c] \cap x.cart = {}
           /\ \A d \in Checkout \ {c} : x.ordered[c] \cap x.ordered[d] = {}
    /\ \A m \in x.done \cap Addition : m \in x.cart \/ \E c \in Checkout : m \in x.ordered[c]

\* Two transactions do not decide the same message or order the same line.
Apart(x, y) ==
    /\ x.recorded \cap y.recorded = {}
    /\ ~(x.hold = "exclusive" /\ y.hold = "exclusive")

\* The messages before the current one are recorded, or were and are undone.
Covered(t) ==
    \A k \in 1..Len(Payload[t.batch]) :
        k < t.i => Payload[t.batch][k] \in events \cup t.write.recorded \cup t.undone

\* Where a request is in its batch, and what has become of the messages before.
Local(t) ==
    /\ t.pc # "idle" => t.batch \in Batch
    /\ t.pc \in {"idle", "committed"} => t.write = NoWrite
    /\ t.pc \in {"record", "handle", "bill"} => t.i <= Len(Payload[t.batch])
    /\ t.pc = "record" => Cur(t) \notin t.write.recorded
    /\ t.pc \in {"handle", "bill"} => Cur(t) \in t.write.recorded \ t.write.done
    /\ t.pc = "bill" => Cur(t) \in BillRequest
    /\ t.pc \in {"look up", "record", "handle", "bill"} => Covered(t)
    /\ t.pc = "committed" => In(t.batch) \subseteq events \cup t.undone

Requests ==
    /\ \A w \in Worker : Sound(tx[w].write) /\ Local(tx[w])
    /\ \A v, w \in Worker : v # w => Apart(tx[v].write, tx[w].write)

\* What is committed.
Database ==
    /\ \A m \in Message : executed[m] \in {0, 1} /\ (executed[m] = 1 => m \in events)
    /\ \A m \in Message : ordered[m] # {} => m \in Checkout /\ executed[m] = 1
    /\ LineConserved

Inv == TypeOK /\ Requests /\ Database /\ AckedUnlessLost

LEMMA NoWriteIsWrite ==
  /\ NoWrite \in Write
  /\ NoWrite.recorded = {} /\ NoWrite.done = {} /\ NoWrite.cart = {}
  /\ NoWrite.hold = "none"
  /\ \A c \in Checkout : NoWrite.ordered[c] = {}
  BY DEF NoWrite, Write

LEMMA IdleIsTx ==
  /\ Idle \in Tx
  /\ Idle.pc = "idle" /\ Idle.write = NoWrite /\ Idle.undone = {} /\ Idle.i = 1
  BY NoWriteIsWrite DEF Idle, Tx, Location, Failure

LEMMA NoWriteIsSound ==
  /\ Sound(NoWrite)
  /\ \A y : Apart(NoWrite, y) /\ Apart(y, NoWrite)
  BY NoWriteIsWrite DEF Sound, Apart

LEMMA IdleIsLocal == Local(Idle)
  BY IdleIsTx DEF Local

\* Every message of a batch is one.
LEMMA BatchMessages ==
  ASSUME NEW b \in Batch
  PROVE  /\ Len(Payload[b]) \in Nat
         /\ \A k \in 1..Len(Payload[b]) : Payload[b][k] \in Message
         /\ In(b) \subseteq Message
  <1>1. Payload[b] \in Seq(Message)
    BY WebhookAssumption
  <1>2. QED
    BY <1>1 DEF In

LEMMA InitInv == Init => Inv
  <1> SUFFICES ASSUME Init PROVE Inv
    OBVIOUS
  <1>1. TypeOK
    <2>1. events \subseteq Message /\ cart \subseteq Addition /\ ordered \in [Message -> SUBSET Addition]
      BY WebhookAssumption DEF Init
    <2>2. executed \in [Message -> Nat]
      BY DEF Init
    <2>3. bill \in BOOLEAN /\ acked \subseteq Batch /\ tx \in [Worker -> Tx] /\ lost \subseteq Message
      BY IdleIsTx DEF Init
    <2>4. trouble \in 0..MaxTrouble
      BY WebhookAssumption DEF Init
    <2>5. QED
      BY <2>1, <2>2, <2>3, <2>4 DEF TypeOK
  <1>2. Requests
    BY IdleIsTx, IdleIsLocal, NoWriteIsSound DEF Init, Requests
  <1>3. Database
    BY WebhookAssumption DEF Init, Database, LineConserved
  <1>4. QED
    BY <1>1, <1>2, <1>3 DEF Init, Inv, AckedUnlessLost

\* A step of w that commits nothing.
LEMMA QuietStep ==
  ASSUME Inv, NEW w \in Worker, NEW t \in Tx, Become(w, t),
         Sound(t.write), Local(t),
         \A v \in Worker \ {w} : Apart(t.write, tx[v].write),
         UNCHANGED <<events, cart, ordered, executed, bill>>,
         acked' \subseteq Batch, lost' \subseteq Message, trouble' \in 0..MaxTrouble,
         AckedUnlessLost'
  PROVE  Inv'
  <1>1. tx'[w] = t /\ \A v \in Worker : v # w => tx'[v] = tx[v]
    BY DEF Inv, TypeOK, Become
  <1>2. TypeOK'
    BY DEF Inv, TypeOK, Become
  <1>3. \A v \in Worker : Sound(tx[v].write)' /\ Local(tx[v])'
    <2> SUFFICES ASSUME NEW v \in Worker PROVE Sound(tx[v].write)' /\ Local(tx[v])'
      OBVIOUS
    <2>1. Sound(tx'[v].write) /\ Local(tx'[v])
      BY <1>1 DEF Inv, Requests
    <2>2. Sound(tx[v].write)'
      BY <2>1 DEF Sound
    <2>3. Local(tx[v])'
      BY <2>1 DEF Local, Cur, In, Covered
    <2>4. QED
      BY <2>2, <2>3
  <1>4. \A u, v \in Worker : u # v => Apart(tx[u].write, tx[v].write)'
    BY <1>1 DEF Inv, Requests, Apart
  <1>5. Database'
    BY DEF Inv, Database, LineConserved
  <1>6. QED
    BY <1>2, <1>3, <1>4, <1>5 DEF Inv, Requests

\* The same, of a step that does not answer.
LEMMA SilentStep ==
  ASSUME Inv, NEW w \in Worker, NEW t \in Tx, Become(w, t),
         Sound(t.write), Local(t),
         \A v \in Worker \ {w} : Apart(t.write, tx[v].write),
         DatabaseUnchanged, AnswersUnchanged, trouble' \in 0..MaxTrouble
  PROVE  Inv'
  <1>1. AckedUnlessLost'
    BY DEF Inv, AckedUnlessLost, DatabaseUnchanged, AnswersUnchanged
  <1>2. acked' \subseteq Batch /\ lost' \subseteq Message
    BY DEF Inv, TypeOK, AnswersUnchanged
  <1>3. QED
    BY <1>1, <1>2, QuietStep DEF DatabaseUnchanged

-----------------------------------------------------------------------------
(* The shapes of the requests that steps make. *)

LEMMA AdvanceShape ==
  ASSUME NEW t \in Tx
  PROVE  /\ Advance(t) \in Tx
         /\ Advance(t).pc = "look up" /\ Advance(t).i = t.i + 1 /\ Advance(t).batch = t.batch
         /\ Advance(t).write = t.write /\ Advance(t).undone = t.undone
         /\ Advance(t).failed = t.failed
  <1>1. t.i + 1 \in Nat \ {0} /\ "look up" \in Location
    <2>1. t.i \in Nat \ {0}
      BY DEF Tx
    <2>2. t.i + 1 \in Nat \ {0}
      BY <2>1
    <2>3. QED
      BY <2>2 DEF Location
  <1>2. QED
    BY <1>1 DEF Advance, Tx

\* On to the next message, when the current one is recorded or undone.
LEMMA AdvanceLocal ==
  ASSUME NEW t \in Tx, t.batch \in Batch, Covered(t),
         t.i <= Len(Payload[t.batch]) =>
             Cur(t) \in events \cup t.write.recorded \cup t.undone
  PROVE  Local(Advance(t))
  <1>1. t.i \in Nat \ {0} /\ Len(Payload[t.batch]) \in Nat
    BY BatchMessages DEF Tx
  <1>2. Covered(Advance(t))
    <2> SUFFICES ASSUME NEW k \in 1..Len(Payload[t.batch]), k < t.i + 1
                 PROVE  Payload[t.batch][k] \in events \cup t.write.recorded \cup t.undone
      BY AdvanceShape DEF Covered
    <2>1. CASE k = t.i
      BY <1>1, <2>1 DEF Cur
    <2>2. CASE k < t.i
      BY <2>2 DEF Covered
    <2>3. QED
      BY <1>1, <2>1, <2>2
  <1>3. QED
    BY <1>2, AdvanceShape DEF Local

LEMMA UndoneShape ==
  ASSUME NEW t \in Tx
  PROVE  /\ Undone(t) \in Tx
         /\ Undone(t).pc = t.pc /\ Undone(t).i = t.i /\ Undone(t).batch = t.batch
         /\ Undone(t).write = NoWrite
         /\ Undone(t).undone = t.undone \cup t.write.recorded
  BY NoWriteIsWrite DEF Undone, Tx, Write

LEMMA FailedShape ==
  ASSUME NEW t \in Tx, NEW how \in {"flush", "statement"}
  PROVE  /\ [Undone(t) EXCEPT !.failed = how] \in Tx
         /\ [Undone(t) EXCEPT !.failed = how].i = t.i
         /\ [Undone(t) EXCEPT !.failed = how].batch = t.batch
         /\ [Undone(t) EXCEPT !.failed = how].write = NoWrite
         /\ [Undone(t) EXCEPT !.failed = how].undone = t.undone \cup t.write.recorded
  BY UndoneShape DEF Tx, Failure

-----------------------------------------------------------------------------
(* The steps that commit nothing. *)

\* What the invariant says of one request.
LEMMA OfRequest ==
  ASSUME Inv, NEW w \in Worker
  PROVE  /\ tx[w] \in Tx /\ tx[w].write \in Write
         /\ Sound(tx[w].write) /\ Local(tx[w])
         /\ \A v \in Worker \ {w} : /\ tx[v] \in Tx
                                    /\ Apart(tx[w].write, tx[v].write)
                                    /\ Apart(tx[v].write, tx[w].write)
         /\ trouble \in 0..MaxTrouble /\ MaxTrouble \in Nat
  BY WebhookAssumption DEF Inv, TypeOK, Requests, Tx

\* A request that ends writes nothing.
LEMMA EndStep ==
  ASSUME Inv, NEW w \in Worker, End(w), DatabaseUnchanged, AnswersUnchanged,
         trouble' \in 0..MaxTrouble
  PROVE  Inv'
  BY IdleIsTx, IdleIsLocal, NoWriteIsSound, SilentStep DEF End

\* A request goes on with what it has written.
LEMMA SameWrite ==
  ASSUME Inv, NEW w \in Worker, NEW t \in Tx, Become(w, t), t.write = tx[w].write, Local(t),
         DatabaseUnchanged, AnswersUnchanged, trouble' \in 0..MaxTrouble
  PROVE  Inv'
  BY OfRequest, SilentStep

\* A request goes on without what it had written.
LEMMA LostWrite ==
  ASSUME Inv, NEW w \in Worker, NEW t \in Tx, Become(w, t), t.write = NoWrite, Local(t),
         DatabaseUnchanged, AnswersUnchanged, trouble' \in 0..MaxTrouble
  PROVE  Inv'
  BY NoWriteIsSound, SilentStep

\* A rollback that the request survives.
LEMMA FailStep ==
  ASSUME Inv, NEW w \in Worker, NEW how \in {"flush", "statement"}, Fail(w, how),
         tx[w].pc \in {"handle", "bill"},
         DatabaseUnchanged, AnswersUnchanged, trouble' \in 0..MaxTrouble
  PROVE  Inv'
  <1> DEFINE f == [Undone(tx[w]) EXCEPT !.failed = how]
  <1>1. tx[w] \in Tx /\ Local(tx[w])
    BY OfRequest
  <1>2. /\ f \in Tx /\ f.i = tx[w].i /\ f.batch = tx[w].batch /\ f.write = NoWrite
        /\ f.undone = tx[w].undone \cup tx[w].write.recorded
    BY <1>1, FailedShape
  <1>3. f.batch \in Batch /\ Covered(f) /\ Cur(f) \in f.undone
    BY <1>1, <1>2, NoWriteIsWrite DEF Local, Covered, Cur
  <1>4. Become(w, Advance(f))
    BY DEF Fail
  <1> HIDE DEF f
  <1>5. Local(Advance(f)) /\ Advance(f) \in Tx /\ Advance(f).write = NoWrite
    BY <1>2, <1>3, AdvanceLocal, AdvanceShape
  <1>6. QED
    BY <1>4, <1>5, LostWrite

LEMMA DeliverInv ==
  ASSUME Inv, NEW w \in Worker, NEW b \in Batch, Deliver(w, b)
  PROVE  Inv'
  <1> DEFINE t == [Idle EXCEPT !.pc = "look up", !.batch = b]
  <1>1. /\ t \in Tx /\ t.pc = "look up" /\ t.batch = b /\ t.i = 1 /\ t.write = NoWrite
    BY IdleIsTx DEF Tx, Location
  <1>2. Become(w, t) /\ DatabaseUnchanged /\ AnswersUnchanged
    BY DEF Deliver
  <1>3. trouble' \in 0..MaxTrouble
    BY OfRequest DEF Deliver
  <1> HIDE DEF t
  <1>4. Local(t)
    <2>1. Covered(t)
      <3>1. \A n \in Nat : \A k \in 1..n : ~(k < 1)
        OBVIOUS
      <3>2. Len(Payload[t.batch]) \in Nat
        BY <1>1, BatchMessages
      <3>3. QED
        BY <1>1, <3>1, <3>2 DEF Covered
    <2>2. QED
      BY <1>1, <2>1 DEF Local
  <1>5. QED
    BY <1>1, <1>2, <1>3, <1>4, LostWrite

LEMMA LookUpInv ==
  ASSUME Inv, NEW w \in Worker, LookUp(w)
  PROVE  Inv'
  <1>1. /\ tx[w] \in Tx /\ Local(tx[w]) /\ tx[w].pc = "look up" /\ tx[w].i <= Len(Payload[tx[w].batch])
        /\ DatabaseUnchanged /\ AnswersUnchanged /\ trouble' \in 0..MaxTrouble
    BY OfRequest DEF LookUp, At, MoreToDo
  <1>2. tx[w].batch \in Batch /\ Covered(tx[w])
    BY <1>1 DEF Local
  <1>3. CASE End(w)
    BY <1>1, <1>3, EndStep
  <1>4. CASE Known(w) /\ Become(w, Advance(tx[w]))
    <2>1. Local(Advance(tx[w]))
      BY <1>1, <1>2, <1>4, AdvanceLocal DEF Known, Current, Cur
    <2>2. QED
      BY <1>1, <1>4, <2>1, AdvanceShape, SameWrite
  <1>5. CASE ~Known(w) /\ Become(w, [tx[w] EXCEPT !.pc = "record"])
    <2> DEFINE t == [tx[w] EXCEPT !.pc = "record"]
    <2>1. /\ t \in Tx /\ t.pc = "record" /\ t.batch = tx[w].batch /\ t.i = tx[w].i
          /\ t.write = tx[w].write /\ t.undone = tx[w].undone
      BY <1>1 DEF Tx, Location
    <2>2. Become(w, t)
      BY <1>5
    <2> HIDE DEF t
    <2>3. Local(t)
      BY <1>1, <1>2, <1>5, <2>1 DEF Local, Covered, Known, Current, Cur
    <2>4. QED
      BY <1>1, <2>1, <2>2, <2>3, SameWrite
  <1>6. QED
    BY <1>3, <1>4, <1>5 DEF LookUp

\* A request that works on its current message.
LEMMA Working ==
  ASSUME Inv, NEW w \in Worker, tx[w].pc \in {"record", "handle", "bill"}
  PROVE  /\ tx[w] \in Tx /\ tx[w].write \in Write /\ tx[w].batch \in Batch /\ tx[w].i \in Nat \ {0}
         /\ Len(Payload[tx[w].batch]) \in Nat /\ tx[w].i <= Len(Payload[tx[w].batch])
         /\ Covered(tx[w]) /\ Current(w) = Cur(tx[w]) /\ Current(w) \in Message
         /\ ~At(w, "record") => Current(w) \in tx[w].write.recorded \ tx[w].write.done
         /\ At(w, "record") => Current(w) \notin tx[w].write.recorded
         /\ At(w, "bill") => Current(w) \in BillRequest
  <1>1. tx[w] \in Tx /\ tx[w].write \in Write /\ Local(tx[w])
    BY OfRequest
  <1>2. tx[w].batch \in Batch /\ tx[w].i \in Nat \ {0} /\ tx[w].i <= Len(Payload[tx[w].batch])
    BY <1>1 DEF Local, Tx
  <1>3. Len(Payload[tx[w].batch]) \in Nat
    BY <1>2, BatchMessages
  <1>4. tx[w].i \in 1..Len(Payload[tx[w].batch])
    BY <1>2, <1>3
  <1>5. Current(w) \in Message
    BY <1>2, <1>4, BatchMessages DEF Current
  <1>6. QED
    BY <1>1, <1>2, <1>3, <1>5 DEF Local, Current, Cur, At

\* Handling the current message adds to what is written, and the request goes on.
LEMMA WriteStep ==
  ASSUME Inv, NEW w \in Worker, NEW t \in Tx, tx[w].pc \in {"handle", "bill"},
         Become(w, Advance(t)),
         t.batch = tx[w].batch, t.i = tx[w].i, t.undone = tx[w].undone,
         t.write.recorded = tx[w].write.recorded,
         Sound(t.write),
         \A v \in Worker \ {w} : Apart(t.write, tx[v].write),
         DatabaseUnchanged, AnswersUnchanged, trouble' = trouble
  PROVE  Inv'
  <1>1. t.batch \in Batch /\ Covered(t) /\ Cur(t) \in t.write.recorded
    BY Working DEF Covered, Cur, At
  <1>2. Local(Advance(t)) /\ Advance(t) \in Tx /\ Advance(t).write = t.write
    BY <1>1, AdvanceLocal, AdvanceShape
  <1>3. QED
    BY <1>2, OfRequest, SilentStep

LEMMA RecordInv ==
  ASSUME Inv, NEW w \in Worker, Record(w)
  PROVE  Inv'
  <1> DEFINE x == [tx[w].write EXCEPT !.recorded = @ \cup {Current(w)}]
             t == [tx[w] EXCEPT !.write.recorded = @ \cup {Current(w)}]
             h == [t EXCEPT !.pc = "handle"]
  <1>1. /\ tx[w].pc = "record" /\ trouble' = trouble
        /\ DatabaseUnchanged /\ AnswersUnchanged
        /\ \A v \in Worker \ {w} : Current(w) \notin tx[v].write.recorded
    BY DEF Record, At, RecordWaits
  <1>2. trouble' \in 0..MaxTrouble
    BY <1>1, OfRequest
  <1>3. CASE Duplicate(w)
    BY <1>1, <1>2, <1>3, EndStep DEF Record
  <1>4. CASE ~Duplicate(w)
    <2>1. tx[w] \in Tx /\ tx[w].write \in Write /\ Current(w) \in Message
      BY <1>1, Working
    <2>2. /\ x \in Write /\ x.recorded = tx[w].write.recorded \cup {Current(w)}
          /\ x.done = tx[w].write.done /\ x.cart = tx[w].write.cart
          /\ x.ordered = tx[w].write.ordered /\ x.hold = tx[w].write.hold
      BY <2>1 DEF Write
    <2>3. /\ t \in Tx /\ t.write = x /\ t.batch = tx[w].batch /\ t.i = tx[w].i
          /\ t.undone = tx[w].undone
      BY <2>1, <2>2 DEF Tx
    <2>4. /\ h \in Tx /\ h.write = x /\ h.batch = tx[w].batch /\ h.i = tx[w].i
          /\ h.undone = tx[w].undone /\ h.pc = "handle"
      BY <2>3 DEF Tx, Location
    <2>5. Become(w, Advance(t)) \/ Become(w, h)
      BY <1>4 DEF Record, EventId
    <2> HIDE DEF x, t, h
    <2>6. Sound(x)
      <3>1. Sound(tx[w].write) /\ Current(w) \notin events
        BY <1>4, OfRequest DEF Duplicate
      <3>2. QED
        BY <2>2, <3>1 DEF Sound
    <2>7. \A v \in Worker \ {w} : Apart(x, tx[v].write)
      BY <1>1, <2>2, OfRequest DEF Apart
    <2>8. CASE Become(w, Advance(t))
      <3>1. t.batch \in Batch /\ Covered(t) /\ Cur(t) \in t.write.recorded
        BY <1>1, <2>2, <2>3, Working DEF Covered, Cur
      <3>2. Local(Advance(t)) /\ Advance(t) \in Tx /\ Advance(t).write = x
        BY <2>3, <3>1, AdvanceLocal, AdvanceShape
      <3>3. QED
        BY <1>1, <1>2, <2>6, <2>7, <2>8, <3>2, SilentStep
    <2>9. CASE Become(w, h)
      <3>1. tx[w].write.done \subseteq tx[w].write.recorded /\ Current(w) \notin tx[w].write.recorded
        BY <1>1, OfRequest, Working DEF Sound, At
      <3>2. /\ h.batch \in Batch /\ Covered(h) /\ h.i <= Len(Payload[h.batch])
            /\ Cur(h) \in x.recorded \ x.done
        BY <1>1, <2>2, <2>4, <3>1, Working DEF Covered, Cur
      <3>3. Local(h)
        BY <2>4, <3>2 DEF Local
      <3>4. QED
        BY <1>1, <1>2, <2>4, <2>6, <2>7, <2>9, <3>3, SilentStep
    <2>10. QED
      BY <2>5, <2>8, <2>9
  <1>5. QED
    BY <1>3, <1>4

LEMMA AddLineInv ==
  ASSUME Inv, NEW w \in Worker, AddLine(w)
  PROVE  Inv'
  <1> DEFINE m == Current(w)
             y == tx[w].write
             x == [y EXCEPT !.done = @ \cup {m}, !.cart = @ \cup {m},
                            !.hold = IF @ = "none" THEN "share" ELSE @]
             t == [tx[w] EXCEPT !.write.done = @ \cup {m}, !.write.cart = @ \cup {m},
                                !.write.hold = IF @ = "none" THEN "share" ELSE @]
  <1>1. /\ tx[w].pc = "handle" /\ m \in Addition
        /\ DatabaseUnchanged /\ AnswersUnchanged /\ trouble' = trouble
        /\ \A v \in Worker \ {w} : tx[v].write.hold # "exclusive"
    BY DEF AddLine, At, CartFree, CartWaits
  <1>2. /\ tx[w] \in Tx /\ y \in Write /\ m \in Message /\ m \in y.recorded \ y.done
    BY <1>1, Working DEF At
  <1>3. /\ x \in Write /\ x.recorded = y.recorded /\ x.done = y.done \cup {m}
        /\ x.cart = y.cart \cup {m} /\ x.ordered = y.ordered
        /\ x.hold = IF y.hold = "none" THEN "share" ELSE y.hold
    BY <1>1, <1>2 DEF Write
  <1>4. /\ t \in Tx /\ t.write = x /\ t.batch = tx[w].batch /\ t.i = tx[w].i
        /\ t.undone = tx[w].undone
    BY <1>2, <1>3 DEF Tx
  <1>5. Become(w, Advance(t))
    BY DEF AddLine
  <1>6. Sound(y)
    BY OfRequest
  <1>7. m \notin cart /\ \A c \in Checkout : m \notin y.ordered[c]
    <2>1. m \notin events
      BY <1>2, <1>6 DEF Sound
    <2>2. m \notin cart
      BY <1>1, <1>2, <2>1, WebhookAssumption DEF Inv, Database, LineConserved
    <2>3. QED
      BY <1>2, <1>6, <2>2 DEF Sound
  <1> HIDE DEF t, x
  <1>8. Sound(x)
    <2>1. \A c \in Checkout : x.ordered[c] # {} => c \in x.done /\ x.hold = "exclusive"
      BY <1>3, <1>6 DEF Sound
    <2>2. \A c \in Checkout :
              /\ x.ordered[c] \subseteq cart \cup x.done
              /\ x.ordered[c] \cap x.cart = {}
              /\ \A d \in Checkout \ {c} : x.ordered[c] \cap x.ordered[d] = {}
      BY <1>3, <1>6, <1>7 DEF Sound
    <2>3. \A k \in x.done \cap Addition : k \in x.cart \/ \E c \in Checkout : k \in x.ordered[c]
      BY <1>3, <1>6 DEF Sound
    <2>4. x.recorded \cap events = {} /\ x.done \subseteq x.recorded /\ x.cart \subseteq x.done
      BY <1>2, <1>3, <1>6 DEF Sound
    <2>5. QED
      BY <2>1, <2>2, <2>3, <2>4 DEF Sound
  <1>9. \A v \in Worker \ {w} : Apart(x, tx[v].write)
    BY <1>1, <1>3, OfRequest DEF Apart
  <1>10. QED
    BY <1>1, <1>3, <1>4, <1>5, <1>8, <1>9, WriteStep

LEMMA CheckOutInv ==
  ASSUME Inv, NEW w \in Worker, CheckOut(w)
  PROVE  Inv'
  <1> DEFINE m == Current(w)
             y == tx[w].write
             z == [y EXCEPT !.hold = "exclusive"]
             s == LockCart(w, tx[w])
             lines == (cart \ UNION {s.write.ordered[c] : c \in Checkout}) \cup s.write.cart
             x == [z EXCEPT !.done = @ \cup {m}, !.cart = {}, !.ordered[m] = lines]
             t == [s EXCEPT !.write.done = @ \cup {m}, !.write.cart = {}, !.write.ordered[m] = lines]
  <1>1. /\ tx[w].pc = "handle" /\ m \in Checkout
        /\ DatabaseUnchanged /\ AnswersUnchanged /\ trouble' = trouble
        /\ \A v \in Worker \ {w} : tx[v].write.hold = "none"
    BY DEF CheckOut, At, CartFree, CartWaits
  <1>2. /\ tx[w] \in Tx /\ y \in Write /\ m \in Message /\ m \in y.recorded \ y.done
        /\ cart \subseteq Addition
    BY <1>1, Working DEF At, Inv, TypeOK
  <1>3. Sound(y)
    BY OfRequest
  <1>4. /\ z \in Write /\ z.recorded = y.recorded /\ z.done = y.done /\ z.cart = y.cart
        /\ z.ordered = y.ordered /\ z.hold = "exclusive"
    BY <1>2 DEF Write
  <1>5. /\ s \in Tx /\ s.write = z /\ s.batch = tx[w].batch /\ s.i = tx[w].i
        /\ s.undone = tx[w].undone
    BY <1>2, <1>4 DEF Tx, LockCart
  <1>6. lines \subseteq Addition
    BY <1>2, <1>4, <1>5 DEF Write
  <1>7. /\ Become(w, Advance(s)) \/ Become(w, Advance(t))
    BY DEF CheckOut
  <1> HIDE DEF lines, z
  <1>8. /\ x \in Write /\ x.recorded = y.recorded /\ x.done = y.done \cup {m}
        /\ x.cart = {} /\ x.hold = "exclusive"
        /\ x.ordered = [y.ordered EXCEPT ![m] = lines]
        /\ x.ordered[m] = lines /\ \A c \in Checkout \ {m} : x.ordered[c] = y.ordered[c]
    <2>1. y.ordered \in [Checkout -> SUBSET Addition]
      BY <1>2 DEF Write
    <2>2. [y.ordered EXCEPT ![m] = lines] \in [Checkout -> SUBSET Addition]
      BY <1>1, <1>6, <2>1
    <2>3. x = [z EXCEPT !.done = z.done \cup {m}, !.cart = {},
                        !.ordered = [y.ordered EXCEPT ![m] = lines]]
      BY <1>4
    <2>4. QED
      BY <1>1, <1>2, <1>4, <2>1, <2>2, <2>3 DEF Write
  <1>9. /\ t \in Tx /\ t.write = x /\ t.batch = tx[w].batch /\ t.i = tx[w].i
        /\ t.undone = tx[w].undone
    <2>1. t = [s EXCEPT !.write = [s.write EXCEPT !.done = @ \cup {m}, !.cart = {}, !.ordered[m] = lines]]
      OBVIOUS
    <2>2. t = [s EXCEPT !.write = x]
      BY <1>5, <2>1
    <2> HIDE DEF s, t, x
    <2>3. QED
      BY <1>5, <1>8, <2>2 DEF Tx
  <1> HIDE DEF s, t, x
  <1>10. CASE Become(w, Advance(s))
    <2>1. Sound(z)
      BY <1>3, <1>4 DEF Sound
    <2>2. \A v \in Worker \ {w} : Apart(z, tx[v].write)
      BY <1>1, <1>4, OfRequest DEF Apart
    <2>3. QED
      BY <1>1, <1>4, <1>5, <1>10, <2>1, <2>2, WriteStep
  <1>11. CASE Become(w, Advance(t))
    <2>1. \A c \in Checkout : lines \cap y.ordered[c] = {}
      BY <1>3, <1>4, <1>5 DEF lines, Sound
    <2>2. lines \subseteq cart \cup y.done
      BY <1>3, <1>4, <1>5 DEF lines, Sound
    <2>3. Sound(x)
      <3>1. x.recorded \cap events = {} /\ x.done \subseteq x.recorded /\ x.cart \subseteq x.done
        BY <1>2, <1>3, <1>8 DEF Sound
      <3>2. ASSUME NEW c \in Checkout
            PROVE  /\ x.ordered[c] # {} => c \in x.done /\ x.hold = "exclusive"
                   /\ x.ordered[c] \subseteq cart \cup x.done
                   /\ x.ordered[c] \cap x.cart = {}
                   /\ \A d \in Checkout \ {c} : x.ordered[c] \cap x.ordered[d] = {}
        <4>1. CASE c = m
          BY <1>1, <1>8, <2>1, <2>2, <4>1
        <4>2. CASE c # m
          <5>1. x.ordered[c] = y.ordered[c]
            BY <1>8, <4>2
          <5>2. \A d \in Checkout \ {c} : x.ordered[c] \cap x.ordered[d] = {}
            BY <1>1, <1>3, <1>8, <2>1, <5>1 DEF Sound
          <5>3. QED
            BY <1>3, <1>8, <5>1, <5>2 DEF Sound
        <4>3. QED
          BY <4>1, <4>2
      <3>3. ASSUME NEW k \in x.done \cap Addition
            PROVE  \E c \in Checkout : k \in x.ordered[c]
        <4>1. k \in y.done
          BY <1>1, <1>8, WebhookAssumption
        <4>2. CASE k \in y.cart
          <5>1. k \in x.ordered[m]
            BY <1>4, <1>5, <1>8, <4>2 DEF lines
          <5>2. QED
            BY <1>1, <5>1
        <4>3. CASE k \notin y.cart
          <5>1. PICK c \in Checkout : k \in y.ordered[c]
            BY <1>3, <4>1, <4>3 DEF Sound
          <5>2. c # m
            BY <1>2, <1>3, <5>1 DEF Sound
          <5>3. QED
            BY <1>8, <5>1, <5>2
        <4>4. QED
          BY <4>2, <4>3
      <3>4. QED
        BY <3>1, <3>2, <3>3 DEF Sound
    <2>4. \A v \in Worker \ {w} : Apart(x, tx[v].write)
      BY <1>1, <1>8, OfRequest DEF Apart
    <2>5. QED
      BY <1>1, <1>8, <1>9, <1>11, <2>3, <2>4, WriteStep
  <1>12. QED
    BY <1>7, <1>10, <1>11

\* A bill request that takes effect writes nothing about lines.
LEMMA BillDone ==
  ASSUME Inv, NEW w \in Worker, tx[w].pc \in {"handle", "bill"}, Current(w) \in BillRequest,
         NEW x \in Write, x.recorded = tx[w].write.recorded,
         x.done = tx[w].write.done \cup {Current(w)}, x.cart = tx[w].write.cart,
         x.ordered = tx[w].write.ordered, x.hold = tx[w].write.hold
  PROVE  Sound(x) /\ \A v \in Worker \ {w} : Apart(x, tx[v].write)
  <1>1. Sound(tx[w].write) /\ \A v \in Worker \ {w} : Apart(tx[w].write, tx[v].write)
    BY OfRequest
  <1>2. Current(w) \in tx[w].write.recorded /\ Current(w) \notin Addition
    BY Working, WebhookAssumption DEF At
  <1>3. \A m \in x.done \cap Addition : m \in x.cart \/ \E c \in Checkout : m \in x.ordered[c]
    BY <1>1, <1>2 DEF Sound
  <1>4. Sound(x)
    BY <1>1, <1>2, <1>3 DEF Sound
  <1>5. QED
    BY <1>1, <1>4 DEF Apart

LEMMA ReadBillInv ==
  ASSUME Inv, NEW w \in Worker, ReadBill(w)
  PROVE  Inv'
  <1> DEFINE x == [tx[w].write EXCEPT !.done = @ \cup {Current(w)}]
             t == [tx[w] EXCEPT !.write.done = @ \cup {Current(w)}]
             b == [tx[w] EXCEPT !.pc = "bill"]
  <1>1. /\ tx[w].pc = "handle" /\ Current(w) \in BillRequest
        /\ DatabaseUnchanged /\ AnswersUnchanged /\ trouble' = trouble
        /\ Become(w, Advance(t)) \/ Become(w, b)
    BY DEF ReadBill, At
  <1>2. tx[w] \in Tx /\ tx[w].write \in Write /\ Current(w) \in Message
    BY <1>1, Working
  <1>3. /\ x \in Write /\ x.recorded = tx[w].write.recorded
        /\ x.done = tx[w].write.done \cup {Current(w)} /\ x.cart = tx[w].write.cart
        /\ x.ordered = tx[w].write.ordered /\ x.hold = tx[w].write.hold
    BY <1>2 DEF Write
  <1>4. /\ t \in Tx /\ t.write = x /\ t.batch = tx[w].batch /\ t.i = tx[w].i
        /\ t.undone = tx[w].undone
    BY <1>2, <1>3 DEF Tx
  <1>5. /\ b \in Tx /\ b.write = tx[w].write /\ b.batch = tx[w].batch /\ b.i = tx[w].i
        /\ b.undone = tx[w].undone /\ b.pc = "bill"
    BY <1>2 DEF Tx, Location
  <1> HIDE DEF x, t, b
  <1>6. CASE Become(w, Advance(t))
    BY <1>1, <1>3, <1>4, <1>6, BillDone, WriteStep
  <1>7. CASE Become(w, b)
    <2>1. Local(b)
      BY <1>1, <1>5, Working DEF Local, Covered, Cur, At
    <2>2. QED
      BY <1>1, <1>5, <1>7, <2>1, OfRequest, SameWrite
  <1>8. QED
    BY <1>1, <1>6, <1>7

LEMMA InsertBillInv ==
  ASSUME Inv, NEW w \in Worker, InsertBill(w)
  PROVE  Inv'
  <1> DEFINE x == [tx[w].write EXCEPT !.newBill = TRUE, !.done = @ \cup {Current(w)}]
             t == [tx[w] EXCEPT !.write.newBill = TRUE, !.write.done = @ \cup {Current(w)}]
             u == RolledBack(tx[w])
  <1>1. /\ tx[w].pc = "bill" /\ DatabaseUnchanged /\ AnswersUnchanged /\ trouble' = trouble
        /\ Become(w, Advance(t)) \/ Become(w, Advance(u))
    BY DEF InsertBill, At
  <1>2. /\ tx[w] \in Tx /\ tx[w].write \in Write /\ Current(w) \in Message
        /\ Current(w) \in BillRequest
    BY <1>1, Working DEF At
  <1>3. /\ x \in Write /\ x.recorded = tx[w].write.recorded
        /\ x.done = tx[w].write.done \cup {Current(w)} /\ x.cart = tx[w].write.cart
        /\ x.ordered = tx[w].write.ordered /\ x.hold = tx[w].write.hold
    BY <1>2 DEF Write
  <1>4. /\ t \in Tx /\ t.write = x /\ t.batch = tx[w].batch /\ t.i = tx[w].i
        /\ t.undone = tx[w].undone
    BY <1>2, <1>3 DEF Tx
  <1>5. /\ u \in Tx /\ u.batch = tx[w].batch /\ u.i = tx[w].i /\ u.write = NoWrite
        /\ u.undone = tx[w].undone \cup tx[w].write.recorded
    BY <1>2, UndoneShape DEF RolledBack
  <1> HIDE DEF x, t, u
  <1>6. CASE Become(w, Advance(t))
    BY <1>1, <1>2, <1>3, <1>4, <1>6, BillDone, WriteStep
  <1>7. CASE Become(w, Advance(u))
    <2>1. u.batch \in Batch /\ Covered(u) /\ Cur(u) \in u.undone
      BY <1>1, <1>5, Working, NoWriteIsWrite DEF Covered, Cur, At
    <2>2. Local(Advance(u)) /\ Advance(u) \in Tx /\ Advance(u).write = NoWrite
      BY <1>5, <2>1, AdvanceLocal, AdvanceShape
    <2>3. QED
      BY <1>1, <1>7, <2>2, OfRequest, LostWrite
  <1>8. QED
    BY <1>1, <1>6, <1>7

LEMMA FaultInv ==
  ASSUME Inv, NEW w \in Worker, FlushFails(w) \/ DeadlockVictim(w) \/ Crash(w)
  PROVE  Inv'
  <1>1. DatabaseUnchanged /\ AnswersUnchanged
    BY DEF FlushFails, DeadlockVictim, Crash
  <1>2. trouble' \in 0..MaxTrouble
    BY OfRequest DEF FlushFails, DeadlockVictim, Crash
  <1>3. CASE FlushFails(w)
    BY <1>1, <1>2, <1>3, FailStep DEF FlushFails
  <1>4. CASE Crash(w)
    BY <1>1, <1>2, <1>4, EndStep DEF Crash
  <1>5. CASE DeadlockVictim(w)
    <2>1. tx[w].pc \in {"record", "handle", "bill"}
      <3>1. PICK n \in 2..Cardinality(Worker) : \E ring \in [1..n -> Worker] :
                /\ ring[1] = w
                /\ \A k \in 1..n : Waits(ring[k], ring[(k % n) + 1])
        BY <1>5 DEF DeadlockVictim, InCircle
      <3>2. PICK ring \in [1..n -> Worker] :
                /\ ring[1] = w
                /\ \A k \in 1..n : Waits(ring[k], ring[(k % n) + 1])
        BY <3>1
      <3>3. 1 \in 1..n
        OBVIOUS
      <3>4. Waits(w, ring[(1 % n) + 1])
        BY <3>2, <3>3
      <3>5. QED
        BY <3>4 DEF Waits, At
    <2>2. CASE End(w)
      BY <1>1, <1>2, <2>2, EndStep
    <2>3. CASE tx[w].pc # "record" /\ (Fail(w, "flush") \/ Fail(w, "statement"))
      BY <1>1, <1>2, <2>1, <2>3, FailStep
    <2>4. QED
      BY <1>5, <2>2, <2>3 DEF DeadlockVictim, At
  <1>6. QED
    BY <1>3, <1>4, <1>5

LEMMA CashierBillInv ==
  ASSUME Inv, CashierBill
  PROVE  Inv'
  <1>1. UNCHANGED <<events, cart, ordered, executed, tx, trouble, acked, lost>> /\ bill' = TRUE
    BY DEF CashierBill, AnswersUnchanged
  <1>2. TypeOK'
    BY <1>1 DEF Inv, TypeOK
  <1>3. Requests'
    <2>1. \A w \in Worker : Sound(tx[w].write)'
      BY <1>1 DEF Inv, Requests, Sound
    <2>2. \A w \in Worker : Local(tx[w])'
      BY <1>1, ZenonT(60) DEF Inv, Requests, Local, Covered, Cur, In
    <2>3. \A v, w \in Worker : v # w => Apart(tx[v].write, tx[w].write)'
      BY <1>1 DEF Inv, Requests, Apart
    <2>4. QED
      BY <2>1, <2>2, <2>3 DEF Requests
  <1>4. Database' /\ AckedUnlessLost'
    BY <1>1 DEF Inv, Database, LineConserved, AckedUnlessLost, In
  <1>5. QED
    BY <1>2, <1>3, <1>4 DEF Inv

-----------------------------------------------------------------------------
(* The commit. *)

\* What a commit does to messages, orders and the cart, one by one.
LEMMA CommitEffect ==
  ASSUME Inv, NEW w \in Worker, Commit(tx[w].write)
  PROVE  /\ events' = events \cup tx[w].write.recorded
         /\ \A m \in Message : IF m \in tx[w].write.done
                               THEN executed[m] = 0 /\ executed'[m] = 1
                               ELSE executed'[m] = executed[m]
         /\ \A c \in Checkout : /\ ordered'[c] = ordered[c] \cup tx[w].write.ordered[c]
                                /\ ordered[c] # {} => tx[w].write.ordered[c] = {}
         /\ \A m \in Message \ Checkout : ordered'[m] = ordered[m]
         /\ \A m : m \in cart' <=> /\ m \in cart \cup tx[w].write.cart
                                   /\ \A c \in Checkout : m \notin tx[w].write.ordered[c]
  <1> DEFINE x == tx[w].write
  <1>1. Sound(x) /\ x \in Write
    BY OfRequest
  <1>2. \A m \in Message : m \in x.done => executed[m] = 0
    BY <1>1 DEF Sound, Inv, Database
  <1>3. \A m \in Message : m \in x.done => m \notin events
    BY <1>1 DEF Sound
  <1>4. /\ events' = events \cup x.recorded
        /\ executed' = [m \in Message |-> IF m \in x.done THEN executed[m] + 1 ELSE executed[m]]
        /\ ordered' = [m \in Message |-> IF m \in x.done \cap Checkout THEN x.ordered[m] ELSE ordered[m]]
        /\ cart' = (cart \cup x.cart) \ UNION {x.ordered[c] : c \in Checkout}
    BY DEF Commit
  <1> HIDE DEF x
  <1>5. \A m \in Message : IF m \in x.done
                           THEN executed[m] = 0 /\ executed'[m] = 1
                           ELSE executed'[m] = executed[m]
    BY <1>2, <1>4
  <1>6. \A c \in Checkout : /\ ordered'[c] = ordered[c] \cup x.ordered[c]
                            /\ ordered[c] # {} => x.ordered[c] = {}
    <2> SUFFICES ASSUME NEW c \in Checkout
                 PROVE  /\ ordered'[c] = ordered[c] \cup x.ordered[c]
                        /\ ordered[c] # {} => x.ordered[c] = {}
      OBVIOUS
    <2>1. c \in Message
      BY WebhookAssumption
    <2>2. CASE c \in x.done
      <3>1. ordered[c] = {}
        BY <1>2, <2>1, <2>2 DEF Inv, Database
      <3>2. QED
        BY <1>4, <2>1, <2>2, <3>1
    <2>3. CASE c \notin x.done
      <3>1. x.ordered[c] = {}
        BY <1>1, <2>3 DEF Sound
      <3>2. QED
        BY <1>4, <2>1, <2>3, <3>1
    <2>4. QED
      BY <2>2, <2>3
  <1>7. \A m \in Message \ Checkout : ordered'[m] = ordered[m]
    BY <1>4
  <1>8. \A m : m \in cart' <=> m \in cart \cup x.cart /\ \A c \in Checkout : m \notin x.ordered[c]
    BY <1>4
  <1>9. QED
    BY <1>4, <1>5, <1>6, <1>7, <1>8 DEF x

\* The lines stay conserved.
LEMMA CommitLines ==
  ASSUME Inv, NEW w \in Worker, Commit(tx[w].write)
  PROVE  LineConserved'
  <1> DEFINE x == tx[w].write
  <1>1. Sound(x)
    BY OfRequest
  <1>2. /\ \A m \in Message : IF m \in x.done
                              THEN executed[m] = 0 /\ executed'[m] = 1
                              ELSE executed'[m] = executed[m]
        /\ \A c \in Checkout : ordered'[c] = ordered[c] \cup x.ordered[c]
        /\ \A m : m \in cart' <=> m \in cart \cup x.cart /\ \A c \in Checkout : m \notin x.ordered[c]
    BY CommitEffect
  <1> HIDE DEF x
  <1> SUFFICES ASSUME NEW m \in Addition
               PROVE  /\ executed'[m] > 0 <=> m \in cart' \/ \E c \in Checkout : m \in ordered'[c]
                      /\ \A c \in Checkout : m \in ordered'[c] =>
                             m \notin cart' /\ \A d \in Checkout \ {c} : m \notin ordered'[d]
    BY DEF LineConserved
  <1>3. m \in Message /\ executed[m] \in {0, 1}
    BY WebhookAssumption DEF Inv, Database
  <1>4. /\ executed[m] > 0 <=> m \in cart \/ \E c \in Checkout : m \in ordered[c]
        /\ \A c \in Checkout : m \in ordered[c] =>
               m \notin cart /\ \A d \in Checkout \ {c} : m \notin ordered[d]
    BY DEF Inv, Database, LineConserved
  <1>5. CASE m \in x.done
    <2>1. m \notin cart /\ \A c \in Checkout : m \notin ordered[c]
      BY <1>2, <1>3, <1>4, <1>5
    <2>2. m \in x.cart \/ \E c \in Checkout : m \in x.ordered[c]
      BY <1>1, <1>5 DEF Sound
    <2>3. executed'[m] > 0
      BY <1>2, <1>3, <1>5
    <2>4. \A c \in Checkout : m \in x.ordered[c] =>
              m \notin x.cart /\ \A d \in Checkout \ {c} : m \notin x.ordered[d]
      BY <1>1 DEF Sound
    <2>5. QED
      BY <1>2, <2>1, <2>2, <2>3, <2>4
  <1>6. CASE m \notin x.done
    <2>1. executed'[m] = executed[m] /\ m \notin x.cart
      BY <1>1, <1>2, <1>3, <1>6 DEF Sound
    <2>2. \A c \in Checkout : m \in x.ordered[c] =>
              m \in cart /\ \A d \in Checkout \ {c} : m \notin x.ordered[d]
      BY <1>1, <1>6 DEF Sound
    <2>3. QED
      BY <1>2, <1>4, <2>1, <2>2
  <1>7. QED
    BY <1>5, <1>6

LEMMA CommitStep ==
  ASSUME Inv, NEW w \in Worker, NEW t \in Tx, Become(w, t), t.write = NoWrite,
         Commit(tx[w].write),
         t.pc = "idle" \/ (t.pc = "committed" /\ t.batch \in Batch /\ In(t.batch) \subseteq events' \cup t.undone),
         acked' \subseteq Batch, lost' \subseteq Message, trouble' \in 0..MaxTrouble,
         AckedUnlessLost'
  PROVE  Inv'
  <1> DEFINE x == tx[w].write
  <1>1. tx'[w] = t /\ \A v \in Worker : v # w => tx'[v] = tx[v]
    BY DEF Inv, TypeOK, Become
  <1>2. Sound(x) /\ x \in Write
    BY OfRequest
  <1>3. /\ events' = events \cup x.recorded
        /\ \A m \in Message : IF m \in x.done
                              THEN executed[m] = 0 /\ executed'[m] = 1
                              ELSE executed'[m] = executed[m]
        /\ \A c \in Checkout : ordered'[c] = ordered[c] \cup x.ordered[c]
        /\ \A m \in Message \ Checkout : ordered'[m] = ordered[m]
        /\ \A m : m \in cart' <=> m \in cart \cup x.cart /\ \A c \in Checkout : m \notin x.ordered[c]
    BY CommitEffect
  <1>4. TypeOK'
    <2>1. events' \subseteq Message /\ cart' \subseteq Addition
      BY <1>2, <1>3 DEF Inv, TypeOK, Write
    <2>2. ordered' \in [Message -> SUBSET Addition]
      BY <1>2 DEF Commit, Inv, TypeOK, Write
    <2>3. executed' \in [Message -> Nat]
      BY DEF Commit, Inv, TypeOK
    <2>4. bill' \in BOOLEAN
      BY DEF Commit
    <2>5. tx' \in [Worker -> Tx]
      BY DEF Inv, TypeOK, Become
    <2>6. QED
      BY <2>1, <2>2, <2>3, <2>4, <2>5 DEF TypeOK
  <1>5. Requests'
    <2>1. ASSUME NEW v \in Worker, v # w PROVE Sound(tx[v].write)' /\ Local(tx[v])'
      <3> DEFINE y == tx[v].write
      <3>1. Sound(y) /\ Local(tx[v]) /\ Apart(x, y) /\ tx'[v] = tx[v]
        BY <1>1, <2>1, OfRequest
      <3>2. \A c \in Checkout : y.ordered[c] \subseteq cart' \cup y.done
        <4> SUFFICES ASSUME NEW c \in Checkout, y.ordered[c] # {}
                     PROVE  y.ordered[c] \subseteq cart' \cup y.done
          OBVIOUS
        <4>1. x.hold # "exclusive"
          BY <3>1 DEF Sound, Apart
        <4>2. \A d \in Checkout : x.ordered[d] = {}
          BY <1>2, <4>1 DEF Sound
        <4>3. cart \subseteq cart'
          BY <1>3, <4>2
        <4>4. QED
          BY <3>1, <4>3 DEF Sound
      <3>3. y.recorded \cap events' = {}
        BY <1>3, <3>1 DEF Sound, Apart
      <3>4. Sound(tx[v].write)'
        BY <3>1, <3>2, <3>3 DEF Sound
      <3>5. events \subseteq events'
        BY <1>3
      <3>6. Local(tx[v])'
        BY <3>1, <3>5 DEF Local, Covered, Cur, In
      <3>7. QED
        BY <3>4, <3>6
    <2>2. Sound(tx[w].write)' /\ Local(tx[w])'
      <3>1. Sound(NoWrite)'
        BY NoWriteIsWrite DEF Sound
      <3>2. Sound(tx[w].write)'
        BY <1>1, <3>1 DEF Sound
      <3>3. Local(t)'
        BY DEF Local, In
      <3>4. Local(tx[w])'
        BY <1>1, <3>3 DEF Local, Covered, Cur, In
      <3>5. QED
        BY <3>2, <3>4
    <2>3. \A u, v \in Worker : u # v => Apart(tx[u].write, tx[v].write)'
      BY <1>1, NoWriteIsWrite DEF Inv, Requests, Apart
    <2>4. QED
      BY <2>1, <2>2, <2>3 DEF Requests
  <1>6. Database'
    <2>1. \A m \in Message : executed'[m] \in {0, 1} /\ (executed'[m] = 1 => m \in events')
      BY <1>2, <1>3 DEF Inv, Database, Sound
    <2>2. \A m \in Message : ordered'[m] # {} => m \in Checkout /\ executed'[m] = 1
      <3> SUFFICES ASSUME NEW m \in Message, ordered'[m] # {}
                   PROVE  m \in Checkout /\ executed'[m] = 1
        OBVIOUS
      <3>1. m \in Checkout
        BY <1>3 DEF Inv, Database
      <3>2. ordered[m] # {} \/ x.ordered[m] # {}
        BY <1>3, <3>1
      <3>3. executed[m] = 1 \/ m \in x.done
        BY <1>2, <3>1, <3>2 DEF Inv, Database, Sound
      <3>4. QED
        BY <1>3, <3>1, <3>3
    <2>3. QED
      BY <2>1, <2>2, CommitLines DEF Database
  <1>7. QED
    BY <1>4, <1>5, <1>6 DEF Inv

LEMMA BelowNext == \A n, i \in Nat : ~(i <= n) => \A k \in 1..n : k < i
  OBVIOUS

\* A request at the end of its batch has all of it recorded or undone.
LEMMA EndOfBatch ==
  ASSUME Inv, NEW w \in Worker, At(w, "look up"), ~MoreToDo(w)
  PROVE  /\ tx[w].batch \in Batch
         /\ In(tx[w].batch) \subseteq events \cup tx[w].write.recorded \cup tx[w].undone
  <1>1. tx[w] \in Tx /\ Local(tx[w])
    BY OfRequest
  <1>2. tx[w].batch \in Batch /\ Covered(tx[w])
    BY <1>1 DEF Local, At
  <1>3. Len(Payload[tx[w].batch]) \in Nat /\ tx[w].i \in Nat
    BY <1>1, <1>2, BatchMessages DEF Tx
  <1>4. \A k \in 1..Len(Payload[tx[w].batch]) : k < tx[w].i
    <2> DEFINE n == Len(Payload[tx[w].batch])
               i == tx[w].i
    <2>1. n \in Nat /\ i \in Nat /\ ~(i <= n)
      BY <1>3 DEF MoreToDo
    <2> HIDE DEF n, i
    <2>2. \A k \in 1..n : k < i
      BY <2>1, BelowNext
    <2>3. QED
      BY <2>2 DEF n, i
  <1>5. QED
    BY <1>2, <1>4 DEF Covered, In

LEMMA CommitFirstInv ==
  ASSUME Inv, NEW w \in Worker, CommitFirst(w)
  PROVE  Inv'
  <1> DEFINE t == [Idle EXCEPT !.pc = "committed", !.batch = tx[w].batch, !.undone = tx[w].undone]
  <1>1. /\ At(w, "look up") /\ ~MoreToDo(w)
        /\ AnswersUnchanged /\ trouble' = trouble /\ trouble' \in 0..MaxTrouble
    BY OfRequest DEF CommitFirst
  <1>2. CASE End(w) /\ DatabaseUnchanged
    BY <1>1, <1>2, EndStep
  <1>3. CASE Become(w, t) /\ Commit(tx[w].write)
    <2>1. tx[w].batch \in Batch /\ tx[w].undone \subseteq Message
      BY <1>1, EndOfBatch, OfRequest DEF Tx
    <2>2. /\ t \in Tx /\ t.pc = "committed" /\ t.write = NoWrite /\ t.batch = tx[w].batch
          /\ t.undone = tx[w].undone
      BY <2>1, IdleIsTx DEF Tx, Location
    <2> HIDE DEF t
    <2>3. events' = events \cup tx[w].write.recorded
      BY <1>3, CommitEffect
    <2>4. In(t.batch) \subseteq events' \cup t.undone
      BY <1>1, <2>2, <2>3, EndOfBatch
    <2>5. AckedUnlessLost'
      BY <1>1, <2>3 DEF Inv, AckedUnlessLost, AnswersUnchanged, In
    <2>6. acked' \subseteq Batch /\ lost' \subseteq Message
      BY <1>1 DEF Inv, TypeOK, AnswersUnchanged
    <2>7. QED
      BY <1>1, <1>3, <2>1, <2>2, <2>4, <2>5, <2>6, CommitStep
  <1>4. QED
    BY <1>2, <1>3 DEF CommitFirst, CommitRaises

LEMMA AnswerCommittedInv ==
  ASSUME Inv, NEW w \in Worker, AnswerCommitted(w)
  PROVE  Inv'
  <1>1. /\ acked' = acked \cup {tx[w].batch} /\ lost' = lost \cup tx[w].undone
        /\ End(w) /\ trouble' = trouble /\ trouble' \in 0..MaxTrouble
        /\ DatabaseUnchanged
    BY OfRequest DEF AnswerCommitted
  <1>2. /\ tx[w].batch \in Batch /\ tx[w].undone \subseteq Message
        /\ In(tx[w].batch) \subseteq events \cup tx[w].undone
    BY OfRequest DEF AnswerCommitted, At, Local, Tx
  <1>3. AckedUnlessLost'
    BY <1>1, <1>2 DEF Inv, AckedUnlessLost, DatabaseUnchanged, In
  <1>4. acked' \subseteq Batch /\ lost' \subseteq Message
    BY <1>1, <1>2 DEF Inv, TypeOK
  <1>5. QED
    BY <1>1, <1>3, <1>4, IdleIsTx, IdleIsLocal, NoWriteIsSound, QuietStep DEF End, DatabaseUnchanged

LEMMA AnswerFirstInv ==
  ASSUME Inv, NEW w \in Worker, AnswerFirst(w)
  PROVE  Inv'
  <1> DEFINE t == [tx[w] EXCEPT !.pc = "answered"]
  <1>1. /\ At(w, "look up") /\ ~MoreToDo(w)
        /\ acked' = acked \cup {tx[w].batch}
        /\ lost' = lost \cup tx[w].undone \cup tx[w].write.recorded
        /\ Become(w, t) /\ trouble' = trouble /\ trouble' \in 0..MaxTrouble
        /\ DatabaseUnchanged
    BY OfRequest DEF AnswerFirst
  <1>2. /\ tx[w] \in Tx /\ tx[w].batch \in Batch /\ tx[w].undone \subseteq Message
        /\ tx[w].write.recorded \subseteq Message
        /\ In(tx[w].batch) \subseteq events \cup tx[w].write.recorded \cup tx[w].undone
    BY <1>1, EndOfBatch, OfRequest DEF Tx, Write
  <1>3. t \in Tx /\ t.pc = "answered" /\ t.write = tx[w].write /\ t.batch = tx[w].batch
    BY <1>2 DEF Tx, Location
  <1> HIDE DEF t
  <1>4. Local(t)
    BY <1>2, <1>3 DEF Local
  <1>5. AckedUnlessLost'
    BY <1>1, <1>2 DEF Inv, AckedUnlessLost, DatabaseUnchanged, In
  <1>6. acked' \subseteq Batch /\ lost' \subseteq Message
    BY <1>1, <1>2 DEF Inv, TypeOK
  <1>7. QED
    BY <1>1, <1>3, <1>4, <1>5, <1>6, OfRequest, QuietStep DEF DatabaseUnchanged

LEMMA CommitAnsweredInv ==
  ASSUME Inv, NEW w \in Worker, CommitAnswered(w)
  PROVE  Inv'
  <1>1. /\ Commit(tx[w].write) /\ lost' = lost \ tx[w].write.recorded /\ Become(w, Idle)
        /\ acked' = acked /\ trouble' = trouble /\ trouble' \in 0..MaxTrouble
    BY OfRequest DEF CommitAnswered, End
  <1>2. events' = events \cup tx[w].write.recorded
    BY <1>1, CommitEffect
  <1>3. AckedUnlessLost'
    BY <1>1, <1>2 DEF Inv, AckedUnlessLost, In
  <1>4. acked' \subseteq Batch /\ lost' \subseteq Message
    BY <1>1 DEF Inv, TypeOK
  <1>5. QED
    BY <1>1, <1>3, <1>4, IdleIsTx, CommitStep

LEMMA NextInv == Inv /\ [Next]_vars => Inv'
  <1> SUFFICES ASSUME Inv, [Next]_vars PROVE Inv'
    OBVIOUS
  <1>1. CASE UNCHANGED vars
    <2>1. TypeOK'
      BY <1>1 DEF vars, Inv, TypeOK
    <2>2. \A w \in Worker : Sound(tx[w].write)'
      BY <1>1 DEF vars, Inv, Requests, Sound
    <2>3. \A w \in Worker : Local(tx[w])'
      BY <1>1, ZenonT(60) DEF vars, Inv, Requests, Local, Covered, Cur, In
    <2>4. \A v, w \in Worker : v # w => Apart(tx[v].write, tx[w].write)'
      BY <1>1 DEF vars, Inv, Requests, Apart
    <2>5. Database' /\ AckedUnlessLost'
      BY <1>1 DEF vars, Inv, Database, LineConserved, AckedUnlessLost, In
    <2>6. QED
      BY <2>1, <2>2, <2>3, <2>4, <2>5 DEF Inv, Requests
  <1>2. ASSUME NEW w \in Worker, Proceed(w) PROVE Inv'
    BY <1>2, LookUpInv, RecordInv, AddLineInv, CheckOutInv, ReadBillInv, InsertBillInv,
       CommitFirstInv, AnswerCommittedInv, AnswerFirstInv, CommitAnsweredInv DEF Proceed
  <1>3. QED
    BY <1>1, <1>2, DeliverInv, FaultInv, CashierBillInv DEF Next

\* What the workers have read, written and locked agrees with the database
\* (process_webhook and the handlers it calls).
THEOREM Invariance == Spec => []Inv
  BY InitInv, NextInv, PTL DEF Spec

\* Rows and requests keep their types (process_webhook).
THEOREM TypeCorrect == Spec => []TypeOK
  <1>1. Inv => TypeOK
    BY DEF Inv
  <1>2. QED
    BY <1>1, Invariance, PTL

\* However often a message is delivered, to however many workers, it takes
\* effect once (process_webhook, webhook_events.message_id).
THEOREM EffectOnce == Spec => []ExecutedOnce
  <1>1. Inv => ExecutedOnce
    BY DEF Inv, Database, ExecutedOnce
  <1>2. QED
    BY <1>1, Invariance, PTL

\* A line whose addition took effect is in the cart or in one order, whatever
\* batches are repeated, rolled back, chosen as a victim or answered early
\* (add_item, checkout_cart, get_db).
THEOREM LinesKept == Spec => []LineConserved
  <1>1. Inv => LineConserved
    BY DEF Inv, Database
  <1>2. QED
    BY <1>1, Invariance, PTL

\* A batch answered with 200 is recorded, but for what was undone in a request
\* that went on (process_webhook, handle_inbound_message).
THEOREM AckedIsRecorded == Spec => []AckedUnlessLost
  <1>1. Inv => AckedUnlessLost
    BY DEF Inv
  <1>2. QED
    BY <1>1, Invariance, PTL

-----------------------------------------------------------------------------
(* The refinement: only a commit is visible. *)

LEMMA InitInbox == Init => Inbox!Init
  BY DEF Init, Inbox!Init

\* A commit handles the messages it records, of which some take effect.
LEMMA CommitRefines ==
  ASSUME Inv, NEW w \in Worker, Commit(tx[w].write)
  PROVE  Inbox!Next
  <1> DEFINE x == tx[w].write
             order == [c \in x.done \cap Checkout |-> x.ordered[c]]
  <1>1. Sound(x) /\ x \in Write
    BY OfRequest
  <1>2. x.recorded \in SUBSET (Message \ events) /\ x.done \in SUBSET x.recorded
    BY <1>1 DEF Sound, Write
  <1>3. executed' = [m \in Message |-> IF m \in x.done THEN 1 ELSE executed[m]]
    <2>1. executed' = [m \in Message |-> IF m \in x.done THEN executed[m] + 1 ELSE executed[m]]
      BY DEF Commit
    <2>2. \A m \in Message : m \in x.done => executed[m] + 1 = 1
      BY <1>1 DEF Inv, Database, Sound
    <2> HIDE DEF x
    <2>3. QED
      BY <2>1, <2>2
  <1>4. order \in Inbox!Orders(x.done, cart \cup (x.done \cap Addition))
    <2>1. \A c \in x.done \cap Checkout : x.ordered[c] \subseteq cart \cup (x.done \cap Addition)
      BY <1>1 DEF Sound, Write
    <2>2. \A c, d \in x.done \cap Checkout : c # d => x.ordered[c] \cap x.ordered[d] = {}
      BY <1>1 DEF Sound
    <2>3. QED
      BY <2>1, <2>2 DEF Inbox!Orders
  <1>5. ordered' = [m \in Message |-> IF m \in x.done \cap Checkout THEN order[m] ELSE ordered[m]]
    BY DEF Commit
  <1>6. cart' = (cart \cup (x.done \cap Addition)) \ UNION {order[c] : c \in x.done \cap Checkout}
    <2>1. \A m : m \in cart' <=> m \in cart \cup x.cart /\ \A c \in Checkout : m \notin x.ordered[c]
      BY CommitEffect
    <2>2. \A m : (\E c \in Checkout : m \in x.ordered[c])
                     <=> m \in UNION {order[c] : c \in x.done \cap Checkout}
      <3>1. \A c \in x.done \cap Checkout : order[c] = x.ordered[c]
        OBVIOUS
      <3>2. \A c \in Checkout : x.ordered[c] # {} => c \in x.done
        BY <1>1 DEF Sound
      <3> HIDE DEF x, order
      <3>3. QED
        BY <3>1, <3>2
    <2>3. \A m : m \in x.cart => m \in x.done \cap Addition
      BY <1>1 DEF Sound, Write
    <2>4. \A m \in x.done \cap Addition : m \in x.cart \/ \E c \in Checkout : m \in x.ordered[c]
      BY <1>1 DEF Sound
    <2> HIDE DEF x, order
    <2>5. QED
      BY <2>1, <2>2, <2>3, <2>4
  <1>7. events' = events \cup x.recorded
    BY DEF Commit
  <1> HIDE DEF x, order
  <1>8. Inbox!Handle(x.recorded, x.done)
    BY <1>3, <1>4, <1>5, <1>6, <1>7 DEF Inbox!Handle
  <1>9. QED
    BY <1>2, <1>8 DEF Inbox!Next

\* Every other step leaves the database alone.
LEMMA StepRefines == Inv /\ [Next]_vars => [Inbox!Next]_Inbox!vars
  <1> SUFFICES ASSUME Inv, [Next]_vars PROVE Inbox!Next \/ UNCHANGED Inbox!vars
    OBVIOUS
  <1>1. CASE UNCHANGED <<events, executed, cart, ordered>>
    BY <1>1 DEF Inbox!vars
  <1>2. CASE \E w \in Worker : Commit(tx[w].write)
    BY <1>2, CommitRefines
  <1>3. QED
    BY <1>1, <1>2, ZenonT(60) DEF Next, Proceed, vars, Deliver, LookUp, Record, AddLine, CheckOut, ReadBill,
       InsertBill, CommitFirst, AnswerCommitted, AnswerFirst, CommitAnswered, FlushFails,
       DeadlockVictim, Crash, CashierBill, DatabaseUnchanged

\* Repetitions, parallel posts, rollbacks, deadlocks and early answers are
\* invisible: the webhook is an inbox that handles each message once
\* (process_webhook).
THEOREM InboxRefined == Spec => ImplementsInbox
  <1>1. QED
    BY InitInbox, StepRefines, Invariance, PTL DEF Spec, ImplementsInbox, Inbox!Spec

=============================================================================
