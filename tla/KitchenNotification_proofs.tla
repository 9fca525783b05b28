--------------------- MODULE KitchenNotification_proofs ---------------------
(***************************************************************************)
(* Proofs about KitchenNotification, for any number of orders, requests    *)
(* and crashes.                                                            *)
(***************************************************************************)
EXTENDS KitchenNotification, FiniteSetTheorems, TLAPS

Notification == Order \X Notified

\* A request that sends or has sent.
Working(r) == tx[r].pc \in {"record ready", "answered"}

\* A request in flight is about an order and a status that can be told; its
\* move was allowed from a status the order has had.  It works on the record
\* it has inserted, or on one that another request has committed as FAILED.
Local(r) ==
    /\ InFlight(r) => tx[r].order \in Order /\ tx[r].status \in Notified
    /\ At(r, "read") => \E s \in reached[tx[r].order] \cap OrderStatus :
                            tx[r].status \in AllowedTransitions[s]
    /\ InFlight(r) /\ ~At(r, "read") => tx[r].status \in reached[tx[r].order]
    /\ tx[r].fresh => Working(r) /\ record[Key(r)] = "none"
    /\ Working(r) /\ ~tx[r].fresh => record[Key(r)] # "none" /\ Key(r) \in troubled
    /\ At(r, "answered") => IF tx[r].success THEN told[Key(r)] > 0 ELSE Key(r) \in troubled

\* An inserted record that is not committed belongs to one request.
OwnRecord ==
    \A q, r \in Kitchen : tx[q].fresh /\ tx[r].fresh /\ Key(q) = Key(r) => q = r

\* The request that has told the guest n, and has not committed that yet.
Telling(r, n) == At(r, "answered") /\ tx[r].fresh /\ Key(r) = n

\* What the records say of the messages sent.
RecordInv ==
    /\ \A n \in Notification : record[n] = "FAILED" => n \in troubled
    /\ \A n \in Notification \ troubled :
           told[n] > 0 => record[n] = "SENT" \/ \E r \in Kitchen : Telling(r, n)

\* Everything the interleavings preserve.
Inv ==
    /\ TypeOK
    /\ \A r \in Kitchen : Local(r)
    /\ \A o \in Order : order[o] \in reached[o]
    /\ OwnRecord
    /\ RecordInv
    /\ TruthfulMessages
    /\ NoStageSkipped
    /\ SentMeansTold
    /\ ToldOnceUnlessTrouble

\* The initial state: orders placed, nothing in flight.
LEMMA InitInv == Init => Inv
  <1> SUFFICES ASSUME Init PROVE Inv
    OBVIOUS
  <1> USE DEF Init
  <1>1. TypeOK
    <2>1. tx \in [Kitchen -> Tx]
      BY DEF Tx, Idle, Location
    <2>2. requests \in 0..MaxRequest /\ crashes \in 0..MaxCrash
      BY NotificationAssumption
    <2>3. checked \in BOOLEAN
      OBVIOUS
    <2> QED
      BY <2>1, <2>2, <2>3 DEF TypeOK, OrderStatus, DeliveryStatus
  <1>2. \A r \in Kitchen : Local(r)
    BY DEF Local, InFlight, At, Working, Idle
  <1>3. OwnRecord
    BY DEF OwnRecord, Idle
  <1>4. RecordInv
    BY DEF RecordInv, Notification
  <1>5. TruthfulMessages /\ NoStageSkipped /\ SentMeansTold /\ ToldOnceUnlessTrouble
    BY DEF TruthfulMessages, NoStageSkipped, Stages, SentMeansTold, ToldOnceUnlessTrouble
  <1>6. QED
    BY <1>1, <1>2, <1>3, <1>4, <1>5 DEF Inv

\* A step that moves, tells and commits nothing preserves the invariant, when
\* what it says of its request holds and a message that is not recorded yet is
\* not forgotten without trouble.
LEMMA QuietStep ==
  ASSUME Inv, TypeOK', NEW r \in Kitchen, NEW t \in Tx, tx' = [tx EXCEPT ![r] = t],
         UNCHANGED <<order, record, told, reached>>,
         troubled \subseteq troubled',
         Local(r)',
         t.fresh => tx[r].fresh /\ t.order = tx[r].order /\ t.status = tx[r].status,
         \A n \in Notification \ troubled' : Telling(r, n) => Telling(r, n)'
  PROVE  Inv'
  <1> USE DEF Inv
  <1>1. \A q \in Kitchen : q # r => tx'[q] = tx[q]
    BY DEF TypeOK
  <1>2. tx'[r] = t
    BY DEF TypeOK
  <1>3. \A q \in Kitchen : Local(q)'
    <2> SUFFICES ASSUME NEW q \in Kitchen, q # r PROVE Local(q)'
      OBVIOUS
    <2>1. Local(q) /\ tx'[q] = tx[q]
      BY <1>1
    <2> QED
      BY <2>1 DEF Local, InFlight, At, Working, Key
  <1>4. OwnRecord'
    BY <1>1, <1>2 DEF OwnRecord, Key
  <1>5. RecordInv'
    <2>1. \A n \in Notification : record'[n] = "FAILED" => n \in troubled'
      BY DEF RecordInv
    <2>2. ASSUME NEW n \in Notification \ troubled', told'[n] > 0, record'[n] # "SENT"
          PROVE  \E q \in Kitchen : Telling(q, n)'
      <3>1. PICK q \in Kitchen : Telling(q, n)
        BY <2>2 DEF RecordInv
      <3>2. Telling(q, n)'
        BY <1>1, <3>1 DEF Telling, At, Key
      <3> QED
        BY <3>2
    <2> QED
      BY <2>1, <2>2 DEF RecordInv
  <1>6. TruthfulMessages' /\ NoStageSkipped' /\ SentMeansTold' /\ ToldOnceUnlessTrouble'
    BY DEF TruthfulMessages, NoStageSkipped, SentMeansTold, ToldOnceUnlessTrouble
  <1>7. (\A o \in Order : order[o] \in reached[o])'
    OBVIOUS
  <1>8. QED
    BY <1>3, <1>4, <1>5, <1>6, <1>7

LEMMA IdleTx == Idle \in Tx /\ Idle.pc = "idle" /\ Idle.fresh = FALSE
  BY DEF Idle, Tx, Location

\* Where a request that moved on is, and what it is about, decide what must
\* hold of it.
LEMMA IdleStep ==
  ASSUME Inv, NEW r \in Kitchen, TypeOK', End(r),
         UNCHANGED <<order, record, told, reached>>,
         troubled \subseteq troubled',
         At(r, "answered") => Key(r) \in troubled'
  PROVE  Inv'
  <1> USE DEF End, Become
  <1>1. Idle \in Tx /\ Idle.pc = "idle" /\ Idle.fresh = FALSE
    BY IdleTx
  <1>2. tx'[r] = Idle
    BY DEF Inv, TypeOK
  <1>3. Local(r)'
    BY <1>1, <1>2 DEF Local, InFlight, At, Working
  <1>4. \A n \in Notification \ troubled' : Telling(r, n) => Telling(r, n)'
    BY DEF Telling
  <1>5. QED
    BY <1>1, <1>3, <1>4, QuietStep

LEMMA GoStep ==
  ASSUME Inv, NEW r \in Kitchen, TypeOK', NEW pc \in Location, Go(r, pc),
         UNCHANGED <<order, record, told, reached, troubled>>,
         InFlight(r), ~At(r, "read"), ~Working(r), pc \in {"session open", "no record", "record ready"},
         pc = "record ready" => record[Key(r)] = "FAILED"
  PROVE  Inv'
  <1> DEFINE t == [tx[r] EXCEPT !.pc = pc]
  <1> USE DEF Inv
  <1>1. tx[r] \in Tx /\ t \in Tx
    BY DEF TypeOK, Tx
  <1>2. tx' = [tx EXCEPT ![r] = t]
    BY DEF Go, Become
  <1>3. tx'[r] = t
    BY <1>2 DEF TypeOK
  <1>4. t.pc = pc /\ t.order = tx[r].order /\ t.status = tx[r].status /\ t.fresh = FALSE
    BY <1>1 DEF Tx, Local
  <1> HIDE DEF t
  <1>5. pc = "record ready" => Key(r) \in troubled
    BY DEF RecordInv, Notification, Key, Local
  <1>6. Local(r)'
    BY <1>3, <1>4, <1>5 DEF Local, InFlight, At, Working, Key
  <1>7. \A n \in Notification \ troubled' : ~Telling(r, n)
    BY DEF Telling, Working, At
  <1>8. QED
    BY <1>1, <1>2, <1>4, <1>6, <1>7, QuietStep

LEMMA ReadOrderInv ==
  ASSUME Inv, NEW r \in Kitchen, ReadOrder(r)
  PROVE  Inv'
  <1> USE DEF Inv, ReadOrder
  <1>0. PICK o \in Order : \E s \in AllowedTransitions[order[o]] :
           Become(r, [tx[r] EXCEPT !.pc = "read", !.order = o, !.status = s])
    OBVIOUS
  <1>1. PICK s \in AllowedTransitions[order[o]] :
           Become(r, [tx[r] EXCEPT !.pc = "read", !.order = o, !.status = s])
    BY <1>0
  <1> DEFINE t == [tx[r] EXCEPT !.pc = "read", !.order = o, !.status = s]
  <1>2. order[o] \in OrderStatus /\ order[o] \in reached[o] /\ s \in Notified
    BY DEF TypeOK, OrderStatus, AllowedTransitions, Notified
  <1>3. tx[r] \in Tx /\ t \in Tx
    BY <1>2 DEF TypeOK, Tx, Location
  <1>4. tx' = [tx EXCEPT ![r] = t]
    BY <1>1 DEF Become
  <1>5. tx'[r] = t
    BY <1>4 DEF TypeOK
  <1>6. t.pc = "read" /\ t.order = o /\ t.status = s /\ t.fresh = FALSE
    BY <1>3 DEF Tx, Local, Working, At
  <1> HIDE DEF t
  <1>7. TypeOK'
    BY <1>3, <1>4, NotificationAssumption DEF TypeOK
  <1>8. Local(r)'
    BY <1>2, <1>5, <1>6 DEF Local, InFlight, At, Working
  <1>9. \A n \in Notification \ troubled' : ~Telling(r, n)
    BY DEF Telling, At
  <1>10. QED
    BY <1>3, <1>4, <1>6, <1>7, <1>8, <1>9, QuietStep

LEMMA ReadSessionInv ==
  ASSUME Inv, NEW r \in Kitchen, ReadSession(r)
  PROVE  Inv'
  <1> USE DEF ReadSession, Moved
  <1>1. InFlight(r) /\ ~At(r, "read") /\ ~Working(r) /\ ~At(r, "answered")
    BY DEF InFlight, At, Working
  <1>2. CASE Go(r, "session open")
    <2>1. TypeOK'
      BY <1>2, ZenonT(60) DEF Inv, TypeOK, Go, Become, Tx, Location
    <2> QED
      BY <2>1, <1>1, <1>2, GoStep DEF Location
  <1>3. CASE End(r)
    <2>1. TypeOK'
      BY <1>3, IdleTx DEF Inv, TypeOK, End, Become
    <2> QED
      BY <2>1, <1>1, <1>3, IdleStep
  <1>4. QED
    BY <1>2, <1>3

LEMMA ReadRecordInv ==
  ASSUME Inv, NEW r \in Kitchen, ReadRecord(r)
  PROVE  Inv'
  <1> USE DEF ReadRecord
  <1>1. InFlight(r) /\ ~At(r, "read") /\ ~Working(r) /\ ~At(r, "answered")
    BY DEF InFlight, At, Working
  <1>2. record[Key(r)] \in DeliveryStatus
    BY <1>1 DEF Inv, TypeOK, Local, Key
  <1>3. CASE record[Key(r)] = "SENT" /\ End(r)
    <2>1. TypeOK'
      BY <1>3, IdleTx DEF Inv, TypeOK, End, Become
    <2> QED
      BY <2>1, <1>1, <1>3, IdleStep
  <1>4. CASE record[Key(r)] = "FAILED" /\ Go(r, "record ready")
    <2>1. TypeOK'
      BY <1>4, ZenonT(60) DEF Inv, TypeOK, Go, Become, Tx, Location
    <2> QED
      BY <2>1, <1>1, <1>4, GoStep DEF Location
  <1>5. CASE record[Key(r)] = "none" /\ Go(r, "no record")
    <2>1. TypeOK'
      BY <1>5, ZenonT(60) DEF Inv, TypeOK, Go, Become, Tx, Location
    <2> QED
      BY <2>1, <1>1, <1>5, GoStep DEF Location
  <1>6. QED
    BY <1>2, <1>3, <1>4, <1>5 DEF DeliveryStatus

LEMMA CrashInv ==
  ASSUME Inv, NEW r \in Kitchen, Crash(r)
  PROVE  Inv'
  <1> USE DEF Crash
  <1>1. tx[r].status # "none" /\ Key(r) \in Notification
    BY DEF Inv, Local, Key, Notification, Notified
  <1>2. troubled' = troubled \cup {Key(r)}
    BY <1>1
  <1>3. TypeOK'
    BY <1>1, <1>2, IdleTx, NotificationAssumption DEF Inv, TypeOK, End, Become, Notification
  <1>4. QED
    BY <1>2, <1>3, IdleStep

\* The move of an order: its new status has a predecessor that was reached.
LEMMA MoveOrderInv ==
  ASSUME Inv, NEW r \in Kitchen, MoveOrder(r)
  PROVE  Inv'
  <1> DEFINE o == tx[r].order
             s == tx[r].status
             t == [tx[r] EXCEPT !.pc = "moved"]
  <1> USE DEF Inv, MoveOrder
  <1>0. tx[r] \in Tx /\ tx[r].fresh \in BOOLEAN
    BY DEF TypeOK, Tx
  <1>1. o \in Order /\ s \in Notified /\ tx[r].fresh = FALSE /\ ~At(r, "answered")
    BY <1>0 DEF Local, InFlight, At, Working
  <1>2. PICK p \in reached[o] \cap OrderStatus : s \in AllowedTransitions[p]
    BY DEF Local, At
  <1>3. tx[r] \in Tx /\ t \in Tx
    BY DEF TypeOK, Tx, Location
  <1>4. tx' = [tx EXCEPT ![r] = t]
    BY DEF Go, Become
  <1>5. t.pc = "moved" /\ t.order = o /\ t.status = s /\ t.fresh = FALSE
    BY <1>1, <1>3 DEF Tx
  <1>6. tx'[r] = t /\ \A q \in Kitchen : q # r => tx'[q] = tx[q]
    BY <1>4 DEF TypeOK
  <1>7. s \in OrderStatus
    BY <1>1 DEF Notified, OrderStatus
  <1>8. /\ order' = [order EXCEPT ![o] = s]
        /\ reached' = [reached EXCEPT ![o] = @ \cup {s}]
        /\ UNCHANGED <<session, record, told, troubled, late, requests, crashes, checked>>
    OBVIOUS
  <1> HIDE DEF t, o, s, MoveOrder
  <1>9. TypeOK'
    <2>1. order' \in [Order -> OrderStatus]
      BY <1>7, <1>8 DEF TypeOK
    <2>2. reached' \in [Order -> SUBSET OrderStatus]
      BY <1>7, <1>8 DEF TypeOK
    <2>3. tx' \in [Kitchen -> Tx]
      BY <1>3, <1>4 DEF TypeOK
    <2> QED
      BY <1>8, <2>1, <2>2, <2>3 DEF TypeOK
  <1>10. \A m \in Order : reached[m] \subseteq reached'[m]
    BY <1>8 DEF TypeOK
  <1>11. s \in reached'[o]
    BY <1>1, <1>8 DEF TypeOK
  <1>12. \A q \in Kitchen : Local(q)'
    <2>1. Local(r)'
      BY <1>1, <1>5, <1>6, <1>8, <1>11 DEF Local, InFlight, At, Working
    <2>2. ASSUME NEW q \in Kitchen, q # r PROVE Local(q)'
      <3>1. Local(q) /\ tx'[q] = tx[q]
        BY <2>2, <1>6
      <3>2. tx[q].order \in Order => reached[tx[q].order] \subseteq reached'[tx[q].order]
        BY <1>10
      <3> QED
        BY <1>8, <3>1, <3>2 DEF Local, InFlight, At, Working, Key
    <2> QED
      BY <2>1, <2>2
  <1>13. OwnRecord'
    BY <1>5, <1>6 DEF OwnRecord, Key
  <1>14. RecordInv'
    <2>1. \A n, q : q \in Kitchen /\ Telling(q, n) => Telling(q, n)'
      BY <1>1, <1>6 DEF Telling, At, Key
    <2> QED
      BY <1>8, <2>1 DEF RecordInv
  <1>15. TruthfulMessages' /\ SentMeansTold' /\ ToldOnceUnlessTrouble'
    BY <1>8, <1>10 DEF TruthfulMessages, SentMeansTold, ToldOnceUnlessTrouble
  <1>16. NoStageSkipped'
    <2> SUFFICES ASSUME NEW m \in Order, NEW k \in 2..5, Stages[k] \in reached'[m]
                 PROVE  Stages[k - 1] \in reached'[m]
      BY DEF NoStageSkipped
    <2>1. CASE Stages[k] \in reached[m]
      BY <2>1, <1>10 DEF NoStageSkipped
    <2>2. CASE m = o /\ Stages[k] = s
      <3>1. p = Stages[k - 1]
        BY <1>2, <2>2 DEF Stages, AllowedTransitions, OrderStatus
      <3> QED
        BY <3>1, <2>2, <1>2, <1>10
    <2> QED
      BY <1>8, <2>1, <2>2 DEF TypeOK
  <1>17. (\A m \in Order : order[m] \in reached[m])'
    BY <1>1, <1>8, <1>11 DEF TypeOK
  <1>18. QED
    BY <1>9, <1>12, <1>13, <1>14, <1>15, <1>16, <1>17

\* The record is inserted when no other request has one that is undecided.
LEMMA InsertRecordInv ==
  ASSUME Inv, NEW r \in Kitchen, InsertRecord(r)
  PROVE  Inv'
  <1> USE DEF InsertRecord
  <1>1. InFlight(r) /\ ~At(r, "read") /\ ~Working(r) /\ ~At(r, "answered")
    BY DEF InFlight, At, Working
  <1>2. CASE record[Key(r)] # "none"
    <2>1. TypeOK'
      BY <1>2, IdleTx DEF Inv, TypeOK, End, Become
    <2> QED
      BY <2>1, <1>1, <1>2, IdleStep
  <1>3. CASE record[Key(r)] = "none"
    <2> DEFINE t == [tx[r] EXCEPT !.pc = "record ready", !.fresh = TRUE]
    <2> USE DEF Inv
    <2>1. tx' = [tx EXCEPT ![r] = t] /\ UNCHANGED <<order, record, told, reached, troubled>>
      BY <1>3 DEF Become
    <2>2. tx[r] \in Tx /\ t \in Tx
      BY DEF TypeOK, Tx, Location
    <2>3. t.pc = "record ready" /\ t.order = tx[r].order /\ t.status = tx[r].status /\ t.fresh = TRUE
      BY <2>2 DEF Tx
    <2>4. tx'[r] = t /\ \A q \in Kitchen : q # r => tx'[q] = tx[q]
      BY <2>1 DEF TypeOK
    <2>5. TypeOK'
      BY <2>1, <2>2 DEF TypeOK
    <2> HIDE DEF t
    <2>6. \A q \in Kitchen : Local(q)'
      <3>1. Local(r)'
        BY <1>1, <1>3, <2>1, <2>3, <2>4, ZenonT(60) DEF Local, InFlight, At, Working, Key
      <3>2. ASSUME NEW q \in Kitchen, q # r PROVE Local(q)'
        <4>1. Local(q) /\ tx'[q] = tx[q]
          BY <2>4, <3>2
        <4> QED
          BY <2>1, <4>1 DEF Local, InFlight, At, Working, Key
      <3> QED
        BY <3>1, <3>2
    <2>7. \A q \in Kitchen \ {r} : ~(tx[q].fresh /\ Key(q) = Key(r))
      BY DEF Undecided, Local, Working
    <2>8. OwnRecord'
      <3>1. Key(r)' = Key(r) /\ \A q \in Kitchen \ {r} : Key(q)' = Key(q) /\ tx'[q].fresh = tx[q].fresh
        BY <2>3, <2>4 DEF Key
      <3> SUFFICES ASSUME NEW q \in Kitchen, NEW v \in Kitchen,
                          tx'[q].fresh, tx'[v].fresh, Key(q)' = Key(v)'
                   PROVE  q = v
        BY DEF OwnRecord
      <3> HIDE DEF Inv
      <3>2. CASE q # r /\ v # r
        <4>1. Key(q) = Key(v) /\ tx[q].fresh /\ tx[v].fresh
          BY <3>1, <3>2
        <4>2. OwnRecord
          BY DEF Inv
        <4>3. QED
          BY <4>1, <4>2 DEF OwnRecord
      <3>3. CASE q = r \/ v = r
        <4>1. \A k \in Kitchen \ {r} : tx'[k].fresh => Key(k)' # Key(r)'
          BY <2>7, <3>1
        <4>2. QED
          BY <3>3, <4>1
      <3> QED
        BY <3>2, <3>3
    <2>9. RecordInv'
      <3>1. \A n, q : q \in Kitchen /\ Telling(q, n) => Telling(q, n)'
        BY <1>1, <2>4 DEF Telling, At, Key
      <3> QED
        BY <2>1, <3>1 DEF RecordInv
    <2>10. TruthfulMessages' /\ NoStageSkipped' /\ SentMeansTold' /\ ToldOnceUnlessTrouble'
      BY <2>1 DEF TruthfulMessages, NoStageSkipped, SentMeansTold, ToldOnceUnlessTrouble
    <2>11. QED
      BY <2>1, <2>5, <2>6, <2>8, <2>9, <2>10
  <1>4. QED
    BY <1>2, <1>3

\* The message: unless there was trouble before, nobody has sent it yet.
LEMMA DispatchInv ==
  ASSUME Inv, NEW r \in Kitchen, Dispatch(r)
  PROVE  Inv'
  <1> DEFINE n == Key(r)
  <1>1. PICK out \in Outcome :
           /\ told' = IF out.delivered THEN [told EXCEPT ![n] = Again(@)] ELSE told
           /\ Become(r, [tx[r] EXCEPT !.pc = "answered", !.success = out.success])
           /\ troubled' = IF out.success THEN troubled ELSE troubled \cup {n}
           /\ late' = IF out.delivered /\ session = "CLOSED" THEN late + 1 ELSE late
    BY DEF Dispatch
  <1>2. UNCHANGED <<order, session, record, reached, requests, crashes, checked>> /\ At(r, "record ready")
    BY DEF Dispatch
  <1> DEFINE t == [tx[r] EXCEPT !.pc = "answered", !.success = out.success]
  <1> USE DEF Inv
  <1>3. out.delivered \in BOOLEAN /\ out.success \in BOOLEAN /\ (out.success => out.delivered)
    BY DEF Outcome
  <1>4. tx[r] \in Tx /\ t \in Tx
    BY <1>3 DEF TypeOK, Tx, Location
  <1>5. t.pc = "answered" /\ t.order = tx[r].order /\ t.status = tx[r].status
           /\ t.fresh = tx[r].fresh /\ t.success = out.success
    BY <1>4 DEF Tx
  <1>6. tx' = [tx EXCEPT ![r] = t]
    BY <1>1 DEF Become
  <1>7. tx'[r] = t /\ \A q \in Kitchen : q # r => tx'[q] = tx[q]
    BY <1>6 DEF TypeOK
  <1> HIDE DEF t
  <1>8. n \in Notification /\ n = <<tx[r].order, tx[r].status>> /\ tx[r].status \in reached[tx[r].order]
    BY <1>2 DEF Local, InFlight, At, Key, Notification
  <1>9. Key(r)' = n /\ \A q \in Kitchen \ {r} : Key(q)' = Key(q) /\ tx'[q].fresh = tx[q].fresh
    BY <1>5, <1>7 DEF Key
  <1>10. told \in [Notification -> 0..2] /\ troubled \subseteq Notification
    BY DEF TypeOK, Notification
  <1>11. /\ told' \in [Notification -> 0..2]
         /\ \A m \in Notification : told'[m] >= told[m] /\ (m # n => told'[m] = told[m])
         /\ out.success => told'[n] > 0
    BY <1>1, <1>3, <1>8, <1>10 DEF Again
  <1>12. troubled \subseteq troubled' /\ troubled' \subseteq Notification /\ (~out.success => n \in troubled')
    BY <1>1, <1>8, <1>10
  <1>13. TypeOK'
    <2>1. late' \in Nat
      BY <1>1 DEF TypeOK
    <2>2. tx' \in [Kitchen -> Tx]
      BY <1>4, <1>6 DEF TypeOK
    <2> QED
      BY <1>2, <1>11, <1>12, <2>1, <2>2 DEF TypeOK, Notification
  <1>14. \A q \in Kitchen : Local(q)'
    <2>1. Local(r)'
      <3>1. Local(r)
        OBVIOUS
      <3>2. /\ InFlight(r)' /\ Working(r)' /\ ~At(r, "read")' /\ At(r, "answered")'
            /\ InFlight(r) /\ Working(r) /\ ~At(r, "read")
        BY <1>2, <1>5, <1>7 DEF InFlight, At, Working
      <3>3. IF tx'[r].success THEN told'[n] > 0 ELSE n \in troubled'
        BY <1>5, <1>7, <1>11, <1>12
      <3>4. tx'[r].order = tx[r].order /\ tx'[r].status = tx[r].status /\ tx'[r].fresh = tx[r].fresh
        BY <1>5, <1>7
      <3> QED
        BY <1>2, <1>9, <1>12, <3>1, <3>2, <3>3, <3>4 DEF Local
    <2>2. ASSUME NEW q \in Kitchen, q # r PROVE Local(q)'
      <3>1. Local(q) /\ tx'[q] = tx[q] /\ Key(q)' = Key(q)
        BY <2>2, <1>7, <1>9
      <3>2. At(q, "answered") => Key(q) \in Notification
        BY <3>1 DEF Local, At, InFlight, Key, Notification
      <3>3. At(q, "answered") /\ told[Key(q)] > 0 => told'[Key(q)] > 0
        BY <3>2, <1>10, <1>11
      <3> QED
        BY <1>2, <1>12, <3>1, <3>3 DEF Local, InFlight, At, Working
    <2> QED
      BY <2>1, <2>2
  <1>15. OwnRecord'
    BY <1>5, <1>7, <1>9 DEF OwnRecord
  <1>16. n \notin troubled => tx[r].fresh /\ record[n] = "none" /\ told[n] = 0
    <2> SUFFICES ASSUME n \notin troubled PROVE tx[r].fresh /\ record[n] = "none" /\ told[n] = 0
      OBVIOUS
    <2>1. tx[r].fresh /\ record[n] = "none"
      BY <1>2 DEF Local, Working, At
    <2>2. \A q \in Kitchen : ~Telling(q, n)
      BY <1>2, <2>1 DEF Telling, OwnRecord, At
    <2>3. ~(told[n] > 0)
      BY <1>8, <2>1, <2>2 DEF RecordInv
    <2> QED
      BY <1>8, <1>10, <2>1, <2>3
  <1>17. RecordInv'
    <2>1. \A m \in Notification : record'[m] = "FAILED" => m \in troubled'
      BY <1>2, <1>12 DEF RecordInv
    <2>2. ASSUME NEW m \in Notification \ troubled', told'[m] > 0, record'[m] # "SENT"
          PROVE  \E q \in Kitchen : Telling(q, m)'
      <3>1. CASE m = n
        BY <1>5, <1>7, <1>9, <1>12, <1>16, <3>1 DEF Telling, At
      <3>2. CASE m # n
        <4>1. PICK q \in Kitchen : Telling(q, m)
          BY <1>2, <1>11, <1>12, <2>2, <3>2 DEF RecordInv
        <4>2. q # r
          BY <3>2, <4>1 DEF Telling
        <4> QED
          BY <1>7, <1>9, <4>1, <4>2 DEF Telling, At
      <3> QED
        BY <3>1, <3>2
    <2> QED
      BY <2>1, <2>2 DEF RecordInv
  <1>18. TruthfulMessages'
    <2> SUFFICES ASSUME NEW o \in Order, NEW s \in Notified, told'[<<o, s>>] > 0
                 PROVE  s \in reached[o]
      BY <1>2 DEF TruthfulMessages
    <2>1. <<o, s>> \in Notification
      BY DEF Notification
    <2>2. CASE <<o, s>> = n
      BY <1>8, <2>2
    <2>3. CASE <<o, s>> # n
      BY <1>11, <2>1, <2>3 DEF TruthfulMessages
    <2> QED
      BY <2>2, <2>3
  <1>19. NoStageSkipped' /\ SentMeansTold'
    <2>1. NoStageSkipped'
      BY <1>2 DEF NoStageSkipped
    <2>2. ASSUME NEW m \in Notification, record'[m] = "SENT" PROVE told'[m] > 0
      <3>1. told[m] > 0 /\ told[m] \in 0..2 /\ told'[m] \in 0..2 /\ told'[m] >= told[m]
        BY <1>2, <1>10, <1>11, <2>2 DEF SentMeansTold, Notification
      <3> QED
        BY <3>1
    <2> QED
      BY <2>1, <2>2 DEF SentMeansTold, Notification
  <1>20. ToldOnceUnlessTrouble'
    <2> SUFFICES ASSUME NEW m \in Notification \ troubled' PROVE told'[m] <= 1
      BY DEF ToldOnceUnlessTrouble, Notification
    <2>1. CASE m = n
      BY <1>1, <1>8, <1>10, <1>12, <1>16, <2>1 DEF Again
    <2>2. CASE m # n
      BY <1>11, <1>12, <2>2 DEF ToldOnceUnlessTrouble, Notification
    <2> QED
      BY <2>1, <2>2
  <1>21. QED
    BY <1>2, <1>13, <1>14, <1>15, <1>17, <1>18, <1>19, <1>20

\* The record is committed with what the client has answered.
LEMMA CommitRecordInv ==
  ASSUME Inv, NEW r \in Kitchen, CommitRecord(r)
  PROVE  Inv'
  <1> DEFINE n == Key(r)
  <1> USE DEF Inv
  <1>1. /\ record' = [record EXCEPT ![n] = Verdict(r)]
        /\ tx' = [tx EXCEPT ![r] = Idle]
        /\ UNCHANGED <<order, session, told, reached, troubled, late, requests, crashes, checked>>
        /\ At(r, "answered")
    BY DEF CommitRecord, End, Become
  <1>2. n \in Notification
    BY <1>1 DEF Local, InFlight, At, Key, Notification
  <1>a. record[n] \in DeliveryStatus /\ Working(r)
    BY <1>1, <1>2 DEF TypeOK, Notification, Working, At
  <1>b. ~tx[r].fresh => record[n] \in {"SENT", "FAILED"} /\ n \in troubled
    BY <1>a DEF Local, DeliveryStatus
  <1>3. /\ Verdict(r) \in {"SENT", "FAILED"}
        /\ Verdict(r) = "SENT" => told[n] > 0
        /\ Verdict(r) = "FAILED" => n \in troubled
        /\ n \notin troubled => Verdict(r) = "SENT"
    <2>1. IF tx[r].success THEN told[n] > 0 ELSE n \in troubled
      BY <1>1 DEF Local, At
    <2>2. record[n] = "SENT" => told[n] > 0
      BY <1>2 DEF SentMeansTold, Notification
    <2>3. tx[r].success \in BOOLEAN /\ tx[r].fresh \in BOOLEAN
      BY DEF TypeOK, Tx
    <2>4. CASE tx[r].success
      BY <2>1, <2>4 DEF Verdict
    <2>5. CASE ~tx[r].success /\ tx[r].fresh
      BY <2>1, <2>5 DEF Verdict
    <2>6. CASE ~tx[r].success /\ ~tx[r].fresh
      BY <1>b, <2>2, <2>6 DEF Verdict
    <2> QED
      BY <2>3, <2>4, <2>5, <2>6
  <1>4. tx'[r] = Idle /\ \A q \in Kitchen : q # r => tx'[q] = tx[q]
    BY <1>1 DEF TypeOK
  <1>5. /\ record'[n] = Verdict(r)
        /\ \A m \in Notification : m # n => record'[m] = record[m]
    BY <1>1, <1>2 DEF TypeOK, Notification
  <1>6. TypeOK'
    <2>1. record' \in [Order \X Notified -> DeliveryStatus]
      BY <1>1, <1>3 DEF TypeOK, DeliveryStatus
    <2>2. tx' \in [Kitchen -> Tx]
      BY <1>1, IdleTx DEF TypeOK
    <2> QED
      BY <1>1, <2>1, <2>2 DEF TypeOK
  <1>7. \A q \in Kitchen \ {r} : tx[q].fresh => Key(q) # n
    <2> SUFFICES ASSUME NEW q \in Kitchen, q # r, tx[q].fresh PROVE Key(q) # n
      OBVIOUS
    <2>1. record[Key(q)] = "none"
      BY DEF Local
    <2>2. CASE tx[r].fresh
      BY <2>2 DEF OwnRecord
    <2>3. CASE ~tx[r].fresh
      BY <1>1, <2>1, <2>3 DEF Local, Working, At
    <2> QED
      BY <2>2, <2>3
  <1>8. \A q \in Kitchen : Local(q)'
    <2>1. Local(r)'
      BY <1>4, IdleTx DEF Local, InFlight, At, Working
    <2>2. ASSUME NEW q \in Kitchen, q # r PROVE Local(q)'
      <3>1. Local(q) /\ tx'[q] = tx[q] /\ Key(q)' = Key(q)
        BY <2>2, <1>4 DEF Key
      <3>2. Working(q) => Key(q) \in Notification
        BY <3>1 DEF Local, Working, InFlight, At, Key, Notification
      <3>3. tx[q].fresh => record'[Key(q)] = "none"
        BY <1>5, <1>7, <2>2, <3>1, <3>2 DEF Local
      <3>4. Working(q) /\ ~tx[q].fresh => record'[Key(q)] # "none"
        BY <1>3, <1>5, <3>1, <3>2 DEF Local
      <3> QED
        BY <1>1, <3>1, <3>3, <3>4 DEF Local, InFlight, At, Working
    <2> QED
      BY <2>1, <2>2
  <1>9. OwnRecord'
    BY <1>4, IdleTx DEF OwnRecord, Key
  <1>10. RecordInv'
    <2>1. ASSUME NEW m \in Notification, record'[m] = "FAILED" PROVE m \in troubled'
      <3>1. CASE m = n
        BY <1>1, <1>3, <1>5, <2>1, <3>1 DEF Local, At
      <3>2. CASE m # n
        BY <1>1, <1>5, <2>1, <3>2 DEF RecordInv
      <3> QED
        BY <3>1, <3>2
    <2>2. ASSUME NEW m \in Notification \ troubled', told'[m] > 0, record'[m] # "SENT"
          PROVE  \E q \in Kitchen : Telling(q, m)'
      <3>1. m # n
        BY <1>1, <1>3, <1>5, <2>2 DEF Local, At
      <3>2. PICK q \in Kitchen : Telling(q, m)
        BY <1>1, <1>5, <2>2, <3>1 DEF RecordInv
      <3>3. q # r
        BY <3>1, <3>2 DEF Telling
      <3> QED
        BY <1>4, <3>2, <3>3 DEF Telling, At, Key
    <2> QED
      BY <2>1, <2>2 DEF RecordInv
  <1>11. TruthfulMessages' /\ NoStageSkipped' /\ ToldOnceUnlessTrouble'
    BY <1>1 DEF TruthfulMessages, NoStageSkipped, ToldOnceUnlessTrouble
  <1>12. SentMeansTold'
    <2> SUFFICES ASSUME NEW m \in Notification, record'[m] = "SENT" PROVE told[m] > 0
      BY <1>1 DEF SentMeansTold, Notification
    <2>1. CASE m = n
      BY <1>1, <1>3, <1>5, <2>1 DEF Local, At
    <2>2. CASE m # n
      BY <1>5, <2>2 DEF SentMeansTold, Notification
    <2> QED
      BY <2>1, <2>2
  <1>13. QED
    BY <1>1, <1>6, <1>8, <1>9, <1>10, <1>11, <1>12

\* Settling touches neither orders nor notifications.
LEMMA UntouchedInv ==
  ASSUME Inv, TypeOK', UNCHANGED <<order, record, tx, told, reached, troubled>>
  PROVE  Inv'
  <1> USE DEF Inv
  <1>1. \A r \in Kitchen : Local(r)'
    BY DEF Local, InFlight, At, Working, Key
  <1>2. OwnRecord' /\ RecordInv'
    BY DEF OwnRecord, RecordInv, Telling, At, Key
  <1>3. TruthfulMessages' /\ NoStageSkipped' /\ SentMeansTold' /\ ToldOnceUnlessTrouble'
    BY DEF TruthfulMessages, NoStageSkipped, SentMeansTold, ToldOnceUnlessTrouble
  <1>4. QED
    BY <1>1, <1>2, <1>3

\* Every step preserves the invariant.
LEMMA NextInv == Inv /\ [Next]_vars => Inv'
  <1> SUFFICES ASSUME Inv, [Next]_vars PROVE Inv'
    OBVIOUS
  <1>1. ASSUME NEW r \in Kitchen, UpdateOrderStatus(r) PROVE Inv'
    BY <1>1, ReadOrderInv, MoveOrderInv, ReadSessionInv, ReadRecordInv, InsertRecordInv,
       DispatchInv, CommitRecordInv DEF UpdateOrderStatus
  <1>2. ASSUME NEW r \in Kitchen, Crash(r) PROVE Inv'
    BY <1>2, CrashInv
  <1>3. CASE CheckOrders \/ CloseSession
    <2>1. TypeOK'
      BY <1>3 DEF CheckOrders, CloseSession, Inv, TypeOK
    <2> QED
      BY <1>3, <2>1, UntouchedInv DEF CheckOrders, CloseSession
  <1>4. CASE UNCHANGED vars
    <2>1. TypeOK'
      BY <1>4 DEF vars, Inv, TypeOK
    <2> QED
      BY <1>4, <2>1, UntouchedInv DEF vars
  <1>5. QED
    BY <1>1, <1>2, <1>3, <1>4 DEF Next

\* The inductive invariant of the kitchen's requests and their messages holds
\* for any number of orders, kitchen displays, requests and crashes.
THEOREM Invariance == Spec => []Inv
  <1>1. QED
    BY InitInv, NextInv, PTL DEF Spec

\* Rows and requests keep their types (update_order_status).
THEOREM TypeCorrect == Spec => []TypeOK
  <1>1. Inv => TypeOK
    BY DEF Inv
  <1>2. QED
    BY <1>1, Invariance, PTL

\* The guest is only told what was committed
\* (update_order_status, send_kitchen_status_notification).
THEOREM Truthful == Spec => []TruthfulMessages
  <1>1. Inv => TruthfulMessages
    BY DEF Inv
  <1>2. QED
    BY <1>1, Invariance, PTL

\* A notification recorded as SENT has reached the guest, also when it was
\* sent several times and answers were lost (send_kitchen_status_notification).
THEOREM SentReachedGuest == Spec => []SentMeansTold
  <1>1. Inv => SentMeansTold
    BY DEF Inv
  <1>2. QED
    BY <1>1, Invariance, PTL

\* Unless an attempt failed or died the guest is told a status once, however
\* many requests made the same move (send_kitchen_status_notification).
THEOREM ToldOnce == Spec => []ToldOnceUnlessTrouble
  <1>1. Inv => ToldOnceUnlessTrouble
    BY DEF Inv
  <1>2. QED
    BY <1>1, Invariance, PTL

\* No order gets a status without having had the ones before it, however many
\* kitchen displays write over each other (transition_order_status).
THEOREM StagesInOrder == Spec => []NoStageSkipped
  <1>1. Inv => NoStageSkipped
    BY DEF Inv
  <1>2. QED
    BY <1>1, Invariance, PTL

-----------------------------------------------------------------------------
(* Messages to a guest who has paid. *)

\* The requests that will still send a message if nothing happens to them.
Sending == {r \in Kitchen : tx[r].pc \in {"session open", "no record", "record ready"}}

\* After the session is closed each message sent uses up one of them.
LateInv ==
    IF session = "CLOSED" THEN late + Cardinality(Sending) <= Cardinality(Kitchen) ELSE late = 0

LEMMA SendingIsFinite ==
  /\ IsFiniteSet(Sending)
  /\ Cardinality(Sending) \in Nat /\ Cardinality(Kitchen) \in Nat
  /\ Cardinality(Sending) <= Cardinality(Kitchen)
  <1>1. Sending \subseteq Kitchen
    BY DEF Sending
  <1>2. QED
    BY <1>1, NotificationAssumption, FS_Subset, FS_CardinalityType

\* No request starts to send once the session is closed.
LEMMA FewerSend ==
  ASSUME TypeOK, LateInv, session' = session, late' = late,
         session = "CLOSED" => Sending' \subseteq Sending
  PROVE  LateInv'
  <1>1. CASE session = "CLOSED"
    <2> DEFINE Before == Sending
               After == Sending'
    <2>1. After \subseteq Before /\ IsFiniteSet(Before) /\ Cardinality(Before) \in Nat
      BY <1>1, SendingIsFinite
    <2>2. late + Cardinality(Before) <= Cardinality(Kitchen) /\ Cardinality(Kitchen) \in Nat /\ late \in Nat
      BY <1>1, SendingIsFinite DEF LateInv, TypeOK
    <2> HIDE DEF Before, After
    <2>3. Cardinality(After) \in Nat /\ Cardinality(After) <= Cardinality(Before)
      BY <2>1, FS_Subset, FS_CardinalityType
    <2>4. late + Cardinality(After) <= Cardinality(Kitchen)
      BY <2>1, <2>2, <2>3
    <2> USE DEF After
    <2>5. QED
      BY <1>1, <2>4 DEF LateInv
  <1>2. CASE session # "CLOSED"
    BY <1>2 DEF LateInv
  <1>3. QED
    BY <1>1, <1>2

LEMMA DispatchLate ==
  ASSUME TypeOK, LateInv, NEW r \in Kitchen, Dispatch(r)
  PROVE  LateInv'
  <1>1. /\ session' = session
        /\ late' = late \/ (session = "CLOSED" /\ late' = late + 1)
        /\ At(r, "record ready")
    BY DEF Dispatch
  <1>2. Sending' = Sending \ {r} /\ r \in Sending
    BY <1>1, ZenonT(60) DEF Dispatch, Become, Sending, At, TypeOK, Tx
  <1>3. CASE session = "CLOSED"
    <2> DEFINE Before == Sending
               After == Sending'
    <2>1. IsFiniteSet(Before) /\ Cardinality(Before) \in Nat /\ late \in Nat
          /\ Cardinality(Kitchen) \in Nat
      BY SendingIsFinite DEF TypeOK
    <2>2. late + Cardinality(Before) <= Cardinality(Kitchen)
      BY <1>3 DEF LateInv
    <2>3. After = Before \ {r} /\ r \in Before
      BY <1>2
    <2> HIDE DEF Before, After
    <2>4. Cardinality(After) = Cardinality(Before) - 1
      BY <2>1, <2>3, FS_RemoveElement
    <2> DEFINE n == Cardinality(Before)
               m == Cardinality(Kitchen)
    <2>5. late' + (n - 1) <= m
      <3>1. late' = late \/ late' = late + 1
        BY <1>1
      <3>2. n \in Nat /\ m \in Nat /\ late \in Nat /\ late + n <= m
        BY <2>1, <2>2
      <3> HIDE DEF n, m
      <3>3. QED
        BY <3>1, <3>2
    <2> USE DEF After
    <2>6. QED
      BY <1>1, <1>3, <2>4, <2>5 DEF LateInv
  <1>4. CASE session # "CLOSED"
    BY <1>1, <1>4 DEF LateInv
  <1>5. QED
    BY <1>3, <1>4

\* A request that becomes t does not start to send when t does not send.
LEMMA NobodyStarts ==
  ASSUME TypeOK, NEW r \in Kitchen, NEW t, Become(r, t),
         t.pc \in {"session open", "no record", "record ready"} => r \in Sending
  PROVE  Sending' \subseteq Sending
  <1>1. tx'[r] = t /\ \A q \in Kitchen : q # r => tx'[q] = tx[q]
    BY DEF Become, TypeOK
  <1>2. QED
    BY <1>1 DEF Sending

\* A request that ends does not send.
LEMMA EndedIsSilent ==
  ASSUME TypeOK, NEW r \in Kitchen, End(r)
  PROVE  Sending' \subseteq Sending
  BY NobodyStarts, IdleTx DEF End

LEMMA NextLate == Inv /\ LateInv /\ [Next]_vars => LateInv'
  <1> SUFFICES ASSUME Inv, TypeOK, LateInv, [Next]_vars PROVE LateInv'
    BY DEF Inv
  <1> USE DEF At
  <1>1. ASSUME NEW r \in Kitchen, ReadOrder(r) PROVE LateInv'
    <2>1. PICK o \in Order : \E s \in AllowedTransitions[order[o]] :
              Become(r, [tx[r] EXCEPT !.pc = "read", !.order = o, !.status = s])
      BY <1>1 DEF ReadOrder
    <2>2. PICK s \in AllowedTransitions[order[o]] :
              Become(r, [tx[r] EXCEPT !.pc = "read", !.order = o, !.status = s])
      BY <2>1
    <2>3. [tx[r] EXCEPT !.pc = "read", !.order = o, !.status = s].pc = "read"
      BY DEF TypeOK, Tx
    <2>4. Sending' \subseteq Sending
      BY <2>2, <2>3, NobodyStarts
    <2> QED
      BY <1>1, <2>4, FewerSend DEF ReadOrder
  <1>2. ASSUME NEW r \in Kitchen, MoveOrder(r) PROVE LateInv'
    <2>1. Sending' \subseteq Sending
      BY <1>2 DEF MoveOrder, Go, Become, Sending, TypeOK, Tx
    <2> QED
      BY <1>2, <2>1, FewerSend DEF MoveOrder
  <1>3. ASSUME NEW r \in Kitchen, ReadSession(r) PROVE LateInv'
    <2>1. session = "CLOSED" => End(r)
      BY <1>3 DEF ReadSession, Notifiable
    <2>2. session = "CLOSED" => Sending' \subseteq Sending
      BY <2>1, EndedIsSilent
    <2> QED
      BY <1>3, <2>2, FewerSend DEF ReadSession
  <1>4. ASSUME NEW r \in Kitchen, ReadRecord(r) PROVE LateInv'
    <2>1. r \in Sending
      BY <1>4 DEF ReadRecord, Sending
    <2>2. End(r) \/ Go(r, "record ready") \/ Go(r, "no record")
      <3>1. InFlight(r)
        BY <1>4 DEF ReadRecord, InFlight
      <3>2. Key(r) \in Order \X Notified
        BY <3>1 DEF Inv, Local, Key
      <3>3. record[Key(r)] \in DeliveryStatus
        BY <3>2 DEF TypeOK
      <3> QED
        BY <1>4, <3>3 DEF ReadRecord, DeliveryStatus
    <2>3. Sending' \subseteq Sending
      BY <2>1, <2>2, NobodyStarts, EndedIsSilent DEF Go
    <2> QED
      BY <1>4, <2>3, FewerSend DEF ReadRecord
  <1>5. ASSUME NEW r \in Kitchen, InsertRecord(r) PROVE LateInv'
    <2>1. r \in Sending
      BY <1>5 DEF InsertRecord, Sending
    <2>2. Sending' \subseteq Sending
      <3>1. CASE End(r)
        BY <3>1, EndedIsSilent
      <3>2. CASE Become(r, [tx[r] EXCEPT !.pc = "record ready", !.fresh = TRUE])
        BY <2>1, <3>2, NobodyStarts
      <3> QED
        BY <1>5, <3>1, <3>2 DEF InsertRecord
    <2> QED
      BY <1>5, <2>2, FewerSend DEF InsertRecord
  <1>6. ASSUME NEW r \in Kitchen, Dispatch(r) PROVE LateInv'
    BY <1>6, DispatchLate
  <1>7. ASSUME NEW r \in Kitchen, CommitRecord(r) PROVE LateInv'
    <2>1. Sending' \subseteq Sending
      BY <1>7, EndedIsSilent DEF CommitRecord
    <2> QED
      BY <1>7, <2>1, FewerSend DEF CommitRecord
  <1>8. ASSUME NEW r \in Kitchen, Crash(r) PROVE LateInv'
    <2>1. Sending' \subseteq Sending
      BY <1>8, EndedIsSilent DEF Crash
    <2> QED
      BY <1>8, <2>1, FewerSend DEF Crash
  <1>9. CASE CloseSession
    <2>1. late = 0 /\ late' = 0 /\ session' = "CLOSED" /\ Sending' = Sending
      BY <1>9 DEF CloseSession, LateInv, Sending
    <2>2. 0 + Cardinality(Sending) <= Cardinality(Kitchen)
      BY SendingIsFinite
    <2> QED
      BY <2>1, <2>2 DEF LateInv
  <1>10. CASE CheckOrders \/ UNCHANGED vars
    BY <1>10, FewerSend DEF CheckOrders, vars, Sending
  <1>11. QED
    BY <1>1, <1>2, <1>3, <1>4, <1>5, <1>6, <1>7, <1>8, <1>9, <1>10 DEF Next, UpdateOrderStatus

\* After the session is closed the guest gets no more messages than requests
\* were past the check of the session, so no more than there are kitchen
\* displays (send_kitchen_status_notification, settle_bill).
THEOREM FewLateMessages == Spec => []LateMessagesBounded
  <1>1. Init => LateInv
    BY DEF Init, LateInv
  <1>2. TypeOK /\ LateInv => LateMessagesBounded
    <2> SUFFICES ASSUME TypeOK, LateInv PROVE late <= Cardinality(Kitchen)
      BY DEF LateMessagesBounded
    <2>1. Cardinality(Sending) \in Nat /\ Cardinality(Kitchen) \in Nat /\ late \in Nat
      BY SendingIsFinite DEF TypeOK
    <2> HIDE DEF Sending
    <2>2. CASE session = "CLOSED"
      BY <2>1, <2>2 DEF LateInv
    <2>3. CASE session # "CLOSED"
      BY <2>1, <2>3 DEF LateInv
    <2> QED
      BY <2>2, <2>3
  <1>3. QED
    BY <1>1, <1>2, TypeCorrect, Invariance, NextLate, PTL DEF Spec

-----------------------------------------------------------------------------
(* Moves that are not forgotten *)

\* r has made the move n and is not through with its notification.
Pending(r, n) == InFlight(r) /\ ~At(r, "read") /\ Key(r) = n

\* While the session is open and nothing has died, a status that an order got
\* has its record or a request that is about to make it.
NothingForgotten ==
    session = "CLOSED" \/ crashes > 0 \/
        \A o \in Order, s \in Notified : s \in reached[o] =>
            record[<<o, s>>] # "none" \/ \E r \in Kitchen : Pending(r, <<o, s>>)

\* A step of r that neither drops a record nor leaves its own move without one.
LEMMA NotForgotten ==
  ASSUME Inv, NothingForgotten, NEW r \in Kitchen, NEW t, Become(r, t),
         session' = session, crashes' = crashes,
         \A n \in Notification : record[n] # "none" => record'[n] # "none",
         \A n \in Notification : Pending(r, n) =>
             Pending(r, n)' \/ record'[n] # "none" \/ session = "CLOSED",
         \A o \in Order, s \in Notified : s \in reached'[o] =>
             s \in reached[o] \/ Pending(r, <<o, s>>)'
  PROVE  NothingForgotten'
  <1>1. ASSUME NEW n \in Notification, NEW q \in Kitchen \ {r}, Pending(q, n)
        PROVE  Pending(q, n)'
    <2>1. tx'[q] = tx[q]
      BY DEF Become, Inv, TypeOK
    <2>2. QED
      BY <1>1, <2>1 DEF Pending, InFlight, At, Key
  <1>2. ASSUME session # "CLOSED", ~(crashes > 0),
               NEW o \in Order, NEW s \in Notified, s \in reached'[o]
        PROVE  record'[<<o, s>>] # "none" \/ \E q \in Kitchen : Pending(q, <<o, s>>)'
    <2> DEFINE n == <<o, s>>
    <2>1. n \in Notification
      BY DEF Notification
    <2>2. CASE Pending(r, n)'
      BY <2>2
    <2>3. CASE s \in reached[o]
      <3>1. record[n] # "none" \/ \E q \in Kitchen : Pending(q, n)
        BY <1>2, <2>3 DEF NothingForgotten
      <3>2. QED
        BY <1>1, <1>2, <2>1, <3>1
    <2>4. QED
      BY <1>2, <2>2, <2>3
  <1>3. QED
    BY <1>2 DEF NothingForgotten

\* The key of a request in flight is one of the notifications.
LEMMA KeyOf ==
  ASSUME Inv, NEW r \in Kitchen, InFlight(r)
  PROVE  Key(r) \in Notification /\ record[Key(r)] \in DeliveryStatus
  <1>1. Key(r) \in Notification
    BY DEF Inv, Local, Key, Notification
  <1>2. QED
    BY <1>1 DEF Inv, TypeOK, Notification

\* A request that goes on is still about the same notification.
LEMMA GoPending ==
  ASSUME Inv, NEW r \in Kitchen, NEW t, Become(r, t), t.pc \notin {"idle", "read"},
         t.order = tx[r].order, t.status = tx[r].status
  PROVE  Pending(r, Key(r))'  /\ Key(r)' = Key(r)
  <1>1. tx'[r] = t
    BY DEF Become, Inv, TypeOK
  <1>2. QED
    BY <1>1 DEF Pending, InFlight, At, Key

\* r goes on to its next step.
GoesOn(r) ==
    \E t : /\ Become(r, t) /\ t.pc \notin {"idle", "read"}
           /\ t.order = tx[r].order /\ t.status = tx[r].status

LEMMA GoGoesOn ==
  ASSUME Inv, NEW r \in Kitchen, NEW pc, pc \notin {"idle", "read"}, Go(r, pc)
  PROVE  GoesOn(r)
  <1> DEFINE t == [tx[r] EXCEPT !.pc = pc]
  <1>1. Become(r, t)
    BY DEF Go
  <1>2. t.pc = pc /\ t.order = tx[r].order /\ t.status = tx[r].status
    BY DEF Inv, TypeOK, Tx
  <1> HIDE DEF t
  <1>3. QED
    BY <1>1, <1>2 DEF GoesOn

LEMMA NextForgotten ==
  ASSUME Inv, NothingForgotten, [Next]_vars
  PROVE  NothingForgotten'
  <1>1. ASSUME NEW r \in Kitchen, ReadOrder(r) PROVE NothingForgotten'
    <2>1. \A n : ~Pending(r, n)
      BY <1>1 DEF ReadOrder, Pending, InFlight
    <2>2. \E t : Become(r, t)
      BY <1>1 DEF ReadOrder
    <2>3. QED
      BY <1>1, <2>1, <2>2, NotForgotten DEF ReadOrder
  <1>2. ASSUME NEW r \in Kitchen, MoveOrder(r) PROVE NothingForgotten'
    <2> DEFINE t == [tx[r] EXCEPT !.pc = "moved"]
    <2>1. Become(r, t) /\ \A n : ~Pending(r, n)
      BY <1>2 DEF MoveOrder, Go, Pending
    <2>2. t.pc = "moved" /\ t.order = tx[r].order /\ t.status = tx[r].status
      BY DEF Inv, TypeOK, Tx
    <2> HIDE DEF t
    <2>3. Pending(r, Key(r))' /\ Key(r)' = Key(r)
      BY <2>1, <2>2, GoPending
    <2>4. ASSUME NEW o \in Order, NEW s \in Notified, s \in reached'[o], s \notin reached[o]
          PROVE  Pending(r, <<o, s>>)'
      <3>1. o = tx[r].order /\ s = tx[r].status
        BY <1>2, <2>4 DEF MoveOrder, Inv, TypeOK
      <3>2. QED
        BY <2>3, <3>1 DEF Key
    <2>5. UNCHANGED <<session, crashes, record>>
      BY <1>2 DEF MoveOrder
    <2>6. QED
      BY <2>1, <2>4, <2>5, NotForgotten
  <1>3. ASSUME NEW r \in Kitchen,
               ReadSession(r) \/ ReadRecord(r) \/ InsertRecord(r) \/ Dispatch(r)
        PROVE  NothingForgotten'
    <2>1. UNCHANGED <<session, crashes, record, reached>> /\ InFlight(r) /\ ~At(r, "read")
      BY <1>3 DEF ReadSession, ReadRecord, InsertRecord, Dispatch, InFlight, At, Moved
    <2>2. tx[r].status \in Templates
      BY <2>1 DEF Inv, Local, Notified, Templates
    <2>3. \A n : Pending(r, n) => n = Key(r)
      BY DEF Pending
    <2>4. \/ End(r) /\ (session = "CLOSED" \/ record[Key(r)] # "none")
          \/ GoesOn(r)
      <3>1. CASE ReadSession(r)
        BY <2>2, <3>1, GoGoesOn DEF ReadSession, Notifiable
      <3>2. CASE ReadRecord(r)
        BY <2>1, <3>2, GoGoesOn, KeyOf DEF ReadRecord, DeliveryStatus
      <3>3. CASE InsertRecord(r)
        <4> DEFINE t == [tx[r] EXCEPT !.pc = "record ready", !.fresh = TRUE]
        <4>1. t.pc = "record ready" /\ t.order = tx[r].order /\ t.status = tx[r].status
          BY DEF Inv, TypeOK, Tx
        <4>2. Become(r, t) \/ (End(r) /\ record[Key(r)] # "none")
          BY <3>3 DEF InsertRecord
        <4> HIDE DEF t
        <4>3. QED
          BY <4>1, <4>2 DEF GoesOn
      <3>4. CASE Dispatch(r)
        <4>1. PICK out \in Outcome :
                 Become(r, [tx[r] EXCEPT !.pc = "answered", !.success = out.success])
          BY <3>4 DEF Dispatch
        <4> DEFINE t == [tx[r] EXCEPT !.pc = "answered", !.success = out.success]
        <4>2. t.pc = "answered" /\ t.order = tx[r].order /\ t.status = tx[r].status
          BY DEF Inv, TypeOK, Tx
        <4>3. Become(r, t)
          BY <4>1
        <4> HIDE DEF t
        <4>4. QED
          BY <4>2, <4>3 DEF GoesOn
      <3>5. QED
        BY <1>3, <3>1, <3>2, <3>3, <3>4
    <2>5. CASE End(r) /\ (session = "CLOSED" \/ record[Key(r)] # "none")
      BY <2>1, <2>3, <2>5, NotForgotten DEF End
    <2>6. CASE GoesOn(r)
      <3>1. PICK t : /\ Become(r, t) /\ t.pc \notin {"idle", "read"}
                     /\ t.order = tx[r].order /\ t.status = tx[r].status
        BY <2>6 DEF GoesOn
      <3>2. Pending(r, Key(r))' /\ Key(r)' = Key(r)
        BY <3>1, GoPending
      <3>3. \A n \in Notification : Pending(r, n) => Pending(r, n)'
        BY <2>3, <3>2 DEF Pending
      <3>4. QED
        BY <2>1, <3>1, <3>3, NotForgotten
    <2>7. QED
      BY <2>4, <2>5, <2>6
  <1>4. ASSUME NEW r \in Kitchen, CommitRecord(r) PROVE NothingForgotten'
    <2>1. Become(r, Idle) /\ UNCHANGED <<session, crashes, reached>>
          /\ record' = [record EXCEPT ![Key(r)] = Verdict(r)]
      BY <1>4 DEF CommitRecord, End
    <2>2. Verdict(r) # "none"
      <3>1. At(r, "answered") /\ Working(r)
        BY <1>4 DEF CommitRecord, Working, At
      <3>2. ~tx[r].fresh => record[Key(r)] # "none"
        BY <3>1 DEF Inv, Local
      <3>3. tx[r].success \in BOOLEAN /\ tx[r].fresh \in BOOLEAN
        BY DEF Inv, TypeOK, Tx
      <3> QED
        BY <3>2, <3>3 DEF Verdict
    <2>3. record \in [Notification -> DeliveryStatus]
      BY DEF Inv, TypeOK, Notification
    <2>4. \A n \in Notification : record[n] # "none" => record'[n] # "none"
      BY <2>1, <2>2, <2>3
    <2>5. \A n \in Notification : Pending(r, n) => record'[n] # "none"
      BY <2>1, <2>2, <2>3 DEF Pending
    <2>6. QED
      BY <2>1, <2>4, <2>5, NotForgotten
  <1>5. ASSUME NEW r \in Kitchen, Crash(r) PROVE NothingForgotten'
    <2>1. crashes' = crashes + 1 /\ crashes \in Nat
      BY <1>5 DEF Crash, Inv, TypeOK
    <2>2. QED
      BY <2>1 DEF NothingForgotten
  <1>6. CASE CheckOrders \/ UNCHANGED vars
    <2>1. UNCHANGED <<session, crashes, reached, record, tx>>
      BY <1>6 DEF CheckOrders, vars
    <2>2. QED
      BY <2>1 DEF NothingForgotten, Pending, InFlight, At, Key
  <1>7. CASE CloseSession
    BY <1>7 DEF CloseSession, NothingForgotten
  <1>8. QED
    BY <1>1, <1>2, <1>3, <1>4, <1>5, <1>6, <1>7 DEF Next, UpdateOrderStatus

\* No move is forgotten on the way to its message: once nothing is in flight,
\* every status an order got is recorded, unless the session is closed or
\* something died.  EveryMoveIsRecorded adds that requests come to their end
\* (update_order_status, send_kitchen_status_notification).
THEOREM NoMoveForgotten == Spec => []NothingForgotten
  <1>1. Init => NothingForgotten
    BY DEF Init, NothingForgotten, Notified
  <1>2. QED
    BY <1>1, NextForgotten, Invariance, PTL DEF Spec

-----------------------------------------------------------------------------
(* The ledger, of which requests and records are an implementation. *)

\* What is read, checked, inserted or closed is not seen in the ledger.
LEMMA UnseenSteps ==
  ASSUME UNCHANGED <<reached, told, troubled, record>>
  PROVE  UNCHANGED Ledger!vars
  BY DEF Ledger!vars

\* A move was allowed from a status the order has had, however stale.
LEMMA MoveIsMove ==
  ASSUME Inv, NEW r \in Kitchen, MoveOrder(r)
  PROVE  \E o \in Order, s \in Notified : Ledger!Move(o, s)
  <1>1. /\ tx[r].order \in Order /\ tx[r].status \in Notified
        /\ \E u \in reached[tx[r].order] : tx[r].status \in AllowedTransitions[u]
    BY DEF MoveOrder, Inv, Local, InFlight, At
  <1>2. /\ reached' = [reached EXCEPT ![tx[r].order] = @ \cup {tx[r].status}]
        /\ UNCHANGED <<told, troubled, record>>
    BY DEF MoveOrder
  <1>3. Ledger!AllowedTransitions = AllowedTransitions
    BY DEF Ledger!AllowedTransitions, AllowedTransitions, Ledger!OrderStatus, OrderStatus
  <1>4. Ledger!Move(tx[r].order, tx[r].status)
    BY <1>1, <1>2, <1>3 DEF Ledger!Move
  <1>5. QED
    BY <1>1, <1>4

LEMMA SomeTold == \A k \in 0..2 : k # 0 => k > 0
  OBVIOUS

\* The message of a request is the first one, or there was trouble: a record
\* that was inserted now is the only one, one that is used again was FAILED.
LEMMA FirstOrTrouble ==
  ASSUME Inv, NEW r \in Kitchen, At(r, "record ready")
  PROVE  /\ Key(r) \in Notification
         /\ tx[r].status \in reached[tx[r].order]
         /\ told[Key(r)] = 0 \/ Key(r) \in troubled
  <1>1. Local(r) /\ InFlight(r) /\ Working(r) /\ ~At(r, "read")
    BY DEF Inv, InFlight, Working, At
  <1>2. /\ tx[r].order \in Order /\ tx[r].status \in Notified
        /\ tx[r].status \in reached[tx[r].order]
    BY <1>1 DEF Local
  <1>3. Key(r) \in Notification /\ told[Key(r)] \in 0..2
    BY <1>2 DEF Key, Notification, Inv, TypeOK
  <1>4. ASSUME told[Key(r)] # 0, Key(r) \notin troubled PROVE FALSE
    <2>1. told[Key(r)] > 0
      BY <1>3, <1>4, SomeTold
    <2>2. record[Key(r)] = "SENT" \/ \E q \in Kitchen : Telling(q, Key(r))
      BY <1>3, <1>4, <2>1 DEF Inv, RecordInv
    <2>3. tx[r].fresh /\ record[Key(r)] = "none"
      BY <1>1, <1>4 DEF Local, Inv, TypeOK, Tx
    <2>4. PICK q \in Kitchen : At(q, "answered") /\ tx[q].fresh /\ Key(q) = Key(r)
      BY <2>2, <2>3 DEF Telling
    <2>5. q = r
      BY <2>3, <2>4 DEF Inv, OwnRecord
    <2>6. QED
      BY <2>4, <2>5 DEF At
  <1>5. QED
    BY <1>2, <1>3, <1>4

\* A message that is delivered is told; one that is refused is trouble.
LEMMA DispatchIsTell ==
  ASSUME Inv, NEW r \in Kitchen, Dispatch(r)
  PROVE  \E n \in Notification : Ledger!Tell(n) \/ Ledger!Fail(n)
  <1>1. /\ Key(r) \in Notification
        /\ tx[r].status \in reached[tx[r].order]
        /\ told[Key(r)] = 0 \/ Key(r) \in troubled
    BY FirstOrTrouble DEF Dispatch
  <1>2. PICK out \in Outcome :
            /\ told' = IF out.delivered THEN [told EXCEPT ![Key(r)] = Again(@)] ELSE told
            /\ troubled' = IF out.success THEN troubled ELSE troubled \cup {Key(r)}
    BY DEF Dispatch
  <1>3. UNCHANGED <<reached, record>>
    BY DEF Dispatch
  <1>4. CASE out.delivered
    <2>1. told' = [told EXCEPT ![Key(r)] = IF @ < 2 THEN @ + 1 ELSE @]
      BY <1>2, <1>4 DEF Again
    <2>2. troubled' \in {troubled, troubled \cup {Key(r)}}
      BY <1>2
    <2>3. Key(r)[2] \in reached[Key(r)[1]]
      BY <1>1 DEF Key
    <2>4. Ledger!Tell(Key(r))
      BY <1>1, <1>3, <2>1, <2>2, <2>3 DEF Ledger!Tell
    <2>5. QED
      BY <1>1, <2>4
  <1>5. CASE ~out.delivered
    <2>1. ~out.success
      BY <1>5 DEF Outcome
    <2>2. Ledger!Fail(Key(r))
      BY <1>2, <1>3, <1>5, <2>1 DEF Ledger!Fail
    <2>3. QED
      BY <1>1, <2>2
  <1>6. QED
    BY <1>4, <1>5

\* The outcome that a request commits is the one it had; a failure that is no
\* news changes nothing.
LEMMA CommitIsNote ==
  ASSUME Inv, NEW r \in Kitchen, CommitRecord(r)
  PROVE  (\E n \in Notification : Ledger!Note(n)) \/ UNCHANGED Ledger!vars
  <1>1. /\ tx[r].order \in Order /\ tx[r].status \in Notified
        /\ IF tx[r].success THEN told[Key(r)] > 0 ELSE Key(r) \in troubled
        /\ tx[r].fresh => record[Key(r)] = "none"
    BY DEF CommitRecord, Inv, Local, InFlight, At
  <1>2. Key(r) \in Notification
    BY <1>1 DEF Key, Notification
  <1>3. /\ record' = [record EXCEPT ![Key(r)] = Verdict(r)]
        /\ UNCHANGED <<reached, told, troubled>>
    BY DEF CommitRecord
  <1>4. record \in [Notification -> DeliveryStatus] /\ tx[r].success \in BOOLEAN /\ tx[r].fresh \in BOOLEAN
    BY DEF Inv, TypeOK, Notification, Tx
  <1>5. CASE tx[r].success
    <2>1. Ledger!Note(Key(r))
      BY <1>1, <1>3, <1>5 DEF Verdict, Ledger!Note
    <2> QED
      BY <1>2, <2>1
  <1>6. CASE ~tx[r].success /\ tx[r].fresh
    <2>1. Ledger!Note(Key(r))
      BY <1>1, <1>3, <1>6 DEF Verdict, Ledger!Note
    <2> QED
      BY <1>2, <2>1
  <1>7. CASE ~tx[r].success /\ ~tx[r].fresh
    <2>1. Verdict(r) = record[Key(r)]
      BY <1>7 DEF Verdict
    <2>2. record' = record
      BY <1>2, <1>3, <1>4, <2>1
    <2> QED
      BY <1>3, <2>2 DEF Ledger!vars
  <1>8. QED
    BY <1>4, <1>5, <1>6, <1>7

\* A request that dies leaves trouble with what it was about, if anything.
LEMMA CrashIsFail ==
  ASSUME Inv, NEW r \in Kitchen, Crash(r)
  PROVE  \E n \in Notification : Ledger!Fail(n)
  <1>1. tx[r].order \in Order /\ tx[r].status \in Notified
    BY DEF Crash, Inv, Local
  <1>2. Key(r) \in Notification /\ tx[r].status # "none"
    BY <1>1 DEF Key, Notification, Notified
  <1>3. Ledger!Fail(Key(r))
    BY <1>2 DEF Crash, Ledger!Fail
  <1>4. QED
    BY <1>2, <1>3

LEMMA StepIsLedgerStep ==
  ASSUME Inv, [Next]_vars
  PROVE  [Ledger!Next]_(Ledger!vars)
  <1>1. Notification = Ledger!Notification
    BY DEF Notification, Ledger!Notification
  <1>2. ASSUME NEW r \in Kitchen,
               ReadOrder(r) \/ ReadSession(r) \/ ReadRecord(r) \/ InsertRecord(r)
        PROVE  UNCHANGED <<reached, told, troubled, record>>
    BY <1>2 DEF ReadOrder, ReadSession, ReadRecord, InsertRecord
  <1>3. ASSUME CheckOrders \/ CloseSession \/ UNCHANGED vars
        PROVE  UNCHANGED <<reached, told, troubled, record>>
    BY <1>3 DEF CheckOrders, CloseSession, vars
  <1>4. ASSUME NEW r \in Kitchen, UpdateOrderStatus(r) PROVE Ledger!Next \/ UNCHANGED Ledger!vars
    <2>1. CASE ReadOrder(r) \/ ReadSession(r) \/ ReadRecord(r) \/ InsertRecord(r)
      BY <1>2, <2>1, UnseenSteps
    <2>2. CASE MoveOrder(r)
      BY <2>2, MoveIsMove DEF Ledger!Next
    <2>3. CASE Dispatch(r)
      BY <1>1, <2>3, DispatchIsTell DEF Ledger!Next
    <2>4. CASE CommitRecord(r)
      BY <1>1, <2>4, CommitIsNote DEF Ledger!Next
    <2>5. QED
      BY <1>4, <2>1, <2>2, <2>3, <2>4 DEF UpdateOrderStatus
  <1>5. ASSUME NEW r \in Kitchen, Crash(r) PROVE Ledger!Next
    BY <1>1, <1>5, CrashIsFail DEF Ledger!Next
  <1>6. QED
    BY <1>3, <1>4, <1>5, UnseenSteps DEF Next

\* Requests with their stale checks, undecided records, lost answers and
\* deaths implement the ledger, which has none of them
\* (update_order_status, send_kitchen_status_notification).
THEOREM LedgerRefined == Spec => ImplementsLedger
  <1>1. Init => Ledger!Init
    BY DEF Init, Ledger!Init, Ledger!Notification
  <1>2. QED
    BY <1>1, StepIsLedgerStep, Invariance, PTL DEF Spec, ImplementsLedger, Ledger!Spec
=============================================================================
