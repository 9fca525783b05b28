---------------------------- MODULE SessionEntry ----------------------------
(***************************************************************************)
(* How a guest gets a dining session: by scanning the QR code of a table   *)
(* or by choosing a table from the list, for the first time, again at the  *)
(* same table, or at another one; and how sessions are retired.            *)
(*                                                                         *)
(* All sessions here are those of one customer.  Requests are transactions *)
(* as in DiningSession: the writes after the last read are one action with *)
(* the commit.  The UPDATE that retires sessions by their status is a read *)
(* too: it takes what is ACTIVE when it starts, waits for rows that others *)
(* have written, looks at those again, and never sees rows that came up    *)
(* while it waited.                                                        *)
(***************************************************************************)
EXTENDS Naturals, FiniteSets

CONSTANTS
    Guest,       \* slots for the requests of the customer
    Cashier,     \* slots for the requests that settle the bill of a session
    Table,       \* the tables
    None,        \* not a table
    MaxSession   \* how many sessions are ever created (bound)

ASSUME EntryAssumption ==
    /\ None \notin Table
    /\ MaxSession \in Nat
    /\ IsFiniteSet(Guest)

Request == Guest \cup Cashier

\* Sessions are numbered in the order of created_at, which is the time when the
\* transaction of the request began and not that of its commit.
Session == 1..MaxSession

VARIABLES
    customer,   \* whether the customers row is there
    sessions,   \* the customer_sessions rows
    timedOut,   \* the sessions whose expires_at has passed
    tx,         \* what each request in flight has read
    before      \* history: the sessions that were there when the request that
                \* created a session began

vars == <<customer, sessions, timedOut, tx, before>>

SessionRow == [status : {"none", "ACTIVE", "EXPIRED", "CLOSED"}, table : Table \cup {None}]

NoSession == [status |-> "none", table |-> None]

Location == {"idle", "begun", "no customer", "customer inserted", "known",
             "sessions read", "retiring", "retired", "settling"}

Tx == [pc       : Location,
       table    : Table \cup {None},
       number   : 0..MaxSession,     \* of the session it will create
       there    : SUBSET Session,    \* the sessions there were when it began
       session  : 0..MaxSession,     \* the session found, 0 for none
       stale    : SUBSET Session,    \* the sessions to be marked EXPIRED
       leaving  : SUBSET Session]    \* the sessions its UPDATE retires

Idle == [pc |-> "idle", table |-> None, number |-> 0, there |-> {}, session |-> 0,
         stale |-> {}, leaving |-> {}]

TypeOK ==
    /\ customer \in {"none", "there"}
    /\ sessions \in [Session -> SessionRow]
    /\ timedOut \subseteq Session
    /\ tx \in [Request -> Tx]
    /\ before \in [Session -> SUBSET Session]

Init ==
    /\ customer = "none"
    /\ sessions = [s \in Session |-> NoSession]
    /\ timedOut = {}
    /\ tx = [r \in Request |-> Idle]
    /\ before = [s \in Session |-> {}]

-----------------------------------------------------------------------------
At(r, pc) == tx[r].pc = pc

Become(r, t) == tx' = [tx EXCEPT ![r] = t]

Go(r, pc) == Become(r, [tx[r] EXCEPT !.pc = pc])

End(r) == Become(r, Idle)

Created == {s \in Session : sessions[s].status # "none"}

Active == {s \in Session : sessions[s].status = "ACTIVE"}

\* is_currently_active.
Live == Active \ timedOut

\* get_active_session_for_customer: the newest live session, and on the way
\* to it the newer ones whose time has passed.
Newest == IF Live = {} THEN 0 ELSE CHOOSE s \in Live : \A t \in Live : t <= s

Stale == {s \in Active \cap timedOut : s > Newest}

\* Fault: a status the model of the row does not have.
MarkAbandoned(rows, stale) ==
    [s \in Session |-> IF s \in stale THEN [rows[s] EXCEPT !.status = "ABANDONED"] ELSE rows[s]]

\* UPDATE ... SET status = 'EXPIRED' WHERE id, whatever the status is by now.
MarkExpired(rows, stale) ==
    [s \in Session |-> IF s \in stale THEN [rows[s] EXCEPT !.status = "EXPIRED"] ELSE rows[s]]

\* The rows that r must not write before another request has ended.
Locked(r) == UNION {tx[q].leaving : q \in {p \in Request \ {r} : At(p, "retired")}}

-----------------------------------------------------------------------------
(* create_or_resume_direct_session; a QR code stands for its table *)

\* The numbers of the sessions there are and may be soon.
Taken == Created \cup {tx[q].number : q \in Request}

\* The transaction begins: restaurant and table are looked up first.
Begin(r) ==
    /\ At(r, "idle")
    /\ \E t \in Table, n \in Session :
           /\ \A m \in Taken : m < n
           /\ n = 1 \/ n - 1 \in Taken
           /\ Become(r, [Idle EXCEPT !.pc = "begun", !.table = t, !.number = n, !.there = Created])
    /\ UNCHANGED <<customer, sessions, timedOut, before>>

FindCustomer(r) ==
    /\ At(r, "begun")
    /\ Go(r, IF customer = "none" THEN "no customer" ELSE "known")
    /\ UNCHANGED <<customer, sessions, timedOut, before>>

\* The insert waits for another one that is undecided and fails on the
\* unique whatsapp_customer_id when the customer is there.
InsertCustomer(r) ==
    /\ At(r, "no customer")
    /\ \A q \in Request \ {r} : ~At(q, "customer inserted")
    /\ IF customer = "none" THEN Go(r, "customer inserted") ELSE End(r)
    /\ UNCHANGED <<customer, sessions, timedOut, before>>

\* The new row, next to those that are there by then.
Create(r, rows) ==
    /\ sessions' = [rows EXCEPT ![tx[r].number] = [status |-> "ACTIVE", table |-> tx[r].table]]
    /\ before' = [before EXCEPT ![tx[r].number] = tx[r].there]

\* A new customer has no sessions to read.
FirstSession(r) ==
    /\ At(r, "customer inserted")
    /\ Create(r, sessions)
    /\ customer' = "there"
    /\ End(r)
    /\ UNCHANGED timedOut

ReadSessions(r) ==
    /\ At(r, "known")
    /\ Become(r, [tx[r] EXCEPT !.pc = "sessions read", !.session = Newest, !.stale = Stale])
    /\ UNCHANGED <<customer, sessions, timedOut, before>>

Found(r) == tx[r].session # 0

\* Fault: a session at the same table is not resumed.
NeverAtTable(r) == FALSE

\* The session found is one at the table asked for.
AtTable(r) == Found(r) /\ sessions[tx[r].session].table = tx[r].table

\* The guest already sits at this table.
Resume(r) ==
    /\ At(r, "sessions read")
    /\ AtTable(r)
    /\ tx[r].stale \cap Locked(r) = {}
    /\ sessions' = MarkExpired(sessions, tx[r].stale)
    /\ End(r)
    /\ UNCHANGED <<customer, timedOut, before>>

\* Fault: changing the table retires nothing.
NoneToRetire == {}

\* Fault: the status is missing from the WHERE of the update.
AllToRetire == Created

\* The sessions that expire_active_sessions_for_customer updates.
ToRetire == Active

\* A session at another table was found: its UPDATE starts ...
AskRetire(r) ==
    /\ At(r, "sessions read")
    /\ Found(r)
    /\ ~AtTable(r)
    /\ Become(r, [tx[r] EXCEPT !.pc = "retiring", !.leaving = ToRetire])
    /\ UNCHANGED <<customer, sessions, timedOut, before>>

\* ... and has the rows, those that still are to be retired.
Retire(r) ==
    /\ At(r, "retiring")
    /\ tx[r].leaving \cap Locked(r) = {}
    /\ Become(r, [tx[r] EXCEPT !.pc = "retired", !.leaving = @ \cap ToRetire])
    /\ UNCHANGED <<customer, sessions, timedOut, before>>

\* The guest sits down: a new session, after the previous one is retired.
SitDown(r) ==
    /\ At(r, "retired") \/ (At(r, "sessions read") /\ ~Found(r))
    /\ tx[r].stale \cap Locked(r) = {}
    /\ Create(r, MarkExpired(sessions, tx[r].stale \cup tx[r].leaving))
    /\ End(r)
    /\ UNCHANGED <<customer, timedOut>>

-----------------------------------------------------------------------------
(* The other requests that write sessions. *)

\* Any WhatsApp message looks up the session, and marks the stale ones.
LookUp(r) ==
    /\ At(r, "idle")
    /\ customer = "there"
    /\ Stale # {}
    /\ Become(r, [Idle EXCEPT !.pc = "sessions read", !.session = 0, !.stale = Stale])
    /\ UNCHANGED <<customer, sessions, timedOut, before>>

MarkStale(r) ==
    /\ At(r, "sessions read")
    /\ tx[r].table = None
    /\ tx[r].stale \cap Locked(r) = {}
    /\ sessions' = MarkExpired(sessions, tx[r].stale)
    /\ End(r)
    /\ UNCHANGED <<customer, timedOut, before>>

\* settle_bill asks for an OPEN bill, not for an active session.
ReadSettled(r) ==
    /\ At(r, "idle")
    /\ \E s \in Created :
           /\ sessions[s].status # "CLOSED"
           /\ Become(r, [Idle EXCEPT !.pc = "settling", !.session = s])
    /\ UNCHANGED <<customer, sessions, timedOut, before>>

CloseSession(r) ==
    /\ At(r, "settling")
    /\ tx[r].session \notin Locked(r)
    /\ sessions' = [sessions EXCEPT ![tx[r].session].status = "CLOSED"]
    /\ End(r)
    /\ UNCHANGED <<customer, timedOut, before>>

-----------------------------------------------------------------------------
\* A request ends without effect: rejected, disconnected or crashed.
Abort(r) == ~At(r, "idle") /\ End(r) /\ UNCHANGED <<customer, sessions, timedOut, before>>

\* Eight hours have passed.
TimePasses ==
    /\ \E s \in Created \ timedOut : timedOut' = timedOut \cup {s}
    /\ UNCHANGED <<customer, sessions, tx, before>>

Enter(r) ==
    \/ Begin(r) \/ FindCustomer(r) \/ InsertCustomer(r) \/ FirstSession(r)
    \/ ReadSessions(r)
    \/ tx[r].table # None /\ (Resume(r) \/ AskRetire(r) \/ SitDown(r))
    \/ Retire(r)

Next ==
    \/ \E r \in Guest : Enter(r) \/ LookUp(r) \/ MarkStale(r)
    \/ \E r \in Cashier : ReadSettled(r) \/ CloseSession(r)
    \/ \E r \in Request : Abort(r)
    \/ TimePasses

Spec == Init /\ [][Next]_vars

-----------------------------------------------------------------------------
\* A customer has no more live sessions than requests of hers ever run at
\* the same time: each of them can create one that the others have not seen,
\* and no more (create_or_resume_direct_session).
LiveBounded == Cardinality(Live) <= Cardinality(Guest)

\* Neither session was there when the other was asked for.
Overlap(s, t) == s # t /\ s \notin before[t] /\ t \notin before[s]

Overlapped(s) == \E t \in Created : Overlap(s, t)

\* Two sessions are ACTIVE only when neither was there when the other was
\* asked for: without overlapping requests a customer has one at most
\* (create_or_resume_direct_session).
OneActiveUnlessOverlap == \A s, t \in Active : s = t \/ Overlap(s, t)

\* A closed session is not changed any more, unless its time had passed
\* before it was closed (get_active_session_for_customer, settle_bill).
ClosedStaysUnlessTimedOut ==
    [][\A s \in Session : sessions[s].status = "CLOSED" /\ s \notin timedOut
           => sessions'[s] = sessions[s]]_vars

\* A session is retired only when its time has passed or when its guest sits
\* down at another table in the same step, unless requests overlapped
\* (create_or_resume_direct_session).
RetiredForCause ==
    [][\A s \in Active :
           sessions'[s].status = "EXPIRED"
               => \/ s \in timedOut
                  \/ Overlapped(s)'
                  \/ \E n \in Session \ Created :
                         /\ sessions'[n].status = "ACTIVE"
                         /\ sessions'[n].table # sessions[s].table]_vars

=============================================================================
