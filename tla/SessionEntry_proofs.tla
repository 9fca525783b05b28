------------------------- MODULE SessionEntry_proofs -------------------------
(***************************************************************************)
(* Proofs about SessionEntry, for any number of requests, tables and       *)
(* sessions.                                                               *)
(***************************************************************************)
EXTENDS SessionEntry, Integers, FiniteSetTheorems, WellFoundedInduction, TLAPS

\* A request that asks for a table, one that is going to enter, one that has
\* found the customer, one that is creating it, and one that changes tables.
Asking(r) == tx[r].table # None

Entering(r) == Asking(r) /\ tx[r].pc \in {"sessions read", "retiring", "retired"}

Known(r) == At(r, "known") \/ Entering(r)

Inserting(r) == At(r, "customer inserted")

Leaving(r) == tx[r].pc \in {"retiring", "retired"}

\* A request that is going to enter has seen every session that was there
\* when it began and that is still ACTIVE: as one it will mark, as the one it
\* has found, or as one that it passed over for that.
Seen(r) ==
    \A s \in Active \cap tx[r].there :
        \/ s \in tx[r].stale
        \/ /\ Found(r)
           /\ \/ s = tx[r].session
              \/ s \in timedOut
              \/ Overlap(s, tx[r].session)

\* One that changes tables retires all of them.
AllLeft(r) ==
    /\ Asking(r) /\ Found(r)
    /\ sessions[tx[r].session].table # tx[r].table
    /\ \A s \in Active \cap tx[r].there : s \in tx[r].stale \cup tx[r].leaving

Local(r) ==
    /\ tx[r].stale \subseteq timedOut
    /\ tx[r].there \subseteq Created
    /\ tx[r].leaving \subseteq Created
    /\ Found(r) => tx[r].session \in Created
    /\ At(r, "settling") => Found(r)
    /\ tx[r].pc \in {"begun", "no customer", "customer inserted", "known"} => Asking(r)
    /\ Asking(r) => tx[r].number \in Session \ Created
    /\ Entering(r) => Seen(r)
    /\ Leaving(r) => AllLeft(r)
    /\ ~Leaving(r) => tx[r].leaving = {}
    /\ At(r, "retired") => tx[r].leaving \subseteq Active

\* Two requests create different sessions and do not retire the same.
ApartFrom(q, r) ==
    /\ Asking(q) /\ Asking(r) => tx[q].number # tx[r].number
    /\ At(q, "retired") /\ At(r, "retired") => tx[q].leaving \cap tx[r].leaving = {}

\* One request at a time inserts the customer, who has no sessions before.
CustomerInv ==
    /\ customer = "none" => Created = {}
    /\ \A r \in Request : Known(r) => customer # "none"
    /\ \A r \in Request : Inserting(r) => customer = "none"
    /\ \A q, r \in Request : Inserting(q) /\ Inserting(r) => q = r

History == \A s \in Created : before[s] \subseteq Created

Inv ==
    /\ TypeOK
    /\ \A r \in Request : Local(r)
    /\ \A q, r \in Request : q # r => ApartFrom(q, r)
    /\ timedOut \subseteq Created
    /\ History
    /\ CustomerInv
    /\ OneActiveUnlessOverlap

LEMMA IdleTx ==
  /\ Idle \in Tx
  /\ Idle.pc = "idle" /\ Idle.table = None /\ Idle.number = 0 /\ Idle.there = {}
  /\ Idle.session = 0 /\ Idle.stale = {} /\ Idle.leaving = {}
  <1>1. 0 \in 0..MaxSession
    BY EntryAssumption
  <1>2. QED
    BY <1>1 DEF Idle, Tx, Location

\* A request that is idle knows nothing.
LEMMA IdleLocal ==
  ASSUME NEW r, tx[r] = Idle
  PROVE  Local(r)
  BY IdleTx DEF Local, Asking, Entering, Leaving, Found, At

LEMMA IdleLocalNext ==
  ASSUME NEW r, tx'[r] = Idle
  PROVE  Local(r)'
  BY IdleTx DEF Local, Asking, Entering, Leaving, Found, At

LEMMA InitInv == Init => Inv
  <1> SUFFICES ASSUME Init PROVE Inv
    OBVIOUS
  <1>1. TypeOK
    BY EntryAssumption, IdleTx DEF Init, TypeOK, SessionRow, NoSession, Session
  <1>2. Created = {} /\ Active = {}
    BY DEF Init, Created, Active, NoSession
  <1>3. \A r \in Request : tx[r] = Idle
    BY DEF Init
  <1>4. \A r \in Request : Local(r)
    BY <1>3, IdleLocal
  <1>5. \A q, r \in Request : ApartFrom(q, r)
    BY <1>3, IdleTx DEF ApartFrom, Asking, At
  <1>6. CustomerInv
    BY <1>2, <1>3, IdleTx DEF CustomerInv, Known, Entering, Asking, Inserting, At
  <1>7. History /\ OneActiveUnlessOverlap /\ timedOut \subseteq Created
    BY <1>2 DEF Init, History, OneActiveUnlessOverlap
  <1>8. QED
    BY <1>1, <1>4, <1>5, <1>6, <1>7 DEF Inv

-----------------------------------------------------------------------------
\* What no step undoes: sessions stay, none gets ACTIVE again, time goes on.
Onward ==
    /\ Created \subseteq Created'
    /\ Active' \subseteq Active \cup (Session \ Created)
    /\ timedOut \subseteq timedOut'
    /\ \A s \in Created : before'[s] = before[s] /\ sessions'[s].table = sessions[s].table

\* What a request knows stays true while others go on, who take neither its
\* number nor the rows that it has locked.
LEMMA OthersKeep ==
  ASSUME TypeOK, NEW r \in Request, Local(r), tx'[r] = tx[r], Onward,
         Asking(r) => tx[r].number \notin Created',
         At(r, "retired") => tx[r].leaving \subseteq Active'
  PROVE  Local(r)'
  <1>1. /\ tx'[r].stale \subseteq timedOut'
        /\ tx'[r].there \subseteq Created'
        /\ tx'[r].leaving \subseteq Created'
        /\ Found(r)' => tx'[r].session \in Created'
        /\ At(r, "settling")' => Found(r)'
        /\ tx'[r].pc \in {"begun", "no customer", "customer inserted", "known"} => Asking(r)'
        /\ ~Leaving(r)' => tx'[r].leaving = {}
    BY DEF Local, Onward, Found, At, Asking, Leaving
  <1>2. ASSUME Asking(r) PROVE tx'[r].number \in Session \ Created'
    BY <1>2 DEF Local
  <1>3. ASSUME NEW s \in Active', s \in tx[r].there
        PROVE  s \in Active /\ s \in Created
    <2>1. s \in Created
      BY <1>3 DEF Local
    <2>2. QED
      BY <2>1 DEF Onward
  <1>4. ASSUME Entering(r) PROVE Seen(r)'
    <2> SUFFICES ASSUME NEW s \in Active', s \in tx[r].there
                 PROVE  \/ s \in tx[r].stale
                        \/ /\ Found(r)
                           /\ \/ s = tx[r].session
                              \/ s \in timedOut'
                              \/ Overlap(s, tx[r].session)'
      BY DEF Seen, Found
    <2>1. s \in Active /\ s \in Created
      BY <1>3
    <2>2. Seen(r)
      BY <1>4 DEF Local
    <2>3. before'[s] = before[s]
      BY <2>1 DEF Onward
    <2>4. Found(r) => before'[tx[r].session] = before[tx[r].session]
      BY DEF Local, Onward
    <2>5. Found(r) /\ Overlap(s, tx[r].session) => Overlap(s, tx[r].session)'
      BY <2>3, <2>4 DEF Overlap
    <2>6. QED
      BY <2>1, <2>2, <2>5 DEF Seen, Onward
  <1>5. ASSUME Leaving(r) PROVE AllLeft(r)'
    <2>1. AllLeft(r)
      BY <1>5 DEF Local
    <2>2. tx[r].session \in Created
      BY <2>1 DEF Local, AllLeft
    <2>3. sessions'[tx[r].session].table = sessions[tx[r].session].table
      BY <2>2 DEF Onward
    <2>4. \A s \in Active' : s \in tx[r].there => s \in Active
      BY <1>3
    <2>5. QED
      BY <2>1, <2>3, <2>4 DEF AllLeft, Asking, Found
  <1>6. Asking(r)' = Asking(r) /\ Entering(r)' = Entering(r) /\ Leaving(r)' = Leaving(r)
        /\ At(r, "retired")' = At(r, "retired")
    BY DEF Asking, Entering, Leaving, At
  <1>7. QED
    BY <1>1, <1>2, <1>4, <1>5, <1>6 DEF Local

\* A step of r that writes no rows.
LEMMA QuietStep ==
  ASSUME Inv, TypeOK', NEW r \in Request, NEW t, Become(r, t),
         UNCHANGED <<customer, sessions, timedOut, before>>,
         Local(r)',
         \A q \in Request : q # r => ApartFrom(q, r)' /\ ApartFrom(r, q)',
         Known(r)' => customer # "none",
         t.pc = "customer inserted"
             => customer = "none" /\ \A q \in Request \ {r} : ~At(q, "customer inserted")
  PROVE  Inv'
  <1>1. tx'[r] = t /\ \A q \in Request : q # r => tx'[q] = tx[q]
    BY DEF Inv, TypeOK, Become
  <1>2. Created' = Created /\ Active' = Active
    BY DEF Created, Active
  <1>3. Onward
    BY <1>2 DEF Onward
  <1>4. \A q \in Request : Local(q)'
    <2> SUFFICES ASSUME NEW q \in Request, q # r PROVE Local(q)'
      OBVIOUS
    <2>1. Local(q) /\ tx'[q] = tx[q] /\ TypeOK
      BY <1>1 DEF Inv
    <2>2. /\ Asking(q) => tx[q].number \notin Created'
          /\ At(q, "retired") => tx[q].leaving \subseteq Active'
      BY <1>2, <2>1 DEF Local
    <2>3. QED
      BY <1>3, <2>1, <2>2, OthersKeep
  <1>5. \A p, q \in Request : p # q => ApartFrom(p, q)'
    <2> SUFFICES ASSUME NEW p \in Request, NEW q \in Request, p # q, p # r, q # r
                 PROVE  ApartFrom(p, q)'
      OBVIOUS
    <2>1. ApartFrom(p, q)
      BY DEF Inv
    <2>2. tx'[p] = tx[p] /\ tx'[q] = tx[q]
      BY <1>1
    <2>3. QED
      BY <2>1, <2>2 DEF ApartFrom, Asking, At
  <1>6. History' /\ OneActiveUnlessOverlap' /\ timedOut' \subseteq Created'
    BY <1>2 DEF Inv, History, OneActiveUnlessOverlap, Overlap
  <1>7. CustomerInv'
    BY <1>1, <1>2 DEF Inv, CustomerInv, Known, Entering, Asking, Inserting, At
  <1>8. QED
    BY <1>4, <1>5, <1>6, <1>7 DEF Inv

\* A step of r that ends with its writes.
LEMMA WriteStep ==
  ASSUME Inv, TypeOK', NEW r \in Request, End(r), timedOut' = timedOut,
         Onward, History', OneActiveUnlessOverlap',
         Created' = Created \/ (Asking(r) /\ Created' = Created \cup {tx[r].number}),
         \A q \in Request : q # r /\ At(q, "retired") => tx[q].leaving \subseteq Active',
         \/ customer' = customer /\ (customer = "none" => Created' = {})
         \/ customer' = "there" /\ Inserting(r)
  PROVE  Inv'
  <1>1. tx'[r] = Idle /\ \A q \in Request : q # r => tx'[q] = tx[q]
    BY DEF Inv, TypeOK, End, Become
  <1>2. \A q \in Request : Local(q)'
    <2> SUFFICES ASSUME NEW q \in Request PROVE Local(q)'
      OBVIOUS
    <2>1. CASE q = r
      BY <1>1, <2>1, IdleLocalNext
    <2>2. CASE q # r
      <3>1. Local(q) /\ tx'[q] = tx[q] /\ TypeOK
        BY <1>1, <2>2 DEF Inv
      <3>2. Asking(q) => tx[q].number \notin Created'
        <4>1. Asking(q) /\ Asking(r) => tx[q].number # tx[r].number
          BY <2>2 DEF Inv, ApartFrom
        <4>2. Asking(q) => tx[q].number \notin Created
          BY <3>1 DEF Local
        <4>3. QED
          BY <4>1, <4>2
      <3>3. At(q, "retired") => tx[q].leaving \subseteq Active'
        BY <2>2
      <3>4. QED
        BY <3>1, <3>2, <3>3, OthersKeep
    <2>3. QED
      BY <2>1, <2>2
  <1>3. \A p, q \in Request : p # q => ApartFrom(p, q)'
    <2> SUFFICES ASSUME NEW p \in Request, NEW q \in Request, p # q
                 PROVE  ApartFrom(p, q)'
      OBVIOUS
    <2>1. CASE p = r \/ q = r
      BY <1>1, <2>1, IdleTx DEF ApartFrom, Asking, At
    <2>2. CASE p # r /\ q # r
      <3>1. ApartFrom(p, q) /\ tx'[p] = tx[p] /\ tx'[q] = tx[q]
        BY <1>1, <2>2 DEF Inv
      <3>2. QED
        BY <3>1 DEF ApartFrom, Asking, At
    <2>3. QED
      BY <2>1, <2>2
  <1>4. \A q \in Request :
            /\ Inserting(q)' => q # r /\ Inserting(q)
            /\ Known(q)' => Known(q)
    <2>1. ~Inserting(r)' /\ ~Known(r)'
      BY <1>1, IdleTx DEF Known, Entering, Inserting, At
    <2>2. ASSUME NEW q \in Request, q # r
          PROVE  Inserting(q)' = Inserting(q) /\ Known(q)' = Known(q)
      BY <1>1, <2>2 DEF Known, Entering, Asking, Inserting, At
    <2>3. QED
      BY <2>1, <2>2
  <1>5. CustomerInv'
    BY <1>4 DEF Inv, CustomerInv
  <1>6. timedOut' \subseteq Created'
    BY DEF Inv, Onward
  <1>7. QED
    BY <1>2, <1>3, <1>5, <1>6 DEF Inv

-----------------------------------------------------------------------------
(* The requests that only read. *)

\* A transaction that a step puts in place.
LEMMA TxTyped ==
  ASSUME TypeOK, NEW r \in Request, NEW t \in Tx, Become(r, t),
         UNCHANGED <<customer, sessions, timedOut, before>>
  PROVE  TypeOK'
  BY DEF TypeOK, Become

\* A step of r that keeps its table and its number, if it asks for one, and
\* locks nothing.
LEMMA ReadStep ==
  ASSUME Inv, NEW r \in Request, NEW t \in Tx, Become(r, t),
         UNCHANGED <<customer, sessions, timedOut, before>>,
         Local(r)',
         t.table = None \/ (t.table = tx[r].table /\ t.number = tx[r].number),
         t.pc # "retired",
         Known(r)' => customer # "none",
         t.pc = "customer inserted"
             => customer = "none" /\ \A q \in Request \ {r} : ~At(q, "customer inserted")
  PROVE  Inv'
  <1>1. TypeOK'
    BY TxTyped DEF Inv
  <1>2. tx'[r] = t /\ \A q \in Request : q # r => tx'[q] = tx[q]
    BY DEF Inv, TypeOK, Become
  <1>3. ASSUME NEW q \in Request, q # r PROVE ApartFrom(q, r)' /\ ApartFrom(r, q)'
    <2>1. ApartFrom(q, r) /\ ApartFrom(r, q) /\ tx'[q] = tx[q]
      BY <1>2, <1>3 DEF Inv
    <2>2. QED
      BY <1>2, <2>1 DEF ApartFrom, Asking, At
  <1>4. QED
    BY <1>1, <1>3, QuietStep

LEMMA BeginInv ==
  ASSUME Inv, NEW r \in Request, Begin(r)
  PROVE  Inv'
  <1>1. PICK t \in Table, n \in Session :
            /\ \A m \in Taken : m < n
            /\ Become(r, [Idle EXCEPT !.pc = "begun", !.table = t, !.number = n, !.there = Created])
    BY DEF Begin
  <1> DEFINE u == [Idle EXCEPT !.pc = "begun", !.table = t, !.number = n, !.there = Created]
  <1>2. UNCHANGED <<customer, sessions, timedOut, before>>
    BY DEF Begin
  <1>3. n \in 0..MaxSession /\ Created \subseteq Session
    BY EntryAssumption DEF Session, Created
  <1>4. /\ u \in Tx
        /\ u.pc = "begun" /\ u.table = t /\ u.number = n /\ u.there = Created
        /\ u.session = 0 /\ u.stale = {} /\ u.leaving = {}
    BY <1>3, IdleTx DEF Tx, Location
  <1>5. Become(r, u)
    BY <1>1
  <1> HIDE DEF u
  <1>6. tx'[r] = u /\ \A q \in Request : q # r => tx'[q] = tx[q]
    BY <1>5 DEF Inv, TypeOK, Become
  <1>7. n \notin Taken
    <2>1. ~(n < n)
      BY <1>3, EntryAssumption
    <2>2. QED
      BY <1>1, <2>1
  <1>8. Created' = Created
    BY <1>2 DEF Created
  <1>9. Local(r)'
    <2>1. n \in Session \ Created'
      BY <1>7, <1>8 DEF Taken
    <2>2. QED
      BY <1>4, <1>6, <1>8, <2>1, EntryAssumption DEF Local, Asking, Entering, Leaving, Found, At
  <1>10. TypeOK'
    BY <1>2, <1>4, <1>5, TxTyped DEF Inv
  <1>11. ASSUME NEW q \in Request, q # r PROVE ApartFrom(q, r)' /\ ApartFrom(r, q)'
    <2>1. tx[q].number # n
      BY <1>7 DEF Taken
    <2>2. QED
      BY <1>4, <1>6, <1>11, <2>1 DEF ApartFrom, At
  <1>12. ~Known(r)'
    BY <1>4, <1>6 DEF Known, Entering, At
  <1>13. QED
    BY <1>2, <1>4, <1>5, <1>9, <1>10, <1>11, <1>12, QuietStep

\* A request that goes on before it has read the sessions.
LEMMA GoInv ==
  ASSUME Inv, NEW r \in Request, NEW pc \in {"no customer", "customer inserted", "known"},
         Go(r, pc), tx[r].pc \in {"begun", "no customer"},
         UNCHANGED <<customer, sessions, timedOut, before>>,
         pc = "known" => customer # "none",
         pc = "customer inserted"
             => customer = "none" /\ \A q \in Request \ {r} : ~At(q, "customer inserted")
  PROVE  Inv'
  <1> DEFINE u == [tx[r] EXCEPT !.pc = pc]
  <1>1. tx[r] \in Tx /\ Local(r)
    BY DEF Inv, TypeOK
  <1>2. /\ u \in Tx /\ u.pc = pc /\ u.table = tx[r].table /\ u.number = tx[r].number
        /\ u.there = tx[r].there /\ u.session = tx[r].session /\ u.stale = tx[r].stale
        /\ u.leaving = tx[r].leaving
    BY <1>1 DEF Tx, Location
  <1>3. Become(r, u)
    BY DEF Go
  <1> HIDE DEF u
  <1>4. tx'[r] = u
    BY <1>3 DEF Inv, TypeOK, Become
  <1>5. Created' = Created
    BY DEF Created
  <1>6. Local(r)'
    BY <1>1, <1>2, <1>4, <1>5 DEF Local, Asking, Entering, Leaving, Found, At
  <1>7. Known(r)' => customer # "none"
    BY <1>2, <1>4 DEF Known, Entering, At
  <1>8. u.pc # "retired"
    BY <1>2
  <1>9. QED
    BY <1>2, <1>3, <1>6, <1>7, <1>8, ReadStep

LEMMA FindCustomerInv ==
  ASSUME Inv, NEW r \in Request, FindCustomer(r)
  PROVE  Inv'
  <1>1. CASE customer = "none"
    BY <1>1, GoInv DEF FindCustomer, At
  <1>2. CASE customer # "none"
    BY <1>2, GoInv DEF FindCustomer, At
  <1>3. QED
    BY <1>1, <1>2

\* A request that ends without writing.
LEMMA AbortInv ==
  ASSUME Inv, NEW r \in Request, End(r), UNCHANGED <<customer, sessions, timedOut, before>>
  PROVE  Inv'
  <1>1. tx'[r] = Idle /\ Become(r, Idle)
    BY DEF Inv, TypeOK, End, Become
  <1>2. Local(r)' /\ ~Known(r)'
    BY <1>1, IdleTx, IdleLocalNext DEF Known, Entering, At
  <1>3. QED
    BY <1>1, <1>2, IdleTx, ReadStep

LEMMA InsertCustomerInv ==
  ASSUME Inv, NEW r \in Request, InsertCustomer(r)
  PROVE  Inv'
  <1>1. CASE customer = "none"
    BY <1>1, GoInv DEF InsertCustomer, At
  <1>2. CASE customer # "none"
    BY <1>2, AbortInv DEF InsertCustomer
  <1>3. QED
    BY <1>1, <1>2

\* Least and greatest elements of sets of numbers.
LEMMA LeastOf ==
  ASSUME NEW T, T \subseteq Nat, T # {}
  PROVE  \E x \in T : \A y \in T : x <= y
  <1> DEFINE R == {ss \in Nat \X Nat : ss[1] < ss[2]}
  <1>1. IsWellFoundedOn(R, Nat)
    BY NatLessThanWellFounded DEF OpToRel
  <1>2. \A x, y \in Nat : ~(<<y, x>> \in R) => x <= y
    OBVIOUS
  <1> HIDE DEF R
  <1>3. PICK x \in T : \A y \in T : ~(<<y, x>> \in R)
    BY <1>1, WFMin
  <1>4. ASSUME NEW y \in T PROVE x <= y
    <2>1. ~(<<y, x>> \in R)
      BY <1>3
    <2>2. x \in Nat /\ y \in Nat
      OBVIOUS
    <2>3. QED
      BY <1>2, <2>1, <2>2, Zenon
  <1>5. QED
    BY <1>4

LEMMA GreatestOf ==
  ASSUME NEW n \in Nat, NEW S \in SUBSET (1..n), S # {}
  PROVE  \E x \in S : \A y \in S : y <= x
  <1> DEFINE T == {n - s : s \in S}
  <1>1. T \subseteq Nat
    OBVIOUS
  <1>2. T # {}
    OBVIOUS
  <1>3. PICK t \in T : \A u \in T : t <= u
    <2> HIDE DEF T
    <2>1. QED
      BY <1>1, <1>2, LeastOf
  <1>4. PICK x \in S : t = n - x
    OBVIOUS
  <1>5. ASSUME NEW y \in S PROVE y <= x
    <2>1. n - x <= n - y
      BY <1>3, <1>4
    <2>2. QED
      BY <2>1
  <1>6. QED
    BY <1>5

\* The newest live session, when there is one.
LEMMA NewestLive ==
  /\ Live = {} => Newest = 0
  /\ Live # {} => Newest \in Live /\ \A s \in Live : s <= Newest
  /\ Newest \in 0..MaxSession
  <1>1. Live \subseteq 1..MaxSession
    BY DEF Live, Active, Session
  <1>2. ASSUME Live # {} PROVE \E s \in Live : \A t \in Live : t <= s
    BY <1>1, <1>2, GreatestOf, EntryAssumption
  <1>3. Live # {} => Newest \in Live /\ \A s \in Live : s <= Newest
    BY <1>2 DEF Newest
  <1>4. Live = {} => Newest = 0
    BY DEF Newest
  <1>5. Newest \in 0..MaxSession
    <2>1. 0 \in 0..MaxSession /\ 1..MaxSession \subseteq 0..MaxSession
      BY EntryAssumption
    <2>2. QED
      BY <1>1, <1>3, <1>4, <2>1
  <1>6. QED
    BY <1>3, <1>4, <1>5

LEMMA ReadSessionsInv ==
  ASSUME Inv, NEW r \in Request, ReadSessions(r)
  PROVE  Inv'
  <1> DEFINE u == [tx[r] EXCEPT !.pc = "sessions read", !.session = Newest, !.stale = Stale]
  <1>1. Become(r, u) /\ UNCHANGED <<customer, sessions, timedOut, before>> /\ At(r, "known")
    BY DEF ReadSessions
  <1>2. Stale \subseteq timedOut /\ Stale \subseteq Session
    BY DEF Stale, Active
  <1>3. tx[r] \in Tx /\ Local(r)
    BY DEF Inv, TypeOK
  <1>4. /\ u \in Tx /\ u.pc = "sessions read" /\ u.table = tx[r].table /\ u.number = tx[r].number
        /\ u.session = Newest /\ u.stale = Stale /\ u.there = tx[r].there
        /\ u.leaving = tx[r].leaving
    BY <1>2, <1>3, NewestLive DEF Tx, Location
  <1> HIDE DEF u
  <1>5. tx'[r] = u
    BY <1>1 DEF Inv, TypeOK, Become
  <1>6. Created' = Created /\ Active' = Active
    BY <1>1 DEF Created, Active
  <1>7. Newest # 0 => Newest \in Active /\ Newest \in Created
    BY NewestLive DEF Live, Active, Created
  <1>8. ASSUME NEW s \in Active
        PROVE  \/ s \in Stale
               \/ /\ Newest # 0
                  /\ \/ s = Newest
                     \/ s \in timedOut
                     \/ Overlap(s, Newest)
    <2>1. s \in 1..MaxSession /\ Newest \in 0..MaxSession
      BY NewestLive DEF Active, Session
    <2>2. CASE s \in timedOut
      <3>1. CASE s > Newest
        BY <2>2, <3>1 DEF Stale
      <3>2. CASE ~(s > Newest)
        BY <2>1, <2>2, <3>2, EntryAssumption
      <3>3. QED
        BY <3>1, <3>2
    <2>3. CASE s \notin timedOut
      <3>1. Live # {}
        BY <2>3 DEF Live
      <3>2. Newest \in Live
        BY <3>1, NewestLive
      <3>3. Newest # 0 /\ Newest \in Active
        BY <3>2, EntryAssumption DEF Live, Active, Session
      <3>4. s = Newest \/ Overlap(s, Newest)
        BY <3>3 DEF Inv, OneActiveUnlessOverlap
      <3>5. QED
        BY <3>3, <3>4
    <2>4. QED
      BY <2>2, <2>3
  <1>9. Seen(r)'
    <2>1. UNCHANGED <<timedOut, before>>
      BY <1>1
    <2>2. QED
      BY <1>4, <1>5, <1>6, <1>8, <2>1 DEF Seen, Found, Overlap
  <1>10. Local(r)'
    <2>1. ~Leaving(r) /\ Asking(r)
      BY <1>1, <1>3 DEF Leaving, At, Local
    <2>2. tx[r].leaving = {} /\ tx[r].number \in Session \ Created /\ tx[r].there \subseteq Created
      BY <1>3, <2>1 DEF Local
    <2>3. UNCHANGED <<timedOut>>
      BY <1>1
    <2>4. QED
      BY <1>2, <1>4, <1>5, <1>6, <1>7, <1>9, <2>1, <2>2, <2>3
         DEF Local, Asking, Entering, Leaving, Found, At
  <1>11. customer # "none"
    BY <1>1 DEF Inv, CustomerInv, Known
  <1>12. QED
    BY <1>1, <1>4, <1>10, <1>11, ReadStep

\* A session at another table was found.
LEMMA AskRetireInv ==
  ASSUME Inv, NEW r \in Request, AskRetire(r), Asking(r)
  PROVE  Inv'
  <1> DEFINE u == [tx[r] EXCEPT !.pc = "retiring", !.leaving = Active]
  <1>1. /\ Become(r, u) /\ UNCHANGED <<customer, sessions, timedOut, before>>
        /\ At(r, "sessions read") /\ Found(r) /\ sessions[tx[r].session].table # tx[r].table
    BY DEF AskRetire, ToRetire, AtTable
  <1>2. tx[r] \in Tx /\ Local(r) /\ Entering(r)
    BY <1>1 DEF Inv, TypeOK, Entering, At
  <1>3. Active \subseteq Session /\ Active \subseteq Created
    BY DEF Active, Created
  <1>4. /\ u \in Tx /\ u.pc = "retiring" /\ u.table = tx[r].table /\ u.number = tx[r].number
        /\ u.session = tx[r].session /\ u.stale = tx[r].stale /\ u.there = tx[r].there
        /\ u.leaving = Active
    BY <1>2, <1>3 DEF Tx, Location
  <1> HIDE DEF u
  <1>5. tx'[r] = u
    BY <1>1 DEF Inv, TypeOK, Become
  <1>6. Created' = Created /\ Active' = Active
    BY <1>1 DEF Created, Active
  <1>7. Seen(r)'
    <2>1. Seen(r)
      BY <1>2 DEF Local
    <2>2. UNCHANGED <<timedOut, before>>
      BY <1>1
    <2>3. QED
      BY <1>4, <1>5, <1>6, <2>1, <2>2 DEF Seen, Found, Overlap
  <1>8. AllLeft(r)'
    <2>1. sessions' = sessions
      BY <1>1
    <2>2. QED
      BY <1>1, <1>4, <1>5, <1>6, <2>1 DEF AllLeft, Asking, Found
  <1>9. Local(r)'
    <2>1. tx[r].number \in Session \ Created /\ timedOut' = timedOut
      BY <1>1, <1>2 DEF Local
    <2>2. QED
      BY <1>1, <1>2, <1>3, <1>4, <1>5, <1>6, <1>7, <1>8, <2>1
         DEF Local, Asking, Entering, Leaving, Found, At
  <1>10. customer # "none"
    BY <1>2 DEF Inv, CustomerInv, Known
  <1>11. QED
    BY <1>1, <1>4, <1>9, <1>10, ReadStep

\* What others have locked.
LEMMA LockedBy ==
  ASSUME NEW r \in Request, NEW q \in Request, q # r, At(q, "retired")
  PROVE  tx[q].leaving \subseteq Locked(r)
  BY DEF Locked

LEMMA RetireInv ==
  ASSUME Inv, NEW r \in Request, Retire(r)
  PROVE  Inv'
  <1> DEFINE u == [tx[r] EXCEPT !.pc = "retired", !.leaving = tx[r].leaving \cap Active]
  <1>1. /\ Become(r, u) /\ UNCHANGED <<customer, sessions, timedOut, before>>
        /\ At(r, "retiring") /\ tx[r].leaving \cap Locked(r) = {}
    BY DEF Retire, ToRetire
  <1>2. tx[r] \in Tx /\ Local(r) /\ Leaving(r)
    BY <1>1 DEF Inv, TypeOK, Leaving, At
  <1>3. AllLeft(r)
    BY <1>2 DEF Local
  <1>4. Active \subseteq Session /\ Active \subseteq Created
    BY DEF Active, Created
  <1>5. /\ u \in Tx /\ u.pc = "retired" /\ u.table = tx[r].table /\ u.number = tx[r].number
        /\ u.session = tx[r].session /\ u.stale = tx[r].stale /\ u.there = tx[r].there
        /\ u.leaving = tx[r].leaving \cap Active
    BY <1>2, <1>4 DEF Tx, Location
  <1> HIDE DEF u
  <1>6. tx'[r] = u /\ \A q \in Request : q # r => tx'[q] = tx[q]
    BY <1>1 DEF Inv, TypeOK, Become
  <1>7. Created' = Created /\ Active' = Active
    BY <1>1 DEF Created, Active
  <1>8. Entering(r)
    BY <1>1, <1>3 DEF Entering, AllLeft, At
  <1>9. Seen(r)'
    <2>1. Seen(r)
      BY <1>2, <1>8 DEF Local
    <2>2. UNCHANGED <<timedOut, before>>
      BY <1>1
    <2>3. QED
      BY <1>5, <1>6, <1>7, <2>1, <2>2 DEF Seen, Found, Overlap
  <1>10. AllLeft(r)'
    <2>1. sessions' = sessions
      BY <1>1
    <2>2. QED
      BY <1>3, <1>5, <1>6, <1>7, <2>1 DEF AllLeft, Asking, Found
  <1>11. Local(r)'
    <2>1. tx[r].number \in Session \ Created /\ timedOut' = timedOut
      BY <1>1, <1>2, <1>3 DEF Local, AllLeft
    <2>2. QED
      BY <1>1, <1>2, <1>4, <1>5, <1>6, <1>7, <1>9, <1>10, <2>1
         DEF Local, Asking, Entering, Leaving, Found, At
  <1>12. ASSUME NEW q \in Request, q # r PROVE ApartFrom(q, r)' /\ ApartFrom(r, q)'
    <2>1. ApartFrom(q, r) /\ ApartFrom(r, q) /\ tx'[q] = tx[q]
      BY <1>6, <1>12 DEF Inv
    <2>2. At(q, "retired") => tx[q].leaving \cap u.leaving = {}
      BY <1>1, <1>5, <1>12, LockedBy
    <2>3. QED
      BY <1>5, <1>6, <2>1, <2>2 DEF ApartFrom, Asking, At
  <1>13. customer # "none"
    BY <1>8 DEF Inv, CustomerInv, Known
  <1>14. TypeOK'
    BY <1>1, <1>5, TxTyped DEF Inv
  <1>15. QED
    BY <1>1, <1>5, <1>11, <1>12, <1>13, <1>14, QuietStep

LEMMA LookUpInv ==
  ASSUME Inv, NEW r \in Request, LookUp(r)
  PROVE  Inv'
  <1> DEFINE u == [Idle EXCEPT !.pc = "sessions read", !.session = 0, !.stale = Stale]
  <1>1. Become(r, u) /\ UNCHANGED <<customer, sessions, timedOut, before>>
    BY DEF LookUp
  <1>2. Stale \subseteq timedOut /\ Stale \subseteq Session
    BY DEF Stale, Active
  <1>3. /\ u \in Tx /\ u.pc = "sessions read" /\ u.table = None /\ u.there = {}
        /\ u.session = 0 /\ u.stale = Stale /\ u.leaving = {}
    BY <1>2, IdleTx, EntryAssumption DEF Tx, Location
  <1> HIDE DEF u
  <1>4. tx'[r] = u
    BY <1>1 DEF Inv, TypeOK, Become
  <1>5. Local(r)'
    BY <1>1, <1>2, <1>3, <1>4 DEF Local, Asking, Entering, Leaving, Found, At
  <1>6. ~Known(r)'
    BY <1>3, <1>4 DEF Known, Entering, Asking, At
  <1>7. QED
    BY <1>1, <1>3, <1>5, <1>6, ReadStep

LEMMA ReadSettledInv ==
  ASSUME Inv, NEW r \in Request, ReadSettled(r)
  PROVE  Inv'
  <1>1. PICK s \in Created : Become(r, [Idle EXCEPT !.pc = "settling", !.session = s])
    BY DEF ReadSettled
  <1> DEFINE u == [Idle EXCEPT !.pc = "settling", !.session = s]
  <1>2. Become(r, u) /\ UNCHANGED <<customer, sessions, timedOut, before>>
    BY <1>1 DEF ReadSettled
  <1>3. s \in 0..MaxSession /\ s # 0
    BY EntryAssumption DEF Created, Session
  <1>4. /\ u \in Tx /\ u.pc = "settling" /\ u.table = None /\ u.there = {}
        /\ u.session = s /\ u.stale = {} /\ u.leaving = {}
    BY <1>3, IdleTx DEF Tx, Location
  <1> HIDE DEF u
  <1>5. tx'[r] = u
    BY <1>2 DEF Inv, TypeOK, Become
  <1>6. Created' = Created
    BY <1>2 DEF Created
  <1>7. Local(r)'
    BY <1>3, <1>4, <1>5, <1>6 DEF Local, Asking, Entering, Leaving, Found, At
  <1>8. ~Known(r)'
    BY <1>4, <1>5 DEF Known, Entering, At
  <1>9. QED
    BY <1>2, <1>4, <1>7, <1>8, ReadStep

\* Time goes on, or nothing happens.
LEMMA TimeInv ==
  ASSUME Inv, UNCHANGED <<customer, sessions, tx, before>>,
         timedOut \subseteq timedOut', timedOut' \subseteq Created
  PROVE  Inv'
  <1>1. Created' = Created /\ Active' = Active
    BY DEF Created, Active
  <1>2. Onward
    BY <1>1 DEF Onward
  <1>3. \A r \in Request : Local(r)'
    <2> SUFFICES ASSUME NEW r \in Request PROVE Local(r)'
      OBVIOUS
    <2>1. Local(r) /\ TypeOK /\ tx'[r] = tx[r]
      BY DEF Inv
    <2>2. /\ Asking(r) => tx[r].number \notin Created'
          /\ At(r, "retired") => tx[r].leaving \subseteq Active'
      BY <1>1, <2>1 DEF Local
    <2>3. QED
      BY <1>2, <2>1, <2>2, OthersKeep
  <1>4. \A q, r \in Request : q # r => ApartFrom(q, r)'
    BY DEF Inv, ApartFrom, Asking, At
  <1>5. TypeOK'
    <2>1. Created \subseteq Session
      BY DEF Created
    <2>2. QED
      BY <2>1 DEF Inv, TypeOK
  <1>6. CustomerInv'
    BY <1>1 DEF Inv, CustomerInv, Known, Entering, Asking, Inserting, At
  <1>7. History' /\ OneActiveUnlessOverlap' /\ timedOut' \subseteq Created'
    BY <1>1 DEF Inv, History, OneActiveUnlessOverlap, Overlap
  <1>8. QED
    BY <1>3, <1>4, <1>5, <1>6, <1>7 DEF Inv

LEMMA TimePassesInv ==
  ASSUME Inv, TimePasses
  PROVE  Inv'
  BY TimeInv DEF TimePasses, Inv

-----------------------------------------------------------------------------
(* The requests that write. *)

\* Marking sessions EXPIRED creates none, and makes none ACTIVE.
LEMMA MarkEffect ==
  ASSUME TypeOK, NEW stale \in SUBSET Session, stale \subseteq Created
  PROVE  /\ MarkExpired(sessions, stale) \in [Session -> SessionRow]
         /\ \A s \in Session :
                /\ MarkExpired(sessions, stale)[s].status # "none" <=> s \in Created
                /\ MarkExpired(sessions, stale)[s].status = "ACTIVE" <=> s \in Active \ stale
                /\ MarkExpired(sessions, stale)[s].table = sessions[s].table
                /\ s \notin stale => MarkExpired(sessions, stale)[s] = sessions[s]
  BY DEF MarkExpired, TypeOK, SessionRow, Created, Active

\* Rows that r is free to write are locked by nobody else.
LEMMA NotLocked ==
  ASSUME Inv, NEW r \in Request, NEW rows, rows \cap Locked(r) = {},
         NEW q \in Request, q # r, At(q, "retired")
  PROVE  tx[q].leaving \subseteq Active \ rows
  <1>1. tx[q].leaving \subseteq Locked(r)
    BY LockedBy
  <1>2. tx[q].leaving \subseteq Active
    BY DEF Inv, Local
  <1>3. QED
    BY <1>1, <1>2

\* A request ends after marking.
LEMMA MarkInv ==
  ASSUME Inv, NEW r \in Request, End(r), NEW stale \in SUBSET Created,
         stale \cap Locked(r) = {},
         sessions' = MarkExpired(sessions, stale),
         UNCHANGED <<customer, timedOut, before>>
  PROVE  Inv'
  <1>1. stale \subseteq Session
    BY DEF Created
  <1>2. /\ sessions' \in [Session -> SessionRow]
        /\ \A s \in Session : /\ sessions'[s].status # "none" <=> s \in Created
                              /\ sessions'[s].status = "ACTIVE" <=> s \in Active \ stale
                              /\ sessions'[s].table = sessions[s].table
    BY <1>1, MarkEffect DEF Inv
  <1>3. Created' = Created /\ Active' = Active \ stale
    BY <1>2 DEF Created, Active
  <1>4. TypeOK'
    BY <1>2, IdleTx DEF Inv, TypeOK, End, Become
  <1>5. Onward
    BY <1>2, <1>3 DEF Onward, Created
  <1>6. History' /\ OneActiveUnlessOverlap' /\ (customer = "none" => Created' = {})
    BY <1>3 DEF Inv, History, OneActiveUnlessOverlap, Overlap, CustomerInv
  <1>7. \A q \in Request : q # r /\ At(q, "retired") => tx[q].leaving \subseteq Active'
    BY <1>3, NotLocked
  <1>8. QED
    BY <1>3, <1>4, <1>5, <1>6, <1>7, WriteStep

\* The sessions that a request is going to mark were created.
LEMMA StaleCreated ==
  ASSUME Inv, NEW r \in Request
  PROVE  tx[r].stale \in SUBSET Created
  BY DEF Inv, Local

LEMMA ResumeInv ==
  ASSUME Inv, NEW r \in Request, Resume(r)
  PROVE  Inv'
  BY StaleCreated, MarkInv DEF Resume

LEMMA MarkStaleInv ==
  ASSUME Inv, NEW r \in Request, MarkStale(r)
  PROVE  Inv'
  BY StaleCreated, MarkInv DEF MarkStale

LEMMA CloseSessionInv ==
  ASSUME Inv, NEW r \in Request, CloseSession(r)
  PROVE  Inv'
  <1> DEFINE x == tx[r].session
  <1>1. x \in Created /\ x \in Session
    BY DEF Inv, Local, CloseSession, Created
  <1>2. /\ sessions' = [sessions EXCEPT ![x].status = "CLOSED"]
        /\ End(r) /\ UNCHANGED <<customer, timedOut, before>> /\ x \notin Locked(r)
    BY DEF CloseSession
  <1> HIDE DEF x
  <1>3. /\ sessions' \in [Session -> SessionRow]
        /\ \A s \in Session : /\ sessions'[s].status # "none" <=> s \in Created
                              /\ sessions'[s].status = "ACTIVE" <=> s \in Active \ {x}
                              /\ sessions'[s].table = sessions[s].table
    BY <1>1, <1>2 DEF Inv, TypeOK, SessionRow, Created, Active
  <1>4. Created' = Created /\ Active' = Active \ {x}
    BY <1>3 DEF Created, Active
  <1>5. TypeOK'
    BY <1>2, <1>3, IdleTx DEF Inv, TypeOK, End, Become
  <1>6. Onward
    BY <1>2, <1>3, <1>4 DEF Onward, Created
  <1>7. History' /\ OneActiveUnlessOverlap' /\ (customer = "none" => Created' = {})
    BY <1>2, <1>4 DEF Inv, History, OneActiveUnlessOverlap, Overlap, CustomerInv
  <1>8. \A q \in Request : q # r /\ At(q, "retired") => tx[q].leaving \subseteq Active'
    <2>1. {x} \cap Locked(r) = {}
      BY <1>2
    <2>2. QED
      BY <1>4, <2>1, NotLocked
  <1>9. QED
    BY <1>2, <1>4, <1>5, <1>6, <1>7, <1>8, WriteStep

\* What a new session changes.
LEMMA CreateEffect ==
  ASSUME Inv, NEW r \in Request, Asking(r), NEW rows \in [Session -> SessionRow],
         \A s \in Session : rows[s].status # "none" <=> s \in Created,
         Create(r, rows)
  PROVE  \E n \in Session :
             /\ n = tx[r].number /\ n \notin Created
             /\ Created' = Created \cup {n}
             /\ sessions' = [rows EXCEPT ![n] = [status |-> "ACTIVE", table |-> tx[r].table]]
             /\ sessions' \in [Session -> SessionRow]
             /\ sessions'[n] = [status |-> "ACTIVE", table |-> tx[r].table]
             /\ \A s \in Session : s # n => sessions'[s] = rows[s] /\ before'[s] = before[s]
             /\ Active' = {s \in Session : rows[s].status = "ACTIVE"} \cup {n}
             /\ before'[n] = tx[r].there
             /\ before' \in [Session -> SUBSET Session]
  <1> DEFINE n == tx[r].number
  <1>1. n \in Session /\ n \notin Created
    BY DEF Inv, Local
  <1>2. /\ sessions' = [rows EXCEPT ![n] = [status |-> "ACTIVE", table |-> tx[r].table]]
        /\ before' = [before EXCEPT ![n] = tx[r].there]
    BY DEF Create
  <1>3. tx[r].table \in Table \cup {None} /\ tx[r].there \in SUBSET Session
    BY DEF Inv, TypeOK, Tx
  <1> HIDE DEF n
  <1>4. [status |-> "ACTIVE", table |-> tx[r].table] \in SessionRow
    BY <1>3 DEF SessionRow
  <1>5. /\ sessions' \in [Session -> SessionRow]
        /\ sessions'[n] = [status |-> "ACTIVE", table |-> tx[r].table]
        /\ \A s \in Session : s # n => sessions'[s] = rows[s]
    BY <1>1, <1>2, <1>4
  <1>6. /\ before' \in [Session -> SUBSET Session] /\ before'[n] = tx[r].there
        /\ \A s \in Session : s # n => before'[s] = before[s]
    BY <1>1, <1>2, <1>3 DEF Inv, TypeOK
  <1>7. Created' = Created \cup {n}
    BY <1>1, <1>5 DEF Created
  <1>8. Active' = {s \in Session : rows[s].status = "ACTIVE"} \cup {n}
    BY <1>1, <1>5 DEF Active
  <1>9. QED
    BY <1>1, <1>2, <1>5, <1>6, <1>7, <1>8 DEF n

\* A request ends with a new session: ACTIVE ones that stay came up after it
\* had begun.
LEMMA CreateInv ==
  ASSUME Inv, NEW r \in Request, Asking(r), NEW rows \in [Session -> SessionRow],
         \A s \in Session : rows[s].status # "none" <=> s \in Created,
         \A s \in Session : rows[s].status = "ACTIVE" => s \in Active /\ s \notin tx[r].there,
         \A s \in Session : rows[s].table = sessions[s].table,
         \A q \in Request : q # r /\ At(q, "retired")
             => \A s \in tx[q].leaving : rows[s].status = "ACTIVE",
         Create(r, rows), End(r), timedOut' = timedOut,
         \/ customer' = customer /\ customer # "none"
         \/ customer' = "there" /\ Inserting(r)
  PROVE  Inv'
  <1>1. PICK n \in Session :
            /\ n = tx[r].number /\ n \notin Created
            /\ Created' = Created \cup {n}
            /\ sessions' = [rows EXCEPT ![n] = [status |-> "ACTIVE", table |-> tx[r].table]]
            /\ sessions' \in [Session -> SessionRow]
            /\ sessions'[n] = [status |-> "ACTIVE", table |-> tx[r].table]
            /\ \A s \in Session : s # n => sessions'[s] = rows[s] /\ before'[s] = before[s]
            /\ Active' = {s \in Session : rows[s].status = "ACTIVE"} \cup {n}
            /\ before'[n] = tx[r].there
            /\ before' \in [Session -> SUBSET Session]
    BY CreateEffect
  <1>2. Active \subseteq Created /\ Created \subseteq Session
    BY DEF Active, Created
  <1>3. \A s \in Created : s # n /\ before'[s] = before[s] /\ sessions'[s].table = sessions[s].table
    BY <1>1, <1>2
  <1>4. Onward
    BY <1>1, <1>3 DEF Onward
  <1>5. TypeOK'
    BY <1>1, IdleTx DEF Inv, TypeOK, End, Become
  <1>6. History'
    <2>1. before'[n] \subseteq Created
      BY <1>1 DEF Inv, Local
    <2>2. QED
      BY <1>1, <1>3, <2>1 DEF Inv, History
  <1>7. OneActiveUnlessOverlap'
    <2>1. ASSUME NEW s \in Active', s # n
          PROVE  s \in Active /\ s \in Created /\ s \notin before'[n] /\ n \notin before'[s]
      <3>1. s \in Active /\ s \notin tx[r].there
        BY <1>1, <2>1
      <3>2. s \in Created /\ before'[s] = before[s]
        BY <1>2, <1>3, <3>1
      <3>3. n \notin before[s]
        BY <1>1, <3>2 DEF Inv, History
      <3>4. QED
        BY <1>1, <3>1, <3>2, <3>3
    <2>2. ASSUME NEW s \in Active', NEW t \in Active', s # t
          PROVE  Overlap(s, t)'
      <3>1. CASE s = n
        BY <2>1, <2>2, <3>1 DEF Overlap
      <3>2. CASE t = n
        BY <2>1, <2>2, <3>2 DEF Overlap
      <3>3. CASE s # n /\ t # n
        <4>1. s \in Active /\ t \in Active /\ s \in Created /\ t \in Created
          BY <2>1, <2>2, <3>3
        <4>2. Overlap(s, t) /\ before'[s] = before[s] /\ before'[t] = before[t]
          BY <1>3, <2>2, <4>1 DEF Inv, OneActiveUnlessOverlap
        <4>3. QED
          BY <4>2 DEF Overlap
      <3>4. QED
        BY <3>1, <3>2, <3>3
    <2>3. QED
      BY <2>2 DEF OneActiveUnlessOverlap
  <1>8. \A q \in Request : q # r /\ At(q, "retired") => tx[q].leaving \subseteq Active'
    <2>1. \A q \in Request : tx[q].leaving \subseteq Session
      BY DEF Inv, TypeOK, Tx
    <2>2. QED
      BY <1>1, <2>1
  <1>9. \/ customer' = customer /\ (customer = "none" => Created' = {})
        \/ customer' = "there" /\ Inserting(r)
    OBVIOUS
  <1>10. Created' = Created \cup {tx[r].number}
    BY <1>1
  <1>11. QED
    BY <1>4, <1>5, <1>6, <1>7, <1>8, <1>9, <1>10, WriteStep

LEMMA FirstSessionInv ==
  ASSUME Inv, NEW r \in Request, FirstSession(r)
  PROVE  Inv'
  <1>1. Created = {} /\ Asking(r)
    BY DEF Inv, CustomerInv, Inserting, FirstSession, Local, At
  <1>2. \A s \in Session : sessions[s].status # "ACTIVE" /\ sessions[s].status = "none"
    BY <1>1 DEF Created
  <1>3. sessions \in [Session -> SessionRow]
    BY DEF Inv, TypeOK
  <1>4. \A q \in Request : tx[q].leaving = {}
    BY <1>1 DEF Inv, Local
  <1>5. \A q \in Request : q # r /\ At(q, "retired")
            => \A s \in tx[q].leaving : sessions[s].status = "ACTIVE"
    BY <1>4
  <1>6. /\ \A s \in Session : sessions[s].status # "none" <=> s \in Created
        /\ \A s \in Session : sessions[s].status = "ACTIVE" => s \in Active /\ s \notin tx[r].there
    BY <1>1, <1>2
  <1>7. Create(r, sessions) /\ End(r) /\ timedOut' = timedOut /\ customer' = "there" /\ Inserting(r)
    BY DEF FirstSession, Inserting
  <1>8. QED
    BY <1>1, <1>3, <1>5, <1>6, <1>7, CreateInv

\* A request that sits down has marked all it knows to be in its way.
LEMMA SitDownRows ==
  ASSUME Inv, NEW r \in Request, SitDown(r), Asking(r),
         NEW rows, rows = MarkExpired(sessions, tx[r].stale \cup tx[r].leaving)
  PROVE  /\ rows \in [Session -> SessionRow]
         /\ \A s \in Session : rows[s].status # "none" <=> s \in Created
         /\ \A s \in Session : rows[s].status = "ACTIVE" <=> s \in Active \ (tx[r].stale \cup tx[r].leaving)
         /\ \A s \in Session : rows[s].status = "ACTIVE" => s \in Active /\ s \notin tx[r].there
         /\ \A s \in Session : rows[s].table = sessions[s].table
         /\ \A s \in Session : s \notin tx[r].stale \cup tx[r].leaving => rows[s] = sessions[s]
  <1> DEFINE gone == tx[r].stale \cup tx[r].leaving
  <1>1. gone \subseteq Session /\ gone \subseteq Created
    BY StaleCreated DEF Inv, Local, Created
  <1>2. /\ rows \in [Session -> SessionRow]
        /\ \A s \in Session : rows[s].status # "none" <=> s \in Created
        /\ \A s \in Session : rows[s].status = "ACTIVE" <=> s \in Active \ gone
        /\ \A s \in Session : rows[s].table = sessions[s].table
        /\ \A s \in Session : s \notin gone => rows[s] = sessions[s]
    <2>1. rows = MarkExpired(sessions, gone)
      OBVIOUS
    <2> HIDE DEF gone
    <2>2. gone \in SUBSET Session /\ TypeOK
      BY <1>1 DEF Inv
    <2> DEFINE marked == MarkExpired(sessions, gone)
    <2>3. /\ marked \in [Session -> SessionRow]
          /\ \A s \in Session :
                 /\ marked[s].status # "none" <=> s \in Created
                 /\ marked[s].status = "ACTIVE" <=> s \in Active \ gone
                 /\ marked[s].table = sessions[s].table
                 /\ s \notin gone => marked[s] = sessions[s]
      BY <1>1, <2>2, MarkEffect
    <2>4. rows = marked
      BY <2>1
    <2> HIDE DEF marked
    <2>5. QED
      BY <2>3, <2>4
  <1>3. ASSUME NEW s \in Active, s \in tx[r].there PROVE s \in gone
    <2>1. CASE At(r, "retired")
      <3>1. AllLeft(r)
        BY <2>1 DEF Inv, Local, Leaving, At
      <3>2. QED
        BY <1>3, <3>1 DEF AllLeft
    <2>2. CASE ~At(r, "retired")
      <3>1. At(r, "sessions read") /\ ~Found(r)
        BY <2>2 DEF SitDown
      <3>2. Seen(r)
        BY <3>1 DEF Inv, Local, Entering, At
      <3>3. QED
        BY <1>3, <3>1, <3>2 DEF Seen
    <2>3. QED
      BY <2>1, <2>2
  <1> HIDE DEF gone
  <1>4. \A s \in Session : rows[s].status = "ACTIVE" => s \in Active /\ s \notin tx[r].there
    BY <1>2, <1>3
  <1>5. QED
    BY <1>2, <1>4 DEF gone

\* It writes no row that another has locked.
LEMMA SitDownFree ==
  ASSUME Inv, NEW r \in Request, SitDown(r), NEW q \in Request, q # r, At(q, "retired")
  PROVE  tx[q].leaving \subseteq Active \ (tx[r].stale \cup tx[r].leaving)
  <1>1. tx[q].leaving \subseteq Active \ tx[r].stale
    BY NotLocked DEF SitDown
  <1>2. tx[q].leaving \cap tx[r].leaving = {}
    <2>1. CASE At(r, "retired")
      BY <2>1 DEF Inv, ApartFrom
    <2>2. CASE ~At(r, "retired")
      BY <2>2 DEF SitDown, Inv, Local, Leaving, At
    <2>3. QED
      BY <2>1, <2>2
  <1>3. QED
    BY <1>1, <1>2

LEMMA SitDownInv ==
  ASSUME Inv, NEW r \in Request, SitDown(r), Asking(r)
  PROVE  Inv'
  <1> DEFINE gone == tx[r].stale \cup tx[r].leaving
             rows == MarkExpired(sessions, gone)
  <1>1. /\ Create(r, rows) /\ End(r) /\ customer' = customer /\ timedOut' = timedOut
        /\ Entering(r)
    BY DEF SitDown, Entering, At
  <1>2. /\ rows \in [Session -> SessionRow]
        /\ \A s \in Session : rows[s].status # "none" <=> s \in Created
        /\ \A s \in Session : rows[s].status = "ACTIVE" <=> s \in Active \ gone
        /\ \A s \in Session : rows[s].status = "ACTIVE" => s \in Active /\ s \notin tx[r].there
        /\ \A s \in Session : rows[s].table = sessions[s].table
    BY SitDownRows
  <1>3. customer # "none"
    BY <1>1 DEF Inv, CustomerInv, Known
  <1>4. \A q \in Request : q # r /\ At(q, "retired") => tx[q].leaving \subseteq Active \ gone
    BY SitDownFree
  <1> HIDE DEF rows, gone
  <1>5. \A q \in Request : q # r /\ At(q, "retired")
            => \A s \in tx[q].leaving : rows[s].status = "ACTIVE"
    <2>1. Active \subseteq Session
      BY DEF Active
    <2>2. QED
      BY <1>2, <1>4, <2>1
  <1>6. QED
    BY <1>1, <1>2, <1>3, <1>5, CreateInv

\* Every step preserves the invariant.
LEMMA NextInv == Inv /\ [Next]_vars => Inv'
  <1> SUFFICES ASSUME Inv, [Next]_vars PROVE Inv'
    OBVIOUS
  <1>1. ASSUME NEW r \in Guest, Enter(r) PROVE Inv'
    BY <1>1, BeginInv, FindCustomerInv, InsertCustomerInv, FirstSessionInv, ReadSessionsInv,
       ResumeInv, AskRetireInv, RetireInv, SitDownInv DEF Enter, Request, Asking
  <1>2. ASSUME NEW r \in Guest, LookUp(r) \/ MarkStale(r) PROVE Inv'
    BY <1>2, LookUpInv, MarkStaleInv DEF Request
  <1>3. ASSUME NEW r \in Cashier, ReadSettled(r) \/ CloseSession(r) PROVE Inv'
    BY <1>3, ReadSettledInv, CloseSessionInv DEF Request
  <1>4. ASSUME NEW r \in Request, Abort(r) PROVE Inv'
    BY <1>4, AbortInv DEF Abort
  <1>5. CASE UNCHANGED vars
    BY <1>5, TimeInv DEF vars, Inv
  <1>6. QED
    BY <1>1, <1>2, <1>3, <1>4, <1>5, TimePassesInv DEF Next

-----------------------------------------------------------------------------
\* The inductive invariant of a customer's sessions holds for any number of
\* requests, tables and sessions.
THEOREM Invariance == Spec => []Inv
  BY InitInv, NextInv, PTL DEF Spec

\* Rows and requests keep their types (create_or_resume_direct_session).
THEOREM TypeCorrect == Spec => []TypeOK
  <1>1. Inv => TypeOK
    BY DEF Inv
  <1>2. QED
    BY Invariance, <1>1, PTL

\* Two sessions of a customer are ACTIVE only when neither was there when the
\* other was asked for (create_or_resume_direct_session).
THEOREM OneActive == Spec => []OneActiveUnlessOverlap
  <1>1. Inv => OneActiveUnlessOverlap
    BY DEF Inv
  <1>2. QED
    BY Invariance, <1>1, PTL

-----------------------------------------------------------------------------
(* What a step may do to sessions. *)

\* Most steps write no sessions; those that do mark some, and close or create
\* one at most.
LEMMA StepWrites ==
  ASSUME Inv, [Next]_vars
  PROVE  \/ sessions' = sessions
         \/ \E r \in Request : sessions' = MarkExpired(sessions, tx[r].stale)
         \/ \E r \in Request : CloseSession(r)
         \/ \E r \in Request : FirstSession(r)
         \/ \E r \in Request : SitDown(r) /\ Asking(r)
  BY DEF Next, vars, Enter, Begin, FindCustomer, InsertCustomer, ReadSessions, Resume, AskRetire,
         Retire, LookUp, MarkStale, ReadSettled, Abort, TimePasses, Request, Asking

\* What sitting down writes.
LEMMA SitDownEffect ==
  ASSUME Inv, NEW r \in Request, SitDown(r), Asking(r)
  PROVE  \E n \in Session :
             /\ n \notin Created /\ Created' = Created \cup {n}
             /\ sessions'[n] = [status |-> "ACTIVE", table |-> tx[r].table]
             /\ before'[n] = tx[r].there
             /\ \A s \in Session : s # n => before'[s] = before[s]
             /\ \A s \in Session : s # n /\ s \notin tx[r].stale \cup tx[r].leaving
                                       => sessions'[s] = sessions[s]
             /\ Active' = (Active \ (tx[r].stale \cup tx[r].leaving)) \cup {n}
  <1> DEFINE gone == tx[r].stale \cup tx[r].leaving
             rows == MarkExpired(sessions, gone)
  <1>1. /\ rows \in [Session -> SessionRow]
        /\ \A s \in Session : rows[s].status # "none" <=> s \in Created
        /\ \A s \in Session : rows[s].status = "ACTIVE" <=> s \in Active \ gone
        /\ \A s \in Session : s \notin gone => rows[s] = sessions[s]
    BY SitDownRows
  <1>2. Create(r, rows)
    BY DEF SitDown
  <1> HIDE DEF rows, gone
  <1>3. PICK n \in Session :
            /\ n = tx[r].number /\ n \notin Created
            /\ Created' = Created \cup {n}
            /\ sessions' = [rows EXCEPT ![n] = [status |-> "ACTIVE", table |-> tx[r].table]]
            /\ sessions' \in [Session -> SessionRow]
            /\ sessions'[n] = [status |-> "ACTIVE", table |-> tx[r].table]
            /\ \A s \in Session : s # n => sessions'[s] = rows[s] /\ before'[s] = before[s]
            /\ Active' = {s \in Session : rows[s].status = "ACTIVE"} \cup {n}
            /\ before'[n] = tx[r].there
            /\ before' \in [Session -> SUBSET Session]
    BY <1>1, <1>2, CreateEffect
  <1>4. {s \in Session : rows[s].status = "ACTIVE"} = Active \ gone
    BY <1>1 DEF Active
  <1>5. \A s \in Session : s # n /\ s \notin gone => sessions'[s] = sessions[s]
    BY <1>1, <1>3
  <1>6. QED
    BY <1>3, <1>4, <1>5 DEF gone

\* Who sits down retires only ACTIVE sessions.
LEMMA SitDownLeaving ==
  ASSUME Inv, NEW r \in Request, SitDown(r)
  PROVE  tx[r].leaving \subseteq Active
  <1>1. CASE At(r, "retired")
    BY <1>1 DEF Inv, Local
  <1>2. CASE ~At(r, "retired")
    BY <1>2 DEF SitDown, Inv, Local, Leaving, At
  <1>3. QED
    BY <1>1, <1>2

\* A closed session is not changed any more, unless its time had passed before
\* it was closed: requests write over the status only of sessions they saw
\* timed out (get_active_session_for_customer, settle_bill).
THEOREM ClosedStays == Spec => ClosedStaysUnlessTimedOut
  <1> DEFINE Frozen == \A s \in Session : sessions[s].status = "CLOSED" /\ s \notin timedOut
                           => sessions'[s] = sessions[s]
  <1>1. Inv /\ [Next]_vars => Frozen
    <2> SUFFICES ASSUME Inv, [Next]_vars,
                        NEW s \in Session, sessions[s].status = "CLOSED", s \notin timedOut
                 PROVE  sessions'[s] = sessions[s]
      OBVIOUS
    <2>1. ASSUME NEW r \in Request, sessions' = MarkExpired(sessions, tx[r].stale)
          PROVE  sessions'[s] = sessions[s]
      <3>1. s \notin tx[r].stale
        BY DEF Inv, Local
      <3>2. QED
        BY <2>1, <3>1 DEF MarkExpired
    <2>2. ASSUME NEW r \in Request, CloseSession(r) PROVE sessions'[s] = sessions[s]
      BY <2>2 DEF CloseSession, Inv, TypeOK, SessionRow
    <2>3. ASSUME NEW r \in Request, FirstSession(r) PROVE FALSE
      BY <2>3 DEF FirstSession, Inv, CustomerInv, Inserting, Created
    <2>4. ASSUME NEW r \in Request, SitDown(r), Asking(r) PROVE sessions'[s] = sessions[s]
      <3>1. s \notin tx[r].stale
        BY DEF Inv, Local
      <3>2. s \notin tx[r].leaving
        BY <2>4, SitDownLeaving DEF Active
      <3>3. s \in Created
        BY DEF Created
      <3>4. QED
        BY <2>4, <3>1, <3>2, <3>3, SitDownEffect
    <2>5. QED
      BY <2>1, <2>2, <2>3, <2>4, StepWrites
  <1>2. QED
    BY Invariance, <1>1, PTL DEF Spec, ClosedStaysUnlessTimedOut

\* Sitting down retires s without its time having passed.
LEMMA SitDownRetires ==
  ASSUME Inv, NEW r \in Request, SitDown(r), Asking(r),
         NEW s \in Active, sessions'[s].status = "EXPIRED", s \notin timedOut
  PROVE  \/ Overlapped(s)'
         \/ \E n \in Session \ Created :
                /\ sessions'[n].status = "ACTIVE"
                /\ sessions'[n].table # sessions[s].table
  <1>1. s \in Session /\ s \in Created /\ s \notin tx[r].stale /\ sessions[s].status = "ACTIVE"
    BY DEF Active, Created, Inv, Local
  <1>2. PICK n \in Session :
            /\ n \notin Created /\ Created' = Created \cup {n}
            /\ sessions'[n] = [status |-> "ACTIVE", table |-> tx[r].table]
            /\ before'[n] = tx[r].there
            /\ \A t \in Session : t # n => before'[t] = before[t]
            /\ \A t \in Session : t # n /\ t \notin tx[r].stale \cup tx[r].leaving
                                      => sessions'[t] = sessions[t]
    BY SitDownEffect
  <1>3. s \in tx[r].leaving
    BY <1>1, <1>2
  <1>4. AllLeft(r) /\ Seen(r)
    BY <1>3 DEF Inv, Local, Entering, Leaving
  <1>5. CASE sessions[s].table # tx[r].table
    BY <1>2, <1>5
  <1>6. CASE sessions[s].table = tx[r].table
    <2>1. s # tx[r].session /\ tx[r].session \in Created
      BY <1>4, <1>6 DEF AllLeft, Inv, Local
    <2>2. s # n /\ before'[s] = before[s] /\ n \notin before[s]
      BY <1>1, <1>2 DEF Inv, History
    <2>3. CASE s \notin tx[r].there
      <3>1. Overlap(s, n)'
        BY <1>2, <2>2, <2>3 DEF Overlap
      <3>2. QED
        BY <1>2, <3>1 DEF Overlapped
    <2>4. CASE s \in tx[r].there
      <3>1. Overlap(s, tx[r].session)
        BY <1>1, <1>4, <2>1, <2>4 DEF Seen
      <3>2. before'[tx[r].session] = before[tx[r].session] /\ tx[r].session \in Created'
        BY <1>2, <2>1 DEF Created
      <3>3. PICK x : x = tx[r].session
        OBVIOUS
      <3>4. Overlap(s, x)'
        BY <2>2, <3>1, <3>2, <3>3 DEF Overlap
      <3>5. QED
        BY <3>2, <3>3, <3>4 DEF Overlapped
    <2>5. QED
      BY <2>3, <2>4
  <1>7. QED
    BY <1>5, <1>6

\* A session is retired only when its time has passed or when its guest sits
\* down at another table in the same step, unless requests overlapped
\* (create_or_resume_direct_session).
THEOREM OnlyForCause == Spec => RetiredForCause
  <1> DEFINE Cause == \A s \in Active :
                 sessions'[s].status = "EXPIRED"
                     => \/ s \in timedOut
                        \/ Overlapped(s)'
                        \/ \E n \in Session \ Created :
                               /\ sessions'[n].status = "ACTIVE"
                               /\ sessions'[n].table # sessions[s].table
  <1>1. Inv /\ [Next]_vars => Cause
    <2> SUFFICES ASSUME Inv, [Next]_vars, NEW s \in Active,
                        sessions'[s].status = "EXPIRED", s \notin timedOut
                 PROVE  \/ Overlapped(s)'
                        \/ \E n \in Session \ Created :
                               /\ sessions'[n].status = "ACTIVE"
                               /\ sessions'[n].table # sessions[s].table
      OBVIOUS
    <2>1. s \in Session /\ sessions[s].status = "ACTIVE"
      BY DEF Active
    <2>2. sessions' # sessions
      BY <2>1
    <2>3. ASSUME NEW r \in Request, sessions' = MarkExpired(sessions, tx[r].stale) PROVE FALSE
      <3>1. s \notin tx[r].stale
        BY DEF Inv, Local
      <3>2. QED
        BY <2>1, <2>3, <3>1 DEF MarkExpired
    <2>4. ASSUME NEW r \in Request, CloseSession(r) PROVE FALSE
      BY <2>1, <2>4 DEF CloseSession, Inv, TypeOK, SessionRow
    <2>5. ASSUME NEW r \in Request, FirstSession(r) PROVE FALSE
      BY <2>1, <2>5 DEF FirstSession, Inv, CustomerInv, Inserting, Created
    <2>6. QED
      BY <2>2, <2>3, <2>4, <2>5, StepWrites, SitDownRetires
  <1>2. QED
    BY Invariance, <1>1, PTL DEF Spec, RetiredForCause


-----------------------------------------------------------------------------
(* How many live sessions a customer can have. *)

\* A request that will create a session without looking at them again.
Pending(r) ==
    \/ Inserting(r)
    \/ At(r, "sessions read") /\ Asking(r) /\ ~Found(r)
    \/ Leaving(r)

\* The live sessions that none of these requests retires.
Left(Q) == {s \in Live : \A q \in Q : s \notin tx[q].leaving}

\* Whichever of them go through, there is room for the sessions they leave and
\* for the one that each creates.
RoomInv ==
    \A Q \in SUBSET {r \in Guest : Pending(r)} :
        Cardinality(Left(Q)) + Cardinality(Q) <= Cardinality(Guest)

LEMMA LiveIsFinite ==
  IsFiniteSet(Live) /\ \A S \in SUBSET Live : IsFiniteSet(S) /\ Cardinality(S) \in Nat
  <1>1. Live \subseteq 1..MaxSession /\ IsFiniteSet(1..MaxSession)
    BY EntryAssumption, FS_Interval DEF Live, Active, Session
  <1>2. IsFiniteSet(Live)
    BY <1>1, FS_Subset
  <1>3. QED
    BY <1>2, FS_Subset, FS_CardinalityType

LEMMA GuestIsFinite ==
  /\ IsFiniteSet(Guest) /\ Cardinality(Guest) \in Nat
  /\ \A Q \in SUBSET Guest :
         IsFiniteSet(Q) /\ Cardinality(Q) \in Nat /\ Cardinality(Q) <= Cardinality(Guest)
  BY EntryAssumption, FS_Subset, FS_CardinalityType

\* A step that creates no session.
LEMMA RoomKept ==
  ASSUME RoomInv, Live' \subseteq Live,
         \A q \in Guest : Pending(q)' =>
             \/ Live' \subseteq tx'[q].leaving
             \/ Live' = {}
             \/ Pending(q) /\ tx[q].leaving \cap Live' \subseteq tx'[q].leaving
  PROVE  RoomInv'
  <1> SUFFICES ASSUME NEW Q \in SUBSET {r \in Guest : Pending(r)'}
               PROVE  Cardinality(Left(Q)') + Cardinality(Q) <= Cardinality(Guest)
    BY DEF RoomInv
  <1>1. /\ IsFiniteSet(Q) /\ Cardinality(Q) \in Nat
        /\ Cardinality(Q) <= Cardinality(Guest) /\ Cardinality(Guest) \in Nat
    BY GuestIsFinite
  <1>2. CASE Live' = {} \/ \E q \in Q : Live' \subseteq tx'[q].leaving
    <2>1. Left(Q)' = {}
      BY <1>2 DEF Left
    <2>2. Cardinality(Left(Q)') = 0
      BY <2>1, FS_EmptySet
    <2>3. QED
      BY <1>1, <2>2
  <1>3. CASE ~(Live' = {} \/ \E q \in Q : Live' \subseteq tx'[q].leaving)
    <2>1. \A q \in Q : q \in Guest /\ Pending(q) /\ tx[q].leaving \cap Live' \subseteq tx'[q].leaving
      BY <1>3
    <2>2. Left(Q)' \subseteq Left(Q) /\ Left(Q) \subseteq Live
      BY <2>1 DEF Left
    <2>3. Cardinality(Left(Q)) + Cardinality(Q) <= Cardinality(Guest)
      BY <2>1 DEF RoomInv
    <2>4. IsFiniteSet(Left(Q)) /\ Cardinality(Left(Q)) \in Nat
      BY <2>2, LiveIsFinite
    <2>5. Cardinality(Left(Q)') \in Nat /\ Cardinality(Left(Q)') <= Cardinality(Left(Q))
      BY <2>2, <2>4, FS_Subset, FS_CardinalityType
    <2> DEFINE a == Cardinality(Left(Q))
               b == Cardinality(Left(Q)')
               c == Cardinality(Q)
               g == Cardinality(Guest)
    <2>6. a \in Nat /\ b \in Nat /\ c \in Nat /\ g \in Nat /\ b <= a /\ a + c <= g
      BY <1>1, <2>3, <2>4, <2>5
    <2> HIDE DEF a, b, c, g
    <2>7. b + c <= g
      BY <2>6
    <2>8. QED
      BY <2>7 DEF b, c, g
  <1>4. QED
    BY <1>2, <1>3

\* A pending request creates its session and retires those it leaves.
LEMMA RoomCreate ==
  ASSUME TypeOK, RoomInv, NEW r \in Guest, Pending(r), End(r), NEW n,
         Live' \subseteq (Live \ tx[r].leaving) \cup {n}
  PROVE  RoomInv'
  <1> SUFFICES ASSUME NEW Q \in SUBSET {q \in Guest : Pending(q)'}
               PROVE  Cardinality(Left(Q)') + Cardinality(Q) <= Cardinality(Guest)
    BY DEF RoomInv
  <1>1. tx'[r] = Idle /\ \A q \in Guest : q # r => tx'[q] = tx[q]
    BY DEF TypeOK, End, Become, Request
  <1>2. ~Pending(r)'
    BY <1>1, IdleTx DEF Pending, Inserting, Leaving, At
  <1>3. \A q \in Q : q \in Guest /\ q # r /\ tx'[q] = tx[q]
    BY <1>1, <1>2
  <1>4. \A q \in Q : Pending(q)
    BY <1>3 DEF Pending, Inserting, Leaving, Asking, Found, At
  <1> DEFINE R == Q \cup {r}
  <1>5. R \in SUBSET {q \in Guest : Pending(q)}
    BY <1>4
  <1>6. Left(Q)' \subseteq Left(R) \cup {n} /\ Left(R) \subseteq Live
    BY <1>3 DEF Left
  <1>7. IsFiniteSet(Q) /\ Cardinality(Q) \in Nat /\ Cardinality(Guest) \in Nat
    BY GuestIsFinite
  <1>8. Cardinality(R) = Cardinality(Q) + 1
    BY <1>3, <1>7, FS_AddElement
  <1>9. Cardinality(Left(R)) + Cardinality(R) <= Cardinality(Guest)
    BY <1>5 DEF RoomInv
  <1>10. IsFiniteSet(Left(R)) /\ Cardinality(Left(R)) \in Nat
    BY <1>6, LiveIsFinite
  <1>11. /\ IsFiniteSet(Left(R) \cup {n})
         /\ Cardinality(Left(R) \cup {n}) \in Nat
         /\ Cardinality(Left(R) \cup {n}) <= Cardinality(Left(R)) + 1
    <2>1. /\ IsFiniteSet(Left(R) \cup {n})
          /\ \/ Cardinality(Left(R) \cup {n}) = Cardinality(Left(R))
             \/ Cardinality(Left(R) \cup {n}) = Cardinality(Left(R)) + 1
      BY <1>10, FS_AddElement
    <2>2. QED
      BY <1>10, <2>1
  <1>12. /\ Cardinality(Left(Q)') \in Nat
         /\ Cardinality(Left(Q)') <= Cardinality(Left(R) \cup {n})
    BY <1>6, <1>11, FS_Subset, FS_CardinalityType
  <1> DEFINE a == Cardinality(Left(R))
             b == Cardinality(Left(Q)')
             c == Cardinality(Q)
             d == Cardinality(Left(R) \cup {n})
             e == Cardinality(R)
             g == Cardinality(Guest)
  <1>13. /\ a \in Nat /\ b \in Nat /\ c \in Nat /\ d \in Nat /\ g \in Nat
         /\ e = c + 1 /\ a + e <= g /\ d <= a + 1 /\ b <= d
    BY <1>7, <1>8, <1>9, <1>10, <1>11, <1>12
  <1> HIDE DEF a, b, c, d, e, g
  <1>14. b + c <= g
    BY <1>13
  <1>15. QED
    BY <1>14 DEF b, c, g

\* A step of r that creates no session.
LEMMA RoomStep ==
  ASSUME TypeOK, RoomInv, NEW r \in Request, NEW t, Become(r, t), Live' \subseteq Live,
         \/ Live' \subseteq t.leaving
         \/ Live' = {}
         \/ t.pc \notin {"customer inserted", "retiring", "retired"}
                /\ (t.pc = "sessions read" => t.table = None \/ t.session # 0)
         \/ Pending(r) /\ tx[r].leaving \cap Live' \subseteq t.leaving
  PROVE  RoomInv'
  <1>1. tx'[r] = t /\ \A q \in Guest : q # r => tx'[q] = tx[q]
    BY DEF TypeOK, Become, Request
  <1>2. \A q \in Guest : q # r => Pending(q)' = Pending(q)
    BY <1>1 DEF Pending, Inserting, Leaving, Asking, Found, At
  <1>3. \/ ~Pending(r)'
        \/ Live' \subseteq tx'[r].leaving
        \/ Live' = {}
        \/ Pending(r) /\ tx[r].leaving \cap Live' \subseteq tx'[r].leaving
    BY <1>1 DEF Pending, Inserting, Leaving, Asking, Found, At
  <1>4. QED
    BY <1>1, <1>2, <1>3, RoomKept

LEMMA RoomEnd ==
  ASSUME TypeOK, RoomInv, NEW r \in Request, End(r), Live' \subseteq Live
  PROVE  RoomInv'
  BY IdleTx, RoomStep DEF End

\* Requests that read: one that finds no live session, or that will retire all
\* that there are, leaves none.
LEMMA ReadRoom ==
  ASSUME Inv, RoomInv, NEW r \in Request,
         \/ Begin(r) \/ FindCustomer(r) \/ InsertCustomer(r) \/ ReadSessions(r)
         \/ AskRetire(r) \/ Retire(r)
         \/ LookUp(r) \/ ReadSettled(r) \/ Abort(r)
  PROVE  RoomInv'
  <1>1. sessions' = sessions /\ timedOut' = timedOut /\ TypeOK
    BY DEF Begin, FindCustomer, InsertCustomer, ReadSessions, AskRetire, Retire,
           LookUp, ReadSettled, Abort, Inv
  <1>2. Live' = Live /\ Active' = Active
    BY <1>1 DEF Live, Active
  <1>3. tx[r] \in Tx
    BY <1>1 DEF TypeOK
  <1>4. CASE Begin(r)
    <2>1. PICK t \in Table, n \in Session :
              Become(r, [Idle EXCEPT !.pc = "begun", !.table = t, !.number = n, !.there = Created])
      BY <1>4 DEF Begin
    <2> DEFINE u == [Idle EXCEPT !.pc = "begun", !.table = t, !.number = n, !.there = Created]
    <2>2. Become(r, u) /\ u.pc = "begun"
      BY <2>1 DEF Idle
    <2> HIDE DEF u
    <2>3. QED
      BY <1>1, <1>2, <2>2, RoomStep
  <1>5. CASE FindCustomer(r)
    <2>1. PICK pc \in {"no customer", "known"} : Go(r, pc)
      BY <1>5 DEF FindCustomer
    <2> DEFINE u == [tx[r] EXCEPT !.pc = pc]
    <2>2. Become(r, u) /\ u.pc = pc
      BY <1>3, <2>1 DEF Go, Tx
    <2> HIDE DEF u
    <2>3. QED
      BY <1>1, <1>2, <2>1, <2>2, RoomStep
  <1>6. CASE InsertCustomer(r)
    <2>1. CASE customer = "none"
      <3>1. Live = {}
        BY <2>1 DEF Inv, CustomerInv, Created, Live, Active
      <3>2. PICK u : Become(r, u)
        BY <1>6, <2>1 DEF InsertCustomer, Go
      <3>3. QED
        BY <1>1, <1>2, <3>1, <3>2, RoomStep
    <2>2. CASE customer # "none"
      BY <1>1, <1>2, <1>6, <2>2, RoomEnd DEF InsertCustomer
    <2>3. QED
      BY <2>1, <2>2
  <1>7. CASE ReadSessions(r)
    <2> DEFINE u == [tx[r] EXCEPT !.pc = "sessions read", !.session = Newest, !.stale = Stale]
    <2>1. Become(r, u) /\ u.pc = "sessions read" /\ u.session = Newest
      BY <1>3, <1>7 DEF ReadSessions, Tx
    <2> HIDE DEF u
    <2>2. CASE Live # {}
      <3>1. Newest # 0
        BY <2>2, NewestLive, EntryAssumption DEF Live, Active, Session
      <3>2. QED
        BY <1>1, <1>2, <2>1, <3>1, RoomStep
    <2>3. CASE Live = {}
      BY <1>1, <1>2, <2>1, <2>3, RoomStep
    <2>4. QED
      BY <2>2, <2>3
  <1>8. CASE AskRetire(r)
    <2> DEFINE u == [tx[r] EXCEPT !.pc = "retiring", !.leaving = ToRetire]
    <2>1. Become(r, u) /\ u.leaving = Active
      BY <1>3, <1>8 DEF AskRetire, ToRetire, Tx
    <2> HIDE DEF u
    <2>2. Live' \subseteq u.leaving
      BY <1>2, <2>1 DEF Live
    <2>3. QED
      BY <1>1, <1>2, <2>1, <2>2, RoomStep
  <1>9. CASE Retire(r)
    <2> DEFINE u == [tx[r] EXCEPT !.pc = "retired", !.leaving = @ \cap ToRetire]
    <2>1. Become(r, u) /\ u.leaving = tx[r].leaving \cap Active
      BY <1>3, <1>9 DEF Retire, ToRetire, Tx
    <2> HIDE DEF u
    <2>2. Pending(r)
      BY <1>9 DEF Retire, Pending, Leaving, At
    <2>3. tx[r].leaving \cap Live' \subseteq u.leaving
      BY <1>2, <2>1 DEF Live
    <2>4. QED
      BY <1>1, <1>2, <2>1, <2>2, <2>3, RoomStep
  <1>10. CASE LookUp(r)
    <2> DEFINE u == [Idle EXCEPT !.pc = "sessions read", !.session = 0, !.stale = Stale]
    <2>1. Become(r, u) /\ u.pc = "sessions read" /\ u.table = None
      BY <1>10 DEF LookUp, Idle
    <2> HIDE DEF u
    <2>2. QED
      BY <1>1, <1>2, <2>1, RoomStep
  <1>11. CASE ReadSettled(r)
    <2>1. PICK s \in Created : Become(r, [Idle EXCEPT !.pc = "settling", !.session = s])
      BY <1>11 DEF ReadSettled
    <2> DEFINE u == [Idle EXCEPT !.pc = "settling", !.session = s]
    <2>2. Become(r, u) /\ u.pc = "settling"
      BY <2>1 DEF Idle
    <2> HIDE DEF u
    <2>3. QED
      BY <1>1, <1>2, <2>2, RoomStep
  <1>12. CASE Abort(r)
    BY <1>1, <1>2, <1>12, RoomEnd DEF Abort
  <1>13. QED
    BY <1>4, <1>5, <1>6, <1>7, <1>8, <1>9, <1>10, <1>11, <1>12

\* Requests that only mark or close sessions.
LEMMA MarkRoom ==
  ASSUME Inv, RoomInv, NEW r \in Request, Resume(r) \/ MarkStale(r) \/ CloseSession(r)
  PROVE  RoomInv'
  <1>1. Active' \subseteq Active /\ timedOut' = timedOut
    <2>1. CASE CloseSession(r)
      BY <2>1 DEF CloseSession, Inv, TypeOK, SessionRow, Active
    <2>2. CASE Resume(r) \/ MarkStale(r)
      <3>1. sessions' = MarkExpired(sessions, tx[r].stale) /\ timedOut' = timedOut
        BY <2>2 DEF Resume, MarkStale
      <3>2. TypeOK /\ tx[r].stale \in SUBSET Session /\ tx[r].stale \subseteq Created
        BY StaleCreated DEF Inv, Created
      <3>3. \A s \in Session : sessions'[s].status = "ACTIVE" => s \in Active
        BY <3>1, <3>2, MarkEffect
      <3>4. QED
        BY <3>1, <3>3 DEF Active
    <2>3. QED
      BY <2>1, <2>2
  <1>2. Live' \subseteq Live /\ End(r) /\ TypeOK
    BY <1>1 DEF Live, Resume, MarkStale, CloseSession, Inv
  <1>3. QED
    BY <1>2, RoomEnd

LEMMA FirstRoom ==
  ASSUME Inv, RoomInv, NEW r \in Guest, FirstSession(r)
  PROVE  RoomInv'
  <1>1. r \in Request /\ Created = {} /\ Asking(r) /\ Pending(r)
    BY DEF Request, FirstSession, Inv, CustomerInv, Inserting, Local, At, Pending
  <1>2. /\ sessions \in [Session -> SessionRow]
        /\ \A s \in Session : sessions[s].status # "none" <=> s \in Created
        /\ \A s \in Session : sessions[s].status # "ACTIVE"
    BY <1>1 DEF Inv, TypeOK, Created
  <1>3. Create(r, sessions) /\ End(r) /\ timedOut' = timedOut /\ TypeOK
    BY DEF FirstSession, Inv
  <1>4. PICK n \in Session :
            /\ n = tx[r].number /\ n \notin Created
            /\ Created' = Created \cup {n}
            /\ sessions' = [sessions EXCEPT ![n] = [status |-> "ACTIVE", table |-> tx[r].table]]
            /\ sessions' \in [Session -> SessionRow]
            /\ sessions'[n] = [status |-> "ACTIVE", table |-> tx[r].table]
            /\ \A s \in Session : s # n => sessions'[s] = sessions[s] /\ before'[s] = before[s]
            /\ Active' = {s \in Session : sessions[s].status = "ACTIVE"} \cup {n}
            /\ before'[n] = tx[r].there
            /\ before' \in [Session -> SUBSET Session]
    BY <1>1, <1>2, <1>3, CreateEffect
  <1>5. Live' \subseteq {n}
    BY <1>2, <1>4 DEF Live
  <1>6. QED
    BY <1>1, <1>3, <1>5, RoomCreate

LEMMA SitDownRoom ==
  ASSUME Inv, RoomInv, NEW r \in Guest, SitDown(r), Asking(r)
  PROVE  RoomInv'
  <1>1. r \in Request /\ End(r) /\ timedOut' = timedOut /\ TypeOK
    BY DEF Request, SitDown, Inv
  <1>2. Pending(r)
    BY DEF SitDown, Pending, Leaving, At
  <1>3. PICK n \in Session :
            Active' = (Active \ (tx[r].stale \cup tx[r].leaving)) \cup {n}
    BY <1>1, SitDownEffect
  <1>4. Live' \subseteq (Live \ tx[r].leaving) \cup {n}
    BY <1>1, <1>3 DEF Live
  <1>5. QED
    BY <1>1, <1>2, <1>4, RoomCreate

LEMMA NextRoom == Inv /\ RoomInv /\ [Next]_vars => RoomInv'
  <1> SUFFICES ASSUME Inv, RoomInv, [Next]_vars PROVE RoomInv'
    OBVIOUS
  <1>1. ASSUME NEW r \in Guest, Enter(r) PROVE RoomInv'
    BY <1>1, ReadRoom, MarkRoom, FirstRoom, SitDownRoom DEF Enter, Request, Asking
  <1>2. ASSUME NEW r \in Request, LookUp(r) \/ MarkStale(r) \/ ReadSettled(r) \/ CloseSession(r) \/ Abort(r)
        PROVE  RoomInv'
    BY <1>2, ReadRoom, MarkRoom
  <1>3. ASSUME UNCHANGED <<sessions, tx>>, timedOut \subseteq timedOut' PROVE RoomInv'
    <2>1. Live' \subseteq Live
      BY <1>3 DEF Live, Active
    <2>2. \A q \in Guest : Pending(q)' = Pending(q) /\ tx'[q] = tx[q]
      BY <1>3 DEF Pending, Inserting, Leaving, Asking, Found, At
    <2>3. QED
      BY <2>1, <2>2, RoomKept
  <1>4. QED
    BY <1>1, <1>2, <1>3 DEF Next, Request, TimePasses, vars

\* A customer never has more live sessions than requests of hers run at the
\* same time: each of them creates one at most, beside those that it could not
\* retire because others came up with them meanwhile
\* (create_or_resume_direct_session).
THEOREM FewLive == Spec => []LiveBounded
  <1>1. Init => RoomInv
    <2> SUFFICES ASSUME Init, NEW Q \in SUBSET Guest
                 PROVE  Cardinality(Left(Q)) + Cardinality(Q) <= Cardinality(Guest)
      BY DEF RoomInv
    <2>1. Left(Q) = {}
      BY DEF Init, Left, Live, Active, NoSession
    <2>2. Cardinality(Left(Q)) = 0
      BY <2>1, FS_EmptySet
    <2>3. QED
      BY <2>2, GuestIsFinite
  <1>2. RoomInv => LiveBounded
    <2> SUFFICES ASSUME RoomInv PROVE LiveBounded
      OBVIOUS
    <2>1. Left({}) = Live
      BY DEF Left
    <2>2. Cardinality(Live) + Cardinality({}) <= Cardinality(Guest)
      BY <2>1 DEF RoomInv
    <2>3. Cardinality({}) = 0 /\ Cardinality(Live) \in Nat
      BY FS_EmptySet, LiveIsFinite
    <2>4. QED
      BY <2>2, <2>3 DEF LiveBounded
  <1>3. QED
    BY Invariance, NextRoom, <1>1, <1>2, PTL DEF Spec

-----------------------------------------------------------------------------
(* What becomes of the exceptions when a customer does not enter twice at the *)
(* same time.                                                                *)

\* Two requests in flight never both ask for a table.  Nothing in the code
\* guarantees it; a lock on the customer would.  Lookups, settlements and
\* timeouts still overlap with an entry.
EntriesApart == \A q, r \in Guest : Asking(q) /\ Asking(r) => q = r

\* A request that asks for a table began with all sessions there are, and so
\* did those that created the sessions.
ApartInv ==
    /\ \A r \in Guest : Asking(r) => tx[r].there = Created
    /\ \A s, t \in Created : ~Overlap(s, t)

\* A step of r that creates no session.
LEMMA ApartKept ==
  ASSUME TypeOK, ApartInv, NEW r \in Request, NEW t, Become(r, t),
         Created' = Created, before' = before,
         \/ t.table = None
         \/ t.there = Created
         \/ t.table = tx[r].table /\ t.there = tx[r].there
  PROVE  ApartInv'
  <1>1. tx'[r] = t /\ \A q \in Guest : q # r => tx'[q] = tx[q]
    BY DEF TypeOK, Become, Request
  <1>2. \A q \in Guest : Asking(q)' => tx'[q].there = Created'
    <2>1. ASSUME NEW q \in Guest, q # r, Asking(q)' PROVE tx'[q].there = Created'
      BY <1>1, <2>1 DEF ApartInv, Asking
    <2>2. ASSUME r \in Guest, Asking(r)' PROVE tx'[r].there = Created'
      BY <1>1, <2>2 DEF ApartInv, Asking
    <2>3. QED
      BY <2>1, <2>2
  <1>3. \A s, u \in Created' : ~Overlap(s, u)'
    BY DEF ApartInv, Overlap
  <1>4. QED
    BY <1>2, <1>3 DEF ApartInv

LEMMA ApartEnd ==
  ASSUME TypeOK, ApartInv, NEW r \in Request, End(r), Created' = Created, before' = before
  PROVE  ApartInv'
  BY IdleTx, ApartKept DEF End

\* The requests that write no session.
LEMMA ReadApart ==
  ASSUME Inv, ApartInv, NEW r \in Request,
         \/ Begin(r) \/ FindCustomer(r) \/ InsertCustomer(r) \/ ReadSessions(r)
         \/ AskRetire(r) \/ Retire(r)
         \/ LookUp(r) \/ ReadSettled(r) \/ Abort(r)
  PROVE  ApartInv'
  <1>1. sessions' = sessions /\ before' = before
    BY DEF Begin, FindCustomer, InsertCustomer, ReadSessions, AskRetire, Retire,
           LookUp, ReadSettled, Abort
  <1>2. TypeOK /\ Created' = Created /\ before' = before /\ tx[r] \in Tx
    BY <1>1 DEF Inv, Created, TypeOK
  <1>3. CASE Begin(r)
    <2>1. PICK t \in Table, n \in Session :
              Become(r, [Idle EXCEPT !.pc = "begun", !.table = t, !.number = n, !.there = Created])
      BY <1>3 DEF Begin
    <2> DEFINE u == [Idle EXCEPT !.pc = "begun", !.table = t, !.number = n, !.there = Created]
    <2>2. Become(r, u) /\ u.there = Created
      BY <2>1 DEF Idle
    <2> HIDE DEF u
    <2>3. QED
      BY <1>2, <2>2, ApartKept
  <1>4. ASSUME NEW pc, Go(r, pc) PROVE ApartInv'
    <2> DEFINE u == [tx[r] EXCEPT !.pc = pc]
    <2>1. Become(r, u) /\ u.table = tx[r].table /\ u.there = tx[r].there
      BY <1>2, <1>4 DEF Go, Tx
    <2> HIDE DEF u
    <2>2. QED
      BY <1>2, <2>1, ApartKept
  <1>5. CASE FindCustomer(r)
    BY <1>4, <1>5 DEF FindCustomer
  <1>6. CASE InsertCustomer(r)
    BY <1>2, <1>4, <1>6, ApartEnd DEF InsertCustomer
  <1>7. CASE ReadSessions(r)
    <2> DEFINE u == [tx[r] EXCEPT !.pc = "sessions read", !.session = Newest, !.stale = Stale]
    <2>1. Become(r, u) /\ u.table = tx[r].table /\ u.there = tx[r].there
      BY <1>2, <1>7 DEF ReadSessions, Tx
    <2> HIDE DEF u
    <2>2. QED
      BY <1>2, <2>1, ApartKept
  <1>8. CASE AskRetire(r)
    <2> DEFINE u == [tx[r] EXCEPT !.pc = "retiring", !.leaving = ToRetire]
    <2>1. Become(r, u) /\ u.table = tx[r].table /\ u.there = tx[r].there
      BY <1>2, <1>8 DEF AskRetire, Tx
    <2> HIDE DEF u
    <2>2. QED
      BY <1>2, <2>1, ApartKept
  <1>9. CASE Retire(r)
    <2> DEFINE u == [tx[r] EXCEPT !.pc = "retired", !.leaving = @ \cap ToRetire]
    <2>1. Become(r, u) /\ u.table = tx[r].table /\ u.there = tx[r].there
      BY <1>2, <1>9 DEF Retire, Tx
    <2> HIDE DEF u
    <2>2. QED
      BY <1>2, <2>1, ApartKept
  <1>10. CASE LookUp(r)
    <2> DEFINE u == [Idle EXCEPT !.pc = "sessions read", !.session = 0, !.stale = Stale]
    <2>1. Become(r, u) /\ u.table = None
      BY <1>10 DEF LookUp, Idle
    <2> HIDE DEF u
    <2>2. QED
      BY <1>2, <2>1, ApartKept
  <1>11. CASE ReadSettled(r)
    <2>1. PICK s \in Created : Become(r, [Idle EXCEPT !.pc = "settling", !.session = s])
      BY <1>11 DEF ReadSettled
    <2> DEFINE u == [Idle EXCEPT !.pc = "settling", !.session = s]
    <2>2. Become(r, u) /\ u.table = None
      BY <2>1 DEF Idle
    <2> HIDE DEF u
    <2>3. QED
      BY <1>2, <2>2, ApartKept
  <1>12. CASE Abort(r)
    BY <1>2, <1>12, ApartEnd DEF Abort
  <1>13. QED
    BY <1>3, <1>5, <1>6, <1>7, <1>8, <1>9, <1>10, <1>11, <1>12

\* The requests that mark or close sessions.
LEMMA MarkApart ==
  ASSUME Inv, ApartInv, NEW r \in Request, Resume(r) \/ MarkStale(r) \/ CloseSession(r)
  PROVE  ApartInv'
  <1>1. End(r) /\ before' = before /\ TypeOK
    BY DEF Resume, MarkStale, CloseSession, Inv
  <1>2. CASE CloseSession(r)
    <2>1. Created' = Created
      <3>1. sessions' = [sessions EXCEPT ![tx[r].session].status = "CLOSED"]
        BY <1>2 DEF CloseSession
      <3>2. tx[r].session \in Created /\ sessions \in [Session -> SessionRow]
        BY <1>2 DEF CloseSession, Inv, Local, TypeOK
      <3>3. \A s \in Session : sessions'[s].status # "none" <=> s \in Created
        BY <3>1, <3>2 DEF SessionRow, Created
      <3>4. QED
        BY <3>3 DEF Created
    <2>2. QED
      BY <1>1, <2>1, ApartEnd
  <1>3. CASE Resume(r) \/ MarkStale(r)
    <2>1. sessions' = MarkExpired(sessions, tx[r].stale)
      BY <1>3 DEF Resume, MarkStale
    <2>2. tx[r].stale \in SUBSET Session /\ tx[r].stale \subseteq Created
      BY StaleCreated DEF Created
    <2>3. \A s \in Session : sessions'[s].status # "none" <=> s \in Created
      BY <1>1, <2>1, <2>2, MarkEffect
    <2>4. Created' = Created
      BY <2>3 DEF Created
    <2>5. QED
      BY <1>1, <2>4, ApartEnd
  <1>4. QED
    BY <1>2, <1>3

\* The request that creates a session is the only one that asks for a table.
LEMMA CreateApart ==
  ASSUME TypeOK, ApartInv, EntriesApart, NEW r \in Guest, Asking(r), End(r),
         NEW n, Created' = Created \cup {n}, before'[n] = tx[r].there,
         \A s \in Created : s # n /\ before'[s] = before[s]
  PROVE  ApartInv'
  <1>1. tx'[r] = Idle /\ \A q \in Guest : q # r => tx'[q] = tx[q]
    BY DEF TypeOK, End, Become, Request
  <1>2. \A q \in Guest : ~Asking(q)'
    BY <1>1, IdleTx DEF EntriesApart, Asking
  <1>3. before'[n] = Created
    BY DEF ApartInv
  <1>4. \A s, t \in Created' : ~Overlap(s, t)'
    <2> SUFFICES ASSUME NEW s \in Created', NEW t \in Created', s # t,
                        s \notin before'[t], t \notin before'[s]
                 PROVE  FALSE
      BY DEF Overlap
    <2>1. s # n /\ t # n
      BY <1>3
    <2>2. s \in Created /\ t \in Created /\ before'[s] = before[s] /\ before'[t] = before[t]
      BY <2>1
    <2>3. QED
      BY <2>2 DEF ApartInv, Overlap
  <1>5. QED
    BY <1>2, <1>4 DEF ApartInv

LEMMA FirstApart ==
  ASSUME Inv, ApartInv, EntriesApart, NEW r \in Guest, FirstSession(r)
  PROVE  ApartInv'
  <1>1. r \in Request /\ Asking(r)
    BY DEF Request, FirstSession, Inv, Local, At
  <1>2. /\ sessions \in [Session -> SessionRow]
        /\ \A s \in Session : sessions[s].status # "none" <=> s \in Created
    BY DEF Inv, TypeOK, Created
  <1>3. Create(r, sessions) /\ End(r) /\ TypeOK
    BY DEF FirstSession, Inv
  <1>4. PICK n \in Session :
            /\ n = tx[r].number /\ n \notin Created
            /\ Created' = Created \cup {n}
            /\ sessions' = [sessions EXCEPT ![n] = [status |-> "ACTIVE", table |-> tx[r].table]]
            /\ sessions' \in [Session -> SessionRow]
            /\ sessions'[n] = [status |-> "ACTIVE", table |-> tx[r].table]
            /\ \A s \in Session : s # n => sessions'[s] = sessions[s] /\ before'[s] = before[s]
            /\ Active' = {s \in Session : sessions[s].status = "ACTIVE"} \cup {n}
            /\ before'[n] = tx[r].there
            /\ before' \in [Session -> SUBSET Session]
    BY <1>1, <1>2, <1>3, CreateEffect
  <1>5. \A s \in Created : s # n /\ before'[s] = before[s]
    BY <1>4 DEF Created
  <1>6. QED
    BY <1>1, <1>3, <1>4, <1>5, CreateApart

LEMMA SitDownApart ==
  ASSUME Inv, ApartInv, EntriesApart, NEW r \in Guest, SitDown(r), Asking(r)
  PROVE  ApartInv'
  <1>1. r \in Request /\ End(r) /\ TypeOK
    BY DEF Request, SitDown, Inv
  <1>2. PICK n \in Session :
            /\ n \notin Created /\ Created' = Created \cup {n}
            /\ before'[n] = tx[r].there
            /\ \A s \in Session : s # n => before'[s] = before[s]
    BY <1>1, SitDownEffect
  <1>3. \A s \in Created : s # n /\ before'[s] = before[s]
    BY <1>2 DEF Created
  <1>4. QED
    BY <1>1, <1>2, <1>3, CreateApart

LEMMA NextApart == Inv /\ ApartInv /\ EntriesApart /\ [Next]_vars => ApartInv'
  <1> SUFFICES ASSUME Inv, ApartInv, EntriesApart, [Next]_vars PROVE ApartInv'
    OBVIOUS
  <1>1. ASSUME NEW r \in Guest, Enter(r) PROVE ApartInv'
    BY <1>1, ReadApart, MarkApart, FirstApart, SitDownApart DEF Enter, Request, Asking
  <1>2. ASSUME NEW r \in Request, LookUp(r) \/ MarkStale(r) \/ ReadSettled(r) \/ CloseSession(r) \/ Abort(r)
        PROVE  ApartInv'
    BY <1>2, ReadApart, MarkApart
  <1>3. ASSUME UNCHANGED <<sessions, tx, before>> PROVE ApartInv'
    BY <1>3 DEF ApartInv, Asking, Overlap, Created
  <1>4. QED
    BY <1>1, <1>2, <1>3 DEF Next, Request, TimePasses, vars

\* While entries do not overlap, a request that asks for a table knows of all
\* sessions there are (create_or_resume_direct_session).
THEOREM ApartInvariance == Spec /\ []EntriesApart => []ApartInv
  <1>1. Init => ApartInv
    <2> SUFFICES ASSUME Init PROVE ApartInv
      OBVIOUS
    <2>1. Created = {}
      BY DEF Init, Created, NoSession
    <2>2. \A r \in Guest : ~Asking(r)
      BY IdleTx DEF Init, Request, Asking
    <2>3. QED
      BY <2>1, <2>2 DEF ApartInv
  <1>2. QED
    BY Invariance, NextApart, <1>1, PTL DEF Spec

\* A customer who does not enter twice at the same time has one ACTIVE session
\* at most, whatever is looked up, settled or timed out meanwhile
\* (create_or_resume_direct_session).
THEOREM OneActiveWhenApart ==
  Spec /\ []EntriesApart => [](\A s, t \in Active : s = t)
  <1>1. Inv /\ ApartInv => \A s, t \in Active : s = t
    BY DEF Inv, ApartInv, OneActiveUnlessOverlap, Active, Created
  <1>2. QED
    BY Invariance, ApartInvariance, <1>1, PTL

\* Her session is then retired only when its time has passed or when she sits
\* down at another table in the same step (create_or_resume_direct_session).
THEOREM RetiredWhenApart ==
  Spec /\ []EntriesApart =>
      [][\A s \in Active :
             sessions'[s].status = "EXPIRED"
                 => \/ s \in timedOut
                    \/ \E n \in Session \ Created :
                           /\ sessions'[n].status = "ACTIVE"
                           /\ sessions'[n].table # sessions[s].table]_vars
  <1> DEFINE Cause == \A s \in Active :
                 sessions'[s].status = "EXPIRED"
                     => \/ s \in timedOut
                        \/ Overlapped(s)'
                        \/ \E n \in Session \ Created :
                               /\ sessions'[n].status = "ACTIVE"
                               /\ sessions'[n].table # sessions[s].table
             Only == \A s \in Active :
                 sessions'[s].status = "EXPIRED"
                     => \/ s \in timedOut
                        \/ \E n \in Session \ Created :
                               /\ sessions'[n].status = "ACTIVE"
                               /\ sessions'[n].table # sessions[s].table
             Clear == \A s \in Created : ~Overlapped(s)
  <1>1. ApartInv => Clear
    BY DEF ApartInv, Overlapped
  <1>2. Clear' /\ Cause => Only
    <2> SUFFICES ASSUME Clear', Cause, NEW s \in Active, sessions'[s].status = "EXPIRED",
                        s \notin timedOut
                 PROVE  \E n \in Session \ Created :
                            /\ sessions'[n].status = "ACTIVE"
                            /\ sessions'[n].table # sessions[s].table
      OBVIOUS
    <2>1. s \in Created'
      BY DEF Active, Created
    <2>2. ~Overlapped(s)'
      BY <2>1
    <2>3. QED
      BY <2>2
  <1>3. Spec => [][Cause]_vars
    BY OnlyForCause DEF RetiredForCause
  <1>4. QED
    BY Invariance, ApartInvariance, <1>1, <1>2, <1>3, PTL DEF Spec
=============================================================================
