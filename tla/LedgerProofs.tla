----------------------------- MODULE LedgerProofs ----------------------------
(***************************************************************************)
(* Proofs about the ledger: for any number of appenders, events and clock  *)
(* readings, and any aggregate document left by an older release.          *)
(***************************************************************************)
EXTENDS Ledger, FiniteSetTheorems, WellFoundedInduction, TLAPS

(* The events that exist, stored or about to be.                           *)
Pending == UNION {signed[w] : w \in Writers}
Known == Visible \cup Pending

\* What a writer has read stays in the ledger.
SeenIsStored == \A w \in Writers : seen[w] \subseteq Visible

\* A writer starts from nothing, and holds an event only between signing it and
\* storing it.
SignedInTime ==
    \A w \in Writers :
        /\ doing[w] = "idle" => seen[w] = {}
        /\ signed[w] # {} => doing[w] \in {"migrate", "create"}

\* A stored or pending event links to a stored and, by its stamp, older one.
LinksStored ==
    \A e \in Known : e.previous # None =>
        \E f \in Visible : f.id = e.previous /\ (steady => f.time < e.time)

UniqueIds == \A e, f \in Known : e.id = f.id => e = f

Dated == steady => \A e \in Known : e.time <= now

Placed == aggregate = "none" => Legacy = {}

Alone == alone =>
    \A v, w \in Writers : doing[v] # "idle" /\ doing[w] # "idle" => v = w

\* What the one process at work has read is what is there.
Snapshot == alone =>
    \A w \in Writers :
        /\ doing[w] \in {"moved", "root"} => seen[w] = events
        /\ doing[w] = "root" => aggregate # "moved"
        /\ doing[w] = "sign" => seen[w] = Visible

\* What it is about to store comes after everything that is there.
ComesNext == alone =>
    \A w \in Writers : \A e \in signed[w] :
        /\ e.previous \in LinkTo(Visible)
        /\ steady => \A f \in Visible : f.time < e.time

IInv == /\ TypeOK
        /\ SeenIsStored
        /\ SignedInTime
        /\ LinksStored
        /\ UniqueIds
        /\ Dated
        /\ Placed
        /\ Alone
        /\ Snapshot
        /\ ComesNext
        /\ SerialChainVerifies

-----------------------------------------------------------------------------
\* Wherever the aggregate document is, its events are read.
LEMMA VisibleIsBoth == ASSUME Placed PROVE Visible = events \cup Legacy
BY DEF Visible, Placed

\* What readers see are the event refs and the old document, wherever it is.
LEMMA PlacedStays ==
    ASSUME Placed, TypeOK, [Next]_vars
    PROVE  Placed' /\ Visible' = events' \cup Legacy
<1>1. aggregate' = "none" => aggregate = "none"
    BY DEF Next, vars, ReadEvents, ReadMoved, ReadRoot, Sign, Migrate, Create, Crash
<1>2. Placed'
    BY <1>1 DEF Placed
<1>. QED BY <1>2 DEF Visible, Placed

\* Events are only added, and only what was signed.
LEMMA EventsGrow ==
    ASSUME [Next]_vars
    PROVE  /\ events \subseteq events'
           /\ events' \subseteq events \cup Pending
           /\ UNCHANGED <<alone, steady>>
<1>1. ASSUME NEW w \in Writers, Create(w) PROVE events' = events \cup signed[w]
    BY <1>1 DEF Create
<1>2. ASSUME ~ \E w \in Writers : Create(w) PROVE events' = events
    BY <1>2 DEF Next, vars, ReadEvents, ReadMoved, ReadRoot, Sign, Migrate, Crash
<1>3. UNCHANGED <<alone, steady>>
    BY DEF Next, vars, ReadEvents, ReadMoved, ReadRoot, Sign, Migrate, Create, Crash
<1>4. \A w \in Writers : signed[w] \subseteq Pending
    BY DEF Pending
<1>5. CASE \E w \in Writers : Create(w)
    BY <1>1, <1>3, <1>4, <1>5
<1>6. CASE ~ \E w \in Writers : Create(w)
    BY <1>2, <1>3, <1>6
<1>. QED BY <1>5, <1>6

\* What is visible stays visible.
LEMMA VisibleGrows ==
    ASSUME IInv, [Next]_vars
    PROVE  Visible \subseteq Visible' /\ Visible' \subseteq Known
BY PlacedStays, EventsGrow, VisibleIsBoth DEF IInv, Known

\* An event later than all of E, linked to the last of E, continues E.
LEMMA ContinuousExtends ==
    ASSUME NEW E \in SUBSET Event, NEW n \in Event, Continuous(E),
           \A f \in E : f.time < n.time, n.previous \in LinkTo(E)
    PROVE  Continuous(E \cup {n})
<1> DEFINE Earlier(e) == {f \in E \cup {n} : Before(f, e)}
<1>1. ASSUME NEW e \in Event PROVE e.time \in Int /\ e.id \in Int
    <2>1. e.time \in Times /\ e.id \in Ids
        BY DEF Event
    <2>2. e.time \in Int
        BY <2>1, TimeAssumption DEF Times
    <2>3. e.id \in Int
        BY <2>1, IdAssumption
    <2>. QED BY <2>2, <2>3
<1>2. ASSUME NEW e \in E PROVE e.previous \in LinkTo(Earlier(e))
    <2>1. ~Before(n, e)
        BY <1>1 DEF Before
    <2>2. Earlier(e) = {f \in E : Before(f, e)}
        BY <2>1
    <2>. QED BY <2>2 DEF Continuous
<1>3. Earlier(n) = E
    <2>1. ~Before(n, n)
        BY <1>1 DEF Before
    <2>2. \A f \in E : Before(f, n)
        BY DEF Before
    <2>. QED BY <2>1, <2>2
<1>. QED BY <1>2, <1>3 DEF Continuous

-----------------------------------------------------------------------------
\* Whatever LinkTo offers is None or the hash of a member.
LEMMA LinkIsMember ==
    ASSUME NEW E, NEW l \in LinkTo(E), l # None
    PROVE  \E f \in E : f.id = l
BY DEF LinkTo, LastOf

\* The invariant holds before the first append.
LEMMA InitIInv == Init => IInv
<1> SUFFICES ASSUME Init PROVE IInv
    OBVIOUS
<1> USE LegacyAssumption, TimeAssumption
<1>1. Placed /\ events = {} /\ Visible = Legacy
    BY DEF Init, Placed, Visible
<1>2. Pending = {} /\ Known = Legacy
    BY <1>1 DEF Init, Pending, Known
<1>3. TypeOK
    BY DEF Init, TypeOK, Places, Tasks, Times
<1>4. LinksStored
    <2> SUFFICES ASSUME NEW e \in Legacy, e.previous # None
                 PROVE  \E f \in Legacy : f.id = e.previous /\ f.time < e.time
        BY <1>1, <1>2 DEF LinksStored
    <2> DEFINE F == {f \in Legacy : Before(f, e)}
    <2>0. e.previous \in LinkTo(F)
        BY DEF Continuous
    <2>1. PICK f \in Legacy : f.id = e.previous
        BY <2>0, LinkIsMember
    <2>. QED BY <2>1
<1>5. UniqueIds
    BY <1>2 DEF UniqueIds
<1>6. Dated
    BY <1>2 DEF Dated, Init
<1>7. SeenIsStored /\ SignedInTime /\ Alone /\ Snapshot /\ ComesNext
    BY DEF Init, SeenIsStored, SignedInTime, Alone, Snapshot, ComesNext
<1>8. SerialChainVerifies
    BY <1>1 DEF SerialChainVerifies, VerifyAccepts
<1>. QED BY <1>1, <1>3, <1>4, <1>5, <1>6, <1>7, <1>8 DEF IInv

\* The parts of the invariant that speak only of stored and pending events.
About == LinksStored /\ UniqueIds /\ Dated /\ Placed /\ ComesNext /\ SerialChainVerifies

\* A step that stores and signs nothing leaves what is said about events.
LEMMA AboutStays ==
    ASSUME IInv, UNCHANGED <<events, aggregate, now, signed, alone, steady>>
    PROVE  About'
<1>1. Visible' = Visible /\ Pending' = Pending
    BY DEF Visible, Pending
<1>2. LinksStored' /\ UniqueIds' /\ Dated'
    BY <1>1 DEF IInv, LinksStored, UniqueIds, Dated, Known
<1>3. Placed' /\ ComesNext' /\ SerialChainVerifies'
    BY <1>1 DEF IInv, Placed, ComesNext, SerialChainVerifies, VerifyAccepts
<1>. QED BY <1>2, <1>3 DEF About

\* A step by one process that was alone, or becomes so.
LEMMA AloneStays ==
    ASSUME IInv, NEW w \in Writers, alone' = alone,
           doing[w] # "idle" \/ (alone => \A v \in Writers : doing[v] = "idle"),
           \A v \in Writers : v # w => doing'[v] = doing[v]
    PROVE  /\ Alone'
           /\ alone => \A v \in Writers : v # w => doing[v] = "idle" /\ doing'[v] = "idle"
BY DEF IInv, Alone

\* A read adds what is visible to what a writer has seen.
LEMMA ReadStep ==
    ASSUME IInv, NEW w \in Writers, ReadEvents(w) \/ ReadMoved(w) \/ ReadRoot(w)
    PROVE  IInv'
<1>0. TypeOK /\ Visible = events \cup Legacy /\ Visible' = Visible
    BY VisibleIsBoth DEF IInv, Visible, ReadEvents, ReadMoved, ReadRoot
<1>1. UNCHANGED <<events, aggregate, now, signed, alone, steady>>
    BY DEF ReadEvents, ReadMoved, ReadRoot
<1>2. PICK E \in SUBSET Visible, step \in {"moved", "root", "sign"} :
          /\ seen' = [seen EXCEPT ![w] = @ \cup E]
          /\ doing' = [doing EXCEPT ![w] = step]
    <2>1. CASE ReadEvents(w)
        BY <1>0, <2>1 DEF ReadEvents, Sees, Proceed
    <2>2. CASE ReadMoved(w)
        <3>1. CASE aggregate = "moved"
            BY <1>0, <2>2, <3>1 DEF ReadMoved, Sees, Proceed
        <3>2. CASE aggregate # "moved"
            <4>1. seen' = [seen EXCEPT ![w] = @ \cup {}]
                BY <1>0, <2>2, <3>2 DEF ReadMoved, TypeOK
            <4>. QED BY <2>2, <3>2, <4>1 DEF ReadMoved, Proceed
        <3>. QED BY <3>1, <3>2
    <2>3. CASE ReadRoot(w)
        BY <1>0, <2>3 DEF ReadRoot, Sees, Proceed
    <2>. QED BY <2>1, <2>2, <2>3
<1>3. Visible \subseteq Event
    BY <1>0, LegacyAssumption DEF TypeOK
<1>4. TypeOK'
    BY <1>0, <1>1, <1>2, <1>3 DEF TypeOK, Tasks
<1>5. About'
    BY <1>1, AboutStays
<1>6. SeenIsStored'
    BY <1>0, <1>1, <1>2 DEF IInv, SeenIsStored, TypeOK
<1>7. SignedInTime'
    <2>1. doing[w] \in {"idle", "moved", "root"}
        BY DEF ReadEvents, ReadMoved, ReadRoot
    <2>. QED BY <1>0, <1>1, <1>2, <2>1 DEF IInv, SignedInTime, TypeOK
<1>8. /\ Alone'
      /\ alone => \A v \in Writers : v # w => doing'[v] = "idle"
    <2>1. doing[w] # "idle" \/ (alone => \A v \in Writers : doing[v] = "idle")
        BY DEF ReadEvents, ReadMoved, ReadRoot
    <2>. QED BY <1>0, <1>1, <1>2, <2>1, AloneStays DEF TypeOK
<1>9. Snapshot'
    <2> SUFFICES ASSUME alone
                 PROVE  /\ doing'[w] \in {"moved", "root"} => seen'[w] = events
                        /\ doing'[w] = "root" => aggregate # "moved"
                        /\ doing'[w] = "sign" => seen'[w] = Visible
        BY <1>0, <1>1, <1>8 DEF Snapshot
    <2>1. CASE ReadEvents(w)
        <3>1. seen[w] = {}
            BY <2>1 DEF ReadEvents, IInv, SignedInTime
        <3>. QED BY <1>0, <2>1, <3>1 DEF ReadEvents, Sees, Proceed, TypeOK
    <2>2. CASE ReadMoved(w)
        BY <1>0, <2>2 DEF ReadMoved, Sees, Proceed, TypeOK, IInv, Snapshot
    <2>3. CASE ReadRoot(w)
        BY <1>0, <2>3 DEF ReadRoot, Sees, Proceed, TypeOK, Places, IInv, Snapshot, Visible
    <2>. QED BY <2>1, <2>2, <2>3
<1>. QED BY <1>4, <1>5, <1>6, <1>7, <1>8, <1>9 DEF IInv, About

\* A pending event of w is one of the pending events.
LEMMA PendingOf == ASSUME NEW w \in Writers PROVE signed[w] \subseteq Pending
BY DEF Pending

\* What is signed links to the last event that was seen.
LEMMA SignStep ==
    ASSUME IInv, NEW w \in Writers, Sign(w)
    PROVE  IInv'
<1>0. TypeOK /\ Visible = events \cup Legacy /\ Visible \subseteq Event
    BY VisibleIsBoth, LegacyAssumption DEF IInv, TypeOK
<1>1. UNCHANGED <<events, aggregate, seen, alone, steady>> /\ doing[w] = "sign"
    BY DEF Sign
<1>2. PICK i \in Ids, t \in Times : \E l \in LinkTo(seen[w]) :
          /\ Fresh(i)
          /\ steady => t > now
          /\ now' = t
          /\ signed' = [signed EXCEPT ![w] = {[id |-> i, time |-> t, previous |-> l]}]
    BY DEF Sign
<1>3. PICK l \in LinkTo(seen[w]) :
          signed' = [signed EXCEPT ![w] = {[id |-> i, time |-> t, previous |-> l]}]
    BY <1>2
<1> DEFINE n == [id |-> i, time |-> t, previous |-> l]
<1>4. /\ signed'[w] = {n}
      /\ \A v \in Writers : v # w => signed'[v] = signed[v]
      /\ n.id = i /\ n.time = t /\ n.previous = l
    BY <1>0, <1>3 DEF TypeOK
<1>5. seen[w] \subseteq Visible
    BY DEF IInv, SeenIsStored
<1>6. l # None => \E f \in Visible : f.id = l
    BY <1>5, LinkIsMember
<1>7. l \in Ids \cup {None} /\ n \in Event
    <2>1. l \in Ids \cup {None}
        BY <1>0, <1>6 DEF Event
    <2>. QED BY <2>1 DEF Event
<1>8. TypeOK'
    BY <1>0, <1>1, <1>2, <1>3, <1>7 DEF TypeOK, Sign, Proceed, Tasks
<1>9. Visible' = Visible /\ Known' \subseteq Known \cup {n}
    BY <1>1, <1>4 DEF Visible, Pending, Known
<1>10. /\ doing'[w] = "migrate"
       /\ \A v \in Writers : v # w => doing'[v] = doing[v]
    BY <1>0 DEF Sign, Proceed, TypeOK
<1>11. SeenIsStored' /\ SignedInTime'
    BY <1>1, <1>4, <1>9, <1>10 DEF IInv, SeenIsStored, SignedInTime
<1>12. \A e \in Visible : steady => e.time < t
    <2> SUFFICES ASSUME NEW e \in Visible, steady PROVE e.time < t
        OBVIOUS
    <2>1. e.time <= now /\ now < t
        BY <1>2 DEF IInv, Dated, Known
    <2>2. e.time \in Int /\ now \in Int /\ t \in Int
        BY <1>0, TimeAssumption DEF TypeOK, Event, Times
    <2>. QED BY <2>1, <2>2
<1>13. LinksStored'
    <2>1. \A e \in Known : e.previous # None =>
              \E f \in Visible : f.id = e.previous /\ (steady => f.time < e.time)
        BY DEF IInv, LinksStored
    <2>2. n.previous # None =>
              \E f \in Visible : f.id = n.previous /\ (steady => f.time < n.time)
        BY <1>4, <1>6, <1>12
    <2>. QED BY <1>1, <1>9, <2>1, <2>2 DEF LinksStored
<1>14. UniqueIds'
    <2>1. \A e \in Known : e.id # i
        BY <1>0, <1>2 DEF Fresh, Known, Pending
    <2>. QED BY <1>4, <1>9, <2>1 DEF IInv, UniqueIds
<1>15. Dated'
    <2>1. ASSUME steady, NEW e \in Known PROVE e.time <= t
        <3>1. e.time <= now /\ now < t
            BY <1>2, <2>1 DEF IInv, Dated
        <3>2. Known \subseteq Event
            BY <1>0 DEF Known, Pending, TypeOK
        <3>3. e.time \in Int /\ now \in Int /\ t \in Int
            BY <1>0, <3>2, TimeAssumption DEF TypeOK, Event, Times
        <3>. QED BY <3>1, <3>3
    <2>2. t <= t
        BY TimeAssumption DEF Times
    <2>. QED BY <1>1, <1>2, <1>4, <1>9, <2>1, <2>2 DEF Dated
<1>16. Alone' /\ (alone => \A v \in Writers : v # w => doing[v] = "idle" /\ doing'[v] = "idle")
    BY <1>1, <1>10, AloneStays
<1>17. Snapshot'
    BY <1>1, <1>9, <1>10, <1>16 DEF Snapshot
<1>18. ComesNext'
    <2>1. alone => seen[w] = Visible
        BY <1>1 DEF IInv, Snapshot
    <2>2. alone => \A v \in Writers : v # w => signed[v] = {}
        BY <1>16 DEF IInv, SignedInTime
    <2>. QED BY <1>1, <1>4, <1>9, <1>12, <2>1, <2>2 DEF ComesNext
<1>19. Placed' /\ SerialChainVerifies'
    BY <1>1, <1>9 DEF IInv, Placed, SerialChainVerifies, VerifyAccepts
<1>. QED
    BY <1>8, <1>11, <1>13, <1>14, <1>15, <1>16, <1>17, <1>18, <1>19 DEF IInv

\* The migration moves the old document and changes no event.
LEMMA MigrateStep ==
    ASSUME IInv, NEW w \in Writers, Migrate(w)
    PROVE  IInv'
<1>1. /\ UNCHANGED <<events, now, seen, signed, alone, steady>>
      /\ doing[w] = "migrate"
      /\ aggregate' = IF aggregate = "root" THEN "moved" ELSE aggregate
    BY DEF Migrate
<1>2. /\ doing'[w] = "create"
      /\ \A v \in Writers : v # w => doing'[v] = doing[v]
      /\ doing' \in [Writers -> Tasks]
    BY DEF IInv, TypeOK, Migrate, Proceed, Tasks
<1>3. Visible' = Visible /\ Known' = Known
    BY <1>1 DEF Visible, Known, Pending
<1>4. TypeOK'
    BY <1>1, <1>2 DEF IInv, TypeOK, Places
<1>5. SeenIsStored' /\ SignedInTime' /\ LinksStored' /\ UniqueIds' /\ Dated'
    BY <1>1, <1>2, <1>3 DEF IInv, SeenIsStored, SignedInTime, LinksStored, UniqueIds, Dated
<1>6. Placed' /\ ComesNext' /\ SerialChainVerifies'
    BY <1>1, <1>3 DEF IInv, Placed, ComesNext, SerialChainVerifies, VerifyAccepts
<1>7. Alone' /\ (alone => \A v \in Writers : v # w => doing'[v] = "idle")
    BY <1>1, <1>2, AloneStays
<1>8. Snapshot'
    BY <1>1, <1>2, <1>7 DEF Snapshot
<1>. QED BY <1>4, <1>5, <1>6, <1>7, <1>8 DEF IInv

\* A writer that stores what it signed, or dies, leaves the invariant.
LEMMA StopStep ==
    ASSUME IInv, NEW w \in Writers, EndAppend(w), doing[w] # "idle",
           UNCHANGED <<aggregate, now, alone, steady>>,
           events \subseteq events', events' \subseteq events \cup signed[w],
           alone /\ steady => Continuous(Visible')
    PROVE  IInv'
<1>0. TypeOK /\ Visible = events \cup Legacy /\ Visible' = events' \cup Legacy
    BY VisibleIsBoth DEF IInv, Visible, Placed
<1>1. /\ doing'[w] = "idle" /\ seen'[w] = {} /\ signed'[w] = {}
      /\ \A v \in Writers : v # w =>
             doing'[v] = doing[v] /\ seen'[v] = seen[v] /\ signed'[v] = signed[v]
    BY <1>0 DEF EndAppend, Proceed, TypeOK
<1>2. TypeOK'
    BY <1>0 DEF TypeOK, EndAppend, Proceed, Tasks
<1>3. Visible \subseteq Visible' /\ Known' \subseteq Known
    <2>1. Pending' \subseteq Pending
        BY <1>1 DEF Pending
    <2>2. Visible' \subseteq Visible \cup Pending
        BY <1>0, PendingOf
    <2>. QED BY <1>0, <2>1, <2>2 DEF Known
<1>4. SeenIsStored' /\ SignedInTime'
    BY <1>1, <1>3 DEF IInv, SeenIsStored, SignedInTime
<1>5. LinksStored' /\ UniqueIds' /\ Dated' /\ Placed'
    BY <1>3 DEF IInv, LinksStored, UniqueIds, Dated, Placed
<1>6. Alone' /\ (alone => \A v \in Writers : v # w => doing[v] = "idle" /\ doing'[v] = "idle")
    BY <1>1, AloneStays
<1>7. Snapshot'
    BY <1>1, <1>6 DEF Snapshot
<1>8. ComesNext'
    <2>1. alone => \A v \in Writers : signed'[v] = {}
        BY <1>1, <1>6 DEF IInv, SignedInTime
    <2>. QED BY <2>1 DEF ComesNext
<1>9. SerialChainVerifies'
    BY DEF SerialChainVerifies, VerifyAccepts
<1>. QED BY <1>2, <1>4, <1>5, <1>6, <1>7, <1>8, <1>9 DEF IInv

\* Alone and with a steady clock, a new event continues the chain.
LEMMA CreateContinues ==
    ASSUME IInv, NEW w \in Writers, Create(w), alone, steady
    PROVE  Continuous(Visible')
<1>0. TypeOK /\ Visible = events \cup Legacy /\ Visible \subseteq Event
    BY VisibleIsBoth, LegacyAssumption DEF IInv, TypeOK
<1>1. Visible' = Visible \cup signed[w]
    BY <1>0 DEF Create, Visible
<1>2. Continuous(Visible)
    BY DEF IInv, SerialChainVerifies, VerifyAccepts
<1>3. CASE signed[w] = {}
    BY <1>1, <1>2, <1>3
<1>4. CASE signed[w] # {}
    <2>1. PICK n \in Event : signed[w] = {n}
        BY <1>0, <1>4 DEF TypeOK
    <2>2. n.previous \in LinkTo(Visible) /\ \A f \in Visible : f.time < n.time
        BY <2>1 DEF IInv, ComesNext
    <2>3. Continuous(Visible \cup {n})
        BY <1>0, <1>2, <2>2, ContinuousExtends
    <2>. QED BY <1>1, <2>1, <2>3
<1>. QED BY <1>3, <1>4

\* Every step preserves the invariant.
LEMMA NextIInv == IInv /\ [Next]_vars => IInv'
<1> SUFFICES ASSUME IInv, [Next]_vars PROVE IInv'
    OBVIOUS
<1>1. ASSUME NEW w \in Writers, ReadEvents(w) \/ ReadMoved(w) \/ ReadRoot(w) PROVE IInv'
    BY <1>1, ReadStep
<1>2. ASSUME NEW w \in Writers, Sign(w) PROVE IInv'
    BY <1>2, SignStep
<1>3. ASSUME NEW w \in Writers, Migrate(w) PROVE IInv'
    BY <1>3, MigrateStep
<1>4. ASSUME NEW w \in Writers, Create(w) PROVE IInv'
    <2>1. /\ EndAppend(w) /\ doing[w] # "idle"
          /\ UNCHANGED <<aggregate, now, alone, steady>>
          /\ events' = events \cup signed[w]
        BY <1>4 DEF Create
    <2>. QED BY <1>4, <2>1, CreateContinues, StopStep
<1>5. ASSUME NEW w \in Writers, Crash(w) PROVE IInv'
    <2>1. /\ EndAppend(w) /\ doing[w] # "idle"
          /\ UNCHANGED <<events, aggregate, now, alone, steady>>
        BY <1>5 DEF Crash
    <2>2. alone /\ steady => Continuous(Visible')
        BY <2>1 DEF IInv, SerialChainVerifies, VerifyAccepts, Visible
    <2>. QED BY <2>1, <2>2, StopStep
<1>6. CASE UNCHANGED vars
    <2>1. UNCHANGED <<events, aggregate, now, doing, seen, signed, alone, steady>>
        BY <1>6 DEF vars
    <2>2. Visible' = Visible
        BY <2>1 DEF Visible
    <2>3. About'
        BY <2>1, AboutStays
    <2>4. TypeOK' /\ SeenIsStored' /\ SignedInTime' /\ Alone' /\ Snapshot'
        BY <2>1, <2>2 DEF IInv, TypeOK, SeenIsStored, SignedInTime, Alone, Snapshot
    <2>. QED BY <2>3, <2>4 DEF IInv, About
<1>. QED BY <1>1, <1>2, <1>3, <1>4, <1>5, <1>6 DEF Next

\* The invariant from which the properties of the ledger follow: what a writer has
\* seen is visible, what it signed links to something visible.
THEOREM InductiveInvariant == Spec => []IInv
BY InitIInv, NextIInv, PTL DEF Spec

-----------------------------------------------------------------------------
\* Every variable keeps its type, whatever the appenders do.
THEOREM TypeCorrect == Spec => []TypeOK
<1>1. IInv => TypeOK
    BY DEF IInv
<1>. QED BY <1>1, InductiveInvariant, PTL

\* No event that was stored, or that an older release left, is ever lost.
THEOREM NothingLost == Spec => AppendOnly
<1>1. IInv /\ [Next]_vars => [Visible \subseteq Visible']_vars
    BY VisibleGrows
<1>. QED BY <1>1, InductiveInvariant, PTL DEF Spec, AppendOnly

\* No event of the ledger links to one the ledger does not hold.
THEOREM LinksResolve == Spec => []NoDanglingLink
<1>1. IInv => NoDanglingLink
    BY DEF IInv, LinksStored, Known, NoDanglingLink
<1>. QED BY <1>1, InductiveInvariant, PTL

\* On a clock that goes forward links go back in time, however many append.
THEOREM NoCycle == Spec => []LinksGoBack
<1>1. IInv => LinksGoBack
    <2> SUFFICES ASSUME IInv, steady, NEW e \in Visible, NEW f \in Visible,
                        e.previous = f.id
                 PROVE  f.time < e.time
        BY DEF LinksGoBack
    <2>1. f \in Event
        BY VisibleIsBoth, LegacyAssumption DEF IInv, TypeOK
    <2>2. e.previous # None
        BY <2>1, NoneAssumption DEF Event
    <2>3. PICK g \in Visible : g.id = e.previous /\ g.time < e.time
        BY <2>2 DEF IInv, LinksStored, Known
    <2>4. g = f
        BY <2>3 DEF IInv, UniqueIds, Known
    <2>. QED BY <2>3, <2>4
<1>. QED BY <1>1, InductiveInvariant, PTL

\* One process at a time on a clock that goes forward writes one hash chain,
\* across crashes and across the migration of an older release's document.
THEOREM SerialChain == Spec => []SerialChainVerifies
<1>1. IInv => SerialChainVerifies
    BY DEF IInv
<1>. QED BY <1>1, InductiveInvariant, PTL

-----------------------------------------------------------------------------
(* One root: the order of read_all has a last event wherever there is one.  *)

\* Events are compared by numbers.
LEMMA EventNumbers ==
    ASSUME NEW e \in Event
    PROVE  e.time \in Int /\ e.id \in Int
<1>1. e.time \in Times /\ e.id \in Ids
    BY DEF Event
<1>2. e.time \in Int
    BY <1>1, TimeAssumption DEF Times
<1>3. e.id \in Int
    BY <1>1, IdAssumption
<1>. QED BY <1>2, <1>3

\* Different hashes are ordered, and the order is transitive.
LEMMA Ordered ==
    ASSUME NEW e \in Event, NEW f \in Event, NEW g \in Event
    PROVE  /\ e.id # f.id => Before(e, f) \/ Before(f, e)
           /\ Before(e, f) /\ Before(f, g) => Before(e, g)
BY EventNumbers DEF Before

\* Of a set without a last event, drop any event and one with fewer events is left that has none.
LEMMA HasLast ==
    ASSUME NEW E \in SUBSET Event, IsFiniteSet(E), E # {},
           \A e, f \in E : e.id = f.id => e = f
    PROVE  LastOf(E) # {}
<1> SUFFICES ASSUME LastOf(E) = {} PROVE FALSE
    OBVIOUS
<1> DEFINE D == {n \in Nat : \E S \in SUBSET E : S # {} /\ LastOf(S) = {} /\ Cardinality(S) = n}
<1>1. D \subseteq Nat /\ D # {}
    <2>1. Cardinality(E) \in Nat
        BY FS_CardinalityType
    <2>2. Cardinality(E) \in D
        BY <2>1
    <2>. QED BY <2>2
<1>2. PICK n \in D : \A k \in D : <<k, n>> \notin OpToRel(<, Nat)
    BY <1>1, NatLessThanWellFounded, WFMin, Zenon
<1>3. \A k \in D : ~(k < n)
    BY <1>1, <1>2, Zenon DEF OpToRel
<1>4. n \in Nat /\ \E S \in SUBSET E : S # {} /\ LastOf(S) = {} /\ Cardinality(S) = n
    BY <1>2
<1>5. PICK S \in SUBSET E : S # {} /\ LastOf(S) = {} /\ Cardinality(S) = n
    BY <1>4
<1>6. PICK e \in S : TRUE
    BY <1>5
<1> DEFINE T == S \ {e}
<1>7. T # {}
    <2> SUFFICES ASSUME S = {e} PROVE FALSE
        BY <1>6
    <2>. QED BY <1>5 DEF LastOf
<1>8. Cardinality(T) \in Nat /\ Cardinality(T) < n
    <2>1. IsFiniteSet(S)
        BY FS_Subset
    <2>2. IsFiniteSet(T) /\ Cardinality(T) = Cardinality(S) - 1
        BY <1>6, <2>1, FS_RemoveElement
    <2>3. Cardinality(T) \in Nat
        BY <2>2, FS_CardinalityType
    <2>. QED BY <1>4, <1>5, <2>2, <2>3
<1>9. PICK m \in T : \A f \in T : f = m \/ Before(f, m)
    <2>1. LastOf(T) # {}
        <3> SUFFICES ASSUME LastOf(T) = {} PROVE FALSE
            OBVIOUS
        <3>1. T \in SUBSET E
            OBVIOUS
        <3> HIDE DEF T
        <3>2. Cardinality(T) \in D
            BY <1>7, <1>8, <3>1
        <3> HIDE DEF D
        <3>. QED BY <1>3, <1>8, <3>2
    <2>. QED BY <2>1 DEF LastOf
<1>10. /\ e \in Event /\ m \in Event /\ \A f \in S : f \in Event
       /\ m \in S /\ e \in S /\ e # m /\ e.id # m.id
    BY <1>6, <1>9
<1>11. CASE Before(m, e)
    <2>1. \A f \in S : f = e \/ Before(f, e)
        BY <1>9, <1>10, <1>11, Ordered
    <2>. QED BY <1>5, <1>10, <2>1 DEF LastOf
<1>12. CASE Before(e, m)
    <2>1. \A f \in S : f = m \/ Before(f, m)
        BY <1>9, <1>12
    <2>. QED BY <1>5, <1>10, <2>1 DEF LastOf
<1>. QED BY <1>10, <1>11, <1>12, Ordered

\* Where there are events, a new one links to one of them.
LEMMA LinksToSome ==
    ASSUME NEW E \in SUBSET Event, IsFiniteSet(E), E # {},
           \A e, f \in E : e.id = f.id => e = f
    PROVE  None \notin LinkTo(E)
<1>1. LastOf(E) # {} /\ LastOf(E) \subseteq E
    BY HasLast DEF LastOf
<1>2. LinkTo(E) = {e.id : e \in LastOf(E)}
    BY <1>1 DEF LinkTo
<1>3. \A e \in E : e.id \in Ids
    BY DEF Event
<1>. QED BY <1>1, <1>2, <1>3, NoneAssumption

RootInv == IsFiniteSet(events) /\ OneRoot

\* The document of an older release has one root at most: it was written in order.
LEMMA InitRootInv == Init => RootInv
<1> SUFFICES ASSUME Init PROVE RootInv
    OBVIOUS
<1>1. IsFiniteSet(events) /\ Visible \subseteq Legacy
    BY FS_EmptySet DEF Init, Visible
<1>2. ASSUME NEW e \in Legacy, e.previous = None
      PROVE  {g \in Legacy : Before(g, e)} = {}
    <2> DEFINE F == {g \in Legacy : Before(g, e)}
    <2>1. None \in LinkTo(F)
        BY <1>2, LegacyAssumption DEF Continuous
    <2>2. F \in SUBSET Event /\ F \subseteq Legacy /\ \A f, g \in F : f.id = g.id => f = g
        BY LegacyAssumption
    <2>3. IsFiniteSet(F)
        BY <2>2, LegacyAssumption, FS_Subset
    <2> HIDE DEF F
    <2>4. F = {}
        BY <2>1, <2>2, <2>3, LinksToSome
    <2>. QED BY <2>4 DEF F
<1>3. ASSUME NEW e \in Legacy, NEW f \in Legacy, e.previous = None, f.previous = None
      PROVE  e = f
    <2>1. ~Before(e, f) /\ ~Before(f, e)
        BY <1>2, <1>3
    <2>2. e.id = f.id
        BY <2>1, LegacyAssumption, Ordered
    <2>. QED BY <2>2, LegacyAssumption
<1>. QED BY <1>1, <1>3 DEF RootInv, OneRoot

\* Who appends alone has read an event whenever there is one, and links to it.
LEMMA NextRootInv ==
    ASSUME IInv, RootInv, [Next]_vars
    PROVE  RootInv'
<1>1. /\ Visible = events \cup Legacy /\ Visible' = events' \cup Legacy /\ alone' = alone
      /\ TypeOK /\ Visible \in SUBSET Event
    BY VisibleIsBoth, PlacedStays, EventsGrow, LegacyAssumption DEF IInv, TypeOK
<1>2. CASE \E w \in Writers : Create(w)
    <2>1. PICK w \in Writers : Create(w)
        BY <1>2
    <2>2. events' = events \cup signed[w]
        BY <2>1 DEF Create
    <2>3. CASE signed[w] = {}
        BY <1>1, <2>2, <2>3 DEF RootInv, OneRoot
    <2>4. CASE signed[w] # {}
        <3>1. PICK n \in Event : signed[w] = {n}
            BY <1>1, <2>4 DEF TypeOK
        <3>2. IsFiniteSet(events')
            BY <2>2, <3>1, FS_AddElement DEF RootInv
        <3>3. alone => n.previous \in LinkTo(Visible)
            BY <3>1 DEF IInv, ComesNext
        <3>4. IsFiniteSet(Visible)
            BY <1>1, LegacyAssumption, FS_Union DEF RootInv
        <3>5. \A e, f \in Visible : e.id = f.id => e = f
            BY DEF IInv, UniqueIds, Known
        <3>6. alone /\ Visible # {} => n.previous # None
            BY <1>1, <3>3, <3>4, <3>5, LinksToSome
        <3>7. Visible' = Visible \cup {n}
            BY <1>1, <2>2, <3>1
        <3>8. OneRoot'
            BY <1>1, <3>6, <3>7 DEF RootInv, OneRoot
        <3>. QED BY <3>2, <3>8 DEF RootInv
    <2>. QED BY <2>3, <2>4
<1>3. CASE ~ \E w \in Writers : Create(w)
    <2>1. events' = events
        BY <1>3 DEF Next, vars, ReadEvents, ReadMoved, ReadRoot, Sign, Migrate, Crash
    <2>2. Visible' = Visible
        BY <1>1, <2>1
    <2>. QED BY <1>1, <2>1, <2>2 DEF RootInv, OneRoot
<1>. QED BY <1>2, <1>3

\* One process at a time starts at most one history (LedgerStore::append links to
\* the last event it reads), even when its clock is set back and while the old
\* aggregate is being moved.
THEOREM OneHistory == Spec => []OneRoot
<1>1. IInv /\ RootInv /\ [Next]_vars => (IInv /\ RootInv)'
    BY NextIInv, NextRootInv
<1>2. RootInv => OneRoot
    BY DEF RootInv
<1>. QED BY <1>1, <1>2, InitIInv, InitRootInv, PTL DEF Spec

=============================================================================
