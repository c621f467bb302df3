------------------------------- MODULE Ledger -------------------------------
(***************************************************************************)
(* The signed provenance ledger in Git refs.                               *)
(*                                                                         *)
(* Every event owns one ref under refs/orkia/ledger/events.  There is no   *)
(* stored order: readers sort the events by their time stamp and then by   *)
(* actor, id and hash, and an appender links its event to the last one of  *)
(* that order.  Reading, stamping and storing are separate steps of a      *)
(* process; hooks, the workspace watcher, commands and the server append   *)
(* to one repository without a lock, each with its machine's wall clock.   *)
(* An aggregate document of older releases is read where it is found and   *)
(* moved out of the way (a Git ref cannot also be a directory) by the      *)
(* first append.                                                           *)
(*                                                                         *)
(* alone and steady are chosen once, in Init: whether one process at a     *)
(* time uses the ledger, and whether the clock only goes forward.          *)
(***************************************************************************)
EXTENDS Integers, FiniteSets

CONSTANTS
    Writers,        \* processes that append
    Ids,            \* event identities: numbers standing for the (actor, id,
                    \* hash) part of the sort key, drawn at random by the code
    None,           \* the previous_hash of a first event
    Legacy,         \* the events of the aggregate document
    Start,          \* the time of the upgrade: no older event is stamped later
    MaxTime         \* bound on the time stamps

ASSUME IdAssumption == Ids \subseteq Int
ASSUME NoneAssumption == None \notin Ids
ASSUME TimeAssumption == MaxTime \in Nat /\ Start \in 0..MaxTime

Times == 0..MaxTime
Event == [id : Ids, time : Times, previous : Ids \cup {None}]

\* The order of read_all: by time, then by the rest of the key.
Before(e, f) == e.time < f.time \/ (e.time = f.time /\ e.id < f.id)

\* The last event of a set in that order, as a set: empty when the set is.
LastOf(E) == {e \in E : \A f \in E : f = e \/ Before(f, e)}

\* What links to the last of E: its hash, or nothing to link to.
LinkTo(E) == IF LastOf(E) = {} THEN {None} ELSE {e.id : e \in LastOf(E)}

\* The aggregate document was written by one process in order.
Continuous(E) == \A e \in E : e.previous \in LinkTo({f \in E : Before(f, e)})

ASSUME LegacyAssumption ==
    /\ Legacy \subseteq Event
    /\ IsFiniteSet(Legacy)
    /\ \A e \in Legacy : e.time <= Start
    /\ \A e, f \in Legacy : e.id = f.id => e = f
    /\ \A e, f \in Legacy : e.previous = f.id => f.time < e.time
    /\ Continuous(Legacy)

VARIABLES
    events,         \* events with a ref of their own
    aggregate,      \* where the aggregate document is: "none", "root", "moved"
    now,            \* the last time the clock was read
    doing,          \* where each writer is
    seen,           \* what each writer has read so far
    signed,         \* the event each writer is about to store, as a set
    alone,          \* one process at a time
    steady          \* the clock only goes forward

vars == <<events, aggregate, now, doing, seen, signed, alone, steady>>

Places == {"none", "root", "moved"}
Tasks == {"idle", "moved", "root", "sign", "migrate", "create"}

-----------------------------------------------------------------------------
\* What read_all returns when nothing moves while it reads.
Visible == events \cup (IF aggregate = "none" THEN {} ELSE Legacy)

\* verify_chain, as far as the links go: each event names its predecessor in
\* the sorted order.  (Hashes and signatures are taken to be sound.)
VerifyAccepts == Continuous(Visible)

-----------------------------------------------------------------------------
Init ==
    /\ events = {}
    /\ aggregate \in IF Legacy = {} THEN {"none"} ELSE {"root"}
    /\ now = Start
    /\ doing = [w \in Writers |-> "idle"]
    /\ seen = [w \in Writers |-> {}]
    /\ signed = [w \in Writers |-> {}]
    /\ alone \in BOOLEAN
    /\ steady \in BOOLEAN

Proceed(w, step) == doing' = [doing EXCEPT ![w] = step]

Sees(w, E) == seen' = [seen EXCEPT ![w] = @ \cup E]

EndAppend(w) ==
    /\ Proceed(w, "idle")
    /\ seen' = [seen EXCEPT ![w] = {}]
    /\ signed' = [signed EXCEPT ![w] = {}]

\* Reading every blob an appender has written, with a ref or without.
ReadEventsUnstored(w) ==
    /\ doing[w] = "idle"
    /\ alone => \A v \in Writers : doing[v] = "idle"
    /\ Sees(w, events \cup UNION {signed[v] : v \in Writers})
    /\ Proceed(w, "moved")
    /\ UNCHANGED <<events, aggregate, now, signed, alone, steady>>

\* append starts by reading the event refs ...
ReadEvents(w) ==
    /\ doing[w] = "idle"
    /\ alone => \A v \in Writers : doing[v] = "idle"
    /\ Sees(w, events)
    /\ Proceed(w, "moved")
    /\ UNCHANGED <<events, aggregate, now, signed, alone, steady>>

\* ... then the aggregate document at its new place ...
ReadMoved(w) ==
    /\ doing[w] = "moved"
    /\ IF aggregate = "moved"
       THEN Sees(w, Legacy) /\ Proceed(w, "sign")
       ELSE Proceed(w, "root") /\ UNCHANGED seen
    /\ UNCHANGED <<events, aggregate, now, signed, alone, steady>>

\* A reader that only knows the new place.
ReadRootForgotten(w) ==
    /\ doing[w] = "root"
    /\ Proceed(w, "sign")
    /\ UNCHANGED <<events, aggregate, now, seen, signed, alone, steady>>

\* ... then, when it was not there, at its old one.
ReadRoot(w) ==
    /\ doing[w] = "root"
    /\ Sees(w, IF aggregate = "root" THEN Legacy ELSE {})
    /\ Proceed(w, "sign")
    /\ UNCHANGED <<events, aggregate, now, signed, alone, steady>>

Fresh(i) ==
    \A e \in events \cup Legacy \cup UNION {signed[v] : v \in Writers} : e.id # i

\* Stamping before the ledger is read: the clock can be older than what is seen.
SignEarlier(w) ==
    /\ doing[w] = "sign"
    /\ \E i \in Ids, t \in Times, l \in LinkTo(seen[w]) :
          /\ Fresh(i)
          /\ t <= now
          /\ now' = now
          /\ signed' = [signed EXCEPT ![w] = {[id |-> i, time |-> t, previous |-> l]}]
    /\ Proceed(w, "migrate")
    /\ UNCHANGED <<events, aggregate, seen, alone, steady>>

\* A stamp rounded up to the next tick of the clock.
SignAhead(w) ==
    /\ doing[w] = "sign"
    /\ \E i \in Ids, t \in Times, l \in LinkTo(seen[w]) :
          /\ Fresh(i)
          /\ steady => t > now
          /\ now' = t
          /\ signed' = [signed EXCEPT ![w] = {[id |-> i, time |-> t + 1, previous |-> l]}]
    /\ Proceed(w, "migrate")
    /\ UNCHANGED <<events, aggregate, seen, alone, steady>>

\* The event is stamped and linked to the last event seen.
Sign(w) ==
    /\ doing[w] = "sign"
    /\ \E i \in Ids, t \in Times, l \in LinkTo(seen[w]) :
          /\ Fresh(i)
          /\ steady => t > now
          /\ now' = t
          /\ signed' = [signed EXCEPT ![w] = {[id |-> i, time |-> t, previous |-> l]}]
    /\ Proceed(w, "migrate")
    /\ UNCHANGED <<events, aggregate, seen, alone, steady>>

\* Dropping the old ref to make room, without keeping what it pointed at.
MigrateByDeleting(w) ==
    /\ doing[w] = "migrate"
    /\ aggregate' = IF aggregate = "root" THEN "none" ELSE aggregate
    /\ Proceed(w, "create")
    /\ UNCHANGED <<events, now, seen, signed, alone, steady>>

\* migrate_legacy_ledger_ref: the old root becomes the new place.
Migrate(w) ==
    /\ doing[w] = "migrate"
    /\ aggregate' = IF aggregate = "root" THEN "moved" ELSE aggregate
    /\ Proceed(w, "create")
    /\ UNCHANGED <<events, now, seen, signed, alone, steady>>

\* The event's own ref, named by its hash and created without force.
Create(w) ==
    /\ doing[w] = "create"
    /\ events' = events \cup signed[w]
    /\ EndAppend(w)
    /\ UNCHANGED <<aggregate, now, alone, steady>>

\* The process dies: an event that was signed and not stored never existed.
Crash(w) ==
    /\ doing[w] # "idle"
    /\ EndAppend(w)
    /\ UNCHANGED <<events, aggregate, now, alone, steady>>

Next ==
    \E w \in Writers :
        \/ ReadEvents(w) \/ ReadMoved(w) \/ ReadRoot(w)
        \/ Sign(w) \/ Migrate(w) \/ Create(w)
        \/ Crash(w)

Spec == Init /\ [][Next]_vars

-----------------------------------------------------------------------------
TypeOK ==
    /\ events \subseteq Event
    /\ aggregate \in Places
    /\ now \in Times
    /\ doing \in [Writers -> Tasks]
    /\ seen \in [Writers -> SUBSET Event]
    /\ signed \in [Writers -> {{}} \cup {{e} : e \in Event}]
    /\ alone \in BOOLEAN
    /\ steady \in BOOLEAN

\* Whoever races or dies, and while the old aggregate is being moved, no event
\* is ever lost from the ledger.
AppendOnly == [][Visible \subseteq Visible']_vars

\* An event links only to an event the ledger holds, however many processes
\* append and crash: what was signed but never stored is never linked to.
NoDanglingLink ==
    \A e \in Visible :
        e.previous # None => \E f \in Visible : f.id = e.previous

\* While the clock goes forward a link goes back in time, so the links of
\* concurrent appenders may fork but never form a cycle.
LinksGoBack ==
    steady => \A e, f \in Visible : e.previous = f.id => f.time < e.time

\* One process at a time starts at most one history, even when its clock is set
\* back and even while the old aggregate is being moved.
OneRoot ==
    alone => \A e, f \in Visible : e.previous = None /\ f.previous = None => e = f

\* One process at a time on a clock that goes forward: `orkia ledger verify`
\* accepts what they wrote, after any crash and across the migration.
SerialChainVerifies == alone /\ steady => VerifyAccepts

\* The ledger is one hash chain, whoever appends to it.
SteadyChainVerifies == steady => VerifyAccepts
=============================================================================
