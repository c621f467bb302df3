------------------------------- MODULE Capture ------------------------------
(***************************************************************************)
(* Capture of who wrote what: the session commands (start, run, checkpoint,*)
(* close, watch) and the agents' hooks, which all append to one ledger.    *)
(*                                                                         *)
(* A session is known by its SessionStarted event and by session.json,     *)
(* which each command reads when it begins and `run` writes back when its  *)
(* program has ended.  The watcher of a human session reports every write  *)
(* it notices as unknown.  A checkpoint (and an agent's Stop hook) reports *)
(* the changed paths and derives a review plan from the session's events;  *)
(* the plan is published when these explain every change.                  *)
(*                                                                         *)
(* HEAD stays where it is and events are read in the order they were       *)
(* appended (see Ledger for what clocks and crashes do to that); events    *)
(* that neither explain a path nor delimit a session are left out, and a   *)
(* write is a path whose content comes to differ from HEAD's.              *)
(*                                                                         *)
(* An agent names the files it writes as it likes, and a name stands for   *)
(* every path of the worktree that it ends with.                           *)
(***************************************************************************)
EXTENDS Naturals, Sequences

CONSTANTS
    Shells,         \* processes that run session commands
    Hooks,          \* processes that agents run for their hooks
    Paths,          \* files of the worktree
    Reports,        \* names that agents report their writes under
    Endings,        \* <<n, q>>: the name n ends with "/" and the name q
    Relative,       \* name -> the name without the worktree's prefix or "./"
    Agents,         \* sessions as the agents name them
    Crews,          \* which of them are at work together
    MaxEvents,      \* crew -> bound on ledger events
    MaxSessions     \* bound on sessions

\* Files as they are named in events.
Names == Paths \cup Reports

ASSUME CaptureAssumption ==
    /\ Crews \subseteq SUBSET (Shells \cup Hooks)
    /\ MaxEvents \in [Crews -> Nat] /\ MaxSessions \in Nat
    /\ Endings \subseteq Names \X Names
    /\ \A m, n, q \in Names :
          <<m, n>> \in Endings /\ <<n, q>> \in Endings => <<m, q>> \in Endings
    /\ Relative \in [Names -> Names]
    /\ \A n \in Names : Relative[n] = n \/ <<n, Relative[n]>> \in Endings
    /\ \A q \in Paths : Relative[q] = q

VARIABLES
    trail,          \* the ledger
    sessionFile,    \* session.json: {} or {[session, observed]}
    dirty,          \* changed_paths: what differs from HEAD
    watcher,        \* session -> its watcher: none, starting, watching, ended
    noticed,        \* session -> paths its watcher has yet to report
    at,             \* where each process is
    holds,          \* what it has read
    crew,           \* who is at work, chosen in Init
    mediated        \* names of what was dirtied while a captured program ran, or
                    \* reported by a hook: what the code has a reason to trust

captureVars == <<trail, sessionFile, dirty, watcher, noticed, at, holds, crew, mediated>>

Sessions == 1..MaxSessions
Nothing == <<>>

Started(s) == [kind |-> "started", session |-> s]
Closed(s) == [kind |-> "closed", session |-> s]
Observed(P, u) == [kind |-> "observed", paths |-> P, unknown |-> u]
Linked(a, s) == [kind |-> "linked", agent |-> a, session |-> s]
Wrote(S, q) == [kind |-> "wrote", sessions |-> S, path |-> q]
Planned(s, C) == [kind |-> "planned", session |-> s, changes |-> C]

EventsOf(log, k) == {i \in DOMAIN log : log[i].kind = k}
Known(log) == {log[i].session : i \in EventsOf(log, "started")}

\* linked_agent_session: the newest link, as a set.
LinkedSession(a) ==
    LET links == {i \in EventsOf(trail, "linked") : trail[i].agent = a} IN
    {trail[i].session : i \in {j \in links : \A k \in links : k <= j}}

\* session_events: from the session's newest start to its close, or to the start
\* of another session.
SessionEvents(s) ==
    LET starts == {i \in EventsOf(trail, "started") : trail[i].session = s}
        start == CHOOSE i \in starts : \A j \in starts : j <= i
        ends == {i \in DOMAIN trail :
                    /\ i > start
                    /\ \/ trail[i] = Closed(s)
                       \/ trail[i].kind = "started" /\ trail[i].session # s} IN
    {i \in DOMAIN trail : i >= start /\ \A j \in ends : i < j}

\* repository_path_matches, for some name of N: it is the path q or ends with it.
Named(q, N) == \E n \in N : n = q \/ <<n, q>> \in Endings

\* causal_coverage_milli is 1000: some event names each change, no path was last
\* seen written by somebody unknown, and no agent acted unbound.
FullyCovered(C, E) ==
    LET observations == {i \in E : trail[i].kind = "observed"}
        writes == {i \in E : trail[i].kind = "wrote"}
        explained == (UNION {trail[i].paths : i \in observations})
                     \cup {trail[i].path : i \in {j \in writes : trail[j].sessions # {}}}
    IN
    /\ \A q \in C : Named(q, explained)
    /\ \A i \in observations : trail[i].unknown =>
          \A q \in trail[i].paths :
              \E j \in observations : j > i /\ q \in trail[j].paths /\ ~trail[j].unknown
    /\ \A i \in writes : trail[i].sessions # {}

-----------------------------------------------------------------------------
CaptureInit ==
    /\ trail = <<>> /\ sessionFile = {} /\ dirty = {} /\ mediated = {}
    /\ watcher = [s \in Sessions |-> "none"]
    /\ noticed = [s \in Sessions |-> {}]
    /\ at = [p \in Shells \cup Hooks |-> "shell"]
    /\ holds = [p \in Shells \cup Hooks |-> Nothing]
    /\ crew \in Crews

On(p, step, value) ==
    /\ at' = [at EXCEPT ![p] = step]
    /\ holds' = [holds EXCEPT ![p] = value]
    /\ UNCHANGED crew

LeaveShell(p) == On(p, "shell", Nothing)

Capturing(e) ==
    /\ Len(trail) < MaxEvents[crew]
    /\ trail' = Append(trail, e)

\* A new identity: the session whose start is appended next.
NewSession == Len(SelectSeq(trail, LAMBDA e : e.kind = "started")) + 1

worktree == <<dirty, mediated, noticed>>

-----------------------------------------------------------------------------
(* session start: the event, the file, the watcher of a human session.      *)

StartSession(p) ==
    /\ at[p] = "shell" /\ NewSession <= MaxSessions
    /\ Capturing(Started(NewSession))
    /\ On(p, "started", [session |-> NewSession])
    /\ UNCHANGED <<sessionFile, watcher, worktree>>

\* The watcher's start may fail; a session of an agent's origin has none.
WriteSession(p) ==
    /\ at[p] = "started"
    /\ sessionFile' = {[session |-> holds[p].session, observed |-> {}]}
    /\ watcher' \in {watcher, [watcher EXCEPT ![holds[p].session] = "starting"]}
    /\ LeaveShell(p)
    /\ UNCHANGED <<trail, worktree>>

-----------------------------------------------------------------------------
(* session run, and session agent: a captured program.                      *)

\* open_ledger and changed_paths, then the program runs.
RunProgram(p) ==
    /\ at[p] = "shell"
    /\ \E f \in sessionFile : On(p, "running", [state |-> f, before |-> dirty])
    /\ UNCHANGED <<trail, sessionFile, watcher, worktree>>

Reporting(p, modified) ==
    LET f == holds[p].state IN
    /\ at[p] = "running"
    /\ Capturing(Observed(modified, FALSE))
    /\ On(p, "reported", [f EXCEPT !.observed = @ \cup modified])
    /\ UNCHANGED <<sessionFile, watcher, worktree>>

\* record_known_changes without leaving out what was changed before.
ReportRunAll(p) == Reporting(p, dirty)

\* record_known_changes: what is changed now and was not before.
ReportRun(p) == Reporting(p, dirty \ holds[p].before)

\* The state read at the beginning is written back with the new paths.
RewriteSession(p) ==
    /\ at[p] = "reported"
    /\ sessionFile' = {holds[p]}
    /\ LeaveShell(p)
    /\ UNCHANGED <<trail, watcher, worktree>>

-----------------------------------------------------------------------------
(* session checkpoint and session close.                                    *)

ReadCheckpoint(p) ==
    /\ at[p] = "shell"
    /\ \E f \in sessionFile :
          On(p, "checkpoint", [session |-> f.session, changes |-> dirty,
                               unknown |-> ~(dirty \subseteq f.observed)])
    /\ UNCHANGED <<trail, sessionFile, watcher, worktree>>

\* A checkpoint and a Stop hook report all that is changed, as one observation.
ReportChanges(p) ==
    /\ at[p] = "checkpoint"
    /\ Capturing(Observed(holds[p].changes, holds[p].unknown))
    /\ On(p, "derive", [session |-> holds[p].session])
    /\ UNCHANGED <<sessionFile, watcher, worktree>>

\* derive_review_plan looks at the worktree and the ledger again.
DerivePlan(p) ==
    /\ at[p] = "derive"
    /\ LET s == holds[p].session IN
       IF dirty # {} /\ s \in Known(trail) /\ FullyCovered(dirty, SessionEvents(s))
       THEN Capturing(Planned(s, dirty))
       ELSE UNCHANGED trail
    /\ LeaveShell(p)
    /\ UNCHANGED <<sessionFile, watcher, worktree>>

CloseSession(p) ==
    /\ at[p] = "shell"
    /\ \E f \in sessionFile : Capturing(Closed(f.session))
    /\ On(p, "remove", Nothing)
    /\ UNCHANGED <<sessionFile, watcher, worktree>>

RemoveSession(p) ==
    /\ at[p] = "remove"
    /\ sessionFile' = {}
    /\ LeaveShell(p)
    /\ UNCHANGED <<trail, watcher, worktree>>

-----------------------------------------------------------------------------
(* record_agent_hook, for the hooks of one agent session.                   *)

\* SessionStart of an agent session that is not linked yet, the link first.
HookStartLinkFirst(p, a) ==
    /\ at[p] = "shell" /\ LinkedSession(a) = {} /\ NewSession <= MaxSessions
    /\ Capturing(Linked(a, NewSession))
    /\ On(p, "link", [event |-> Started(NewSession)])
    /\ UNCHANGED <<sessionFile, watcher, worktree>>

\* SessionStart of an agent session that is not linked yet.
HookStart(p, a) ==
    /\ at[p] = "shell" /\ LinkedSession(a) = {}
    /\ On(p, "hook", [agent |-> a])
    /\ UNCHANGED <<trail, sessionFile, watcher, worktree>>

HookStarted(p) ==
    /\ at[p] = "hook" /\ NewSession <= MaxSessions
    /\ Capturing(Started(NewSession))
    /\ On(p, "link", [event |-> Linked(holds[p].agent, NewSession)])
    /\ UNCHANGED <<sessionFile, watcher, worktree>>

HookLink(p) ==
    /\ at[p] = "link"
    /\ Capturing(holds[p].event)
    /\ LeaveShell(p)
    /\ UNCHANGED <<sessionFile, watcher, worktree>>

\* A tool wrote a file: bind_agent_session binds the report to the linked session.
HookWrote(p, a, n) ==
    /\ at[p] = "shell"
    /\ Capturing(Wrote(LinkedSession(a), n))
    /\ mediated' = mediated \cup {n}
    /\ UNCHANGED <<sessionFile, dirty, noticed, watcher, at, holds, crew>>

\* observed_agent_paths.
ObservedAgentPaths(s) ==
    {Relative[trail[i].path] : i \in {j \in EventsOf(trail, "wrote") : s \in trail[j].sessions}}

\* Stop: record_agent_snapshot and then the plan, like a checkpoint.
HookStop(p, a) ==
    /\ at[p] = "shell"
    /\ \E s \in LinkedSession(a) \cap Known(trail) :
          On(p, "checkpoint", [session |-> s, changes |-> dirty,
                               unknown |-> \E q \in dirty : ~Named(q, ObservedAgentPaths(s))])
    /\ UNCHANGED <<trail, sessionFile, watcher, worktree>>

-----------------------------------------------------------------------------
(* session watch, a process of its own.                                     *)

OpenWatch(s) ==
    /\ watcher[s] = "starting"
    /\ watcher' = [watcher EXCEPT ![s] = IF sessionFile = {} THEN "ended" ELSE "watching"]
    /\ UNCHANGED <<trail, sessionFile, worktree, at, holds, crew>>

\* Blocking until something was written.
WatchBlocking(s) ==
    /\ watcher[s] = "watching" /\ noticed[s] # {}
    /\ IF sessionFile = {}
       THEN watcher' = [watcher EXCEPT ![s] = "ended"] /\ UNCHANGED <<trail, noticed>>
       ELSE /\ Capturing(Observed(noticed[s], TRUE))
            /\ noticed' = [noticed EXCEPT ![s] = {}]
            /\ UNCHANGED watcher
    /\ UNCHANGED <<sessionFile, dirty, mediated, at, holds, crew>>

\* A turn of the loop; writes noticed after the last turn are not reported.
Watch(s) ==
    /\ watcher[s] = "watching"
    /\ IF sessionFile = {}
       THEN watcher' = [watcher EXCEPT ![s] = "ended"] /\ UNCHANGED <<trail, noticed>>
       ELSE /\ noticed[s] # {}
            /\ Capturing(Observed(noticed[s], TRUE))
            /\ noticed' = [noticed EXCEPT ![s] = {}]
            /\ UNCHANGED watcher
    /\ UNCHANGED <<sessionFile, dirty, mediated, at, holds, crew>>

-----------------------------------------------------------------------------
\* Somebody, captured or not, changes a file or takes the change back.
Touch(q) ==
    /\ dirty' = IF q \in dirty THEN dirty \ {q} ELSE dirty \cup {q}
    /\ mediated' = IF q \notin dirty /\ \E p \in Shells : at[p] = "running"
                   THEN mediated \cup {q} ELSE mediated
    /\ noticed' = [s \in Sessions |-> IF watcher[s] = "watching" THEN noticed[s] \cup {q}
                                      ELSE noticed[s]]
    /\ UNCHANGED <<trail, sessionFile, watcher, at, holds, crew>>

\* A command or hook dies or fails.
DieCapturing(p) ==
    /\ at[p] # "shell"
    /\ LeaveShell(p)
    /\ UNCHANGED <<trail, sessionFile, watcher, worktree>>

CaptureNext ==
    \/ \E p \in Shells \cap crew :
        \/ StartSession(p) \/ WriteSession(p)
        \/ RunProgram(p) \/ ReportRun(p) \/ RewriteSession(p)
        \/ ReadCheckpoint(p)
        \/ CloseSession(p) \/ RemoveSession(p)
    \/ \E p \in Hooks \cap crew :
        \/ \E a \in Agents :
              \/ HookStart(p, a) \/ HookStop(p, a)
              \/ \E n \in Reports : HookWrote(p, a, n)
        \/ HookStarted(p) \/ HookLink(p)
    \/ \E p \in crew : ReportChanges(p) \/ DerivePlan(p) \/ DieCapturing(p)
    \/ \E s \in Sessions : OpenWatch(s) \/ Watch(s)
    \/ \E q \in Paths : Touch(q)

\* The watcher polls; nothing else has to happen.
Poll(s) == OpenWatch(s) \/ Watch(s)

CaptureSpec ==
    /\ CaptureInit /\ [][CaptureNext]_captureVars
    /\ \A s \in Sessions : WF_captureVars(Poll(s))

-----------------------------------------------------------------------------
\* Full coverage is never claimed for a path that nothing mediated names: in a
\* published plan every changed file has the name, or the end of the name, of a file
\* that came to be changed while a captured program ran or that an agent's hook
\* reported, however commands, hooks, watchers and editors interleave and whatever
\* dies.
CoverageSound ==
    \A i \in EventsOf(trail, "planned") : \A q \in trail[i].changes : Named(q, mediated)

\* The comment of causal_coverage_milli says more: "an unrelated human/editor write
\* remains a hard coverage failure at checkpoint time", that is, every changed file
\* of a published plan is itself one that was mediated.
UnrelatedWritesFail ==
    \A i \in EventsOf(trail, "planned") :
        trail[i].changes \subseteq {Relative[n] : n \in mediated}

\* A hook that dies or races never leaves a link to a session that has no start:
\* a later hook of that agent would find the link and fail on it for good.
LinksAreStarted ==
    \A i \in EventsOf(trail, "linked") :
        \E j \in EventsOf(trail, "started") : j < i /\ trail[j].session = trail[i].session

\* When session.json is gone for good no watcher is left running.
WatchersEnd ==
    \A s \in Sessions :
        <>[](sessionFile = {}) => <>[](watcher[s] \notin {"starting", "watching"})

=============================================================================
