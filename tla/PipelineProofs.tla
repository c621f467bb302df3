---------------------------- MODULE PipelineProofs ---------------------------
(***************************************************************************)
(* Proofs about what is made of a file that was written.  Capture: for any *)
(* number of shells, hooks, files and agents at work, whatever interleaves *)
(* and dies, every file a published plan claims goes by a name that was    *)
(* mediated, and a link names a session that was started.  Planning: for   *)
(* any files, boundaries and references, the units keep together what      *)
(* belongs together, a plan is refused for a loop only, and always when    *)
(* two units of a file hold a local import, an order is found exactly when *)
(* there is no loop and follows every dependency, and an opened review     *)
(* stands on one line of branches and waits for no other repository.       *)
(***************************************************************************)
EXTENDS Capture, Planning, FiniteSetTheorems, WellFoundedInduction, SequenceTheorems, TLAPS

Actors == Shells \cup Hooks

CaptureShape ==
    /\ \E S : trail \in Seq(S)
    /\ DOMAIN at = Actors /\ DOMAIN holds = Actors /\ crew \subseteq Actors
    /\ dirty \subseteq Paths

\* The files that the names in M stand for.
Cover(M) == {q \in Names : Named(q, M)}

\* What an event of the ledger says of who wrote a path is backed by M, what was mediated.
Backed(e, M) ==
    /\ e.kind = "observed" /\ ~e.unknown => e.paths \subseteq Cover(M)
    /\ e.kind = "wrote" => e.path \in M \cap Names
    /\ e.kind = "planned" => e.changes \subseteq Cover(M)

LedgerBacked == \A i \in DOMAIN trail : Backed(trail[i], mediated)

FileBacked == \A f \in sessionFile : f.observed \subseteq Cover(mediated)

\* What a process has read, and is about to report, is backed as well.  While a captured
\* program runs, what comes to differ from what it found is mediated.
HoldsBacked(p) ==
    /\ at[p] = "running" =>
          /\ p \in Shells
          /\ holds[p].state.observed \subseteq Cover(mediated)
          /\ dirty \ holds[p].before \subseteq Cover(mediated)
    /\ at[p] = "reported" => holds[p].observed \subseteq Cover(mediated)
    /\ at[p] = "checkpoint" => holds[p].unknown \/ holds[p].changes \subseteq Cover(mediated)
    /\ at[p] = "link" => holds[p].event.kind = "linked"

CoverageInv ==
    /\ CaptureShape /\ LedgerBacked /\ FileBacked
    /\ \A p \in Actors : HoldsBacked(p)

\* A hook that is about to write its link has appended the start of the session.
Linking(p) ==
    at[p] = "link" =>
        \E j \in EventsOf(trail, "started") : trail[j].session = holds[p].event.session

LinkInv == LinksAreStarted /\ \A p \in Actors : Linking(p)

-----------------------------------------------------------------------------
\* More names stand for more files.
LEMMA CoverGrows ==
    ASSUME NEW M, NEW N, M \subseteq N
    PROVE  Cover(M) \subseteq Cover(N)
    BY DEF Cover, Named

\* A name stands for itself, and for every file that a file it stands for ends with.
LEMMA CoverEnds ==
    ASSUME NEW M, NEW n \in Names, n \in M \/ n \in Cover(M),
           NEW q \in Names, q = n \/ <<n, q>> \in Endings
    PROVE  q \in Cover(M)
<1>1. PICK m \in M : m = n \/ <<m, n>> \in Endings
    BY DEF Cover, Named
<1>2. m = q \/ <<m, q>> \in Endings
    BY <1>1, CaptureAssumption
<1> QED
    BY <1>1, <1>2 DEF Cover, Named

-----------------------------------------------------------------------------
\* Appending an event leaves the earlier ones where they are.
LEMMA CapturingAdds ==
    ASSUME NEW e, Capturing(e), \E S : trail \in Seq(S)
    PROVE  /\ \E S : trail' \in Seq(S)
           /\ Len(trail) \in Nat /\ DOMAIN trail = 1..Len(trail)
           /\ DOMAIN trail' = 1..(Len(trail) + 1)
           /\ trail'[Len(trail) + 1] = e
           /\ \A i \in DOMAIN trail : i \in DOMAIN trail' /\ trail'[i] = trail[i]
<1>1. PICK S : trail \in Seq(S)
    OBVIOUS
<1>2. trail \in Seq(S \cup {e}) /\ e \in S \cup {e}
    BY <1>1, SeqMonotonic
<1>3. trail' = Append(trail, e)
    BY DEF Capturing
<1>4. trail' \in Seq(S \cup {e}) /\ Len(trail') = Len(trail) + 1
    BY <1>2, <1>3, AppendProperties
<1>5. Len(trail) \in Nat /\ DOMAIN trail = 1..Len(trail)
    BY <1>1, LenProperties
<1>6. DOMAIN trail' = 1..(Len(trail) + 1)
    BY <1>4, LenProperties
<1>7. trail'[Len(trail) + 1] = e /\ \A i \in 1..Len(trail) : trail'[i] = trail[i]
    BY <1>2, <1>3, AppendProperties
<1>8. \A i \in 1..Len(trail) : i \in 1..(Len(trail) + 1)
    BY <1>5
<1> QED
    BY <1>4, <1>5, <1>6, <1>7, <1>8

\* What a process holds stays backed while it does nothing: what a captured program's
\* surroundings dirty meanwhile is mediated.
LEMMA StaysBacked ==
    ASSUME NEW q \in Actors, HoldsBacked(q), UNCHANGED <<at[q], holds[q]>>,
           mediated \subseteq mediated',
           at[q] = "running" => \A x \in dirty' : x \in dirty \/ x \in Cover(mediated')
    PROVE  HoldsBacked(q)'
<1>1. Cover(mediated) \subseteq Cover(mediated')
    BY CoverGrows
<1> QED
    BY <1>1 DEF HoldsBacked

\* The events of the ledger stay backed, with what is appended to them.
LEMMA LedgerStaysBacked ==
    ASSUME LedgerBacked, \E S : trail \in Seq(S), mediated \subseteq mediated',
           \/ UNCHANGED trail
           \/ \E e : Capturing(e) /\ Backed(e, mediated')
    PROVE  LedgerBacked' /\ \E S : trail' \in Seq(S)
<1>1. \A e : Backed(e, mediated) => Backed(e, mediated')
    BY CoverGrows DEF Backed
<1>2. CASE UNCHANGED trail
    BY <1>1, <1>2 DEF LedgerBacked
<1>3. ASSUME NEW e, Capturing(e), Backed(e, mediated')
      PROVE  LedgerBacked' /\ \E S : trail' \in Seq(S)
  <2>1. /\ \E S : trail' \in Seq(S)
        /\ Len(trail) \in Nat /\ DOMAIN trail = 1..Len(trail)
        /\ DOMAIN trail' = 1..(Len(trail) + 1)
        /\ trail'[Len(trail) + 1] = e
        /\ \A i \in DOMAIN trail : i \in DOMAIN trail' /\ trail'[i] = trail[i]
    BY <1>3, CapturingAdds
  <2>2. \A i \in DOMAIN trail' : i \in DOMAIN trail \/ i = Len(trail) + 1
    BY <2>1
  <2>3. ASSUME NEW i \in DOMAIN trail' PROVE Backed(trail'[i], mediated')
    <3>1. CASE i \in DOMAIN trail
      <4>1. Backed(trail[i], mediated)
        BY <3>1 DEF LedgerBacked
      <4>2. Backed(trail[i], mediated')
        BY <1>1, <4>1
      <4> QED
        BY <2>1, <3>1, <4>2 DEF Backed
    <3> QED
      BY <1>3, <2>1, <2>2, <3>1 DEF Backed
  <2> QED
    BY <2>1, <2>3 DEF LedgerBacked
<1> QED
    BY <1>2, <1>3

\* A step of one process that changes no file: what it appends, writes to session.json and
\* holds afterwards is what has to be backed.
LEMMA OwnStep ==
    ASSUME CoverageInv, NEW p \in Actors, NEW step, NEW value, On(p, step, value),
           UNCHANGED <<dirty, mediated>>,
           \/ UNCHANGED trail
           \/ \E e : Capturing(e) /\ Backed(e, mediated'),
           FileBacked', HoldsBacked(p)'
    PROVE  CoverageInv'
<1> USE DEF CoverageInv, CaptureShape
<1>1. /\ DOMAIN at' = Actors /\ DOMAIN holds' = Actors /\ UNCHANGED crew
      /\ at'[p] = step /\ holds'[p] = value
      /\ \A q \in Actors : q # p => at'[q] = at[q] /\ holds'[q] = holds[q]
    BY DEF On
<1>2. LedgerBacked' /\ \E S : trail' \in Seq(S)
    BY LedgerStaysBacked
<1>3. ASSUME NEW q \in Actors PROVE HoldsBacked(q)'
  <2>1. CASE q # p
    BY <1>1, <2>1, StaysBacked
  <2> QED
    BY <2>1
<1> QED
    BY <1>1, <1>2, <1>3

\* A plan that is published claims what is backed: each change was last explained by a
\* report of a known author or by a hook.
LEMMA CoveredIsBacked ==
    ASSUME CaptureShape, LedgerBacked, NEW E, E \subseteq DOMAIN trail, FullyCovered(dirty, E)
    PROVE  dirty \subseteq Cover(mediated)
<1> DEFINE seen == {i \in E : trail[i].kind = "observed"}
           wrote == {i \in E : trail[i].kind = "wrote"}
<1> SUFFICES ASSUME NEW q \in dirty PROVE q \in Cover(mediated)
    OBVIOUS
<1>1. q \in Names
    BY DEF CaptureShape, Names
<1>2. PICK n : /\ n = q \/ <<n, q>> \in Endings
               /\ \/ \E i \in seen : n \in trail[i].paths
                  \/ \E i \in wrote : n = trail[i].path
  <2> DEFINE read == UNION {trail[i].paths : i \in seen}
             told == {trail[i].path : i \in {j \in wrote : trail[j].sessions # {}}}
  <2>1. Named(q, read \cup told)
    BY DEF FullyCovered
  <2>2. \A n \in read : \E i \in seen : n \in trail[i].paths
    OBVIOUS
  <2>3. \A n \in told : \E i \in wrote : n = trail[i].path
    OBVIOUS
  <2> HIDE DEF read, told
  <2> QED
    BY <2>1, <2>2, <2>3 DEF Named
<1>3. \A i \in seen : trail[i].unknown =>
          \A m \in trail[i].paths :
              \E j \in seen : j > i /\ m \in trail[j].paths /\ ~trail[j].unknown
    BY DEF FullyCovered
<1>4. \A i \in E : Backed(trail[i], mediated)
    BY DEF LedgerBacked
<1>5. n \in Names
    BY <1>1, <1>2, CaptureAssumption
<1>6. n \in mediated \/ n \in Cover(mediated)
  <2>1. CASE \E i \in wrote : n = trail[i].path
    BY <1>4, <2>1 DEF Backed
  <2>2. CASE \E i \in seen : n \in trail[i].paths
    <3>1. \E i \in seen : n \in trail[i].paths /\ ~trail[i].unknown
      BY <1>3, <2>2
    <3> QED
      BY <1>4, <3>1 DEF Backed
  <2> QED
    BY <1>2, <2>1, <2>2
<1> QED
    BY <1>1, <1>2, <1>5, <1>6, CoverEnds

\* Nothing is dirty, mediated or held at first.
LEMMA CoverageInit == CaptureInit => CoverageInv
<1> SUFFICES ASSUME CaptureInit PROVE CoverageInv
    OBVIOUS
<1>1. trail \in Seq({})
    BY EmptySeq DEF CaptureInit
<1>2. DOMAIN trail = {}
    BY DEF CaptureInit
<1>3. CaptureShape
    BY <1>1, CaptureAssumption DEF CaptureInit, CaptureShape, Actors
<1> QED
    BY <1>2, <1>3
       DEF CaptureInit, CoverageInv, LedgerBacked, FileBacked, HoldsBacked, Actors

\* The session commands.
LEMMA ShellStep ==
    ASSUME CoverageInv, NEW p \in Shells \cap crew,
           \/ StartSession(p) \/ WriteSession(p)
           \/ RunProgram(p) \/ ReportRun(p) \/ RewriteSession(p)
           \/ ReadCheckpoint(p) \/ CloseSession(p) \/ RemoveSession(p)
    PROVE  CoverageInv'
<1>0. p \in Actors /\ p \in Shells /\ DOMAIN at = Actors /\ DOMAIN holds = Actors
    BY DEF Actors, CoverageInv, CaptureShape
<1>1. FileBacked /\ HoldsBacked(p)
    BY <1>0 DEF CoverageInv
<1>2. ASSUME NEW step, NEW value, On(p, step, value)
      PROVE  at'[p] = step /\ holds'[p] = value
    BY <1>0, <1>2 DEF On
<1>3. CASE StartSession(p)
  <2>1. /\ Capturing(Started(NewSession)) /\ On(p, "started", [session |-> NewSession])
        /\ UNCHANGED <<sessionFile, dirty, mediated>>
    BY <1>3 DEF StartSession, worktree
  <2>2. Backed(Started(NewSession), mediated')
    BY DEF Backed, Started
  <2>3. FileBacked' /\ HoldsBacked(p)'
    BY <1>1, <1>2, <2>1 DEF FileBacked, HoldsBacked
  <2> QED
    BY <1>0, <2>1, <2>2, <2>3, OwnStep
<1>4. CASE WriteSession(p)
  <2>1. /\ sessionFile' = {[session |-> holds[p].session, observed |-> {}]}
        /\ On(p, "shell", Nothing) /\ UNCHANGED <<trail, dirty, mediated>>
    BY <1>4 DEF WriteSession, LeaveShell, worktree
  <2>2. FileBacked' /\ HoldsBacked(p)'
    BY <1>2, <2>1 DEF FileBacked, HoldsBacked
  <2> QED
    BY <1>0, <2>1, <2>2, OwnStep
<1>5. CASE RunProgram(p)
  <2>1. PICK f \in sessionFile : On(p, "running", [state |-> f, before |-> dirty])
    BY <1>5 DEF RunProgram
  <2>2. UNCHANGED <<trail, sessionFile, dirty, mediated>>
    BY <1>5 DEF RunProgram, worktree
  <2>3. FileBacked' /\ HoldsBacked(p)'
    BY <1>0, <1>1, <1>2, <2>1, <2>2 DEF FileBacked, HoldsBacked
  <2> QED
    BY <1>0, <2>1, <2>2, <2>3, OwnStep
<1>6. CASE ReportRun(p)
  <2> DEFINE f == holds[p].state
             modified == dirty \ holds[p].before
             reported == [f EXCEPT !.observed = @ \cup modified]
  <2>1. /\ at[p] = "running" /\ Capturing(Observed(modified, FALSE))
        /\ On(p, "reported", reported) /\ UNCHANGED <<sessionFile, dirty, mediated>>
    BY <1>6 DEF ReportRun, Reporting, worktree
  <2>2. modified \subseteq Cover(mediated) /\ f.observed \subseteq Cover(mediated)
    BY <1>1, <2>1 DEF HoldsBacked
  <2>3. Backed(Observed(modified, FALSE), mediated')
    BY <2>1, <2>2 DEF Backed, Observed
  <2>4. reported.observed \subseteq Cover(mediated)
    BY <2>2
  <2> HIDE DEF f, modified, reported
  <2>5. FileBacked' /\ HoldsBacked(p)'
    BY <1>1, <1>2, <2>1, <2>4 DEF FileBacked, HoldsBacked
  <2> QED
    BY <1>0, <2>1, <2>3, <2>5, OwnStep
<1>7. CASE RewriteSession(p)
  <2>1. /\ at[p] = "reported" /\ sessionFile' = {holds[p]}
        /\ On(p, "shell", Nothing) /\ UNCHANGED <<trail, dirty, mediated>>
    BY <1>7 DEF RewriteSession, LeaveShell, worktree
  <2>2. FileBacked' /\ HoldsBacked(p)'
    BY <1>1, <1>2, <2>1 DEF FileBacked, HoldsBacked
  <2> QED
    BY <1>0, <2>1, <2>2, OwnStep
<1>8. CASE ReadCheckpoint(p)
  <2>1. PICK f \in sessionFile :
            On(p, "checkpoint", [session |-> f.session, changes |-> dirty,
                                 unknown |-> ~(dirty \subseteq f.observed)])
    BY <1>8 DEF ReadCheckpoint
  <2>2. UNCHANGED <<trail, sessionFile, dirty, mediated>>
    BY <1>8 DEF ReadCheckpoint, worktree
  <2> DEFINE u == ~(dirty \subseteq f.observed)
  <2>3. u \/ dirty \subseteq Cover(mediated)
    BY <1>1 DEF FileBacked
  <2>4. On(p, "checkpoint", [session |-> f.session, changes |-> dirty, unknown |-> u])
    BY <2>1
  <2> HIDE DEF u
  <2>5. FileBacked' /\ HoldsBacked(p)'
    BY <1>1, <1>2, <2>2, <2>3, <2>4 DEF FileBacked, HoldsBacked
  <2> QED
    BY <1>0, <2>2, <2>4, <2>5, OwnStep
<1>9. CASE CloseSession(p)
  <2>1. PICK f \in sessionFile : Capturing(Closed(f.session))
    BY <1>9 DEF CloseSession
  <2>2. On(p, "remove", Nothing) /\ UNCHANGED <<sessionFile, dirty, mediated>>
    BY <1>9 DEF CloseSession, worktree
  <2>3. Backed(Closed(f.session), mediated')
    BY DEF Backed, Closed
  <2>4. FileBacked' /\ HoldsBacked(p)'
    BY <1>1, <1>2, <2>2 DEF FileBacked, HoldsBacked
  <2> QED
    BY <1>0, <2>1, <2>2, <2>3, <2>4, OwnStep
<1>10. CASE RemoveSession(p)
  <2>1. sessionFile' = {} /\ On(p, "shell", Nothing) /\ UNCHANGED <<trail, dirty, mediated>>
    BY <1>10 DEF RemoveSession, LeaveShell, worktree
  <2>2. FileBacked' /\ HoldsBacked(p)'
    BY <1>2, <2>1 DEF FileBacked, HoldsBacked
  <2> QED
    BY <1>0, <2>1, <2>2, OwnStep
<1> QED
    BY <1>3, <1>4, <1>5, <1>6, <1>7, <1>8, <1>9, <1>10

\* The hooks.
LEMMA HookStep ==
    ASSUME CoverageInv, NEW p \in Hooks \cap crew,
           \/ \E a \in Agents :
                 \/ HookStart(p, a) \/ HookStop(p, a)
                 \/ \E n \in Reports : HookWrote(p, a, n)
           \/ HookStarted(p) \/ HookLink(p)
    PROVE  CoverageInv'
<1>0. p \in Actors /\ DOMAIN at = Actors /\ DOMAIN holds = Actors
    BY DEF Actors, CoverageInv, CaptureShape
<1>1. FileBacked /\ HoldsBacked(p)
    BY <1>0 DEF CoverageInv
<1>2. ASSUME NEW step, NEW value, On(p, step, value)
      PROVE  at'[p] = step /\ holds'[p] = value
    BY <1>0, <1>2 DEF On
<1>3. ASSUME NEW a, HookStart(p, a) PROVE CoverageInv'
  <2>1. On(p, "hook", [agent |-> a]) /\ UNCHANGED <<trail, sessionFile, dirty, mediated>>
    BY <1>3 DEF HookStart, worktree
  <2>2. FileBacked' /\ HoldsBacked(p)'
    BY <1>1, <1>2, <2>1 DEF FileBacked, HoldsBacked
  <2> QED
    BY <1>0, <2>1, <2>2, OwnStep
<1>4. ASSUME NEW a, HookStop(p, a) PROVE CoverageInv'
  <2>1. PICK s : On(p, "checkpoint", [session |-> s, changes |-> dirty,
                                      unknown |-> \E q \in dirty : ~Named(q, ObservedAgentPaths(s))])
    BY <1>4 DEF HookStop
  <2>2. UNCHANGED <<trail, sessionFile, dirty, mediated>>
    BY <1>4 DEF HookStop, worktree
  <2>3. ASSUME NEW n \in ObservedAgentPaths(s) PROVE n \in Names /\ n \in Cover(mediated)
    <3>1. PICK m \in mediated \cap Names : n = Relative[m]
      BY DEF ObservedAgentPaths, EventsOf, CoverageInv, LedgerBacked, Backed
    <3>2. n \in Names /\ (n = m \/ <<m, n>> \in Endings)
      BY <3>1, CaptureAssumption
    <3> QED
      BY <3>1, <3>2, CoverEnds
  <2> DEFINE u == \E q \in dirty : ~Named(q, ObservedAgentPaths(s))
  <2>4. u \/ dirty \subseteq Cover(mediated)
    <3>1. dirty \subseteq Names
      BY DEF CoverageInv, CaptureShape, Names
    <3>2. \A q \in dirty : Named(q, ObservedAgentPaths(s)) => q \in Cover(mediated)
      BY <2>3, <3>1, CoverEnds DEF Named
    <3> QED
      BY <3>2
  <2>5. On(p, "checkpoint", [session |-> s, changes |-> dirty, unknown |-> u])
    BY <2>1
  <2> HIDE DEF u
  <2>6. FileBacked' /\ HoldsBacked(p)'
    BY <1>1, <1>2, <2>2, <2>4, <2>5 DEF FileBacked, HoldsBacked
  <2> QED
    BY <1>0, <2>2, <2>5, <2>6, OwnStep
<1>5. ASSUME NEW a, NEW q \in Reports, HookWrote(p, a, q) PROVE CoverageInv'
  <2>1. /\ Capturing(Wrote(LinkedSession(a), q)) /\ mediated' = mediated \cup {q}
        /\ UNCHANGED <<sessionFile, dirty, at, holds, crew>>
    BY <1>5 DEF HookWrote
  <2>2. Backed(Wrote(LinkedSession(a), q), mediated')
    BY <2>1 DEF Backed, Wrote, Names
  <2>3. LedgerBacked' /\ \E S : trail' \in Seq(S)
    BY <2>1, <2>2, LedgerStaysBacked DEF CoverageInv, CaptureShape
  <2>4. \A r \in Actors : HoldsBacked(r)'
    BY <2>1, StaysBacked DEF CoverageInv
  <2>5. FileBacked'
    BY <1>1, <2>1, CoverGrows DEF FileBacked
  <2> QED
    BY <2>1, <2>3, <2>4, <2>5 DEF CoverageInv, CaptureShape
<1>6. CASE HookStarted(p)
  <2> DEFINE link == Linked(holds[p].agent, NewSession)
  <2>1. /\ Capturing(Started(NewSession)) /\ On(p, "link", [event |-> link])
        /\ UNCHANGED <<sessionFile, dirty, mediated>>
    BY <1>6 DEF HookStarted, worktree
  <2>2. link.kind = "linked"
    BY DEF Linked
  <2> HIDE DEF link
  <2>3. Backed(Started(NewSession), mediated')
    BY DEF Backed, Started
  <2>4. FileBacked' /\ HoldsBacked(p)'
    BY <1>1, <1>2, <2>1, <2>2 DEF FileBacked, HoldsBacked
  <2> QED
    BY <1>0, <2>1, <2>3, <2>4, OwnStep
<1>7. CASE HookLink(p)
  <2>1. /\ Capturing(holds[p].event) /\ On(p, "shell", Nothing)
        /\ at[p] = "link" /\ UNCHANGED <<sessionFile, dirty, mediated>>
    BY <1>7 DEF HookLink, LeaveShell, worktree
  <2> DEFINE event == holds[p].event
  <2>2. event.kind = "linked"
    BY <1>1, <2>1 DEF HoldsBacked
  <2>3. \A e : e.kind = "linked" => Backed(e, mediated')
    BY DEF Backed
  <2>4. FileBacked' /\ HoldsBacked(p)'
    BY <1>1, <1>2, <2>1 DEF FileBacked, HoldsBacked
  <2>5. \E e : Capturing(e) /\ Backed(e, mediated')
    BY <2>1, <2>2, <2>3
  <2> QED
    BY <1>0, <2>1, <2>4, <2>5, OwnStep
<1> QED
    BY <1>3, <1>4, <1>5, <1>6, <1>7

\* The steps that shells and hooks share.
LEMMA SharedStep ==
    ASSUME CoverageInv, NEW p \in crew, ReportChanges(p) \/ DerivePlan(p) \/ DieCapturing(p)
    PROVE  CoverageInv'
<1>0. p \in Actors /\ DOMAIN at = Actors /\ DOMAIN holds = Actors
    BY DEF CoverageInv, CaptureShape
<1>1. FileBacked /\ HoldsBacked(p)
    BY <1>0 DEF CoverageInv
<1>2. ASSUME NEW step, NEW value, On(p, step, value)
      PROVE  at'[p] = step /\ holds'[p] = value
    BY <1>0, <1>2 DEF On
<1>3. CASE ReportChanges(p)
  <2>1. /\ at[p] = "checkpoint" /\ Capturing(Observed(holds[p].changes, holds[p].unknown))
        /\ On(p, "derive", [session |-> holds[p].session])
        /\ UNCHANGED <<sessionFile, dirty, mediated>>
    BY <1>3 DEF ReportChanges, worktree
  <2>2. holds[p].unknown \/ holds[p].changes \subseteq Cover(mediated)
    BY <1>1, <2>1 DEF HoldsBacked
  <2>3. \E e : Capturing(e) /\ Backed(e, mediated')
    BY <2>1, <2>2 DEF Backed, Observed
  <2>4. FileBacked' /\ HoldsBacked(p)'
    BY <1>1, <1>2, <2>1 DEF FileBacked, HoldsBacked
  <2> QED
    BY <1>0, <2>1, <2>3, <2>4, OwnStep
<1>4. CASE DerivePlan(p)
  <2> DEFINE s == holds[p].session
             covered == dirty # {} /\ s \in Known(trail) /\ FullyCovered(dirty, SessionEvents(s))
  <2>1. /\ IF covered THEN Capturing(Planned(s, dirty)) ELSE UNCHANGED trail
        /\ On(p, "shell", Nothing) /\ UNCHANGED <<sessionFile, dirty, mediated>>
    BY <1>4 DEF DerivePlan, LeaveShell, worktree
  <2>2. ASSUME covered PROVE Backed(Planned(s, dirty), mediated')
    <3>1. SessionEvents(s) \subseteq DOMAIN trail
      BY DEF SessionEvents
    <3>2. dirty \subseteq Cover(mediated)
      BY <2>2, <3>1, CoveredIsBacked DEF CoverageInv
    <3> QED
      BY <2>1, <3>2 DEF Backed, Planned
  <2> HIDE DEF s, covered
  <2>3. FileBacked' /\ HoldsBacked(p)'
    BY <1>1, <1>2, <2>1 DEF FileBacked, HoldsBacked
  <2> QED
    BY <1>0, <2>1, <2>2, <2>3, OwnStep
<1>5. CASE DieCapturing(p)
  <2>1. On(p, "shell", Nothing) /\ UNCHANGED <<trail, sessionFile, dirty, mediated>>
    BY <1>5 DEF DieCapturing, LeaveShell, worktree
  <2>2. FileBacked' /\ HoldsBacked(p)'
    BY <1>1, <1>2, <2>1 DEF FileBacked, HoldsBacked
  <2> QED
    BY <1>0, <2>1, <2>2, OwnStep
<1> QED
    BY <1>3, <1>4, <1>5

\* The watcher reports only what is unknown.
LEMMA WatchStep ==
    ASSUME CoverageInv, NEW s, OpenWatch(s) \/ Watch(s)
    PROVE  CoverageInv'
<1>1. UNCHANGED <<sessionFile, dirty, mediated, at, holds, crew>>
    BY DEF OpenWatch, Watch, worktree
<1>2. UNCHANGED trail \/ \E e : Capturing(e) /\ Backed(e, mediated')
  <2>1. Backed(Observed(noticed[s], TRUE), mediated')
    BY DEF Backed, Observed
  <2> QED
    BY <2>1 DEF OpenWatch, Watch
<1>3. LedgerBacked' /\ \E S : trail' \in Seq(S)
    BY <1>1, <1>2, LedgerStaysBacked DEF CoverageInv, CaptureShape
<1>4. \A r \in Actors : HoldsBacked(r)'
    BY <1>1, StaysBacked DEF CoverageInv
<1> QED
    BY <1>1, <1>3, <1>4 DEF CoverageInv, CaptureShape, FileBacked

\* A file that comes to differ while a captured program runs is mediated.
LEMMA TouchStep ==
    ASSUME CoverageInv, NEW q \in Paths, Touch(q)
    PROVE  CoverageInv'
<1>1. /\ dirty' \subseteq dirty \cup {q} /\ mediated \subseteq mediated'
      /\ UNCHANGED <<trail, sessionFile, at, holds, crew>>
    BY DEF Touch
<1>2. LedgerBacked' /\ \E S : trail' \in Seq(S)
    BY <1>1, LedgerStaysBacked DEF CoverageInv, CaptureShape
<1>3. ASSUME NEW r \in Actors PROVE HoldsBacked(r)'
  <2>1. HoldsBacked(r)
    BY DEF CoverageInv
  <2>2. ASSUME at[r] = "running" PROVE \A x \in dirty' : x \in dirty \/ x \in Cover(mediated')
    <3>1. r \in Shells
      BY <2>1, <2>2 DEF HoldsBacked
    <3>2. \A x \in dirty' : x \in dirty \/ (x = q /\ q \in mediated')
      BY <1>1, <2>2, <3>1 DEF Touch
    <3> QED
      BY <3>2, CoverEnds DEF Names
  <2> QED
    BY <1>1, <2>1, <2>2, StaysBacked
<1>4. Cover(mediated) \subseteq Cover(mediated')
    BY <1>1, CoverGrows
<1> QED
    BY <1>1, <1>2, <1>3, <1>4 DEF CoverageInv, CaptureShape, FileBacked

\* Every step keeps it.
LEMMA CoverageStep == CoverageInv /\ [CaptureNext]_captureVars => CoverageInv'
<1> SUFFICES ASSUME CoverageInv, [CaptureNext]_captureVars PROVE CoverageInv'
    OBVIOUS
<1>1. CASE UNCHANGED captureVars
  <2>1. UNCHANGED <<trail, sessionFile, dirty, mediated, at, holds, crew>>
    BY <1>1 DEF captureVars
  <2>2. LedgerBacked' /\ \E S : trail' \in Seq(S)
    BY <2>1, LedgerStaysBacked DEF CoverageInv, CaptureShape
  <2>3. \A r \in Actors : HoldsBacked(r)'
    BY <2>1, StaysBacked DEF CoverageInv
  <2> QED
    BY <2>1, <2>2, <2>3 DEF CoverageInv, CaptureShape, FileBacked
<1>2. CASE CaptureNext
    BY <1>2, ShellStep, HookStep, SharedStep, WatchStep, TouchStep DEF CaptureNext
<1> QED
    BY <1>1, <1>2

\* A published plan claims full coverage only for files that have the name, or the end of
\* the name, of one that came to be changed while a captured program ran or that an agent's
\* hook reported (derive_review_plan, repository_path_matches, record_known_changes,
\* record_agent_hook), whatever shells, hooks, watchers and editors do and whatever dies.
THEOREM CoverageIsSound == CaptureSpec => []CoverageSound
<1>1. CoverageInv => CoverageSound
    BY DEF CoverageInv, LedgerBacked, Backed, Cover, CoverageSound, EventsOf
<1> QED
    BY <1>1, CoverageInit, CoverageStep, PTL DEF CaptureSpec

-----------------------------------------------------------------------------
(* Links.                                                                   *)

\* The ledger has only grown, and the links it has gained name what was started before.
LEMMA LinksKept ==
    ASSUME CoverageInv, LinkInv,
           \/ UNCHANGED trail
           \/ \E e : /\ Capturing(e)
                     /\ e.kind = "linked" =>
                           \E j \in EventsOf(trail, "started") : trail[j].session = e.session
    PROVE  /\ LinksAreStarted'
           /\ \A s : (\E j \in EventsOf(trail, "started") : trail[j].session = s)
                     => \E j \in EventsOf(trail', "started") : trail'[j].session = s
<1>1. CASE UNCHANGED trail
    BY <1>1 DEF LinkInv, LinksAreStarted, EventsOf
<1>2. ASSUME NEW e, Capturing(e),
             e.kind = "linked" =>
                 \E j \in EventsOf(trail, "started") : trail[j].session = e.session
      PROVE  /\ LinksAreStarted'
             /\ \A s : (\E j \in EventsOf(trail, "started") : trail[j].session = s)
                       => \E j \in EventsOf(trail', "started") : trail'[j].session = s
  <2>1. /\ Len(trail) \in Nat /\ DOMAIN trail = 1..Len(trail)
        /\ DOMAIN trail' = 1..(Len(trail) + 1)
        /\ trail'[Len(trail) + 1] = e
        /\ \A i \in DOMAIN trail : i \in DOMAIN trail' /\ trail'[i] = trail[i]
    BY <1>2, CapturingAdds DEF CoverageInv, CaptureShape
  <2>2. \A j \in EventsOf(trail, "started") :
            j \in EventsOf(trail', "started") /\ trail'[j] = trail[j] /\ j < Len(trail) + 1
    BY <2>1 DEF EventsOf
  <2>3. ASSUME NEW i \in EventsOf(trail', "linked")
        PROVE  \E j \in EventsOf(trail', "started") :
                   j < i /\ trail'[j].session = trail'[i].session
    <3>1. i \in DOMAIN trail \/ i = Len(trail) + 1
      BY <2>1 DEF EventsOf
    <3>2. CASE i \in DOMAIN trail
      <4>1. i \in EventsOf(trail, "linked") /\ trail'[i] = trail[i]
        BY <2>1, <3>2 DEF EventsOf
      <4> QED
        BY <2>2, <4>1 DEF LinkInv, LinksAreStarted
    <3>3. CASE i = Len(trail) + 1
      BY <1>2, <2>1, <2>2, <3>3 DEF EventsOf
    <3> QED
      BY <3>1, <3>2, <3>3
  <2> QED
    BY <2>2, <2>3 DEF LinksAreStarted
<1> QED
    BY <1>1, <1>2

\* A hook that has linked to nothing yet keeps the start it appended.
LEMMA LinkStep ==
    ASSUME CoverageInv, LinkInv, [CaptureNext]_captureVars
    PROVE  LinkInv'
<1>0. DOMAIN at = Actors /\ DOMAIN holds = Actors /\ crew \subseteq Actors
    BY DEF CoverageInv, CaptureShape
<1>1. ASSUME UNCHANGED <<at, holds>>,
             UNCHANGED trail \/ \E e : Capturing(e) /\ e.kind # "linked"
      PROVE  LinkInv'
  <2>1. /\ LinksAreStarted'
        /\ \A s : (\E j \in EventsOf(trail, "started") : trail[j].session = s)
                  => \E j \in EventsOf(trail', "started") : trail'[j].session = s
    BY <1>1, LinksKept
  <2> QED
    BY <1>1, <2>1 DEF LinkInv, Linking
<1>2. ASSUME NEW p \in Actors, at'[p] # "link",
             \A r \in Actors : r # p => at'[r] = at[r] /\ holds'[r] = holds[r],
             \/ UNCHANGED trail
             \/ \E e : /\ Capturing(e)
                       /\ e.kind = "linked" =>
                             \E j \in EventsOf(trail, "started") : trail[j].session = e.session
      PROVE  LinkInv'
  <2>1. /\ LinksAreStarted'
        /\ \A s : (\E j \in EventsOf(trail, "started") : trail[j].session = s)
                  => \E j \in EventsOf(trail', "started") : trail'[j].session = s
    BY <1>2, LinksKept
  <2> QED
    BY <1>2, <2>1 DEF LinkInv, Linking
<1>3. ASSUME NEW p \in Hooks \cap crew, HookStarted(p) PROVE LinkInv'
  <2> DEFINE link == Linked(holds[p].agent, NewSession)
  <2>1. Capturing(Started(NewSession)) /\ On(p, "link", [event |-> link])
    BY <1>3 DEF HookStarted
  <2>2. link.session = NewSession
    BY DEF Linked
  <2>3. Started(NewSession).kind = "started" /\ Started(NewSession).session = NewSession
    BY DEF Started
  <2> HIDE DEF link
  <2>4. /\ LinksAreStarted'
        /\ \A s : (\E j \in EventsOf(trail, "started") : trail[j].session = s)
                  => \E j \in EventsOf(trail', "started") : trail'[j].session = s
    BY <2>1, <2>3, LinksKept
  <2>5. \E j \in EventsOf(trail', "started") : trail'[j].session = NewSession
    <3>1. /\ Len(trail) \in Nat /\ DOMAIN trail' = 1..(Len(trail) + 1)
          /\ trail'[Len(trail) + 1] = Started(NewSession)
      BY <2>1, CapturingAdds DEF CoverageInv, CaptureShape
    <3> QED
      BY <2>3, <3>1 DEF EventsOf
  <2>6. /\ holds'[p] = [event |-> link]
        /\ \A r \in Actors : r # p => at'[r] = at[r] /\ holds'[r] = holds[r]
    BY <1>0, <2>1 DEF On
  <2>7. Linking(p)'
    BY <2>2, <2>5, <2>6 DEF Linking
  <2> QED
    BY <2>4, <2>6, <2>7 DEF LinkInv, Linking
<1>4. ASSUME NEW p \in Hooks \cap crew, HookLink(p) PROVE LinkInv'
  <2>1. Capturing(holds[p].event) /\ On(p, "shell", Nothing) /\ at[p] = "link" /\ p \in Actors
    BY <1>0, <1>4 DEF HookLink, LeaveShell
  <2>2. \E j \in EventsOf(trail, "started") : trail[j].session = holds[p].event.session
    BY <2>1 DEF LinkInv, Linking
  <2>3. /\ at'[p] # "link"
        /\ \A r \in Actors : r # p => at'[r] = at[r] /\ holds'[r] = holds[r]
    BY <1>0, <2>1 DEF On
  <2> QED
    BY <1>2, <2>1, <2>2, <2>3
<1>5. ASSUME NEW p \in Hooks \cap crew, NEW a, HookStart(p, a) \/ HookStop(p, a)
      PROVE  LinkInv'
  <2>1. p \in Actors /\ UNCHANGED trail
    BY <1>0, <1>5 DEF HookStart, HookStop
  <2>2. /\ at'[p] # "link"
        /\ \A r \in Actors : r # p => at'[r] = at[r] /\ holds'[r] = holds[r]
    BY <1>0, <1>5 DEF HookStart, HookStop, On
  <2> QED
    BY <1>2, <2>1, <2>2
<1>6. ASSUME NEW p, NEW a, NEW q, HookWrote(p, a, q) PROVE LinkInv'
  <2>1. Wrote(LinkedSession(a), q).kind = "wrote"
    BY DEF Wrote
  <2> QED
    BY <1>1, <1>6, <2>1 DEF HookWrote
<1>7. ASSUME NEW p \in Shells \cap crew,
             \/ StartSession(p) \/ WriteSession(p)
             \/ RunProgram(p) \/ ReportRun(p) \/ RewriteSession(p)
             \/ ReadCheckpoint(p) \/ CloseSession(p) \/ RemoveSession(p)
      PROVE  LinkInv'
  <2>1. p \in Actors
    BY <1>0
  <2>2. UNCHANGED trail \/ \E e : Capturing(e) /\ e.kind # "linked"
    <3>1. \A s : Started(s).kind # "linked" /\ Closed(s).kind # "linked"
      BY DEF Started, Closed
    <3>2. \A P, u : Observed(P, u).kind # "linked"
      BY DEF Observed
    <3> QED
      BY <1>7, <3>1, <3>2 DEF StartSession, WriteSession, RunProgram, ReportRun, Reporting,
          RewriteSession, ReadCheckpoint, CloseSession, RemoveSession
  <2>3. /\ at'[p] # "link"
        /\ \A r \in Actors : r # p => at'[r] = at[r] /\ holds'[r] = holds[r]
    BY <1>0, <1>7 DEF StartSession, WriteSession, RunProgram, ReportRun, Reporting, RewriteSession,
        ReadCheckpoint, CloseSession, RemoveSession, LeaveShell, On
  <2> QED
    BY <1>2, <2>1, <2>2, <2>3
<1>8. ASSUME NEW p \in crew, ReportChanges(p) \/ DerivePlan(p) \/ DieCapturing(p)
      PROVE  LinkInv'
  <2>1. p \in Actors
    BY <1>0
  <2>2. UNCHANGED trail \/ \E e : Capturing(e) /\ e.kind # "linked"
    BY <1>8 DEF ReportChanges, DerivePlan, DieCapturing, Observed, Planned
  <2>3. /\ at'[p] # "link"
        /\ \A r \in Actors : r # p => at'[r] = at[r] /\ holds'[r] = holds[r]
    BY <1>0, <1>8 DEF ReportChanges, DerivePlan, DieCapturing, LeaveShell, On
  <2> QED
    BY <1>2, <2>1, <2>2, <2>3
<1>9. ASSUME NEW s, OpenWatch(s) \/ Watch(s) PROVE LinkInv'
  <2>1. Observed(noticed[s], TRUE).kind = "observed"
    BY DEF Observed
  <2> QED
    BY <1>1, <1>9, <2>1 DEF OpenWatch, Watch
<1>10. ASSUME (\E q \in Paths : Touch(q)) \/ UNCHANGED captureVars PROVE LinkInv'
    BY <1>1, <1>10 DEF Touch, captureVars
<1> QED
    BY <1>3, <1>4, <1>5, <1>6, <1>7, <1>8, <1>9, <1>10 DEF CaptureNext

\* A link names a session whose start is in the ledger before it (record_agent_hook appends
\* the start first), whichever hook dies between the two or runs at the same time.
THEOREM LinksAreAlwaysStarted == CaptureSpec => []LinksAreStarted
<1>1. CaptureInit => LinkInv
  <2> SUFFICES ASSUME CaptureInit PROVE LinkInv
    OBVIOUS
  <2>1. DOMAIN trail = {}
    BY DEF CaptureInit
  <2> QED
    BY <2>1 DEF CaptureInit, LinkInv, LinksAreStarted, Linking, EventsOf, Actors
<1>2. LinkInv => LinksAreStarted
    BY DEF LinkInv
<1>3. CoverageInv /\ LinkInv /\ [CaptureNext]_captureVars => LinkInv'
    BY LinkStep
<1> QED
    BY <1>1, <1>2, <1>3, CoverageInit, CoverageStep, PTL DEF CaptureSpec

-----------------------------------------------------------------------------
(* Growing a set round by round.  Hard components, completion and ancestors *)
(* are each the last round of a recursive function: a set grows by what a   *)
(* step adds to it, as often as the sets it lies in has elements.           *)

\* g starts with the set b and grows it n times by the step G.
Grown(g, b, G, n) == g = [i \in 0..n |-> IF i = 0 THEN b ELSE G[g[i - 1]]]

\* A step on the subsets of K only adds.
Growing(G, K) == G \in [SUBSET K -> SUBSET K] /\ \A X \in SUBSET K : X \subseteq G[X]

\* A set of numbers that is not empty has a smallest one.
LEMMA Smallest ==
    ASSUME NEW D \in SUBSET Nat, D # {}
    PROVE  \E n \in D : \A k \in D : n <= k
<1>1. PICK n \in D : \A k \in D : <<k, n>> \notin OpToRel(<, Nat)
    BY NatLessThanWellFounded, WFMin, Zenon
<1>2. \A k \in D : ~(k < n)
    BY <1>1, Zenon DEF OpToRel
<1>. QED BY <1>2

\* Induction, for a set of numbers.
LEMMA Reaches ==
    ASSUME NEW n \in Nat, NEW S, 0 \in S,
           \A i \in 0..(n - 1) : i \in S => i + 1 \in S
    PROVE  \A i \in 0..n : i \in S
<1>. SUFFICES ASSUME NEW i \in 0..n, i \notin S PROVE FALSE
    OBVIOUS
<1> DEFINE D == {j \in 0..n : j \notin S}
<1>1. PICK j \in D : \A k \in D : j <= k
    <2>1. D \in SUBSET Nat /\ D # {}
        OBVIOUS
    <2>. QED BY <2>1, Smallest
<1>2. j # 0 /\ j - 1 \in 0..(n - 1)
    BY <1>1
<1>3. j - 1 \in S
    BY <1>1, <1>2
<1>. QED BY <1>1, <1>2, <1>3

\* Such a function exists, ...
LEMMA GrownExists ==
    ASSUME NEW b, NEW G, NEW n \in Nat
    PROVE  \E g : Grown(g, b, G, n)
<1> DEFINE S == {i \in 0..n : \E g : Grown(g, b, G, i)}
<1>1. 0 \in S
    <2>1. Grown([i \in 0..0 |-> b], b, G, 0)
        BY DEF Grown
    <2>. QED BY <2>1
<1>2. ASSUME NEW i \in 0..(n - 1), i \in S
      PROVE  i + 1 \in S
    <2>1. PICK g : Grown(g, b, G, i)
        BY <1>2
    <2> DEFINE h == [j \in 0..(i + 1) |-> IF j <= i THEN g[j] ELSE G[g[i]]]
    <2>2. ASSUME NEW j \in 0..(i + 1)
          PROVE  h[j] = IF j = 0 THEN b ELSE G[h[j - 1]]
        <3>1. CASE j <= i
            <4>1. h[j] = g[j] /\ (j # 0 => h[j - 1] = g[j - 1])
                BY <3>1
            <4>2. g[j] = IF j = 0 THEN b ELSE G[g[j - 1]]
                BY <2>1, <3>1 DEF Grown
            <4>. QED BY <4>1, <4>2
        <3>2. CASE j = i + 1
            BY <3>2
        <3>. QED BY <3>1, <3>2
    <2>3. h = [j \in 0..(i + 1) |-> IF j = 0 THEN b ELSE G[h[j - 1]]]
        BY <2>2
    <2>4. Grown(h, b, G, i + 1)
        <3>. HIDE DEF h
        <3>. QED BY <2>3 DEF Grown
    <2>. QED BY <2>4
<1>3. \A i \in 0..n : i \in S
    <2>. HIDE DEF S
    <2>. QED BY <1>1, <1>2, Reaches
<1>. QED BY <1>3

\* ... it grows within K and never shrinks, ...
LEMMA GrownWithin ==
    ASSUME NEW K, NEW b \in SUBSET K, NEW G, Growing(G, K), NEW n \in Nat,
           NEW g, Grown(g, b, G, n)
    PROVE  /\ \A i \in 0..n : g[i] \in SUBSET K
           /\ g[0] = b
           /\ \A i \in 0..(n - 1) : g[i + 1] = G[g[i]] /\ g[i] \subseteq g[i + 1]
<1>1. \A i \in 0..n : g[i] = IF i = 0 THEN b ELSE G[g[i - 1]]
    BY DEF Grown
<1> DEFINE S == {i \in 0..n : g[i] \in SUBSET K}
<1>2. 0 \in S
    BY <1>1
<1>3. \A i \in 0..(n - 1) : g[i + 1] = G[g[i]]
    BY <1>1
<1>4. \A i \in 0..(n - 1) : i \in S => i + 1 \in S
    BY <1>3 DEF Growing
<1>5. \A i \in 0..n : i \in S
    <2>. HIDE DEF S
    <2>. QED BY <1>2, <1>4, Reaches
<1>6. \A i \in 0..(n - 1) : g[i] \subseteq g[i + 1]
    BY <1>3, <1>5 DEF Growing
<1>. QED BY <1>1, <1>3, <1>5, <1>6

\* ... it stays in every set that it starts in and no step leaves, ...
LEMMA GrownStays ==
    ASSUME NEW K, NEW b \in SUBSET K, NEW G, Growing(G, K), NEW n \in Nat,
           NEW g, Grown(g, b, G, n),
           NEW C \in SUBSET K, b \subseteq C, \A X \in SUBSET C : G[X] \subseteq C
    PROVE  \A i \in 0..n : g[i] \subseteq C
<1> DEFINE S == {i \in 0..n : g[i] \subseteq C}
<1>0. /\ \A i \in 0..n : g[i] \in SUBSET K
      /\ g[0] = b
      /\ \A i \in 0..(n - 1) : g[i + 1] = G[g[i]]
    <2>1. /\ \A i \in 0..n : g[i] \in SUBSET K
          /\ g[0] = b
          /\ \A i \in 0..(n - 1) : g[i + 1] = G[g[i]] /\ g[i] \subseteq g[i + 1]
        BY GrownWithin, Zenon
    <2>. QED BY <2>1
<1>1. 0 \in S
    BY <1>0
<1>2. \A i \in 0..(n - 1) : i \in S => i + 1 \in S
    BY <1>0
<1>3. \A i \in 0..n : i \in S
    <2>. HIDE DEF S
    <2>. QED BY <1>1, <1>2, Reaches
<1>. QED BY <1>3

\* ... a later round holds an earlier one, ...
LEMMA GrownMonotone ==
    ASSUME NEW K, NEW b \in SUBSET K, NEW G, Growing(G, K), NEW n \in Nat,
           NEW g, Grown(g, b, G, n)
    PROVE  \A j \in 0..n : \A i \in 0..j : g[i] \subseteq g[j]
<1> DEFINE S == {j \in 0..n : \A i \in 0..j : g[i] \subseteq g[j]}
<1>1. 0 \in S
    OBVIOUS
<1>2. ASSUME NEW j \in 0..(n - 1), j \in S
      PROVE  j + 1 \in S
    <2>1. g[j] \subseteq g[j + 1]
        BY GrownWithin
    <2>2. \A i \in 0..(j + 1) : i = j + 1 \/ i \in 0..j
        OBVIOUS
    <2>. QED BY <1>2, <2>1, <2>2
<1>3. \A j \in 0..n : j \in S
    <2>. HIDE DEF S
    <2>. QED BY <1>1, <1>2, Reaches
<1>. QED BY <1>3

\* ... and after as many rounds as K has elements nothing is added any more: until
\* then each round that adds something adds an element.
LEMMA GrownCloses ==
    ASSUME NEW K, IsFiniteSet(K), NEW b \in SUBSET K, NEW G, Growing(G, K),
           NEW n \in Nat, Cardinality(K) <= n, NEW g, Grown(g, b, G, n)
    PROVE  G[g[n]] = g[n]
<1> DEFINE S == {i \in 0..n : Cardinality(g[i]) >= i \/ G[g[i]] = g[i]}
<1>1. \A i \in 0..n : g[i] \in SUBSET K /\ IsFiniteSet(g[i]) /\ Cardinality(g[i]) \in Nat
    <2>1. /\ \A i \in 0..n : g[i] \in SUBSET K
          /\ g[0] = b
          /\ \A i \in 0..(n - 1) : g[i + 1] = G[g[i]] /\ g[i] \subseteq g[i + 1]
        BY GrownWithin, Zenon
    <2>. QED BY <2>1, FS_Subset, FS_CardinalityType
<1>2. 0 \in S
    BY <1>1
<1>3. ASSUME NEW i \in 0..(n - 1), i \in S
      PROVE  i + 1 \in S
    <2>0. i \in 0..n /\ i + 1 \in 0..n
        OBVIOUS
    <2>1. g[i + 1] = G[g[i]] /\ g[i] \subseteq g[i + 1]
        BY GrownWithin
    <2>2. CASE G[g[i]] = g[i]
        BY <2>0, <2>1, <2>2
    <2>3. CASE G[g[i]] # g[i]
        <3>1. Cardinality(g[i]) >= i
            BY <1>3, <2>3
        <3>2. /\ Cardinality(g[i]) <= Cardinality(g[i + 1])
              /\ Cardinality(g[i + 1]) # Cardinality(g[i])
            BY <1>1, <2>0, <2>1, <2>3, FS_Subset
        <3>3. Cardinality(g[i + 1]) >= i + 1
            BY <1>1, <2>0, <3>1, <3>2
        <3>. QED BY <2>0, <3>3
    <2>. QED BY <2>2, <2>3
<1>4. n \in S
    <2>1. \A i \in 0..n : i \in S
        <3>. HIDE DEF S
        <3>. QED BY <1>2, <1>3, Reaches
    <2>. QED BY <2>1
<1>5. CASE Cardinality(g[n]) >= n
    <2>1. n \in 0..n
        OBVIOUS
    <2>2. /\ Cardinality(g[n]) <= Cardinality(K)
          /\ Cardinality(K) = Cardinality(g[n]) => K = g[n]
        BY <1>1, <2>1, FS_Subset
    <2>3. g[n] = K
        BY <1>1, <1>5, <2>1, <2>2, FS_CardinalityType
    <2>4. G[K] = K
        BY DEF Growing
    <2>. QED BY <2>3, <2>4
<1>. QED BY <1>4, <1>5

\* What follows the step on the subsets of K is that function.
LEMMA GrownFrom ==
    ASSUME NEW K, NEW b \in SUBSET K, NEW G, Growing(G, K), NEW n \in Nat,
           NEW R, NEW c \in [0..n -> R], c[0] = b,
           \A i \in 0..(n - 1) : c[i] \in SUBSET K => c[i + 1] = G[c[i]]
    PROVE  Grown(c, b, G, n)
<1> DEFINE S == {i \in 0..n : c[i] \in SUBSET K}
<1>1. 0 \in S
    OBVIOUS
<1>2. \A i \in 0..(n - 1) : i \in S => i + 1 \in S
    BY DEF Growing
<1>3. \A i \in 0..n : c[i] \in SUBSET K
    <2>1. \A i \in 0..n : i \in S
        <3>. HIDE DEF S
        <3>. QED BY <1>1, <1>2, Reaches
    <2>. QED BY <2>1
<1>4. \A i \in 0..n : c[i] = IF i = 0 THEN b ELSE G[c[i - 1]]
    <2>1. ASSUME NEW i \in 0..n, i # 0
          PROVE  c[i] = G[c[i - 1]]
        <3>1. i - 1 \in 0..(n - 1) /\ i - 1 \in 0..n /\ (i - 1) + 1 = i
            BY <2>1
        <3>. QED BY <1>3, <3>1
    <2>. QED BY <2>1
<1>5. c = [i \in 0..n |-> IF i = 0 THEN b ELSE G[c[i - 1]]]
    BY <1>4
<1>. QED BY <1>5 DEF Grown

-----------------------------------------------------------------------------
(* Completion: an order is found exactly when nothing loops, and it follows *)
(* what waits for what.                                                     *)

\* What waits for nothing outside X, which one round completes.
Ready(X, K, waits) == {k \in K : waits[k] \subseteq X}
Completion(K, waits) == [X \in SUBSET K |-> X \cup Ready(X, K, waits)]

LEMMA CompletionGrows ==
    ASSUME NEW K, NEW waits
    PROVE  Growing(Completion(K, waits), K)
<1>1. \A X \in SUBSET K : X \cup Ready(X, K, waits) \in SUBSET K
    BY DEF Ready
<1>. QED BY <1>1 DEF Growing, Completion

\* The loop is that growth: its recursion has a solution, and only one.
LEMMA CompletedIsGrown ==
    ASSUME NEW K, IsFiniteSet(K), NEW waits
    PROVE  Grown(Completed(K, waits), {}, Completion(K, waits), Cardinality(K))
<1> DEFINE n == Cardinality(K)
           Rec(c) == c = [i \in 0..n |-> IF i = 0 THEN {}
                              ELSE LET done == c[i - 1] IN done \cup {k \in K : waits[k] \subseteq done}]
<1>0. n \in Nat
    BY FS_CardinalityType
<1>1. PICK G : G = Completion(K, waits)
    OBVIOUS
<1>2. Growing(G, K) /\ \A X \in SUBSET K : G[X] = X \cup Ready(X, K, waits)
    BY <1>1, CompletionGrows DEF Completion
<1>3. PICK g : Grown(g, {}, G, n)
    BY <1>0, GrownExists
<1>4. Rec(g)
    <2>1. \A i \in 0..n : g[i] \in SUBSET K
        BY <1>0, <1>2, <1>3, GrownWithin, Zenon
    <2>2. \A i \in 0..n : i # 0 => G[g[i - 1]] = g[i - 1] \cup Ready(g[i - 1], K, waits)
        BY <1>0, <1>2, <2>1
    <2>3. g = [i \in 0..n |-> IF i = 0 THEN {} ELSE G[g[i - 1]]]
        BY <1>3 DEF Grown
    <2>. QED BY <2>2, <2>3 DEF Ready
<1>5. PICK c : c = Completed(K, waits) /\ Rec(c)
    <2>1. Rec(Completed(K, waits))
        BY <1>4 DEF Completed
    <2>. QED BY <2>1, Zenon
<1>6. /\ \A i \in 0..n : c[i] = IF i = 0 THEN {} ELSE c[i - 1] \cup Ready(c[i - 1], K, waits)
      /\ c \in [0..n -> {c[i] : i \in 0..n}]
    <2> DEFINE e(i) == IF i = 0 THEN {} ELSE c[i - 1] \cup Ready(c[i - 1], K, waits)
    <2>1. c = [i \in 0..n |-> e(i)]
        BY <1>5 DEF Ready
    <2>2. \A i \in 0..n : c[i] = e(i)
        <3>. HIDE DEF n, e
        <3>. QED BY <2>1
    <2>3. c \in [0..n -> {c[i] : i \in 0..n}]
        <3>. HIDE DEF n, e
        <3>. QED BY <2>1
    <2>. QED BY <2>2, <2>3
<1>7. c[0] = {} /\ \A i \in 0..(n - 1) : c[i + 1] = c[i] \cup Ready(c[i], K, waits)
    <2>1. \A i \in 0..(n - 1) : i + 1 \in 0..n /\ i + 1 # 0 /\ (i + 1) - 1 = i
        BY <1>0
    <2>2. 0 \in 0..n
        BY <1>0
    <2>. QED
        <3>. HIDE DEF n
        <3>. QED BY <1>6, <2>1, <2>2
<1>8. \A i \in 0..(n - 1) : c[i] \in SUBSET K => c[i + 1] = G[c[i]]
    BY <1>2, <1>7
<1>9. Grown(c, {}, G, n)
    BY <1>0, <1>2, <1>6, <1>7, <1>8, GrownFrom, Zenon
<1>. QED BY <1>1, <1>5, <1>9

\* What is complete stays so, what is ready is complete a round later, and a node is
\* complete only after what it waits for.
LEMMA CompletedRounds ==
    ASSUME NEW K, IsFiniteSet(K), NEW waits, NEW c, c = Completed(K, waits),
           NEW n, n = Cardinality(K)
    PROVE  /\ n \in Nat /\ c[0] = {}
           /\ \A i \in 0..n : c[i] \in SUBSET K
           /\ \A i \in 0..(n - 1) : c[i + 1] = c[i] \cup Ready(c[i], K, waits)
           /\ Ready(c[n], K, waits) \subseteq c[n]
<1>0. n \in Nat /\ Cardinality(K) <= n
    BY FS_CardinalityType
<1>1. PICK G : G = Completion(K, waits)
    OBVIOUS
<1>2. Growing(G, K) /\ \A X \in SUBSET K : G[X] = X \cup Ready(X, K, waits)
    BY <1>1, CompletionGrows DEF Completion
<1>3. Grown(c, {}, G, n)
    BY <1>1, CompletedIsGrown
<1>4. PICK d, m : d = c /\ m = n
    OBVIOUS
<1>5. m \in Nat /\ Cardinality(K) <= m /\ Grown(d, {}, G, m)
    BY <1>0, <1>3, <1>4
<1>6. /\ \A i \in 0..m : d[i] \in SUBSET K
      /\ d[0] = {}
      /\ \A i \in 0..(m - 1) : d[i + 1] = G[d[i]] /\ d[i] \subseteq d[i + 1]
    BY <1>2, <1>5, GrownWithin, Zenon
<1>7. G[d[m]] = d[m]
    BY <1>2, <1>5, GrownCloses
<1>8. m \in 0..m /\ \A i \in 0..(m - 1) : i \in 0..m
    BY <1>5
<1>. QED BY <1>2, <1>4, <1>5, <1>6, <1>7, <1>8

\* An order is found exactly when there is no loop.  What is in a loop is never
\* complete; and what is not complete in the end waits for something of its kind.
LEMMA OrderedIffNoLoop ==
    ASSUME NEW K, IsFiniteSet(K), NEW waits, \A k \in K : waits[k] \subseteq K
    PROVE  Orderable(K, waits) <=> ~Looping(K, waits)
<1>1. PICK c, n : c = Completed(K, waits) /\ n = Cardinality(K)
    OBVIOUS
<1>2. /\ n \in Nat /\ c[0] = {}
      /\ \A i \in 0..n : c[i] \in SUBSET K
      /\ \A i \in 0..(n - 1) : c[i + 1] = c[i] \cup Ready(c[i], K, waits)
      /\ Ready(c[n], K, waits) \subseteq c[n]
    BY <1>1, CompletedRounds
<1>3. Orderable(K, waits) <=> c[n] = K
    BY <1>1 DEF Orderable
<1>4. ASSUME NEW L \in SUBSET K, L # {}, \A k \in L : waits[k] \cap L # {}
      PROVE  c[n] # K
    <2> DEFINE S == {i \in 0..n : c[i] \cap L = {}}
    <2>1. 0 \in S
        BY <1>2
    <2>2. ASSUME NEW i \in 0..(n - 1), i \in S
          PROVE  i + 1 \in S
        <3>1. c[i + 1] = c[i] \cup Ready(c[i], K, waits) /\ c[i] \cap L = {}
            BY <1>2, <2>2
        <3>2. Ready(c[i], K, waits) \cap L = {}
            BY <1>4, <3>1 DEF Ready
        <3>. QED BY <1>2, <3>1, <3>2
    <2>3. \A i \in 0..n : i \in S
        <3>. HIDE DEF S
        <3>. QED BY <1>2, <2>1, <2>2, Reaches
    <2>4. c[n] \cap L = {}
        BY <1>2, <2>3
    <2>. QED BY <1>4, <2>4
<1>5. ASSUME c[n] # K
      PROVE  Looping(K, waits)
    <2> DEFINE L == K \ c[n]
    <2>1. L \in SUBSET K /\ L # {}
        BY <1>2, <1>5
    <2>2. \A k \in L : waits[k] \cap L # {}
        BY <1>2 DEF Ready
    <2>. QED BY <2>1, <2>2 DEF Looping
<1>6. Looping(K, waits) => c[n] # K
    BY <1>4 DEF Looping
<1>. QED BY <1>3, <1>5, <1>6

\* In the order that is found everything comes after what it waits for.
LEMMA OrderFollowsNeeds ==
    ASSUME NEW K, IsFiniteSet(K), NEW waits, \A k \in K : waits[k] \subseteq K,
           Orderable(K, waits), NEW k \in K, NEW l \in waits[k]
    PROVE  Round(l, K, waits) < Round(k, K, waits)
<1>1. PICK c, n : c = Completed(K, waits) /\ n = Cardinality(K)
    OBVIOUS
<1>2. /\ n \in Nat /\ c[0] = {}
      /\ \A i \in 0..n : c[i] \in SUBSET K
      /\ \A i \in 0..(n - 1) : c[i + 1] = c[i] \cup Ready(c[i], K, waits)
    BY <1>1, CompletedRounds
<1>3. c[n] = K
    BY <1>1 DEF Orderable
<1> DEFINE At(x) == {i \in 0..n : x \in c[i]}
<1>4. ASSUME NEW x \in K
      PROVE  Round(x, K, waits) \in At(x) /\ \A j \in At(x) : Round(x, K, waits) <= j
    <2>1. At(x) \in SUBSET Nat /\ n \in At(x)
        BY <1>2, <1>3
    <2>2. \E i \in At(x) : \A j \in At(x) : i <= j
        BY <2>1, Smallest
    <2>3. Round(x, K, waits) = Min(At(x))
        BY <1>1 DEF Round
    <2>. HIDE DEF At
    <2>. QED BY <2>2, <2>3 DEF Min
<1>5. PICK r : r = Round(k, K, waits) /\ r \in At(k) /\ \A j \in At(k) : r <= j
    BY <1>4
<1>6. r # 0 /\ r - 1 \in 0..(n - 1) /\ r - 1 \in 0..n /\ r - 1 < r /\ (r - 1) + 1 = r
    BY <1>2, <1>5
<1>7. k \notin c[r - 1] /\ k \in c[r]
    BY <1>5, <1>6
<1>8. c[r] = c[r - 1] \cup Ready(c[r - 1], K, waits)
    BY <1>2, <1>6
<1>9. l \in c[r - 1]
    BY <1>7, <1>8 DEF Ready
<1>10. Round(l, K, waits) <= r - 1 /\ Round(l, K, waits) \in Nat
    BY <1>2, <1>4, <1>6, <1>9
<1>. QED BY <1>5, <1>6, <1>10

-----------------------------------------------------------------------------
(* Ancestors: what a unit needs, directly or not.                           *)

\* What the nodes of X wait for.
Needed(X, waits) == UNION {waits[k] : k \in X}
Ascent(K, waits) == [X \in SUBSET K |-> X \cup Needed(X, waits)]

\* Ancestors is such a growth.
LEMMA AncestorsAreGrown ==
    ASSUME IsFiniteSet(UnitNames), \A k \in UnitNames : UnitWaits[k] \subseteq UnitNames,
           NEW u \in UnitNames
    PROVE  \E f : /\ Grown(f, UnitWaits[u], Ascent(UnitNames, UnitWaits), Cardinality(UnitNames))
                  /\ Ancestors(u) = f[Cardinality(UnitNames)]
<1>1. PICK K, waits, n, b :
          K = UnitNames /\ waits = UnitWaits /\ n = Cardinality(UnitNames) /\ b = UnitWaits[u]
    OBVIOUS
<1> DEFINE Rec(f) == f = [i \in 0..Cardinality(UnitNames) |-> IF i = 0 THEN UnitWaits[u]
                             ELSE LET done == f[i - 1] IN done \cup UNION {UnitWaits[m] : m \in done}]
           e(f, i) == IF i = 0 THEN b ELSE f[i - 1] \cup Needed(f[i - 1], waits)
<1>2. n \in Nat /\ b \in SUBSET K
    BY <1>1, FS_CardinalityType
<1>3. ASSUME NEW f
      PROVE  Rec(f) <=> f = [i \in 0..n |-> e(f, i)]
    BY <1>1 DEF Needed
<1>4. PICK G : G = Ascent(K, waits)
    OBVIOUS
<1>5. Growing(G, K) /\ \A X \in SUBSET K : G[X] = X \cup Needed(X, waits)
    <2>1. \A X \in SUBSET K : X \cup Needed(X, waits) \in SUBSET K
        BY <1>1 DEF Needed
    <2>. QED BY <1>4, <2>1 DEF Growing, Ascent
<1>6. PICK g : Grown(g, b, G, n)
    BY <1>2, GrownExists
<1>. HIDE DEF Rec
<1>7. Rec(g)
    <2>1. \A i \in 0..n : g[i] \in SUBSET K
        BY <1>2, <1>5, <1>6, GrownWithin, Zenon
    <2>2. \A i \in 0..n : i # 0 => G[g[i - 1]] = g[i - 1] \cup Needed(g[i - 1], waits)
        BY <1>2, <1>5, <2>1
    <2>3. g = [i \in 0..n |-> IF i = 0 THEN b ELSE G[g[i - 1]]]
        BY <1>6 DEF Grown
    <2>4. g = [i \in 0..n |-> e(g, i)]
        BY <2>2, <2>3
    <2>. QED BY <1>3, <2>4
<1>8. PICK f : f = (CHOOSE h : Rec(h)) /\ Rec(f)
    BY <1>7
<1>9. Ancestors(u) = f[n]
    BY <1>1, <1>8 DEF Ancestors, Rec
<1>10. /\ \A i \in 0..n : f[i] = e(f, i)
       /\ f \in [0..n -> {f[i] : i \in 0..n}]
    <2>1. f = [i \in 0..n |-> e(f, i)]
        BY <1>3, <1>8
    <2>. HIDE DEF e
    <2>. QED BY <2>1
<1>11. f[0] = b /\ \A i \in 0..(n - 1) : f[i + 1] = f[i] \cup Needed(f[i], waits)
    <2>1. \A i \in 0..(n - 1) : i + 1 \in 0..n /\ i + 1 # 0 /\ (i + 1) - 1 = i
        BY <1>2
    <2>2. 0 \in 0..n
        BY <1>2
    <2>. QED BY <1>10, <2>1, <2>2
<1>12. \A i \in 0..(n - 1) : f[i] \in SUBSET K => f[i + 1] = G[f[i]]
    BY <1>5, <1>11
<1>13. Grown(f, b, G, n)
    BY <1>2, <1>5, <1>10, <1>11, <1>12, GrownFrom
<1>. QED BY <1>1, <1>4, <1>9, <1>13

\* The ancestors of a unit are units, hold what it and they wait for, and are in every
\* set of units of which that can be said.
LEMMA AncestorsClosed ==
    ASSUME IsFiniteSet(UnitNames), \A k \in UnitNames : UnitWaits[k] \subseteq UnitNames,
           NEW u \in UnitNames
    PROVE  /\ Ancestors(u) \subseteq UnitNames
           /\ UnitWaits[u] \subseteq Ancestors(u)
           /\ \A m \in Ancestors(u) : UnitWaits[m] \subseteq Ancestors(u)
           /\ \A C \in SUBSET UnitNames :
                 UnitWaits[u] \subseteq C /\ (\A m \in C : UnitWaits[m] \subseteq C)
                     => Ancestors(u) \subseteq C
<1>1. PICK K, waits, n, b :
          K = UnitNames /\ waits = UnitWaits /\ n = Cardinality(UnitNames) /\ b = UnitWaits[u]
    OBVIOUS
<1>2. PICK G, f : G = Ascent(K, waits) /\ Grown(f, b, G, n) /\ Ancestors(u) = f[n]
    BY <1>1, AncestorsAreGrown
<1>3. /\ n \in Nat /\ Cardinality(K) <= n /\ IsFiniteSet(K)
      /\ b \in SUBSET K
    BY <1>1, FS_CardinalityType
<1>4. Growing(G, K) /\ \A X \in SUBSET K : G[X] = X \cup Needed(X, waits)
    <2>1. \A X \in SUBSET K : X \cup Needed(X, waits) \in SUBSET K
        BY <1>1 DEF Needed
    <2>. QED BY <1>2, <2>1 DEF Growing, Ascent
<1>2a. Grown(f, b, G, n)
    BY <1>2
<1>4a. Growing(G, K)
    BY <1>4
<1>5. \A j \in 0..n : \A i \in 0..j : f[i] \subseteq f[j]
    BY <1>2a, <1>3, <1>4a, GrownMonotone, Zenon
<1>6. /\ \A i \in 0..n : f[i] \in SUBSET K
      /\ f[0] = b
    <2>1. /\ \A i \in 0..n : f[i] \in SUBSET K
          /\ f[0] = b
          /\ \A i \in 0..(n - 1) : f[i + 1] = G[f[i]] /\ f[i] \subseteq f[i + 1]
        BY <1>2a, <1>3, <1>4a, GrownWithin, Zenon
    <2>. QED BY <2>1
<1>7. G[f[n]] = f[n]
    BY <1>2, <1>3, <1>4, GrownCloses
<1>8. n \in 0..n /\ 0 \in 0..n
    BY <1>3
<1>9. f[n] \subseteq K /\ b \subseteq f[n] /\ Needed(f[n], waits) \subseteq f[n]
    BY <1>4, <1>5, <1>6, <1>7, <1>8
<1>10. ASSUME NEW C \in SUBSET K, b \subseteq C, \A m \in C : waits[m] \subseteq C
       PROVE  f[n] \subseteq C
    <2>1. \A X \in SUBSET C : G[X] \subseteq C
        BY <1>4, <1>10 DEF Needed
    <2>2. \A i \in 0..n : f[i] \subseteq C
        BY <1>2a, <1>3, <1>4a, <1>10, <2>1, GrownStays
    <2>. QED BY <1>8, <2>2
<1>11. \A m \in f[n] : waits[m] \subseteq f[n]
    BY <1>9 DEF Needed
<1>. QED BY <1>1, <1>2, <1>9, <1>10, <1>11

\* When everything waits for one thing at most, what a unit needs is one line: of any
\* two ancestors one is an ancestor of the other.
LEMMA OneLine ==
    ASSUME IsFiniteSet(UnitNames), \A k \in UnitNames : UnitWaits[k] \subseteq UnitNames,
           \A k \in UnitNames : \A x, y \in UnitWaits[k] : x = y,
           NEW u \in UnitNames
    PROVE  \A l, m \in Ancestors(u) : l = m \/ l \in Ancestors(m) \/ m \in Ancestors(l)
<1>0. \A k \in UnitNames :
          /\ Ancestors(k) \subseteq UnitNames
          /\ UnitWaits[k] \subseteq Ancestors(k)
          /\ \A m \in Ancestors(k) : UnitWaits[m] \subseteq Ancestors(k)
          /\ \A C \in SUBSET UnitNames :
                UnitWaits[k] \subseteq C /\ (\A m \in C : UnitWaits[m] \subseteq C)
                    => Ancestors(k) \subseteq C
    BY AncestorsClosed
<1>1. ASSUME NEW k \in UnitNames, NEW p \in UnitWaits[k]
      PROVE  Ancestors(k) \subseteq {p} \cup Ancestors(p)
    <2> DEFINE C == {p} \cup Ancestors(p)
    <2>1. p \in UnitNames
        BY <1>1
    <2>2. C \in SUBSET UnitNames /\ \A m \in C : UnitWaits[m] \subseteq C
        BY <2>1, <1>0
    <2>3. UnitWaits[k] \subseteq C
        BY <1>1
    <2>. HIDE DEF C
    <2>4. Ancestors(k) \subseteq C
        BY <2>2, <2>3, <1>0
    <2>. QED BY <2>4 DEF C
<1> DEFINE C == {l \in Ancestors(u) : \A m \in Ancestors(u) :
                     l = m \/ l \in Ancestors(m) \/ m \in Ancestors(l)}
<1>2. Ancestors(u) \subseteq UnitNames /\ UnitWaits[u] \subseteq Ancestors(u)
    BY <1>0
<1>3. C \in SUBSET UnitNames
    BY <1>2
<1>4. UnitWaits[u] \subseteq C
    BY <1>1, <1>2
<1>5. ASSUME NEW j \in C, NEW l \in UnitWaits[j], NEW m \in Ancestors(u)
      PROVE  l = m \/ l \in Ancestors(m) \/ m \in Ancestors(l)
    <2>1. j \in UnitNames /\ m \in UnitNames
        BY <1>2
    <2>2. CASE j = m
        BY <1>5, <2>1, <2>2, <1>0
    <2>3. CASE j \in Ancestors(m)
        BY <1>5, <2>1, <2>3, <1>0
    <2>4. CASE m \in Ancestors(j)
        BY <1>1, <1>5, <2>1, <2>4
    <2>. QED BY <2>2, <2>3, <2>4
<1>6. ASSUME NEW j \in C
      PROVE  UnitWaits[j] \subseteq C
    <2>1. UnitWaits[j] \subseteq Ancestors(u)
        BY <1>0
    <2>. QED BY <1>5, <2>1
<1>7. Ancestors(u) \subseteq C
    <2>. HIDE DEF C
    <2>. QED BY <1>3, <1>4, <1>6, <1>0
<1>. QED BY <1>7

-----------------------------------------------------------------------------
(* Hard components.                                                         *)

\* Dependencies of the atoms A.
Over(D, A) == \A d \in D : d.from \in A /\ d.to \in A

HardEdges(D) == {d \in D : d.kind = "hard"}

\* The other ends of the hard edges at X.
HardLinked(X, D) ==
    {d.to : d \in {e \in HardEdges(D) : e.from \in X}}
    \cup {d.from : d \in {e \in HardEdges(D) : e.to \in X}}

Spread(A, D) == [X \in SUBSET A |-> X \cup HardLinked(X, D)]

LEMMA SpreadGrows ==
    ASSUME NEW A, NEW D, Over(D, A)
    PROVE  /\ Growing(Spread(A, D), A)
           /\ \A X \in SUBSET A : Spread(A, D)[X] = X \cup HardLinked(X, D)
<1>1. \A X \in SUBSET A : X \cup HardLinked(X, D) \in SUBSET A
    BY DEF HardLinked, Over, HardEdges
<1>. QED BY <1>1 DEF Growing, Spread

\* HardComponent is such a growth.
LEMMA ComponentIsGrown ==
    ASSUME NEW A, IsFiniteSet(A), NEW D, Over(D, A), NEW a \in A
    PROVE  \E f : /\ Grown(f, {a}, Spread(A, D), Cardinality(A))
                  /\ HardComponent(a, A, D) = f[Cardinality(A)]
<1>1. PICK n, b : n = Cardinality(A) /\ b = {a}
    OBVIOUS
<1> DEFINE Rec(f) == f = [i \in 0..Cardinality(A) |-> IF i = 0 THEN {a}
                            ELSE LET found == f[i - 1] IN
                                 found
                                 \cup {d.to : d \in {e \in {h \in D : h.kind = "hard"} : e.from \in found}}
                                 \cup {d.from : d \in {e \in {h \in D : h.kind = "hard"} : e.to \in found}}]
           e(f, i) == IF i = 0 THEN b ELSE f[i - 1] \cup HardLinked(f[i - 1], D)
<1>2. n \in Nat /\ b \in SUBSET A
    BY <1>1, FS_CardinalityType
<1>3. ASSUME NEW f
      PROVE  Rec(f) <=> f = [i \in 0..n |-> e(f, i)]
    <2>1. \A X : X \cup HardLinked(X, D) =
              (X \cup {d.to : d \in {h \in {g \in D : g.kind = "hard"} : h.from \in X}})
                 \cup {d.from : d \in {h \in {g \in D : g.kind = "hard"} : h.to \in X}}
        BY DEF HardLinked, HardEdges
    <2>. QED BY <1>1, <2>1
<1>4. PICK G : G = Spread(A, D)
    OBVIOUS
<1>5. Growing(G, A) /\ \A X \in SUBSET A : G[X] = X \cup HardLinked(X, D)
    BY <1>4, SpreadGrows
<1>6. PICK g : Grown(g, b, G, n)
    BY <1>2, GrownExists
<1>. HIDE DEF Rec
<1>7. Rec(g)
    <2>1. \A i \in 0..n : g[i] \in SUBSET A
        BY <1>2, <1>5, <1>6, GrownWithin, Zenon
    <2>2. \A i \in 0..n : i # 0 => G[g[i - 1]] = g[i - 1] \cup HardLinked(g[i - 1], D)
        BY <1>2, <1>5, <2>1
    <2>3. g = [i \in 0..n |-> IF i = 0 THEN b ELSE G[g[i - 1]]]
        BY <1>6 DEF Grown
    <2>4. g = [i \in 0..n |-> e(g, i)]
        BY <2>2, <2>3
    <2>. QED BY <1>3, <2>4
<1>8. PICK f : f = (CHOOSE h : Rec(h)) /\ Rec(f)
    BY <1>7
<1>9. HardComponent(a, A, D) = f[n]
    BY <1>1, <1>8 DEF HardComponent, Rec
<1>10. /\ \A i \in 0..n : f[i] = e(f, i)
       /\ f \in [0..n -> {f[i] : i \in 0..n}]
    <2>1. f = [i \in 0..n |-> e(f, i)]
        BY <1>3, <1>8
    <2>. HIDE DEF e
    <2>. QED BY <2>1
<1>11. f[0] = b /\ \A i \in 0..(n - 1) : f[i + 1] = f[i] \cup HardLinked(f[i], D)
    <2>1. \A i \in 0..(n - 1) : i + 1 \in 0..n /\ i + 1 # 0 /\ (i + 1) - 1 = i
        BY <1>2
    <2>2. 0 \in 0..n
        BY <1>2
    <2>. QED BY <1>10, <2>1, <2>2
<1>12. \A i \in 0..(n - 1) : f[i] \in SUBSET A => f[i + 1] = G[f[i]]
    BY <1>5, <1>11
<1>13. Grown(f, b, G, n)
    BY <1>2, <1>5, <1>10, <1>11, <1>12, GrownFrom
<1>. QED BY <1>1, <1>4, <1>9, <1>13

\* C holds both ends of a hard edge or neither.
Unsplit(C, D) == \A d \in D : d.kind = "hard" => (d.from \in C <=> d.to \in C)

\* A component holds its atom, splits no hard edge, and is in every set of atoms of
\* which that can be said.
LEMMA ComponentClosed ==
    ASSUME NEW A, IsFiniteSet(A), NEW D, Over(D, A), NEW a \in A
    PROVE  /\ a \in HardComponent(a, A, D)
           /\ HardComponent(a, A, D) \subseteq A
           /\ Unsplit(HardComponent(a, A, D), D)
           /\ \A C \in SUBSET A : a \in C /\ Unsplit(C, D) => HardComponent(a, A, D) \subseteq C
<1>1. PICK n, b, G, f :
          /\ n = Cardinality(A) /\ b = {a} /\ G = Spread(A, D)
          /\ Grown(f, b, G, n) /\ HardComponent(a, A, D) = f[n]
    BY ComponentIsGrown
<1>2. n \in Nat /\ Cardinality(A) <= n /\ b \in SUBSET A
    BY <1>1, FS_CardinalityType
<1>3. Growing(G, A) /\ \A X \in SUBSET A : G[X] = X \cup HardLinked(X, D)
    BY <1>1, SpreadGrows
<1>4. Grown(f, b, G, n)
    BY <1>1
<1>5. Growing(G, A)
    BY <1>3
<1>6. \A j \in 0..n : \A i \in 0..j : f[i] \subseteq f[j]
    BY <1>2, <1>4, <1>5, GrownMonotone, Zenon
<1>7. /\ \A i \in 0..n : f[i] \in SUBSET A
      /\ f[0] = b
      /\ \A i \in 0..(n - 1) : f[i + 1] = G[f[i]] /\ f[i] \subseteq f[i + 1]
    BY <1>2, <1>4, <1>5, GrownWithin, Zenon
<1>8. G[f[n]] = f[n]
    BY <1>2, <1>4, <1>5, GrownCloses
<1>9. n \in 0..n /\ 0 \in 0..n
    BY <1>2
<1>10. f[n] \subseteq A /\ b \subseteq f[n] /\ HardLinked(f[n], D) \subseteq f[n]
    BY <1>3, <1>6, <1>7, <1>8, <1>9
<1>11. Unsplit(f[n], D)
    BY <1>10 DEF Unsplit, HardLinked, HardEdges
<1>12. ASSUME NEW C \in SUBSET A, a \in C, Unsplit(C, D)
       PROVE  f[n] \subseteq C
    <2>1. \A X \in SUBSET C : HardLinked(X, D) \subseteq C
        BY <1>12 DEF Unsplit, HardLinked, HardEdges
    <2>2. \A X \in SUBSET C : G[X] \subseteq C
        BY <1>3, <2>1
    <2>3. b \subseteq C
        BY <1>1, <1>12
    <2>4. \A i \in 0..n : f[i] \subseteq C
        BY <1>2, <1>4, <1>5, <1>12, <2>2, <2>3, GrownStays
    <2>. QED BY <1>9, <2>4
<1>13. a \in f[n]
    BY <1>1, <1>10
<1>. QED BY <1>1, <1>10, <1>11, <1>12, <1>13

\* The component of an atom is the component of all its atoms.
LEMMA ComponentsPartition ==
    ASSUME NEW A, IsFiniteSet(A), NEW D, Over(D, A), NEW x \in A, NEW y \in HardComponent(x, A, D)
    PROVE  HardComponent(y, A, D) = HardComponent(x, A, D)
<1> DEFINE X == HardComponent(x, A, D)
           Y == HardComponent(y, A, D)
<1>1. x \in X /\ X \subseteq A /\ Unsplit(X, D)
    BY ComponentClosed
<1>2. y \in A
    BY <1>1
<1>3. y \in Y /\ Y \subseteq A /\ Unsplit(Y, D)
    BY <1>2, ComponentClosed
<1>4. Y \subseteq X
    BY <1>1, <1>2, ComponentClosed
<1>5. x \in Y
    <2>. SUFFICES ASSUME x \notin Y PROVE FALSE
        OBVIOUS
    <2>1. x \in A \ Y /\ Unsplit(A \ Y, D)
        BY <1>3 DEF Unsplit, Over
    <2>2. X \subseteq A \ Y
        BY <2>1, ComponentClosed
    <2>. QED BY <1>3, <2>2
<1>6. X \subseteq Y
    BY <1>2, <1>3, <1>5, ComponentClosed
<1>. QED BY <1>4, <1>6

-----------------------------------------------------------------------------
(* Atoms and dependencies.                                                  *)

\* Atoms of a checkpoint: finitely many, and of two that overlap one is the earlier.
Boundaries(A) ==
    /\ IsFiniteSet(A) /\ A # {}
    /\ \A a, b \in A : a # b /\ Overlap(a, b) => Earlier(a, b) \/ Earlier(b, a)

\* What the changed lines of the files touch.
AllAtoms(layout, changed) == UNION {AtomsOf(f, layout[f], changed[f]) : f \in Files}

\* The atoms of one file.
LEMMA FileAtoms ==
    ASSUME NEW f \in Files, NEW t \in Layouts, NEW C
    PROVE  /\ IsFiniteSet(AtomsOf(f, t, C)) /\ AtomsOf(f, t, C) # {}
           /\ \A a \in AtomsOf(f, t, C) : a.file = f
           /\ \A a, b \in AtomsOf(f, t, C) : a # b => Earlier(a, b) \/ Earlier(b, a)
<1> DEFINE touched == {n \in t : \E l \in C : n.from <= l /\ l <= n.to}
           hunk == [from |-> Min(C), to |-> Max(C), import |-> FALSE, test |-> FALSE]
           found == IF touched = {} THEN {hunk} ELSE touched
           A == AtomsOf(f, t, C)
<1>1. A = {[file |-> f, node |-> n] : n \in found}
    BY DEF AtomsOf
<1>2. IsFiniteSet(found) /\ found # {}
    <2>1. IsFiniteSet(touched)
        BY FS_Subset, PlanningAssumption
    <2>2. IsFiniteSet({hunk})
        BY FS_Singleton
    <2>. HIDE DEF touched, hunk
    <2>. QED BY <2>1, <2>2
<1>3. IsFiniteSet(A)
    <2> DEFINE name == [n \in found |-> [file |-> f, node |-> n]]
    <2>. HIDE DEF found
    <2>1. name \in [found -> A] /\ \A a \in A : \E n \in found : name[n] = a
        BY <1>1
    <2>2. name \in Surjection(found, A)
        BY <2>1 DEF Surjection
    <2>. QED BY <1>2, <2>2, FS_Surjection
<1>4. ASSUME NEW a \in A, NEW b \in A, a # b
      PROVE  Earlier(a, b) \/ Earlier(b, a)
    <2>. HIDE DEF touched, hunk
    <2>1. PICK m \in found, n \in found : a = [file |-> f, node |-> m] /\ b = [file |-> f, node |-> n]
        <3>. HIDE DEF found, A
        <3>. QED BY <1>1
    <2>2. touched # {} /\ m \in touched /\ n \in touched
        BY <1>4, <2>1
    <2>3. /\ m \in [from : Lines, to : Lines, import : BOOLEAN, test : BOOLEAN]
          /\ n \in [from : Lines, to : Lines, import : BOOLEAN, test : BOOLEAN]
        BY <2>2, PlanningAssumption DEF touched
    <2>4. /\ m.from \in Nat /\ m.to \in Nat /\ n.from \in Nat /\ n.to \in Nat
          /\ m # n
        BY <1>4, <2>1, <2>3, PlanningAssumption
    <2>5. \/ m.from # n.from \/ m.to # n.to \/ m.import # n.import \/ m.test # n.test
        BY <2>3, <2>4
    <2>6. m.import \in BOOLEAN /\ n.import \in BOOLEAN /\ m.test \in BOOLEAN /\ n.test \in BOOLEAN
        BY <2>3
    <2>7. a.file = b.file /\ a.node = m /\ b.node = n
        BY <2>1
    <2>8. CASE m.from # n.from
        BY <2>4, <2>7, <2>8 DEF Earlier
    <2>9. CASE m.from = n.from /\ m.to # n.to
        BY <2>4, <2>7, <2>9 DEF Earlier
    <2>10. CASE m.from = n.from /\ m.to = n.to
        BY <2>5, <2>6, <2>7, <2>10 DEF Earlier
    <2>. QED BY <2>8, <2>9, <2>10
<1>5. A # {} /\ \A a \in A : a.file = f
    <2>. HIDE DEF found, A
    <2>1. PICK n : n \in found
        BY <1>2
    <2>2. [file |-> f, node |-> n] \in A
        BY <1>1, <2>1
    <2>3. \A a \in A : a.file = f
        BY <1>1
    <2>. QED BY <2>2, <2>3
<1>. QED BY <1>3, <1>4, <1>5

\* The atoms of all files.
LEMMA AtomsAreBoundaries ==
    ASSUME NEW layout \in [Files -> Layouts], NEW changed
    PROVE  Boundaries(AllAtoms(layout, changed))
<1> DEFINE of == [f \in Files |-> AtomsOf(f, layout[f], changed[f])]
           S == {of[f] : f \in Files}
           A == AllAtoms(layout, changed)
<1>1. A = UNION S
    <2>1. \A f \in Files : of[f] = AtomsOf(f, layout[f], changed[f])
        OBVIOUS
    <2>. HIDE DEF of
    <2>2. S = {AtomsOf(f, layout[f], changed[f]) : f \in Files}
        BY <2>1
    <2>. QED BY <2>2 DEF AllAtoms
<1>2. \A f \in Files : /\ IsFiniteSet(of[f]) /\ of[f] # {}
                       /\ \A a \in of[f] : a.file = f
                       /\ \A a, b \in of[f] : a # b => Earlier(a, b) \/ Earlier(b, a)
    BY FileAtoms
<1>. HIDE DEF of
<1>3. IsFiniteSet(S)
    <2>0. of \in [Files -> S] /\ \A s \in S : \E f \in Files : of[f] = s
        BY DEF of
    <2>1. of \in Surjection(Files, S)
        BY <2>0 DEF Surjection
    <2>. QED BY <2>1, FS_Surjection, PlanningAssumption
<1>4. IsFiniteSet(A)
    <2>1. \A T \in S : IsFiniteSet(T)
        BY <1>2
    <2>. HIDE DEF S
    <2>2. IsFiniteSet(UNION S)
        BY <1>3, <2>1, FS_UNION
    <2>. QED BY <1>1, <2>2
<1>5. A # {}
    <2>1. PICK f \in Files : of[f] # {} /\ of[f] \in S
        BY <1>2, PlanningAssumption
    <2>. HIDE DEF A, S
    <2>. QED BY <1>1, <2>1
<1>6. ASSUME NEW a \in A, NEW b \in A, a # b, a.file = b.file
      PROVE  Earlier(a, b) \/ Earlier(b, a)
    <2>1. PICK f \in Files, g \in Files : a \in of[f] /\ b \in of[g]
        BY <1>1
    <2>2. f = g
        BY <1>2, <1>6, <2>1
    <2>. QED BY <1>2, <1>6, <2>1, <2>2
<1>. QED BY <1>4, <1>5, <1>6 DEF Boundaries, Overlap

\* What the planner may rely on of the dependencies of A.
Edge(A, D, a, b, kind) == \E d \in D : d.from = a /\ d.to = b /\ d.kind = kind

Relations(A, D) ==
    /\ Over(D, A)
    /\ \A d \in D : /\ d.kind \in {"causal", "hard", "import", "test"}
                    /\ d.kind = "hard" => d.from.file = d.to.file
                    /\ d.kind = "import" => /\ d.from.file = d.to.file
                                            /\ d.to.node.import /\ ~d.from.node.import
                    /\ d.kind = "test" => d.from.file # d.to.file /\ d.from.node.test
    /\ \A a, b \in A : a # b /\ Overlap(a, b) => Edge(A, D, a, b, "hard") \/ Edge(A, D, b, a, "hard")
    /\ \A a, b \in A : a.file = b.file /\ ~Overlap(a, b) /\ b.node.import /\ ~a.node.import
                           => Edge(A, D, a, b, "import")

\* Edges of one kind between the pairs of R.
Between(R, kind, c) ==
    {[from |-> p[1], to |-> p[2], kind |-> kind, confidence |-> c] : p \in R}

\* d is the edge of that kind from a to b.
Joins(d, a, b, kind, c) == d = [from |-> a, to |-> b, kind |-> kind, confidence |-> c]

LEMMA BetweenPairs ==
    ASSUME NEW A, NEW R \in SUBSET (A \X A), NEW kind, NEW c, NEW d,
           NEW a \in A, NEW b \in A, <<a, b>> \in R, Joins(d, a, b, kind, c)
    PROVE  d \in Between(R, kind, c)
<1>1. PICK p : p = <<a, b>>
    OBVIOUS
<1>2. p \in R /\ p[1] = a /\ p[2] = b
    BY <1>1
<1>. QED BY <1>2 DEF Between, Joins

\* The edges that are inferred from a to b.
Infers(d, a, b, shared) ==
    \/ /\ Joins(d, a, b, "causal", 700)
       /\ Earlier(a, b)
       /\ a.file = b.file \/ (a.file \in shared /\ b.file \in shared)
    \/ /\ Joins(d, a, b, "hard", 1000)
       /\ Earlier(a, b) /\ Overlap(a, b)
    \/ /\ Joins(d, a, b, "import", 950)
       /\ a.file = b.file /\ ~Overlap(a, b) /\ b.node.import /\ ~a.node.import
    \/ /\ Joins(d, a, b, "test", 900)
       /\ a.node.test /\ ~b.node.test /\ a.file # b.file

\* The edges that infer_dependencies finds, one by one.
LEMMA InferredEdges ==
    ASSUME NEW A, NEW shared, NEW d
    PROVE  d \in Inferred(A, shared) <=> \E a, b \in A : Infers(d, a, b, shared)
<1> DEFINE pairs == {p \in A \X A : Earlier(p[1], p[2])}
           sibling(p) == p[1].file = p[2].file /\ ~Overlap(p[1], p[2])
           Near == {q \in pairs : q[1].file = q[2].file \/ (q[1].file \in shared /\ q[2].file \in shared)}
           Nested == {q \in pairs : Overlap(q[1], q[2])}
           Imports == {q \in A \X A : sibling(q) /\ q[2].node.import /\ ~q[1].node.import}
           Tests == {q \in A \X A : q[1].node.test /\ ~q[2].node.test /\ q[1].file # q[2].file}
<1>1. Inferred(A, shared) =
          ((Between(Near, "causal", 700) \cup Between(Nested, "hard", 1000))
              \cup Between(Imports, "import", 950)) \cup Between(Tests, "test", 900)
    BY DEF Inferred, Between
<1>2. /\ Near \in SUBSET (A \X A) /\ Nested \in SUBSET (A \X A)
      /\ Imports \in SUBSET (A \X A) /\ Tests \in SUBSET (A \X A)
    OBVIOUS
<1>3. ASSUME NEW a \in A, NEW b \in A
      PROVE  /\ <<a, b>> \in Near <=>
                    Earlier(a, b) /\ (a.file = b.file \/ (a.file \in shared /\ b.file \in shared))
             /\ <<a, b>> \in Nested <=> Earlier(a, b) /\ Overlap(a, b)
             /\ <<a, b>> \in Imports <=>
                    a.file = b.file /\ ~Overlap(a, b) /\ b.node.import /\ ~a.node.import
             /\ <<a, b>> \in Tests <=> a.node.test /\ ~b.node.test /\ a.file # b.file
    OBVIOUS
<1>. HIDE DEF Near, Nested, Imports, Tests
<1>4. ASSUME NEW R, R \in SUBSET (A \X A), NEW kind, NEW c,
             NEW a \in A, NEW b \in A, <<a, b>> \in R, Joins(d, a, b, kind, c)
      PROVE  d \in Between(R, kind, c)
    BY <1>4, BetweenPairs
<1>5. ASSUME d \in Inferred(A, shared)
      PROVE  \E a, b \in A : Infers(d, a, b, shared)
    <2>1. CASE d \in Between(Near, "causal", 700)
        <3>1. PICK p \in Near : d = [from |-> p[1], to |-> p[2], kind |-> "causal", confidence |-> 700]
            BY <2>1 DEF Between
        <3>2. PICK a \in A, b \in A : p = <<a, b>>
            BY <1>2
        <3>3. <<a, b>> \in Near /\ Joins(d, a, b, "causal", 700)
            BY <3>1, <3>2 DEF Joins
        <3>. QED BY <1>3, <3>3 DEF Infers
    <2>2. CASE d \in Between(Nested, "hard", 1000)
        <3>1. PICK p \in Nested : d = [from |-> p[1], to |-> p[2], kind |-> "hard", confidence |-> 1000]
            BY <2>2 DEF Between
        <3>2. PICK a \in A, b \in A : p = <<a, b>>
            BY <1>2
        <3>3. <<a, b>> \in Nested /\ Joins(d, a, b, "hard", 1000)
            BY <3>1, <3>2 DEF Joins
        <3>. QED BY <1>3, <3>3 DEF Infers
    <2>3. CASE d \in Between(Imports, "import", 950)
        <3>1. PICK p \in Imports : d = [from |-> p[1], to |-> p[2], kind |-> "import", confidence |-> 950]
            BY <2>3 DEF Between
        <3>2. PICK a \in A, b \in A : p = <<a, b>>
            BY <1>2
        <3>3. <<a, b>> \in Imports /\ Joins(d, a, b, "import", 950)
            BY <3>1, <3>2 DEF Joins
        <3>. QED BY <1>3, <3>3 DEF Infers
    <2>4. CASE d \in Between(Tests, "test", 900)
        <3>1. PICK p \in Tests : d = [from |-> p[1], to |-> p[2], kind |-> "test", confidence |-> 900]
            BY <2>4 DEF Between
        <3>2. PICK a \in A, b \in A : p = <<a, b>>
            BY <1>2
        <3>3. <<a, b>> \in Tests /\ Joins(d, a, b, "test", 900)
            BY <3>1, <3>2 DEF Joins
        <3>. QED BY <1>3, <3>3 DEF Infers
    <2>. QED BY <1>1, <1>5, <2>1, <2>2, <2>3, <2>4
<1>6. ASSUME NEW a \in A, NEW b \in A, Infers(d, a, b, shared)
      PROVE  d \in Inferred(A, shared)
    <2>1. CASE /\ Joins(d, a, b, "causal", 700) /\ Earlier(a, b)
               /\ (a.file = b.file \/ (a.file \in shared /\ b.file \in shared))
        <3>0. <<a, b>> \in Near /\ Near \in SUBSET (A \X A)
            BY <1>2, <1>3, <2>1
        <3>1. d \in Between(Near, "causal", 700)
            BY <1>4, <2>1, <3>0
        <3>. QED BY <1>1, <3>1
    <2>2. CASE Joins(d, a, b, "hard", 1000) /\ Earlier(a, b) /\ Overlap(a, b)
        <3>0. <<a, b>> \in Nested /\ Nested \in SUBSET (A \X A)
            BY <1>2, <1>3, <2>2
        <3>1. d \in Between(Nested, "hard", 1000)
            BY <1>4, <2>2, <3>0
        <3>. QED BY <1>1, <3>1
    <2>3. CASE /\ Joins(d, a, b, "import", 950)
               /\ a.file = b.file /\ ~Overlap(a, b) /\ b.node.import /\ ~a.node.import
        <3>0. <<a, b>> \in Imports /\ Imports \in SUBSET (A \X A)
            BY <1>2, <1>3, <2>3
        <3>1. d \in Between(Imports, "import", 950)
            BY <1>4, <2>3, <3>0
        <3>. QED BY <1>1, <3>1
    <2>4. CASE Joins(d, a, b, "test", 900) /\ a.node.test /\ ~b.node.test /\ a.file # b.file
        <3>0. <<a, b>> \in Tests /\ Tests \in SUBSET (A \X A)
            BY <1>2, <1>3, <2>4
        <3>1. d \in Between(Tests, "test", 900)
            BY <1>4, <2>4, <3>0
        <3>. QED BY <1>1, <3>1
    <2>. QED BY <1>6, <2>1, <2>2, <2>3, <2>4 DEF Infers
<1>. QED BY <1>5, <1>6

\* The strongest edge between two atoms is kept: a hard one always, and one to an import
\* where there is no hard one.
LEMMA DependenciesRelate ==
    ASSUME NEW A, Boundaries(A), NEW shared
    PROVE  Relations(A, Dependencies(A, shared))
<1> DEFINE I == Inferred(A, shared)
           D == Dependencies(A, shared)
<1>1. \A d : d \in D <=> d \in I /\ \A e \in I : e.from = d.from /\ e.to = d.to => e.confidence <= d.confidence
    BY DEF Dependencies
<1>2. ASSUME NEW d \in I
      PROVE  /\ d.from \in A /\ d.to \in A
             /\ d.kind \in {"causal", "hard", "import", "test"}
             /\ d.confidence \in Nat
             /\ d.kind = "causal" => d.confidence = 700
             /\ d.kind = "hard" => d.confidence = 1000 /\ Overlap(d.from, d.to)
             /\ d.kind = "import" => /\ d.from.file = d.to.file
                                     /\ d.to.node.import /\ ~d.from.node.import
                                     /\ d.confidence = 950
             /\ d.kind = "test" => /\ d.from.file # d.to.file /\ d.from.node.test
                                   /\ d.confidence = 900
    BY InferredEdges DEF Infers, Joins
<1>3. ASSUME NEW a \in A, NEW b \in A, Overlap(a, b), Earlier(a, b)
      PROVE  Edge(A, D, a, b, "hard")
    <2>1. PICK d : d = [from |-> a, to |-> b, kind |-> "hard", confidence |-> 1000]
        OBVIOUS
    <2>2. d \in I
        BY <1>3, <2>1, InferredEdges DEF Infers, Joins
    <2>3. \A e \in I : e.confidence <= d.confidence
        BY <1>2, <2>1
    <2>4. d \in D
        BY <1>1, <2>2, <2>3
    <2>. QED BY <2>1, <2>4 DEF Edge
<1>4. ASSUME NEW a \in A, NEW b \in A,
             a.file = b.file, ~Overlap(a, b), b.node.import, ~a.node.import
      PROVE  Edge(A, D, a, b, "import")
    <2>1. PICK d : d = [from |-> a, to |-> b, kind |-> "import", confidence |-> 950]
        OBVIOUS
    <2>2. d \in I
        BY <1>4, <2>1, InferredEdges DEF Infers, Joins
    <2>3. \A e \in I : e.from = a /\ e.to = b => e.confidence <= 950
        BY <1>2, <1>4
    <2>4. d \in D
        BY <1>1, <2>1, <2>2, <2>3
    <2>. QED BY <2>1, <2>4 DEF Edge
<1>5. \A a, b \in A : a # b /\ Overlap(a, b) => Edge(A, D, a, b, "hard") \/ Edge(A, D, b, a, "hard")
    <2>1. \A a, b \in A : Overlap(a, b) => Overlap(b, a)
        BY DEF Overlap
    <2>. QED BY <1>3, <2>1 DEF Boundaries
<1>6. \A d \in D : d.kind = "hard" => d.from.file = d.to.file
    BY <1>1, <1>2 DEF Overlap
<1>. HIDE DEF D
<1>. QED BY <1>1, <1>2, <1>4, <1>5, <1>6 DEF Relations, Over, D

-----------------------------------------------------------------------------
(* The plan.                                                                *)

Components(A, D) == {HardComponent(a, A, D) : a \in A}

\* What orders unit u after unit v.
Leads(u, v, D) == u # v /\ \E d \in D : d.kind # "causal" /\ d.from \in u /\ d.to \in v

Followed(u, A, D) == {v \in Components(A, D) : Leads(u, v, D)}

\* All atoms in one unit, or each component in one.
Together(A) == UnitNames = {A} /\ UnitWaits = [u \in UnitNames |-> {}]

Apart(A, D) ==
    /\ UnitNames = Components(A, D)
    /\ UnitWaits = [u \in UnitNames |-> Followed(u, A, D)]

\* The planner's two plans.
LEMMA PlanIsEither ==
    ASSUME NEW A, NEW D, NEW covered, units = PlanUnits(A, D, covered)
    PROVE  Together(A) \/ Apart(A, D)
<1>1. ASSUME NEW C, NEW W, units = {[atoms |-> u, dependsOn |-> W[u]] : u \in C}
      PROVE  UnitNames = C /\ UnitWaits = [u \in UnitNames |-> W[u]]
    <2>0. /\ \A u \in units : u.atoms \in C /\ u.dependsOn = W[u.atoms]
          /\ \A n \in C : \E u \in units : u.atoms = n
        <3>1. ASSUME NEW u \in units
              PROVE  u.atoms \in C /\ u.dependsOn = W[u.atoms]
            <4>1. PICK n \in C : u = [atoms |-> n, dependsOn |-> W[n]]
                BY <1>1
            <4>. QED BY <4>1
        <3>2. ASSUME NEW n \in C
              PROVE  \E u \in units : u.atoms = n
            <4>1. PICK u : u = [atoms |-> n, dependsOn |-> W[n]]
                OBVIOUS
            <4>2. u \in units
                BY <1>1, <4>1
            <4>. QED BY <4>1, <4>2
        <3>. QED BY <3>1, <3>2
    <2>1. UnitNames = C
        BY <2>0 DEF UnitNames
    <2>2. ASSUME NEW n \in C
          PROVE  (CHOOSE u \in units : u.atoms = n).dependsOn = W[n]
        <3>1. \E u \in units : u.atoms = n
            BY <2>0
        <3>2. PICK u : u = (CHOOSE v \in units : v.atoms = n) /\ u \in units /\ u.atoms = n
            BY <3>1
        <3>3. u.dependsOn = W[n]
            BY <2>0, <3>2
        <3>. QED BY <3>2, <3>3
    <2>. QED BY <2>1, <2>2 DEF UnitWaits
<1>2. CASE units = {[atoms |-> A, dependsOn |-> {}]}
    <2> DEFINE C == {A}
               W == [u \in C |-> {}]
    <2>1. units = {[atoms |-> u, dependsOn |-> W[u]] : u \in C}
        BY <1>2
    <2>2. \A u \in C : W[u] = {}
        OBVIOUS
    <2>. HIDE DEF W
    <2>3. UnitNames = C /\ UnitWaits = [u \in UnitNames |-> W[u]]
        BY <1>1, <2>1
    <2>. QED BY <2>2, <2>3 DEF Together
<1>3. CASE units # {[atoms |-> A, dependsOn |-> {}]}
    <2> DEFINE C == Components(A, D)
               W == [u \in C |-> Followed(u, A, D)]
    <2>1. units = {[atoms |-> u, dependsOn |-> {v \in C : Leads(u, v, D)}] : u \in C}
        BY <1>3 DEF PlanUnits, Components, Leads
    <2>2. \A u \in C : W[u] = Followed(u, A, D) /\ W[u] = {v \in C : Leads(u, v, D)}
        BY DEF Followed
    <2>. HIDE DEF W, C
    <2>3. units = {[atoms |-> u, dependsOn |-> W[u]] : u \in C}
        BY <2>1, <2>2
    <2>4. UnitNames = C /\ UnitWaits = [u \in UnitNames |-> W[u]]
        BY <1>1, <2>3
    <2>. QED BY <2>2, <2>4 DEF Apart, C
<1>. QED BY <1>2, <1>3

\* The components of the atoms are finitely many, disjoint, each of one file, and no
\* two that overlap are in different ones.
LEMMA ComponentsSplit ==
    ASSUME NEW A, NEW D, Boundaries(A), Relations(A, D)
    PROVE  /\ IsFiniteSet(Components(A, D)) /\ Components(A, D) # {}
           /\ {} \notin Components(A, D) /\ UNION Components(A, D) = A
           /\ \A u, v \in Components(A, D) : u = v \/ u \cap v = {}
           /\ \A u \in Components(A, D) : \A a, b \in u : a.file = b.file
           /\ \A a, b \in A : Overlap(a, b) => \E u \in Components(A, D) : {a, b} \subseteq u
<1> DEFINE C == Components(A, D)
           of(a) == HardComponent(a, A, D)
<1>0. IsFiniteSet(A) /\ A # {} /\ Over(D, A)
    BY DEF Boundaries, Relations
<1>1. \A a \in A : /\ a \in of(a) /\ of(a) \subseteq A /\ Unsplit(of(a), D)
                   /\ \A X \in SUBSET A : a \in X /\ Unsplit(X, D) => of(a) \subseteq X
    BY <1>0, ComponentClosed
<1>2. \A x \in A : \A y \in of(x) : of(y) = of(x)
    BY <1>0, ComponentsPartition
<1>3. \A u : u \in C <=> \E a \in A : u = of(a)
    BY DEF Components
<1>. HIDE DEF C, of
<1>4. IsFiniteSet(C)
    <2>1. C \subseteq SUBSET A
        BY <1>1, <1>3
    <2>. QED BY <1>0, <2>1, FS_SUBSET, FS_Subset
<1>5. C # {} /\ {} \notin C /\ UNION C = A
    BY <1>0, <1>1, <1>3
<1>6. \A u, v \in C : u = v \/ u \cap v = {}
    BY <1>2, <1>3
<1>7. ASSUME NEW u \in C, NEW a \in u, NEW b \in u
      PROVE  a.file = b.file
    <2>1. PICK x \in A : u = of(x)
        BY <1>3
    <2>2. PICK X : X = {z \in A : z.file = x.file}
        OBVIOUS
    <2>3. Unsplit(X, D)
        BY <2>2 DEF Unsplit, Relations, Over
    <2>4. u \subseteq X
        BY <1>1, <2>1, <2>2, <2>3
    <2>. QED BY <2>2, <2>4
<1>8. ASSUME NEW a \in A, NEW b \in A, Overlap(a, b)
      PROVE  \E u \in C : {a, b} \subseteq u
    <2>1. of(a) \in C /\ a \in of(a) /\ Unsplit(of(a), D)
        BY <1>1, <1>3
    <2>2. b \in of(a)
        <3>1. CASE a = b
            BY <2>1, <3>1
        <3>2. CASE a # b
            <4>1. \/ \E d \in D : d.from = a /\ d.to = b /\ d.kind = "hard"
                  \/ \E d \in D : d.from = b /\ d.to = a /\ d.kind = "hard"
                BY <1>8, <3>2 DEF Relations, Edge
            <4>. QED BY <2>1, <4>1 DEF Unsplit
        <3>. QED BY <3>1, <3>2
    <2>. QED BY <2>1, <2>2
<1>. QED BY <1>4, <1>5, <1>6, <1>7, <1>8 DEF C

\* The units partition the atoms, and depend on other units of the plan.
Partitioned(A) ==
    /\ IsFiniteSet(UnitNames) /\ UnitNames # {} /\ {} \notin UnitNames
    /\ UNION UnitNames = A
    /\ \A m, n \in UnitNames : m = n \/ m \cap n = {}
    /\ \A a, b \in A : Overlap(a, b) => \E n \in UnitNames : {a, b} \subseteq n
    /\ \A n \in UnitNames : n \notin UnitWaits[n] /\ UnitWaits[n] \subseteq UnitNames

LEMMA PlanPartitions ==
    ASSUME NEW A, NEW D, Boundaries(A), Relations(A, D), Together(A) \/ Apart(A, D)
    PROVE  Partitioned(A)
<1>1. CASE Together(A)
    <2>1. IsFiniteSet({A})
        BY FS_Singleton
    <2>2. UnitNames = {A} /\ UnitWaits = [u \in UnitNames |-> {}] /\ A # {}
        BY <1>1 DEF Together, Boundaries
    <2>. QED BY <2>1, <2>2 DEF Partitioned
<1>2. CASE Apart(A, D)
    <2>1. /\ IsFiniteSet(UnitNames) /\ UnitNames # {}
          /\ {} \notin UnitNames /\ UNION UnitNames = A
          /\ \A u, v \in UnitNames : u = v \/ u \cap v = {}
          /\ \A a, b \in A : Overlap(a, b) => \E u \in UnitNames : {a, b} \subseteq u
        BY <1>2, ComponentsSplit DEF Apart
    <2>2. \A u \in UnitNames : u \notin UnitWaits[u] /\ UnitWaits[u] \subseteq UnitNames
        BY <1>2 DEF Apart, Followed, Leads
    <2>. QED BY <2>1, <2>2 DEF Partitioned
<1>. QED BY <1>1, <1>2

\* Such a plan is valid unless its units wait for each other in a loop.
LEMMA ValidIffNoLoop ==
    ASSUME Partitioned(atoms)
    PROVE  /\ ValidPlan <=> Orderable(UnitNames, UnitWaits)
           /\ ValidPlan <=> ~Looping(UnitNames, UnitWaits)
           /\ UnitsClosed
<1>1. units # {}
    BY DEF Partitioned, UnitNames
<1>2. ValidPlan <=> Orderable(UnitNames, UnitWaits)
    BY <1>1 DEF ValidPlan, Partitioned
<1>3. PICK K, waits : K = UnitNames /\ waits = UnitWaits
    OBVIOUS
<1>4. IsFiniteSet(K) /\ \A k \in K : waits[k] \subseteq K
    BY <1>3 DEF Partitioned
<1>5. Orderable(K, waits) <=> ~Looping(K, waits)
    BY <1>4, OrderedIffNoLoop
<1>6. UnitsClosed
    BY DEF UnitsClosed, Partitioned
<1>. QED BY <1>2, <1>3, <1>5, <1>6

\* Something of u that is no import has an import of its file in v.
UsesImport(u, v) ==
    u # v /\ \E a \in u : \E b \in v : a.file = b.file /\ b.node.import /\ ~a.node.import

\* Units that wait for each other's imports in a loop are of one file, and two of them
\* hold an import among other things.
LEMMA ImportLoop ==
    ASSUME NEW M, M \subseteq UnitNames, M # {},
           \A u \in UnitNames : \A a, b \in u : a.file = b.file,
           \A u \in M : \E v \in M : UsesImport(u, v)
    PROVE  InnerImports
<1>1. PICK k \in M : TRUE
    OBVIOUS
<1>2. PICK m \in M : UsesImport(k, m)
    OBVIOUS
<1>3. PICK n \in M : UsesImport(m, n)
    OBVIOUS
<1>4. PICK l \in M : UsesImport(n, l)
    OBVIOUS
<1>5. PICK a \in m : a.node.import
    BY <1>2 DEF UsesImport
<1>6. PICK b \in m, c \in n : m # n /\ b.file = c.file /\ c.node.import /\ ~b.node.import
    BY <1>3 DEF UsesImport
<1>7. PICK d \in n : ~d.node.import
    BY <1>4 DEF UsesImport
<1>8. a.file = c.file /\ m \in UnitNames /\ n \in UnitNames
    BY <1>5, <1>6
<1>. QED BY <1>5, <1>6, <1>7, <1>8 DEF InnerImports

\* Two files both have something called a test.
TestsInTwoFiles(A) == \E a, b \in A : a.file # b.file /\ a.node.test /\ b.node.test

\* A unit that comes after another uses an import of its file there, or has a test of
\* another file.
LEMMA LeadsToImportOrTest ==
    ASSUME NEW A, NEW D, Boundaries(A), Relations(A, D),
           NEW u \in Components(A, D), NEW v \in Components(A, D), Leads(u, v, D)
    PROVE  \/ UsesImport(u, v)
           \/ \E a \in u : \E b \in v : a.node.test /\ a.file # b.file
<1>1. PICK d \in D : u # v /\ d.kind # "causal" /\ d.from \in u /\ d.to \in v
    BY DEF Leads
<1>2. d.kind # "hard"
    <2>. SUFFICES ASSUME d.kind = "hard" PROVE FALSE
        OBVIOUS
    <2>1. PICK x \in A : u = HardComponent(x, A, D)
        BY DEF Components
    <2>2. IsFiniteSet(A) /\ Over(D, A)
        BY DEF Boundaries, Relations
    <2>3. Unsplit(u, D)
        BY <2>1, <2>2, ComponentClosed
    <2>4. d.to \in u
        BY <1>1, <2>3 DEF Unsplit
    <2>5. u \cap v = {}
        BY <1>1, ComponentsSplit
    <2>. QED BY <1>1, <2>4, <2>5
<1>3. d.kind \in {"import", "test"}
    BY <1>1, <1>2 DEF Relations
<1>4. CASE d.kind = "import"
    BY <1>1, <1>4 DEF Relations, UsesImport
<1>5. CASE d.kind = "test"
    BY <1>1, <1>5 DEF Relations
<1>. QED BY <1>3, <1>4, <1>5

\* The causes of a loop: where no two files have a test, the units of other files than
\* the tests' follow imports only, and so does every unit that no test leads out of.
LEMMA LoopHasCause ==
    ASSUME NEW A, NEW D, Boundaries(A), Relations(A, D), Apart(A, D),
           Looping(UnitNames, UnitWaits), ~TestsInTwoFiles(A)
    PROVE  InnerImports
<1>1. PICK L \in SUBSET UnitNames : L # {} /\ \A k \in L : UnitWaits[k] \cap L # {}
    BY DEF Looping
<1>2. /\ UnitNames = Components(A, D) /\ UNION UnitNames = A
      /\ \A u \in UnitNames : u # {} /\ \A a, b \in u : a.file = b.file
    BY ComponentsSplit DEF Apart
<1>3. ASSUME NEW k \in L
      PROVE  \E l \in L : \/ UsesImport(k, l)
                           \/ \E a \in k : \E b \in l : a.node.test /\ a.file # b.file
    <2>1. PICK l \in L : l \in UnitWaits[k]
        BY <1>1
    <2>2. k \in Components(A, D) /\ l \in Components(A, D) /\ Leads(k, l, D)
        BY <1>1, <1>2, <2>1 DEF Apart, Followed
    <2>. QED BY <2>2, LeadsToImportOrTest
<1>4. CASE \A k \in L : \E l \in L : UsesImport(k, l)
    BY <1>1, <1>2, <1>4, ImportLoop
<1>5. ASSUME NEW k \in L, ~\E l \in L : UsesImport(k, l)
      PROVE  InnerImports
    <2>0. PICK l \in L : \E a \in k : \E b \in l : a.node.test /\ a.file # b.file
        BY <1>3, <1>5
    <2>1. PICK a \in k, b \in l : a.node.test /\ a.file # b.file
        BY <2>0
    <2> DEFINE M == {x \in L : \E z \in x : z.file # a.file}
    <2>2. l \in M
        BY <2>1
    <2>3. ASSUME NEW x \in M
          PROVE  \E y \in M : UsesImport(x, y)
        <3>1. PICK y \in L : \/ UsesImport(x, y)
                             \/ \E c \in x : \E e \in y : c.node.test /\ c.file # e.file
            BY <1>3
        <3>2. \A c \in x : c.file # a.file /\ c \in A
            BY <1>1, <1>2
        <3>3. a \in A
            BY <1>1, <1>2, <2>1
        <3>4. \A c \in x : ~c.node.test
            BY <2>1, <3>2, <3>3 DEF TestsInTwoFiles
        <3>5. UsesImport(x, y)
            BY <3>1, <3>4
        <3>6. y \in M
            BY <3>2, <3>5 DEF UsesImport
        <3>. QED BY <3>5, <3>6
    <2>4. M \subseteq UnitNames /\ M # {}
        BY <1>1, <2>2
    <2>. HIDE DEF M
    <2>. QED BY <1>2, <2>3, <2>4, ImportLoop
<1>. QED BY <1>4, <1>5

\* Two units that each hold an import among other things wait for each other.
LEMMA InnerImportsLoop ==
    ASSUME NEW A, NEW D, Boundaries(A), Relations(A, D), Together(A) \/ Apart(A, D), InnerImports
    PROVE  Looping(UnitNames, UnitWaits)
<1>1. PICK m \in UnitNames, n \in UnitNames : m # n /\ \E a, b \in m : \E c, d \in n :
          /\ a.file = c.file
          /\ a.node.import /\ ~b.node.import /\ c.node.import /\ ~d.node.import
    BY DEF InnerImports
<1>2. PICK a \in m, b \in m, c \in n, d \in n :
          /\ a.file = c.file
          /\ a.node.import /\ ~b.node.import /\ c.node.import /\ ~d.node.import
    BY <1>1
<1>3. Apart(A, D)
    BY <1>1 DEF Together
<1>4. /\ UnitNames = Components(A, D) /\ UNION UnitNames = A
      /\ \A u, v \in UnitNames : u = v \/ u \cap v = {}
      /\ \A u \in UnitNames : \A x, y \in u : x.file = y.file
      /\ \A x, y \in A : Overlap(x, y) => \E u \in UnitNames : {x, y} \subseteq u
    BY <1>3, ComponentsSplit DEF Apart
<1>5. ASSUME NEW u \in UnitNames, NEW v \in UnitNames, u # v, NEW x \in u, NEW y \in v,
             x.file = y.file, y.node.import, ~x.node.import
      PROVE  v \in UnitWaits[u]
    <2>1. x \in A /\ y \in A
        BY <1>4
    <2>2. ~Overlap(x, y)
        <3>. SUFFICES ASSUME Overlap(x, y) PROVE FALSE
            OBVIOUS
        <3>1. PICK w \in UnitNames : x \in w /\ y \in w
            BY <1>4, <2>1
        <3>2. w = u /\ w = v
            BY <1>4, <3>1
        <3>. QED BY <1>5, <3>2
    <2>3. Edge(A, D, x, y, "import")
        BY <1>5, <2>1, <2>2 DEF Relations
    <2>4. Leads(u, v, D)
        BY <1>5, <2>3 DEF Leads, Edge
    <2>. QED BY <1>3, <1>4, <2>4 DEF Apart, Followed
<1>6. b.file = c.file /\ d.file = a.file
    BY <1>2, <1>4
<1>7. n \in UnitWaits[m]
    BY <1>1, <1>2, <1>5, <1>6
<1>8. m \in UnitWaits[n]
    BY <1>1, <1>2, <1>5, <1>6
<1>9. PICK L : L = {m, n}
    OBVIOUS
<1>10. L \in SUBSET UnitNames /\ L # {}
    BY <1>9
<1>11. \A k \in L : UnitWaits[k] \cap L # {}
    BY <1>7, <1>8, <1>9
<1>. QED BY <1>10, <1>11 DEF Looping

\* A plan is refused for a loop only, from one of two causes.
LEMMA LoopsAreExplained ==
    ASSUME NEW D, Boundaries(atoms), Relations(atoms, D), Together(atoms) \/ Apart(atoms, D)
    PROVE  LoopsExplained
<1>1. Partitioned(atoms)
    BY PlanPartitions
<1>2. ValidPlan <=> ~Looping(UnitNames, UnitWaits)
    BY <1>1, ValidIffNoLoop
<1>3. ASSUME Looping(UnitNames, UnitWaits)
      PROVE  InnerImports \/ TestsInTwoFiles(atoms)
    <2>1. CASE Together(atoms)
        <3>1. PICK L \in SUBSET UnitNames : L # {} /\ \A k \in L : UnitWaits[k] \cap L # {}
            BY <1>3 DEF Looping
        <3>2. PICK k \in L : UnitWaits[k] \cap L # {}
            BY <3>1
        <3>. QED BY <2>1, <3>2 DEF Together
    <2>2. CASE Apart(atoms, D)
        BY <1>3, <2>2, LoopHasCause
    <2>. QED BY <2>1, <2>2
<1>4. ValidPlan \/ (Looping(UnitNames, UnitWaits) /\ (InnerImports \/ TestsInTwoFiles(atoms)))
    BY <1>2, <1>3
<1>. QED BY <1>4 DEF LoopsExplained, TestsInTwoFiles

-----------------------------------------------------------------------------
(* The reviews.                                                             *)

\* At most one element, and no two.
LEMMA AtMostOne ==
    ASSUME NEW S, IsFiniteSet(S)
    PROVE  Cardinality(S) <= 1 <=> \A x, y \in S : x = y
<1>1. ASSUME Cardinality(S) <= 1, NEW x \in S, NEW y \in S
      PROVE  x = y
    <2>1. Cardinality(S) \in Nat /\ Cardinality(S) # 0
        BY FS_CardinalityType, FS_EmptySet
    <2>2. Cardinality(S) = 1
        BY <1>1, <2>1
    <2>3. PICK z : S = {z}
        BY <2>2, FS_Singleton
    <2>. QED BY <2>3
<1>2. ASSUME \A x, y \in S : x = y
      PROVE  Cardinality(S) <= 1
    <2>1. CASE S = {}
        BY <2>1, FS_EmptySet
    <2>2. CASE S # {}
        <3>1. PICK x : S = {x}
            BY <1>2, <2>2
        <3>2. Cardinality(S) = 1
            BY <3>1, FS_Singleton
        <3>. QED BY <3>2
    <2>. QED BY <2>1, <2>2
<1>. QED BY <1>1, <1>2

\* The needs of a changeset are among its pull requests; those of this repository wait
\* for what the plan says, and perhaps for the other repository.
Composed ==
    /\ IsFiniteSet(DOMAIN needs)
    /\ \A k \in DOMAIN needs : needs[k] \subseteq DOMAIN needs
    /\ \A n \in UnitNames : needs[n] \subseteq UnitWaits[n] \cup {Foreign}

\* No review has two parents.
Line == \A n \in UnitNames : \A l, m \in UnitWaits[n] : l = m

\* Projectable, without counting.
LEMMA ProjectableIsLine ==
    ASSUME NEW A, Partitioned(A)
    PROVE  Projectable <=> Line /\ \A n \in UnitNames : Foreign \notin needs[n]
<1>1. ASSUME NEW n \in UnitNames
      PROVE  Cardinality(UnitWaits[n]) <= 1 <=> \A l, m \in UnitWaits[n] : l = m
    <2>1. IsFiniteSet(UnitWaits[n])
        BY FS_Subset DEF Partitioned
    <2>. QED BY <2>1, AtMostOne
<1>. QED BY <1>1 DEF Projectable, Line

\* What a projectable plan's review needs is on one line.
LEMMA ProjectableStacks ==
    ASSUME NEW A, Partitioned(A), Projectable, NEW n \in UnitNames
    PROVE  \A l, m \in Ancestors(n) : l = m \/ l \in Ancestors(m) \/ m \in Ancestors(l)
<1>1. IsFiniteSet(UnitNames) /\ \A k \in UnitNames : UnitWaits[k] \subseteq UnitNames
    BY DEF Partitioned
<1>2. \A k \in UnitNames : \A x, y \in UnitWaits[k] : x = y
    BY ProjectableIsLine DEF Line
<1>. QED BY <1>1, <1>2, OneLine

\* What a projectable plan's review waits for is below it.
LEMMA ProjectableHolds ==
    ASSUME NEW A, Partitioned(A), Composed, Projectable, NEW n \in UnitNames
    PROVE  needs[n] \subseteq Ancestors(n)
<1>1. IsFiniteSet(UnitNames) /\ \A k \in UnitNames : UnitWaits[k] \subseteq UnitNames
    BY DEF Partitioned
<1>2. UnitWaits[n] \subseteq Ancestors(n)
    BY <1>1, AncestorsClosed
<1>3. needs[n] \subseteq UnitWaits[n]
    BY ProjectableIsLine DEF Composed
<1>. QED BY <1>2, <1>3

\* A plan with two parents somewhere has a unit that uses what two others hold.
LEMMA UnprojectableUses ==
    ASSUME NEW A, NEW D, Partitioned(A), Together(A) \/ Apart(A, D), ~Line
    PROVE  \E n \in UnitNames : \E l, m \in Ancestors(n) :
              l # m /\ \E a, b \in n : \E d, e \in D :
                 d.from = a /\ d.to \in l /\ e.from = b /\ e.to \in m
<1>1. PICK n \in UnitNames : ~\A l, m \in UnitWaits[n] : l = m
    BY DEF Line
<1>2. PICK l \in UnitWaits[n], m \in UnitWaits[n] : l # m
    BY <1>1
<1>3. Apart(A, D)
    BY <1>1 DEF Together
<1>4. Leads(n, l, D) /\ Leads(n, m, D)
    BY <1>2, <1>3 DEF Apart, Followed
<1>5. PICK d \in D, e \in D : d.from \in n /\ d.to \in l /\ e.from \in n /\ e.to \in m
    BY <1>4 DEF Leads
<1>6. l \in Ancestors(n) /\ m \in Ancestors(n)
    <2>1. IsFiniteSet(UnitNames) /\ \A k \in UnitNames : UnitWaits[k] \subseteq UnitNames
        BY DEF Partitioned
    <2>2. UnitWaits[n] \subseteq Ancestors(n)
        BY <2>1, AncestorsClosed
    <2>. QED BY <1>2, <2>2
<1>7. \E a, b \in n : \E f, g \in D : f.from = a /\ f.to \in l /\ g.from = b /\ g.to \in m
    BY <1>5
<1>. QED BY <1>2, <1>6, <1>7

-----------------------------------------------------------------------------
(* The invariant: what each stage has computed from the input.              *)

Inputs == [layout : [Files -> Layouts],
           changed : [Files -> {C \in SUBSET Lines : C # {}}],
           shared : SUBSET Files, covered : BOOLEAN]

PlanningInv ==
    /\ input \in Inputs
    /\ stage \in {"changed", "analysed", "planned", "accepted", "composed", "scheduled",
                  "opened", "unprojectable", "refused"}
    /\ stage \in {"changed", "analysed"} => units = {}
    /\ stage \in {"changed", "analysed", "planned"} => needs = <<>>
    /\ stage # "changed" => /\ atoms = AllAtoms(input.layout, input.changed)
                            /\ dependencies = Dependencies(atoms, input.shared)
    /\ stage \notin {"changed", "analysed"} => units = PlanUnits(atoms, dependencies, input.covered)
    /\ stage \in {"accepted", "composed", "scheduled", "opened", "unprojectable"} => ValidPlan
    /\ stage \in {"composed", "scheduled", "opened", "unprojectable"} => Composed
    /\ stage \in {"scheduled", "opened", "unprojectable"} => Orderable(DOMAIN needs, needs)
    /\ stage = "refused" => \/ needs = <<>> /\ ~ValidPlan
                            \/ Composed /\ ~Orderable(DOMAIN needs, needs)
    /\ stage = "opened" => Projectable
    /\ stage = "unprojectable" => ~Projectable

\* The atoms that have been found, and how they depend on each other.
LEMMA StageAtoms ==
    ASSUME PlanningInv, stage # "changed"
    PROVE  Boundaries(atoms) /\ Relations(atoms, dependencies)
<1>1. input.layout \in [Files -> Layouts]
    BY DEF PlanningInv, Inputs
<1>2. Boundaries(atoms)
    BY <1>1, AtomsAreBoundaries DEF PlanningInv
<1>3. PICK A, shared : A = atoms /\ shared = input.shared
    OBVIOUS
<1>4. Relations(A, Dependencies(A, shared))
    BY <1>2, <1>3, DependenciesRelate
<1>. QED BY <1>2, <1>3, <1>4 DEF PlanningInv

\* The plan that has been made of them.
LEMMA StagePlan ==
    ASSUME PlanningInv, stage \notin {"changed", "analysed"}
    PROVE  /\ Boundaries(atoms) /\ Relations(atoms, dependencies)
           /\ Together(atoms) \/ Apart(atoms, dependencies)
           /\ Partitioned(atoms)
<1>1. Boundaries(atoms) /\ Relations(atoms, dependencies)
    BY StageAtoms
<1>2. Together(atoms) \/ Apart(atoms, dependencies)
    BY PlanIsEither DEF PlanningInv
<1>3. Partitioned(atoms)
    BY <1>1, <1>2, PlanPartitions
<1>. QED BY <1>1, <1>2, <1>3

\* What the invariant says of the plan, the order and the reviews.
LEMMA PlanningInvSound ==
    ASSUME PlanningInv
    PROVE  PlanningSound
<1>1. ASSUME stage # "changed", units # {}
      PROVE  UnitsClosed /\ LoopsExplained
    <2>1. stage \notin {"changed", "analysed"}
        BY <1>1 DEF PlanningInv
    <2>2. /\ Boundaries(atoms) /\ Relations(atoms, dependencies)
          /\ Together(atoms) \/ Apart(atoms, dependencies)
          /\ Partitioned(atoms)
        BY <2>1, StagePlan
    <2>3. UnitsClosed
        BY <2>2, ValidIffNoLoop
    <2>4. LoopsExplained
        BY <2>2, LoopsAreExplained
    <2>. QED BY <2>3, <2>4
<1>2. ASSUME needs # <<>>, stage \in {"refused", "scheduled"}
      PROVE  OrderSound
    <2>1. Composed
        BY <1>2 DEF PlanningInv
    <2>2. PICK K, waits : K = DOMAIN needs /\ waits = needs
        OBVIOUS
    <2>3. IsFiniteSet(K) /\ \A k \in K : waits[k] \subseteq K
        BY <2>1, <2>2 DEF Composed
    <2>4. Orderable(K, waits) <=> ~Looping(K, waits)
        BY <2>3, OrderedIffNoLoop
    <2>5. stage = "refused" <=> ~Orderable(K, waits)
        BY <1>2, <2>2 DEF PlanningInv
    <2>6. Orderable(K, waits) => \A k \in K : \A l \in waits[k] : Round(l, K, waits) < Round(k, K, waits)
        BY <2>3, OrderFollowsNeeds
    <2>7. Looping(K, waits) \in BOOLEAN
        BY DEF Looping
    <2>8. (stage = "refused") = Looping(K, waits)
        BY <2>4, <2>5, <2>7
    <2>9. stage = "scheduled" => \A k \in K : \A l \in waits[k] : Round(l, K, waits) < Round(k, K, waits)
        BY <2>5, <2>6
    <2>. QED BY <2>2, <2>8, <2>9 DEF OrderSound
<1>3. ReviewsStacked
    <2>1. ASSUME stage = "opened", NEW n \in UnitNames
          PROVE  /\ needs[n] \subseteq Ancestors(n)
                 /\ \A l, m \in Ancestors(n) :
                       l = m \/ l \in Ancestors(m) \/ m \in Ancestors(l)
        <3>1. Partitioned(atoms) /\ Projectable /\ Composed
            BY <2>1, StagePlan DEF PlanningInv
        <3>. QED BY <3>1, ProjectableStacks, ProjectableHolds
    <2>2. ASSUME stage = "unprojectable", \A n \in UnitNames : Foreign \notin needs[n]
          PROVE  \E n \in UnitNames : \E l, m \in Ancestors(n) :
                    l # m /\ \E a, b \in n : \E d, e \in dependencies :
                       d.from = a /\ d.to \in l /\ e.from = b /\ e.to \in m
        <3>1. /\ Partitioned(atoms) /\ ~Projectable
              /\ Together(atoms) \/ Apart(atoms, dependencies)
            BY <2>2, StagePlan DEF PlanningInv
        <3>2. ~Line
            BY <2>2, <3>1, ProjectableIsLine
        <3>. QED BY <3>1, <3>2, UnprojectableUses
    <2>3. stage = "opened" => \A n \in UnitNames :
              /\ needs[n] \subseteq Ancestors(n)
              /\ \A l, m \in Ancestors(n) : l = m \/ l \in Ancestors(m) \/ m \in Ancestors(l)
        BY <2>1
    <2>4. stage = "unprojectable" => \E n \in UnitNames :
              \/ Foreign \in needs[n]
              \/ \E l, m \in Ancestors(n) :
                    l # m /\ \E a, b \in n : \E d, e \in dependencies :
                       d.from = a /\ d.to \in l /\ e.from = b /\ e.to \in m
        BY <2>2
    <2>. QED BY <2>3, <2>4 DEF ReviewsStacked
<1>. QED BY <1>1, <1>2, <1>3 DEF PlanningSound

LEMMA PlanningInitInv ==
    PlanningInit => PlanningInv
BY DEF PlanningInit, PlanningInv, Inputs

\* Nothing but the stage and the needs changes after the plan: it stays as valid.
LEMMA PlanStays ==
    ASSUME UNCHANGED <<atoms, units>>
    PROVE  /\ UnitNames' = UnitNames /\ UnitWaits' = UnitWaits
           /\ ValidPlan' <=> ValidPlan
<1>1. UnitNames' = UnitNames
    BY DEF UnitNames
<1>2. UnitWaits' = UnitWaits
    BY <1>1 DEF UnitWaits
<1>. QED BY <1>1, <1>2 DEF ValidPlan

\* Every step of the chain keeps the invariant.
LEMMA PlanningStep ==
    ASSUME PlanningInv, [PlanningNext]_planningVars
    PROVE  PlanningInv'
<1>1. CASE Analyse
    <2>1. /\ stage' = "analysed" /\ UNCHANGED <<input, units, needs>>
          /\ atoms' = AllAtoms(input.layout, input.changed)
          /\ dependencies' = Dependencies(atoms', input.shared)
        BY <1>1 DEF Analyse, AllAtoms
    <2>2. units = {} /\ needs = <<>>
        BY <1>1 DEF Analyse, PlanningInv
    <2>. QED BY <2>1, <2>2 DEF PlanningInv
<1>2. CASE Plan
    BY <1>2 DEF Plan, PlanningInv
<1>3. CASE Accept
    <2>1. ValidPlan' <=> ValidPlan
        BY <1>3, PlanStays DEF Accept
    <2>. QED BY <1>3, <2>1 DEF Accept, PlanningInv
<1>4. CASE Compose
    <2>1. ValidPlan' <=> ValidPlan
        BY <1>4, PlanStays DEF Compose
    <2>2. Composed'
        <3>1. PICK before \in SUBSET UnitNames, after \in SUBSET UnitNames :
                needs' = [k \in UnitNames \cup {Foreign} |->
                            IF k \in UnitNames
                            THEN UnitWaits[k] \cup IF k \in after THEN {Foreign} ELSE {}
                            ELSE before]
            BY <1>4 DEF Compose
        <3>2. Partitioned(atoms)
            BY <1>4, StagePlan DEF Compose
        <3>3. DOMAIN needs' = UnitNames \cup {Foreign}
            BY <3>1
        <3>4. \A k \in DOMAIN needs' : needs'[k] \subseteq DOMAIN needs'
            BY <3>1, <3>2, <3>3 DEF Partitioned
        <3>5. IsFiniteSet(DOMAIN needs')
            BY <3>2, <3>3, FS_AddElement DEF Partitioned
        <3>6. \A n \in UnitNames : needs'[n] \subseteq UnitWaits[n] \cup {Foreign}
            BY <3>1
        <3>7. UnitNames' = UnitNames /\ UnitWaits' = UnitWaits
            BY <1>4, PlanStays DEF Compose
        <3>. QED BY <3>4, <3>5, <3>6, <3>7 DEF Composed
    <2>. QED BY <1>4, <2>1, <2>2 DEF Compose, PlanningInv
<1>5. CASE Schedule
    <2>1. (ValidPlan' <=> ValidPlan) /\ (Composed' <=> Composed)
        BY <1>5, PlanStays DEF Schedule, Composed
    <2>. QED BY <1>5, <2>1 DEF Schedule, PlanningInv
<1>6. CASE RefuseOrder
    <2>1. (ValidPlan' <=> ValidPlan) /\ (Composed' <=> Composed)
        BY <1>6, PlanStays DEF RefuseOrder, Composed
    <2>. QED BY <1>6, <2>1 DEF RefuseOrder, PlanningInv
<1>7. CASE OpenReviews
    <2>1. /\ ValidPlan' <=> ValidPlan
          /\ Composed' <=> Composed
          /\ Projectable' <=> Projectable
        BY <1>7, PlanStays DEF OpenReviews, Composed, Projectable
    <2>. QED BY <1>7, <2>1 DEF OpenReviews, PlanningInv
<1>8. CASE UNCHANGED planningVars
    <2>1. UNCHANGED <<input, atoms, dependencies, units, needs, stage>>
        BY <1>8 DEF planningVars
    <2>2. /\ ValidPlan' <=> ValidPlan
          /\ Composed' <=> Composed
          /\ Projectable' <=> Projectable
        BY <2>1, PlanStays DEF Composed, Projectable
    <2>. QED BY <2>1, <2>2 DEF PlanningInv
<1>. QED BY <1>1, <1>2, <1>3, <1>4, <1>5, <1>6, <1>7, <1>8 DEF PlanningNext

\* For any files, boundaries, changed lines and references, and for work of another
\* repository anywhere in the order: overlapping boundaries are in one unit and every
\* atom in exactly one; a plan is refused for a loop only, from an import inside two
\* boundaries of a file, or from tests in two files; an order is found exactly when
\* there is no loop, and it follows every dependency; and an opened review stands on
\* one line of branches that holds all it waits for, so that none is opened that waits
\* for another repository.
THEOREM PlanIsSound == PlanningSpec => []PlanningSound
<1>1. PlanningInit => PlanningInv
    BY PlanningInitInv
<1>2. PlanningInv /\ [PlanningNext]_planningVars => PlanningInv'
    BY PlanningStep
<1>3. PlanningInv => PlanningSound
    BY PlanningInvSound
<1>. QED BY <1>1, <1>2, <1>3, PTL DEF PlanningSpec

\* Whatever else a file holds, two units of it that each hold an import among other
\* things make the plan a loop (infer_dependencies): it is never accepted.
THEOREM SiblingsAreRefused == PlanningSpec => [](InnerImports => ~ValidPlan)
<1>1. PlanningInit => PlanningInv
    BY PlanningInitInv
<1>2. PlanningInv /\ [PlanningNext]_planningVars => PlanningInv'
    BY PlanningStep
<1>3. ASSUME PlanningInv, InnerImports
      PROVE  ~ValidPlan
    <2>1. units # {}
        BY <1>3 DEF InnerImports, UnitNames
    <2>2. /\ Boundaries(atoms) /\ Relations(atoms, dependencies)
          /\ Together(atoms) \/ Apart(atoms, dependencies)
          /\ Partitioned(atoms)
        BY <1>3, <2>1, StagePlan DEF PlanningInv
    <2>3. Looping(UnitNames, UnitWaits)
        BY <1>3, <2>2, InnerImportsLoop
    <2>. QED BY <2>2, <2>3, ValidIffNoLoop
<1>4. PlanningInv => (InnerImports => ~ValidPlan)
    BY <1>3
<1>. QED BY <1>1, <1>2, <1>4, PTL DEF PlanningSpec
=============================================================================
