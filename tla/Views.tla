-------------------------------- MODULE Views -------------------------------
(***************************************************************************)
(* Named views of a repository: a Git branch and a metadata ref that says  *)
(* which commit the view is based on and which semantic operations it      *)
(* shows.  Every command reads and checks first, then moves the two refs   *)
(* one after the other, and may die in between.  What a view is created    *)
(* with is what the caller names, and a fetch brings the metadata of views *)
(* as another repository has it: neither is compared with any state.       *)
(*                                                                         *)
(* A commit is its place in history; it stands for its tree, for its       *)
(* semantic state and for the operation it introduces, so the operations   *)
(* of a state are the commit and its ancestors.  Plain Git moves branches  *)
(* too: "Git remains the authority for checkout and commit history".       *)
(*                                                                         *)
(* serial is chosen in Init: then one command runs at a time, and an       *)
(* operator whose advance was interrupted retries it before anything else. *)
(***************************************************************************)
EXTENDS Naturals, Sequences

CONSTANTS
    Operators,      \* processes that run commands
    Crew,           \* serial -> those that do
    Maintainers,    \* those that hold a grant to publish Shared views
    Views,          \* names
    Filters,        \* sets of operations that callers have a view show
    Elsewhere,      \* metadata of the views of other repositories
    MaxCommit,      \* serial -> bound on commits
    MaxDeath        \* serial -> bound on commands that die or fail half-way

Scopes == {"draft", "shared"}

ASSUME ViewAssumption ==
    /\ Maintainers \subseteq Operators /\ Crew \in [BOOLEAN -> SUBSET Operators]
    /\ Filters \subseteq SUBSET Nat
    /\ Elsewhere \subseteq [base : Nat, scope : Scopes, visible : SUBSET Nat]
    /\ MaxCommit \in [BOOLEAN -> Nat] /\ MaxDeath \in [BOOLEAN -> Nat]

VARIABLES
    parent,         \* commit -> its parent, 0 for the root
    states,         \* commit -> its active semantic state
    branch,         \* view -> the tip of its branch, 0 when there is none
    metadata,       \* view -> {} or {[base, scope, visible]}; base is 0 for a commit of
                    \* another repository
    given,          \* views whose metadata is as a caller or another repository gave
                    \* it (kept for the properties)
    head,           \* the view checked out in the primary worktree
    work,           \* the commit whose files the worktree has, 0 for changed ones
    doing,          \* where each process is
    task,           \* what it carries
    wish,           \* an accepted advance that has not returned: {} or {its task}
    deaths,
    serial

metadataRefs == <<metadata, given>>
viewRefs == <<branch, metadataRefs>>
checkout == <<head, work>>
viewVars == <<parent, states, viewRefs, checkout, doing, task, wish, deaths, serial>>

NoView == "none"
NoTask == <<>>
Commits == DOMAIN parent

\* The commit and all it descends from.
Ancestry(c) ==
    LET up[d \in 0..c] == IF d = 0 THEN {} ELSE {d} \cup up[parent[d]] IN up[c]
Descends(c, d) == d \in Ancestry(c)

Operations(c) == Ancestry(c)

-----------------------------------------------------------------------------
ViewInit ==
    /\ parent = <<0, 1>>
    /\ states = <<"verified", "none">>
    /\ branch = [v \in Views |-> 0]
    /\ metadata = [v \in Views |-> {}] /\ given = {}
    /\ head = NoView /\ work = 1
    /\ doing = [p \in Operators |-> "nothing"]
    /\ task = [p \in Operators |-> NoTask]
    /\ wish = {} /\ deaths = 0
    /\ serial \in BOOLEAN

MayBegin(p) ==
    /\ doing[p] = "nothing"
    /\ serial => \A q \in Operators : doing[q] = "nothing"

Then(p, step, t) ==
    /\ doing' = [doing EXCEPT ![p] = step]
    /\ task' = [task EXCEPT ![p] = t]
    /\ UNCHANGED <<deaths, serial>>

Done(p) == Then(p, "nothing", NoTask)

\* A command other than the retry of an interrupted advance.
Begin(p, step, t) == MayBegin(p) /\ wish = {} /\ Then(p, step, t) /\ UNCHANGED wish

MoveBranch(v, c) == branch' = [branch EXCEPT ![v] = c]
MoveMetadata(v, m) == metadata' = [metadata EXCEPT ![v] = {m}] /\ given' = given \ {v}
GiveMetadata(v, m) == metadata' = [metadata EXCEPT ![v] = {m}] /\ given' = given \cup {v}

\* Records a commit with the files of the worktree.
NewCommit(onto) ==
    /\ Len(parent) < MaxCommit[serial]
    /\ parent' = Append(parent, onto)
    /\ states' = Append(states, "none")
    /\ work' = Len(parent) + 1

-----------------------------------------------------------------------------
(* create_view and create_child_view: the branch, then the metadata, with   *)
(* whatever operations the caller wants to show.                            *)

CreateView(p, v, base, scope) ==
    /\ branch[v] = 0
    /\ \E visible \in Filters :
          /\ visible \subseteq Commits
          /\ Begin(p, "bind", [view |-> v,
                               next |-> [base |-> base, scope |-> scope, visible |-> visible]])
    /\ MoveBranch(v, base)
    /\ UNCHANGED <<parent, states, metadataRefs, checkout>>

CreateChildView(p, v, of, base, scope) ==
    /\ \E m \in metadata[of] : Descends(base, m.base)
    /\ CreateView(p, v, base, scope)

\* Refused when the name is taken; the branch is left as it is.
BindView(p) ==
    /\ doing[p] = "bind"
    /\ IF metadata[task[p].view] = {} THEN GiveMetadata(task[p].view, task[p].next)
       ELSE UNCHANGED metadataRefs
    /\ Done(p)
    /\ UNCHANGED <<parent, states, branch, checkout, wish>>

-----------------------------------------------------------------------------
(* advance_view, publish_shared_view(_for_repository).                      *)

\* When an accepted advance died: that one again.
StartAdvance(p, v, c) ==
    /\ MayBegin(p)
    /\ \E publishes \in BOOLEAN :
          LET t == [view |-> v, target |-> c, publishes |-> publishes] IN
          /\ publishes => p \in Maintainers /\ \A m \in metadata[v] : m.scope = "shared"
          /\ wish \subseteq {t}
          /\ Then(p, "validate", t)
    /\ UNCHANGED <<parent, states, viewRefs, checkout, wish>>

\* The target has to leave the base the metadata names.
AcceptableFromBase(m, v, c) == c # m.base /\ Descends(c, m.base)

\* The target descends from the base the metadata names.
AcceptableAboveBase(m, v, c) == Descends(c, m.base)

\* The target is the tip of the branch or descends from it.
Acceptable(m, v, c) == branch[v] # 0 /\ Descends(c, branch[v])

\* A state that is bound to the commit, whoever signed it.
ActiveState(c) == states[c] # "none"

\* state_for_commit and verify_active_state.
VerifiedState(c) == states[c] = "verified"

Accepted(p) ==
    LET t == task[p] IN
    \E m \in metadata[t.view] :
        /\ t.publishes \/ m.scope = "draft"
        /\ Acceptable(m, t.view, t.target)
        /\ VerifiedState(t.target)

\* advance_view_with_scope: all checks, before anything is moved.
ValidateAdvance(p) ==
    /\ doing[p] = "validate"
    /\ Accepted(p)
    /\ LET t == task[p] IN
       \E m \in metadata[t.view] :
          Then(p, "metadata",
               [view |-> t.view, target |-> t.target,
                next |-> [m EXCEPT !.base = t.target, !.visible = Operations(t.target)]])
    /\ wish' = IF serial THEN {task[p]} ELSE {}
    /\ UNCHANGED <<parent, states, viewRefs, checkout>>

AdvanceMetadata(p) ==
    /\ doing[p] = "metadata"
    /\ MoveMetadata(task[p].view, task[p].next)
    /\ Then(p, "branch", task[p])
    /\ UNCHANGED <<parent, states, branch, checkout, wish>>

AdvanceBranch(p) ==
    /\ doing[p] = "branch"
    /\ MoveBranch(task[p].view, task[p].target)
    /\ wish' = {}
    /\ Done(p)
    /\ UNCHANGED <<parent, states, metadataRefs, checkout>>

-----------------------------------------------------------------------------
(* record_view and revise_view: a commit, its state, then advance_view.     *)

OnDraft(v) == head = v /\ branch[v] # 0 /\ \E m \in metadata[v] : m.scope = "draft"

StartRecord(p, v) ==
    /\ OnDraft(v)
    /\ Begin(p, "record", [view |-> v])
    /\ UNCHANGED <<parent, states, viewRefs, checkout>>

\* Git commits only on the branch's current tip.
CommitRecord(p) ==
    /\ doing[p] = "record"
    /\ branch[task[p].view] # 0
    /\ NewCommit(branch[task[p].view])
    /\ MoveBranch(task[p].view, Len(parent) + 1)
    /\ Then(p, "materialize", [view |-> task[p].view, target |-> Len(parent) + 1])
    /\ UNCHANGED <<metadataRefs, head, wish>>

StartRevise(p, v) ==
    /\ OnDraft(v) /\ parent[branch[v]] # 0
    /\ Begin(p, "revise", [view |-> v, onto |-> parent[branch[v]]])
    /\ UNCHANGED <<parent, states, viewRefs, checkout>>

\* The branch is forced to the commit that replaces its tip.
CommitRevise(p) ==
    /\ doing[p] = "revise"
    /\ NewCommit(task[p].onto)
    /\ MoveBranch(task[p].view, Len(parent) + 1)
    /\ Then(p, "materialize", [view |-> task[p].view, target |-> Len(parent) + 1])
    /\ UNCHANGED <<metadataRefs, head, wish>>

MaterializeRecord(p) ==
    /\ doing[p] = "materialize"
    /\ states' = [states EXCEPT ![task[p].target] = "verified"]
    /\ Then(p, "validate", [view |-> task[p].view, target |-> task[p].target,
                            publishes |-> FALSE])
    /\ UNCHANGED <<parent, viewRefs, checkout, wish>>

-----------------------------------------------------------------------------
(* unrecord_view: the worktree, the branch, then the metadata.              *)

StartUnrecord(p, v) ==
    /\ head = v /\ branch[v] # 0 /\ work = branch[v]
    /\ LET to == parent[branch[v]] IN
       /\ to # 0 /\ VerifiedState(to)
       /\ \E m \in metadata[v] :
             /\ m.base = branch[v]
             /\ Begin(p, "checkout",
                      [view |-> v, target |-> to,
                       next |-> [m EXCEPT !.base = to, !.visible = Operations(to)]])
    /\ UNCHANGED <<parent, states, viewRefs, checkout>>

CheckoutParent(p) ==
    /\ doing[p] = "checkout"
    /\ work' = task[p].target
    /\ Then(p, "rewind", task[p])
    /\ UNCHANGED <<parent, states, viewRefs, head, wish>>

RewindBranch(p) ==
    /\ doing[p] = "rewind"
    /\ MoveBranch(task[p].view, task[p].target)
    /\ Then(p, "write", task[p])
    /\ UNCHANGED <<parent, states, metadataRefs, checkout, wish>>

-----------------------------------------------------------------------------
(* set_view_visible_operations.                                             *)

StartFilter(p, v) ==
    /\ branch[v] # 0 /\ VerifiedState(branch[v])
    /\ \E m \in metadata[v], visible \in Filters :
          /\ m.base = branch[v] /\ visible \subseteq Operations(branch[v])
          /\ Begin(p, "write", [view |-> v, next |-> [m EXCEPT !.visible = visible]])
    /\ UNCHANGED <<parent, states, viewRefs, checkout>>

\* The last step of a filter and of unrecord_view.
WriteMetadata(p) ==
    /\ doing[p] = "write"
    /\ MoveMetadata(task[p].view, task[p].next)
    /\ Done(p)
    /\ UNCHANGED <<parent, states, branch, checkout, wish>>

-----------------------------------------------------------------------------
(* delete_view: the branch, then the metadata, as they were looked up.      *)

StartDelete(p, v) ==
    /\ branch[v] # 0 /\ head # v
    /\ \E m \in metadata[v] :       \* a Shared view with the caller's consent
          Begin(p, "delete", [view |-> v, tip |-> branch[v], was |-> m])
    /\ UNCHANGED <<parent, states, viewRefs, checkout>>

DeleteBranch(p) ==
    /\ doing[p] = "delete"
    /\ branch[task[p].view] = task[p].tip
    /\ MoveBranch(task[p].view, 0)
    /\ Then(p, "unname", task[p])
    /\ UNCHANGED <<parent, states, metadataRefs, checkout, wish>>

DeleteMetadata(p) ==
    /\ doing[p] = "unname"
    /\ metadata[task[p].view] = {task[p].was}
    /\ metadata' = [metadata EXCEPT ![task[p].view] = {}]
    /\ given' = given \ {task[p].view}
    /\ Done(p)
    /\ UNCHANGED <<parent, states, branch, checkout, wish>>

-----------------------------------------------------------------------------
(* The worktree: switch_view, stash_view; an editor.  *)

\* Changed files are kept by a safe checkout.
SwitchView(v) ==
    /\ metadata[v] # {} /\ branch[v] # 0
    /\ head' = v
    /\ work' = IF work = 0 THEN 0 ELSE branch[v]

StashView(v) ==
    /\ metadata[v] # {} /\ head = v /\ branch[v] # 0
    /\ work' = branch[v]
    /\ UNCHANGED head

EditFiles == work' = 0 /\ UNCHANGED head

WorktreeStep(p) ==
    /\ MayBegin(p) /\ wish = {}
    /\ \/ \E v \in Views : SwitchView(v) \/ StashView(v)
       \/ EditFiles
    /\ UNCHANGED <<parent, states, viewRefs, doing, task, wish, deaths, serial>>

\* A commit made with plain Git on what is checked out.
GitCommit(p) ==
    /\ MayBegin(p) /\ wish = {}
    /\ head # NoView /\ branch[head] # 0
    /\ NewCommit(branch[head])
    /\ MoveBranch(head, Len(parent) + 1)
    /\ UNCHANGED <<metadataRefs, head, doing, task, wish, deaths, serial>>

\* A commit's state is materialised here, or fetched without enough signatures.
FindState(p, c) ==
    /\ MayBegin(p) /\ wish = {}
    /\ \E s \in {"verified", "unsigned"} :
          /\ s = "unsigned" => states[c] = "none"
          /\ states' = [states EXCEPT ![c] = s]
    /\ UNCHANGED <<parent, viewRefs, checkout, doing, task, wish, deaths, serial>>

\* fetch_orkia_refs also brings the metadata of a view, under a name that has none here
\* (the fetch is not forced), without its branch; verify_orkia_refs checks states only.
FetchView(p, v) ==
    /\ MayBegin(p) /\ wish = {}
    /\ metadata[v] = {}
    /\ \E m \in Elsewhere :
          /\ m.base \in Commits \cup {0} /\ m.visible \subseteq Commits
          /\ GiveMetadata(v, m)
    /\ UNCHANGED <<parent, states, branch, checkout, doing, task, wish, deaths, serial>>

\* A command dies, or a step of it fails.
DieViewing(p) ==
    /\ doing[p] # "nothing" /\ deaths < MaxDeath[serial]
    /\ deaths' = deaths + 1
    /\ doing' = [doing EXCEPT ![p] = "nothing"]
    /\ task' = [task EXCEPT ![p] = NoTask]
    /\ UNCHANGED <<parent, states, viewRefs, checkout, wish, serial>>

\* A check that does not hold ends the command.
RefuseView(p) ==
    /\ \/ doing[p] = "validate" /\ ~Accepted(p)
       \/ doing[p] = "record" /\ branch[task[p].view] = 0
       \/ doing[p] = "delete" /\ branch[task[p].view] # task[p].tip
       \/ doing[p] = "unname" /\ metadata[task[p].view] # {task[p].was}
    /\ Done(p)
    /\ UNCHANGED <<parent, states, viewRefs, checkout, wish>>

ContinueView(p) ==
    \/ BindView(p)
    \/ ValidateAdvance(p) \/ AdvanceMetadata(p) \/ AdvanceBranch(p)
    \/ CommitRecord(p) \/ CommitRevise(p) \/ MaterializeRecord(p)
    \/ CheckoutParent(p) \/ RewindBranch(p) \/ WriteMetadata(p)
    \/ DeleteBranch(p) \/ DeleteMetadata(p) \/ RefuseView(p)

ViewNext ==
    \E p \in Crew[serial] :
        \/ \E v \in Views, c \in Commits :
            \/ \E s \in Scopes :
                \/ CreateView(p, v, c, s)
                \/ \E of \in Views : CreateChildView(p, v, of, c, s)
            \/ StartAdvance(p, v, c)
        \/ \E v \in Views :
            \/ StartRecord(p, v) \/ StartRevise(p, v) \/ StartUnrecord(p, v)
            \/ StartFilter(p, v) \/ StartDelete(p, v) \/ FetchView(p, v)
        \/ ContinueView(p)
        \/ WorktreeStep(p) \/ GitCommit(p)
        \/ \E c \in Commits : FindState(p, c)
        \/ DieViewing(p)

\* A command that runs goes on; an operator retries what was interrupted.
RetryAdvance(p) == \E w \in wish : StartAdvance(p, w.view, w.target)

ViewSpec ==
    /\ ViewInit /\ [][ViewNext]_viewVars
    /\ \A p \in Operators : WF_viewVars(ContinueView(p)) /\ WF_viewVars(RetryAdvance(p))

-----------------------------------------------------------------------------
\* view_status; for a view that lost its branch it is an error, here no match.
ViewStatus(m, v) ==
    LET verified == branch[v] # 0 /\ VerifiedState(branch[v]) IN
    [matches |-> branch[v] # 0 /\ m.base = branch[v], verified |-> verified,
     unpublished |-> IF verified THEN Operations(branch[v]) \ m.visible ELSE {}]

-----------------------------------------------------------------------------
\* What an advance, a filter or unrecord_view leaves a view to show is a verified
\* state's: whatever dies, races or is committed with plain Git, and whatever a caller or
\* another repository gave before, from the first of them on the operations a view makes
\* visible belong to the verified state of the commit its metadata names.
ViewShowsVerified ==
    \A v \in Views \ given : \A m \in metadata[v] :
        m.visible # {} => states[m.base] = "verified" /\ m.visible \subseteq Operations(m.base)

\* One command at a time, no branch of a view ever loses a commit, also not one
\* that plain Git made and the metadata does not know, except to the commands
\* that are there to take back: revise and unrecord (and delete).
AdvanceKeepsCommits ==
    [][serial =>
        \A v \in Views :
            branch[v] # 0 /\ branch'[v] # 0 =>
                \/ branch[v] \in Ancestry(branch[v])'
                \/ \E p \in Operators : doing[p] \in {"revise", "rewind"}]_viewVars

\* An advance that was accepted and then died between its two refs can be
\* retried: it is accepted again, leaves both refs at its target, and the status of
\* the view then reports a verified state with nothing left to publish.
RetriedAdvanceLands ==
    \A v \in Views :
        ((\E w \in wish : w.view = v) /\ \A m \in metadata[v] : ~ViewStatus(m, v).matches) ~>
            \E m \in metadata[v] :
                ViewStatus(m, v) = [matches |-> TRUE, verified |-> TRUE, unpublished |-> {}]
=============================================================================
