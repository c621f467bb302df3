-------------------------- MODULE ReviewPublication -------------------------
(***************************************************************************)
(* How a review decision becomes signed documents: persist_review_plan and *)
(* the commands that call it.                                              *)
(*                                                                         *)
(* A decision is a revision of a review plan: derived from the captured    *)
(* worktree, or a reviewer's approval, request for changes, merge or split *)
(* of the newest revision.  Publishing it writes, one after the other,     *)
(*   the plan revision,                                                    *)
(*   a StackPullRequest revision for each review unit of the plan,         *)
(*   the Stack revision that selects them,                                 *)
(*   the ChangeSet revision that selects the stack.                        *)
(* Each write is a create-if-absent of an immutable revision, shown atomic *)
(* in SignedRevisions; between any two the process may die and another     *)
(* (hook, watcher, reviewer) may read or write.  A pull request's identity *)
(* is its set of atoms, a stack's is its set of pull requests, and a       *)
(* changeset's is its stack: all of them are functions of the shape of the *)
(* plan, so plans of one session share them.                               *)
(***************************************************************************)
EXTENDS Naturals, FiniteSets, FiniteSetsExt

CONSTANTS
    Reviewers,      \* processes that publish decisions
    Plans,          \* plan identities of one session
    Units,          \* review units, named by their atoms: numbers in plan order
    Shapes,         \* ways to divide the session's atoms into units
    Derived,        \* the division the planner proposes
    Contents,       \* contents of the changed files
    Reverted,       \* the content without any change
    MaxPlan,        \* bound on plan revisions
    MaxRevision     \* bound on pull request revisions

ASSUME UnitAssumption == Units \subseteq Nat
ASSUME ShapeAssumption ==
    /\ \A s \in Shapes : s \subseteq Units /\ s # {} /\ IsFiniteSet(s)
    /\ Derived \in Shapes
ASSUME ContentAssumption == Reverted \in Contents
ASSUME BoundAssumption == MaxPlan \in Nat /\ MaxRevision \in Nat

VARIABLES
    plans,          \* published plan revisions
    pulls,          \* published StackPullRequest revisions
    stacks,         \* published Stack revisions
    changesets,     \* published ChangeSet revisions
    worktree,       \* content of the files under review
    pc,             \* where each process is in persist_review_plan
    decision,       \* the plan revision it publishes
    captured,       \* the worktree content it binds into the pull requests
    draft,          \* the document it is about to write
    made,           \* the pull request revisions it has written
    accepted,       \* decisions whose command returned Ok
    exclusive       \* one process at a time (chosen in Init)

published == <<plans, pulls, stacks, changesets>>
local == <<pc, decision, captured, draft, made>>
reviewVars == <<published, worktree, local, accepted, exclusive>>

Statuses == {"proposed", "approved", "changesRequested"}
Plan == [plan : Plans, revision : 0..MaxPlan, shape : Shapes, content : Contents,
         status : Statuses]
Pull == [pull : Units, revision : 0..MaxRevision, plan : Plans, planRevision : 0..MaxPlan,
         content : Contents]
\* Revisions of stacks and changesets follow those of the pull requests.
Stack == [shape : Shapes, revision : Nat, selects : SUBSET (Units \X (0..MaxRevision))]
ChangeSet == [shape : Shapes, revision : Nat, stackRevision : Nat,
              dependsOn : SUBSET Shapes, status : {"active", "integrated"}]

Steps == {"idle", "read", "check", "plan", "pull", "storePull", "stack", "storeStack",
          "changeset", "storeChangeset"}

-----------------------------------------------------------------------------
(* The latest_* lookups: the newest revision of one identity, as a set.     *)
Newest(D) == {d \in D : \A e \in D : e.revision <= d.revision}

LatestPlan(i) == Newest({d \in plans : d.plan = i})
LatestPull(u) == Newest({x \in pulls : x.pull = u})
LatestStack(s) == Newest({t \in stacks : t.shape = s})
LatestChangeset(s) == Newest({c \in changesets : c.shape = s})

\* The revision after the newest of D, or the first.
NextRevision(D) == IF D = {} THEN 0 ELSE 1 + Max({d.revision : d \in D})

-----------------------------------------------------------------------------
ReviewInit ==
    /\ plans = {} /\ pulls = {} /\ stacks = {} /\ changesets = {}
    /\ worktree \in Contents
    /\ pc = [p \in Reviewers |-> "idle"]
    /\ decision = [p \in Reviewers |-> {}]
    /\ captured = [p \in Reviewers |-> Reverted]
    /\ draft = [p \in Reviewers |-> {}]
    /\ made = [p \in Reviewers |-> {}]
    /\ accepted = {}
    /\ exclusive \in BOOLEAN

Goto(p, step) == pc' = [pc EXCEPT ![p] = step]

\* The command returns: Ok for the decisions in oks, or an error.
Return(p, oks) ==
    /\ Goto(p, "idle")
    /\ decision' = [decision EXCEPT ![p] = {}]
    /\ captured' = [captured EXCEPT ![p] = Reverted]
    /\ draft' = [draft EXCEPT ![p] = {}]
    /\ made' = [made EXCEPT ![p] = {}]
    /\ accepted' = accepted \cup oks

Fail(p) == Return(p, {}) /\ UNCHANGED <<published, worktree, exclusive>>

Decide(p, d) ==
    /\ pc[p] = "idle"
    /\ exclusive => \A q \in Reviewers : pc[q] = "idle"
    /\ decision' = [decision EXCEPT ![p] = {d}]
    /\ Goto(p, "read")
    /\ UNCHANGED <<published, worktree, captured, draft, made, accepted, exclusive>>

\* `review plan` and the checkpoints: a plan derived from what has changed.  Its
\* identity hashes the evidence and the atoms, so a repetition may find its own
\* plan again, revised or not.
DeriveReview(p, i) ==
    /\ worktree # Reverted
    /\ Decide(p, [plan |-> i, revision |-> 0, shape |-> Derived, content |-> worktree,
                  status |-> "proposed"])

\* `review approve` and `review request-changes` of the newest revision.
SetStatus(p, i) ==
    \E d \in LatestPlan(i), s \in {"approved", "changesRequested"} :
        /\ d.revision < MaxPlan
        /\ Decide(p, [d EXCEPT !.revision = @ + 1, !.status = s])

\* `review merge` and `review split`: the same atoms in another shape.
Correct(p, i) ==
    \E d \in LatestPlan(i), s \in Shapes :
        /\ d.revision < MaxPlan
        /\ s # d.shape
        /\ Decide(p, [d EXCEPT !.revision = @ + 1, !.status = "proposed", !.shape = s])

\* changes_since: what is bound is the worktree now, not what the plan saw.
ReadChanges(p) ==
    /\ pc[p] = "read"
    /\ captured' = [captured EXCEPT ![p] = worktree]
    /\ Goto(p, "check")
    /\ UNCHANGED <<published, worktree, decision, draft, made, accepted, exclusive>>

\* A replay of the newest revision is accepted with nothing to do; a different
\* decision at that revision is refused.
CheckReplay(p) ==
    /\ pc[p] = "check"
    /\ \E d \in decision[p] : \E e \in LatestPlan(d.plan) :
          /\ e.revision = d.revision
          /\ Return(p, {d} \cap {e})
    /\ UNCHANGED <<published, worktree, exclusive>>

CheckNew(p) ==
    /\ pc[p] = "check"
    /\ \A d \in decision[p] : \A e \in LatestPlan(d.plan) : e.revision # d.revision
    /\ Goto(p, "plan")
    /\ UNCHANGED <<published, worktree, decision, captured, draft, made, accepted, exclusive>>

SamePlan(d, e) == d.plan = e.plan /\ d.revision = e.revision

\* An overwriting store: the later decision takes the revision over.
StorePlanOver(p) ==
    /\ pc[p] = "plan"
    /\ \E d \in decision[p] : plans' = {e \in plans : ~SamePlan(d, e)} \cup {d}
    /\ Goto(p, "pull")
    /\ UNCHANGED <<pulls, stacks, changesets, worktree, decision, captured, draft, made,
                   accepted, exclusive>>

\* store_review_plan; from here on the decision is public.
StorePlan(p) ==
    /\ pc[p] = "plan"
    /\ \A d \in decision[p], e \in plans : SamePlan(d, e) => d = e
    /\ plans' = plans \cup decision[p]
    /\ Goto(p, "pull")
    /\ UNCHANGED <<pulls, stacks, changesets, worktree, decision, captured, draft, made,
                   accepted, exclusive>>

Remaining(p) == (UNION {d.shape : d \in decision[p]}) \ {x.pull : x \in made[p]}

\* A pull request numbered past the last representable revision.
ReadPullOverflowing(p) ==
    /\ pc[p] = "pull"
    /\ Remaining(p) # {}
    /\ captured[p] # Reverted
    /\ \E d \in decision[p] :
          LET u == Min(Remaining(p)) IN
          draft' = [draft EXCEPT ![p] =
                {[pull |-> u, revision |-> NextRevision(LatestPull(u)), plan |-> d.plan,
                  planRevision |-> d.revision, content |-> captured[p]]}]
    /\ Goto(p, "storePull")
    /\ UNCHANGED <<published, worktree, decision, captured, made, accepted, exclusive>>

\* bind_patches needs every atom's file to have changed; the revision of a pull
\* request follows the newest one, whichever plan published it.
ReadPull(p) ==
    /\ pc[p] = "pull"
    /\ Remaining(p) # {}
    /\ captured[p] # Reverted
    /\ \E d \in decision[p] :
          LET u == Min(Remaining(p)) IN
          /\ NextRevision(LatestPull(u)) <= MaxRevision
          /\ draft' = [draft EXCEPT ![p] =
                {[pull |-> u, revision |-> NextRevision(LatestPull(u)), plan |-> d.plan,
                  planRevision |-> d.revision, content |-> captured[p]]}]
    /\ Goto(p, "storePull")
    /\ UNCHANGED <<published, worktree, decision, captured, made, accepted, exclusive>>

SamePull(x, y) == x.pull = y.pull /\ x.revision = y.revision

StorePull(p) ==
    /\ pc[p] = "storePull"
    /\ \A x \in draft[p], y \in pulls : SamePull(x, y) => x = y
    /\ pulls' = pulls \cup draft[p]
    /\ made' = [made EXCEPT ![p] = @ \cup draft[p]]
    /\ draft' = [draft EXCEPT ![p] = {}]
    /\ Goto(p, "pull")
    /\ UNCHANGED <<plans, stacks, changesets, worktree, decision, captured, accepted, exclusive>>

\* Going on to the stack while a unit has no pull request yet.
PullsDoneEarly(p) ==
    /\ pc[p] = "pull"
    /\ made[p] # {}
    /\ Goto(p, "stack")
    /\ UNCHANGED <<published, worktree, decision, captured, draft, made, accepted, exclusive>>

PullsDone(p) ==
    /\ pc[p] = "pull"
    /\ Remaining(p) = {}
    /\ Goto(p, "stack")
    /\ UNCHANGED <<published, worktree, decision, captured, draft, made, accepted, exclusive>>

\* A stack that selects the newest revision of each pull request.
SelectionNewest(p) ==
    UNION {{<<u, x.revision>> : x \in LatestPull(u)} : u \in {x.pull : x \in made[p]}}

\* The exact revisions this process has just published.
Selection(p) == {<<x.pull, x.revision>> : x \in made[p]}

\* Comparing the members of the newest stack only, not their revisions.
ReadStackByMembers(p) ==
    /\ pc[p] = "stack"
    /\ \E d \in decision[p] :
          LET same == LatestStack(d.shape) IN
          draft' = [draft EXCEPT ![p] =
              IF same # {} THEN same
              ELSE {[shape |-> d.shape, revision |-> NextRevision(LatestStack(d.shape)),
                     selects |-> Selection(p)]}]
    /\ Goto(p, "storeStack")
    /\ UNCHANGED <<published, worktree, decision, captured, made, accepted, exclusive>>

\* The stack: the newest one again if it selects the same, or the next revision.
ReadStack(p) ==
    /\ pc[p] = "stack"
    /\ \E d \in decision[p] :
          LET same == {t \in LatestStack(d.shape) : t.selects = Selection(p)} IN
          draft' = [draft EXCEPT ![p] =
              IF same # {} THEN same
              ELSE {[shape |-> d.shape, revision |-> NextRevision(LatestStack(d.shape)),
                     selects |-> Selection(p)]}]
    /\ Goto(p, "storeStack")
    /\ UNCHANGED <<published, worktree, decision, captured, made, accepted, exclusive>>

SameDelivery(x, y) == x.shape = y.shape /\ x.revision = y.revision

StoreStack(p) ==
    /\ pc[p] = "storeStack"
    /\ \A x \in draft[p], y \in stacks : SameDelivery(x, y) => x = y
    /\ stacks' = stacks \cup draft[p]
    /\ Goto(p, "changeset")
    /\ UNCHANGED <<plans, pulls, changesets, worktree, decision, captured, draft, made, accepted,
                   exclusive>>

\* The changeset of the stack alone: active, without dependencies.
ReadChangeset(p) ==
    /\ pc[p] = "changeset"
    /\ \E t \in draft[p] :
          LET same == {c \in LatestChangeset(t.shape) :
                          /\ c.stackRevision = t.revision
                          /\ c.dependsOn = {}
                          /\ c.status = "active"} IN
          draft' = [draft EXCEPT ![p] =
              IF same # {} THEN same
              ELSE {[shape |-> t.shape, revision |-> NextRevision(LatestChangeset(t.shape)),
                     stackRevision |-> t.revision, dependsOn |-> {}, status |-> "active"]}]
    /\ Goto(p, "storeChangeset")
    /\ UNCHANGED <<published, worktree, decision, captured, made, accepted, exclusive>>

\* Submitting the published changeset to a backend is the last step, and may
\* still make the command fail.
StoreChangeset(p) ==
    /\ pc[p] = "storeChangeset"
    /\ \A x \in draft[p], y \in changesets : SameDelivery(x, y) => x = y
    /\ changesets' = changesets \cup draft[p]
    /\ \E oks \in {decision[p], {}} : Return(p, oks)
    /\ UNCHANGED <<plans, pulls, stacks, worktree, exclusive>>

\* The command stops between two steps, with what it wrote left in place: the
\* process dies, or a step returns an error (a revision bound to another
\* document by a concurrent process, a file that no longer differs).
Abort(p) == pc[p] # "idle" /\ Fail(p)

\* The files under review go on changing.
Edit ==
    /\ \E c \in Contents \ {worktree} : worktree' = c
    /\ UNCHANGED <<published, local, accepted, exclusive>>

ReviewNext ==
    \/ \E p \in Reviewers, i \in Plans : DeriveReview(p, i) \/ SetStatus(p, i) \/ Correct(p, i)
    \/ \E p \in Reviewers :
          \/ ReadChanges(p) \/ CheckReplay(p) \/ CheckNew(p) \/ StorePlan(p)
          \/ ReadPull(p) \/ StorePull(p) \/ PullsDone(p)
          \/ ReadStack(p) \/ StoreStack(p) \/ ReadChangeset(p) \/ StoreChangeset(p)
          \/ Abort(p)
    \/ Edit

ReviewSpec == ReviewInit /\ [][ReviewNext]_reviewVars

-----------------------------------------------------------------------------
ReviewTypeOK ==
    /\ plans \subseteq Plan
    /\ pulls \subseteq Pull
    /\ stacks \subseteq Stack
    /\ changesets \subseteq ChangeSet
    /\ worktree \in Contents
    /\ pc \in [Reviewers -> Steps]
    /\ \A p \in Reviewers : decision[p] \subseteq Plan /\ Cardinality(decision[p]) <= 1
    /\ captured \in [Reviewers -> Contents]
    /\ \A p \in Reviewers : made[p] \subseteq Pull
    /\ accepted \subseteq Plan
    /\ exclusive \in BOOLEAN

\* The pull request revisions a stack revision selects.
Selected(t) == {x \in pulls : <<x.pull, x.revision>> \in t.selects}

\* Whatever crashes or races, every reference resolves: a changeset selects a
\* published stack revision, a stack revision selects published pull request
\* revisions, and a pull request names a published plan revision it is a unit of.
ReferencesResolve ==
    /\ \A c \in changesets :
          \E t \in stacks : t.shape = c.shape /\ t.revision = c.stackRevision
    /\ \A t \in stacks : {x.pull : x \in Selected(t)} = t.shape
    /\ \A x \in pulls :
          \E d \in plans : d.plan = x.plan /\ d.revision = x.planRevision /\ x.pull \in d.shape

\* A stack revision is one decision: it selects exactly one revision of each of
\* its pull requests, all of them published for the same plan revision, of that
\* shape, and bound to one reading of the worktree; never a mixture of what
\* concurrent decisions published.
OneDecision ==
    \A t \in stacks :
        /\ Cardinality(t.selects) = Cardinality(t.shape)
        /\ \A x, y \in Selected(t) :
              x.plan = y.plan /\ x.planRevision = y.planRevision /\ x.content = y.content
        /\ \A x \in Selected(t) : \A d \in plans :
              d.plan = x.plan /\ d.revision = x.planRevision => d.shape = t.shape

\* Of two reviewers who decide differently on one revision of a plan at most one
\* is told Ok, and the accepted decision is the one that was published.
OneAccepted ==
    /\ accepted \subseteq plans
    /\ \A d, e \in accepted : SamePlan(d, e) => d = e

\* The decision has its stack and its changeset.
Delivered(d) ==
    \E t \in stacks, c \in changesets :
        /\ c.shape = t.shape /\ c.stackRevision = t.revision
        /\ t.shape = d.shape
        /\ \A x \in Selected(t) : x.plan = d.plan /\ x.planRevision = d.revision

\* One process at a time: a reviewer's decision that was accepted has its stack
\* and its changeset, whichever earlier attempts died half way.
SerialDecisionDelivered ==
    exclusive => \A d \in accepted : d.revision > 0 => Delivered(d)

\* One process at a time: any decision that was accepted, a derived plan too,
\* has its stack and its changeset.
AcceptedDelivered == exclusive => \A d \in accepted : Delivered(d)

PullsOf(d) == {x \in pulls : x.plan = d.plan /\ x.planRevision = d.revision}

\* One process at a time: a plan revision that was accepted and delivered is
\* never published again as further revisions of its pull requests.
ReplayPublishesNothing ==
    [][exclusive => \A d \in accepted : Delivered(d) => PullsOf(d)' = PullsOf(d)]_reviewVars
=============================================================================
