------------------------------- MODULE Delivery ------------------------------
(***************************************************************************)
(* Projection of a reviewed stack onto Git branches and its publication on *)
(* the forge: `review project` and `review publish`.                       *)
(*                                                                         *)
(* A decision of ReviewPublication gives every unit of the stack its next  *)
(* StackPullRequest revision, bound to the content the decision captured;  *)
(* here a decision is one step, and the n-th binds the n-th revisions.     *)
(*   project  restacks: each unit's branch is reset to its parent's commit *)
(*            and advanced by one commit, parents first; only then is one  *)
(*            Projection per unit recorded.                                *)
(*   publish  pushes all Orkia refs; then, unit by unit, pushes the branch *)
(*            (never forced), opens or updates the forge review and        *)
(*            records the Projection as published; then pushes again.      *)
(* The branch and the forge review belong to the unit whatever the         *)
(* revision, while a Projection belongs to one revision.  Commands stop    *)
(* between any two steps and leave what they did in place.                 *)
(*                                                                         *)
(* exclusive and calm are chosen once, in Init: whether one command runs   *)
(* at a time, and whether every restack that is started also finishes.     *)
(***************************************************************************)
EXTENDS Naturals, FiniteSets, SequencesExt

CONSTANTS
    Commands,       \* processes that run project and publish
    Units,          \* the units of the stack: numbers, parents first
    Parent,         \* the unit each one is stacked on; itself for a root
    Plans,          \* review plans over these units
    Contents,       \* what a decision binds into the pull requests
    MaxDecision,    \* bound on decisions
    MaxProjection,  \* exclusive -> bound on projection revisions
    MaxTime         \* exclusive -> bound on commit times

ASSUME UnitAssumption == Units \subseteq Nat /\ IsFiniteSet(Units) /\ Units # {}
ASSUME ParentAssumption ==
    /\ Parent \in [Units -> Units]
    /\ \A u \in Units : Parent[u] <= u
ASSUME BoundAssumption ==
    MaxDecision \in Nat /\ MaxProjection \in [BOOLEAN -> Nat] /\ MaxTime \in [BOOLEAN -> Nat]

VARIABLES
    decisions,          \* the decisions so far, in order
    projections,        \* published Projection revisions
    branch,             \* unit -> its branch: {} or {commit}
    remoteBranch,       \* the same, on the forge
    remoteDecisions,    \* how many decisions the forge holds the evidence of
    remoteProjections,  \* Projection revisions the forge holds
    reviews,            \* units with a forge review
    clock,              \* the second the newest commit was made in
    pc,                 \* where each command is
    pull,               \* the pull request revision it projects or publishes
    todo,               \* units it has left in the current phase
    made,               \* <<unit, commit>> of its restack
    delivered,          \* revisions whose publish returned Ok
    exclusive,
    calm

refs == <<decisions, projections, branch, clock>>
forge == <<remoteBranch, remoteDecisions, remoteProjections, reviews>>
local == <<pc, pull, todo, made>>
modes == <<exclusive, calm>>
deliveryVars == <<refs, forge, local, delivered, modes>>

\* A commit is what was stacked on the session's base commit to make it.  Two
\* runs in one second that commit the same content on the same parent make the
\* same commit.
Layer == [unit : Units, content : Contents, time : Nat]
Base == <<>>

Statuses == {"projected", "published"}
Restacking == {"reset", "commit", "record"}
Publishing == {"evidence", "push", "review", "publish", "final"}

Pulls == 1..Len(decisions)

\* Git's ancestry of commits above the base.
Ancestor(c, d) == IsPrefix(c, d)

NextUnit(S) == CHOOSE u \in S : \A v \in S : u <= v
Newest(P) == {x \in P : \A y \in P : y.revision <= x.revision}

\* latest_projection_for_stack_pull_request: of any revision of the unit.
LatestProjection(u) == Newest({x \in projections : x.unit = u})

\* The newest projection of the unit in place of that of the revision.
LatestProjectionOfAny(u, n) == LatestProjection(u)

\* latest_projection_for_stack_pull_request_revision: of that revision only.
LatestProjectionFor(u, n) == Newest({x \in projections : x.unit = u /\ x.pull = n})

\* signed_review_plan and stack_pull_requests_for_plan: the revisions bound by
\* the newest decision on the plan, as a set.
Selected(i) ==
    {n \in Pulls : decisions[n].plan = i /\ \A m \in Pulls : decisions[m].plan = i => m <= n}

-----------------------------------------------------------------------------
DeliveryInit ==
    /\ decisions = <<>> /\ projections = {}
    /\ branch = [u \in Units |-> {}] /\ remoteBranch = [u \in Units |-> {}]
    /\ remoteDecisions = 0 /\ remoteProjections = {} /\ reviews = {}
    /\ clock = 0
    /\ pc = [p \in Commands |-> "idle"]
    /\ pull = [p \in Commands |-> 0]
    /\ todo = [p \in Commands |-> {}]
    /\ made = [p \in Commands |-> {}]
    /\ delivered = {}
    /\ exclusive \in BOOLEAN
    /\ calm \in IF exclusive THEN BOOLEAN ELSE {FALSE}

MayStart(p) ==
    /\ pc[p] = "idle"
    /\ exclusive => \A q \in Commands : pc[q] = "idle"

Stop(p) ==
    /\ pc' = [pc EXCEPT ![p] = "idle"]
    /\ pull' = [pull EXCEPT ![p] = 0]
    /\ todo' = [todo EXCEPT ![p] = {}]
    /\ made' = [made EXCEPT ![p] = {}]

Start(p, n, step) ==
    /\ MayStart(p)
    /\ pc' = [pc EXCEPT ![p] = step]
    /\ pull' = [pull EXCEPT ![p] = n]
    /\ todo' = [todo EXCEPT ![p] = Units]
    /\ UNCHANGED <<refs, forge, made, delivered, modes>>

Goto(p, step) ==
    /\ pc' = [pc EXCEPT ![p] = step]
    /\ UNCHANGED <<pull, todo, made>>

\* Ticking off the unit at hand: on to step, or to last after the last unit.
TickOff(p, step, last) ==
    LET rest == todo[p] \ {NextUnit(todo[p])} IN
    /\ pc' = [pc EXCEPT ![p] = IF rest = {} THEN last ELSE step]
    /\ todo' = [todo EXCEPT ![p] = rest]

\* A review decision: see ReviewPublication for its steps.
Decide(p) ==
    /\ MayStart(p)
    /\ Len(decisions) < MaxDecision
    /\ \E i \in Plans, c \in Contents :
          decisions' = Append(decisions, [plan |-> i, content |-> c])
    /\ UNCHANGED <<projections, branch, clock, forge, local, delivered, modes>>

-----------------------------------------------------------------------------
StartProject(p, i) ==
    /\ \A x \in projections : x.revision < MaxProjection[exclusive]
    /\ \E n \in Selected(i) : Start(p, n, "reset")

\* The commit a unit is stacked on: its parent's in this restack, or the base.
ParentTip(p, u) ==
    IF Parent[u] = u THEN Base
    ELSE (CHOOSE m \in made[p] : m[1] = Parent[u])[2]

\* commit_file_contents forces the branch to the parent ...
Reset(p) ==
    /\ pc[p] = "reset"
    /\ LET u == NextUnit(todo[p]) IN branch' = [branch EXCEPT ![u] = {ParentTip(p, u)}]
    /\ Goto(p, "commit")
    /\ UNCHANGED <<decisions, projections, clock, forge, delivered, modes>>

\* ... and commits on it, which Git refuses when the branch has moved since.
CommitBranch(p) ==
    /\ pc[p] = "commit"
    /\ \E t \in {clock, clock + 1} :
          LET u == NextUnit(todo[p])
              c == Append(ParentTip(p, u),
                          [unit |-> u, content |-> decisions[pull[p]].content, time |-> t]) IN
          /\ t <= MaxTime[exclusive]
          /\ branch[u] = {ParentTip(p, u)}
          /\ clock' = t
          /\ branch' = [branch EXCEPT ![u] = {c}]
          /\ made' = [made EXCEPT ![p] = @ \cup {<<u, c>>}]
    /\ LET rest == todo[p] \ {NextUnit(todo[p])} IN
       /\ pc' = [pc EXCEPT ![p] = IF rest = {} THEN "record" ELSE "reset"]
       /\ todo' = [todo EXCEPT ![p] = IF rest = {} THEN Units ELSE rest]
    /\ UNCHANGED <<decisions, projections, forge, pull, delivered, modes>>

\* Recording the projections children first.
RecordChildrenFirst(p) ==
    /\ pc[p] = "record"
    /\ LET u == CHOOSE u \in todo[p] : \A v \in todo[p] : v <= u
           r == IF LatestProjection(u) = {} THEN 0
                ELSE 1 + (CHOOSE x \in LatestProjection(u) : TRUE).revision IN
       /\ r <= MaxProjection[exclusive]
       /\ projections' = projections \cup
             {[unit |-> u, revision |-> r, pull |-> pull[p],
               commit |-> (CHOOSE m \in made[p] : m[1] = u)[2], status |-> "projected"]}
       /\ IF Cardinality(todo[p]) = 1 THEN Stop(p)
          ELSE todo' = [todo EXCEPT ![p] = @ \ {u}] /\ UNCHANGED <<pc, pull, made>>
    /\ UNCHANGED <<decisions, branch, clock, forge, delivered, modes>>

\* A projection numbered past the last representable revision.
RecordOverflowing(p) ==
    /\ pc[p] = "record"
    /\ LET u == NextUnit(todo[p])
           r == IF LatestProjection(u) = {} THEN 0
                ELSE 1 + (CHOOSE x \in LatestProjection(u) : TRUE).revision IN
       projections' = projections \cup
             {[unit |-> u, revision |-> r, pull |-> pull[p],
               commit |-> (CHOOSE m \in made[p] : m[1] = u)[2], status |-> "projected"]}
    /\ IF Cardinality(todo[p]) = 1 THEN Stop(p)
       ELSE TickOff(p, "record", "record") /\ UNCHANGED <<pull, made>>
    /\ UNCHANGED <<decisions, branch, clock, forge, delivered, modes>>

\* One revision per projection, in the order of the units.
Record(p) ==
    /\ pc[p] = "record"
    /\ LET u == NextUnit(todo[p])
           r == IF LatestProjection(u) = {} THEN 0
                ELSE 1 + (CHOOSE x \in LatestProjection(u) : TRUE).revision IN
       /\ r <= MaxProjection[exclusive]
       /\ projections' = projections \cup
             {[unit |-> u, revision |-> r, pull |-> pull[p],
               commit |-> (CHOOSE m \in made[p] : m[1] = u)[2], status |-> "projected"]}
    /\ IF Cardinality(todo[p]) = 1 THEN Stop(p)
       ELSE TickOff(p, "record", "record") /\ UNCHANGED <<pull, made>>
    /\ UNCHANGED <<decisions, branch, clock, forge, delivered, modes>>

-----------------------------------------------------------------------------
StartPublish(p, i) == \E n \in Selected(i) : Start(p, n, "evidence")

\* push_orkia_refs.
PushRefs ==
    /\ remoteDecisions' = Len(decisions)
    /\ remoteProjections' = projections

\* Leaving the refs to the final push.
PushEvidenceLater(p) ==
    /\ pc[p] = "evidence"
    /\ Goto(p, "push")
    /\ UNCHANGED <<refs, forge, delivered, modes>>

PushEvidence(p) ==
    /\ pc[p] = "evidence"
    /\ PushRefs
    /\ Goto(p, "push")
    /\ UNCHANGED <<refs, remoteBranch, reviews, delivered, modes>>

\* push_branch asks for no force: Git only lets the forge's branch advance.
MayPush(u) == \A c \in remoteBranch[u] : \A d \in branch[u] : Ancestor(c, d)

PushBranch(p) ==
    /\ pc[p] = "push"
    /\ LET u == NextUnit(todo[p]) IN
       /\ branch[u] # {}
       /\ MayPush(u)
       /\ remoteBranch' = [remoteBranch EXCEPT ![u] = branch[u]]
    /\ Goto(p, "review")
    /\ UNCHANGED <<refs, remoteDecisions, remoteProjections, reviews, delivered, modes>>

\* Going on whatever the forge answered.
OpenReviewUnconfirmed(p) ==
    /\ pc[p] = "review"
    /\ reviews' \in {reviews, reviews \cup {NextUnit(todo[p])}}
    /\ Goto(p, "publish")
    /\ UNCHANGED <<refs, remoteBranch, remoteDecisions, remoteProjections, delivered, modes>>

\* The pull request is created, or updated when one is open for the branch.
OpenReview(p) ==
    /\ pc[p] = "review"
    /\ reviews' = reviews \cup {NextUnit(todo[p])}
    /\ Goto(p, "publish")
    /\ UNCHANGED <<refs, remoteBranch, remoteDecisions, remoteProjections, delivered, modes>>

\* A publication numbered after the newest projection of the unit, whatever that
\* one projects.
RecordPublishedNewest(p) ==
    /\ pc[p] = "publish"
    /\ LET u == NextUnit(todo[p]) IN
       \E x \in LatestProjectionFor(u, pull[p]), y \in LatestProjection(u) :
          /\ y.revision < MaxProjection[exclusive]
          /\ projections' = projections \cup
                {[x EXCEPT !.revision = y.revision + 1, !.status = "published"]}
    /\ TickOff(p, "push", "final")
    /\ UNCHANGED <<decisions, branch, clock, forge, pull, made, delivered, modes>>

\* The publication is the revision after the one it publishes; it is refused
\* when a later projection of the unit has taken that revision.
RecordPublished(p) ==
    /\ pc[p] = "publish"
    /\ \E x \in LatestProjectionFor(NextUnit(todo[p]), pull[p]) :
          /\ x.revision < MaxProjection[exclusive]
          /\ \A y \in projections : y.unit = x.unit => y.revision # x.revision + 1
          /\ projections' = projections \cup
                {[x EXCEPT !.revision = @ + 1, !.status = "published"]}
    /\ TickOff(p, "push", "final")
    /\ UNCHANGED <<decisions, branch, clock, forge, pull, made, delivered, modes>>

PushFinal(p) ==
    /\ pc[p] = "final"
    /\ PushRefs
    /\ delivered' = delivered \cup {pull[p]}
    /\ Stop(p)
    /\ UNCHANGED <<refs, remoteBranch, reviews, modes>>

\* A command stops: it dies, or a step fails (a patch that conflicts, a push or
\* a forge request that is refused, a revision that is taken).
Abort(p) ==
    /\ pc[p] # "idle"
    /\ calm => pc[p] \notin Restacking
    /\ Stop(p)
    /\ UNCHANGED <<refs, forge, delivered, modes>>

DeliveryNext ==
    \E p \in Commands :
        \/ Decide(p)
        \/ \E i \in Plans : StartProject(p, i) \/ StartPublish(p, i)
        \/ Reset(p) \/ CommitBranch(p) \/ Record(p)
        \/ PushEvidence(p) \/ PushBranch(p) \/ OpenReview(p) \/ RecordPublished(p)
        \/ PushFinal(p)
        \/ Abort(p)

DeliverySpec == DeliveryInit /\ [][DeliveryNext]_deliveryVars

-----------------------------------------------------------------------------
Projection ==
    [unit : Units, revision : 0..MaxProjection[exclusive], pull : 1..MaxDecision,
     commit : Seq(Layer), status : Statuses]

DeliveryTypeOK ==
    /\ decisions \in Seq([plan : Plans, content : Contents])
    /\ Len(decisions) <= MaxDecision
    /\ projections \subseteq Projection
    /\ \A u \in Units : \A c \in branch[u] \cup remoteBranch[u] : c \in Seq(Layer)
    /\ remoteDecisions \in 0..MaxDecision
    /\ remoteProjections \subseteq projections
    /\ reviews \subseteq Units
    /\ clock \in 0..MaxTime[exclusive]
    /\ pc \in [Commands -> {"idle"} \cup Restacking \cup Publishing]
    /\ pull \in [Commands -> 0..MaxDecision]
    /\ todo \in [Commands -> SUBSET Units]
    /\ \A p \in Commands : \A m \in made[p] : m \in Units \X Seq(Layer)
    /\ delivered \subseteq 1..MaxDecision
    /\ exclusive \in BOOLEAN /\ calm \in BOOLEAN

\* Whatever crashes, fails or races, a Projection that says it is published has
\* its branch and its review on the forge: readiness never counts a review that
\* was not opened.
PublishedHasReview ==
    \A x \in projections :
        x.status = "published" => x.unit \in reviews /\ remoteBranch[x.unit] # {}

\* A projection of a unit that is stacked on another is recorded only on a commit
\* a recorded projection of that parent names, of the same decision: a run that
\* dies or is overtaken leaves no projection without its base.
ParentRecorded ==
    \A x \in projections :
        Parent[x.unit] # x.unit =>
            \E y \in projections :
                y.unit = Parent[x.unit] /\ y.pull = x.pull /\ y.commit = Front(x.commit)

\* The forge holds a decision for each layer of content its branch shows.
HasEvidence(u) ==
    \A c \in remoteBranch[u] : \A k \in DOMAIN c :
        \E n \in 1..remoteDecisions : decisions[n].content = c[k].content

\* One command at a time: at no moment does a forge review show a branch of
\* which the signed plan and pull request cannot be fetched, whatever dies.
EvidenceFirst == exclusive => \A u \in reviews : HasEvidence(u)

\* A publication that returned Ok can be checked from the forge alone, although
\* decisions, restacks and other publications go on meanwhile: it holds the
\* decision and, for every unit, a published projection of that very revision.
DeliveredIsFetchable ==
    \A n \in delivered :
        /\ n <= remoteDecisions
        /\ \A u \in Units : \E x \in remoteProjections :
              x.unit = u /\ x.pull = n /\ x.status = "published"

\* One command at a time and every restack finished: the commit a published
\* projection names is the one the forge's branch shows, even when several plans
\* project and publish the same units in turn.
PublishedIsRemote ==
    exclusive /\ calm =>
        \A x \in projections :
            x.status = "published" => remoteBranch[x.unit] = {x.commit}

\* As EvidenceFirst, whoever else projects meanwhile.
EvidenceAlways == \A u \in reviews : HasEvidence(u)
=============================================================================
