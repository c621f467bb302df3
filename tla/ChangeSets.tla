------------------------------ MODULE ChangeSets -----------------------------
(***************************************************************************)
(* Coordinated delivery: `changeset create` and `integrate --changeset`    *)
(* against the review decisions and publications that go on meanwhile.     *)
(*                                                                         *)
(* A decision is a plan revision of a stack; the stack revisions it leads  *)
(* to name the plan revision their pull requests come from.  A changeset   *)
(* selects one revision of each of its stacks.  Its identity is the set of *)
(* those stacks: neither the revisions nor the dependencies are part of it,*)
(* so the changeset that a review decision publishes for its one stack and *)
(* one that is created by hand are revisions of the same identity.         *)
(*                                                                         *)
(* Storing a revision after reading the newest one is an append that fails *)
(* when another process appended first (SignedRevisions); a command that   *)
(* goes on to use what it read in between carries it along.                *)
(*                                                                         *)
(* exclusive is chosen once, in Init: whether one command runs at a time.  *)
(***************************************************************************)
EXTENDS Naturals, FiniteSets, SequencesExt

CONSTANTS
    Clients,        \* processes that decide, create and integrate
    Stacks,         \* the stacks, of one repository or of several
    Groups,         \* changeset identities: sets of stacks
    MaxPlan,        \* bound on decisions per stack
    MaxRevision     \* bound on revisions per changeset

ASSUME GroupAssumption ==
    /\ Groups \subseteq (SUBSET Stacks) \ {{}}
    /\ \A s \in Stacks : {s} \in Groups
ASSUME BoundAssumption == MaxPlan \in Nat /\ MaxRevision \in Nat

VARIABLES
    plans,          \* stack -> its decisions: is each an approval
    stacks,         \* stack -> its revisions: the decision of each
    changesets,     \* group -> its changeset revisions
    published,      \* <<stack, decision>>: a projection says it is published
    restacked,      \* <<stack, decision>>: and a later one does not
    pc,             \* where each client is
    job,            \* what it carries
    evaluations,    \* integrations that were stored, and for which branch
    exclusive

documents == <<plans, stacks, changesets>>
forge == <<published, restacked>>
changesetVars == <<documents, forge, pc, job, evaluations, exclusive>>

Decisions == 1..MaxPlan
Selection(g) == [g -> Nat \ {0}]
ChangeSet(g) ==
    [selects : Selection(g), dependsOn : SUBSET (Groups \ {g}), status : {"active", "integrated"}]

Steps == {"idle", "bind", "regroup", "dependencies", "store",
          "closure", "readiness", "evaluate", "integrate"}
NoJob == <<>>

\* latest_changeset, as a set; a revision is its place in the sequence.
LatestChangeset(g) == IF changesets[g] = <<>> THEN {} ELSE {Last(changesets[g])}
Integrated(g) == \E c \in LatestChangeset(g) : c.status = "integrated"

\* The decision a stack revision comes from.
DecisionOf(s, r) == stacks[s][r]

-----------------------------------------------------------------------------
ChangesetInit ==
    /\ plans = [s \in Stacks |-> <<>>]
    /\ stacks = [s \in Stacks |-> <<>>]
    /\ changesets = [g \in Groups |-> <<>>]
    /\ published = {} /\ restacked = {}
    /\ pc = [p \in Clients |-> "idle"]
    /\ job = [p \in Clients |-> NoJob]
    /\ evaluations = {}
    /\ exclusive \in BOOLEAN

MayStart(p) ==
    /\ pc[p] = "idle"
    /\ exclusive => \A q \in Clients : pc[q] = "idle"

Goto(p, step, carries) ==
    /\ pc' = [pc EXCEPT ![p] = step]
    /\ job' = [job EXCEPT ![p] = carries]

Stop(p) == Goto(p, "idle", NoJob)

\* Storing a changeset revision: nothing to do when the newest one is the same.
StoreRevision(g, c) ==
    /\ LatestChangeset(g) # {c} => Len(changesets[g]) < MaxRevision
    /\ changesets' = IF LatestChangeset(g) = {c} THEN changesets
                     ELSE [changesets EXCEPT ![g] = Append(@, c)]

-----------------------------------------------------------------------------
(* A review decision (persist_review_plan, see ReviewPublication).          *)

\* The first decision is a derived plan, which nobody has approved yet.
Decide(p, s) ==
    /\ MayStart(p)
    /\ Len(plans[s]) < MaxPlan
    /\ \E approval \in IF plans[s] = <<>> THEN {FALSE} ELSE BOOLEAN :
          plans' = [plans EXCEPT ![s] = Append(@, approval)]
    /\ Goto(p, "bind", [stack |-> s, decision |-> Len(plans[s]) + 1])
    /\ UNCHANGED <<stacks, changesets, forge, evaluations, exclusive>>

Bind(p) ==
    /\ pc[p] = "bind"
    /\ stacks' = [stacks EXCEPT ![job[p].stack] = Append(@, job[p].decision)]
    /\ Goto(p, "regroup", [stack |-> job[p].stack, revision |-> Len(stacks[job[p].stack]) + 1])
    /\ UNCHANGED <<plans, changesets, forge, evaluations, exclusive>>

\* The changeset of the stack alone: active, and without dependencies.
Regroup(p) ==
    /\ pc[p] = "regroup"
    /\ LET g == {job[p].stack} IN
       StoreRevision(g, [selects |-> [s \in g |-> job[p].revision], dependsOn |-> {},
                   status |-> "active"])
    /\ Stop(p)
    /\ UNCHANGED <<plans, stacks, forge, evaluations, exclusive>>

-----------------------------------------------------------------------------
(* changeset create                                                         *)

\* References to stacks that were never published.
StartCreateUnverified(p, g) ==
    /\ MayStart(p)
    /\ \E D \in SUBSET (Groups \ {g}) :
          Goto(p, "dependencies",
               [group |-> g,
                content |-> [selects |-> [s \in g |-> Len(stacks[s])],
                             dependsOn |-> D, status |-> "active"]])
    /\ UNCHANGED <<documents, forge, evaluations, exclusive>>

\* verify_referenced_stacks: the newest revision of every stack.
StartCreate(p, g) ==
    /\ MayStart(p)
    /\ \A s \in g : stacks[s] # <<>>
    /\ \E D \in SUBSET (Groups \ {g}) :
          Goto(p, "dependencies",
               [group |-> g,
                content |-> [selects |-> [s \in g |-> Len(stacks[s])],
                             dependsOn |-> D, status |-> "active"]])
    /\ UNCHANGED <<documents, forge, evaluations, exclusive>>

\* Every dependency must have been integrated.
CheckDependencies(p) ==
    /\ pc[p] = "dependencies"
    /\ \A d \in job[p].content.dependsOn : Integrated(d)
    /\ Goto(p, "store", job[p])
    /\ UNCHANGED <<documents, forge, evaluations, exclusive>>

StoreCreated(p) ==
    /\ pc[p] = "store"
    /\ StoreRevision(job[p].group, job[p].content)
    /\ Stop(p)
    /\ UNCHANGED <<plans, stacks, forge, evaluations, exclusive>>

-----------------------------------------------------------------------------
(* integrate --changeset                                                    *)

\* read: the changesets read so far, a function from group to content.
StartIntegrate(p, g) ==
    /\ MayStart(p)
    /\ \E c \in LatestChangeset(g), onProtected \in BOOLEAN :
          /\ c.status = "active"
          /\ Goto(p, "closure", [group |-> g, base |-> Len(changesets[g]),
                                 protected |-> onProtected, read |-> [h \in {g} |-> c]])
    /\ UNCHANGED <<documents, forge, evaluations, exclusive>>

\* Dependencies of what was read that were not read yet.
Unread(p) ==
    (UNION {job[p].read[h].dependsOn : h \in DOMAIN job[p].read}) \ DOMAIN job[p].read

ReadDependency(p) ==
    /\ pc[p] = "closure"
    /\ \E d \in Unread(p) : \E c \in LatestChangeset(d) :
          Goto(p, "closure",
               [job[p] EXCEPT !.read = [h \in DOMAIN @ \cup {d} |-> IF h = d THEN c ELSE @[h]]])
    /\ UNCHANGED <<documents, forge, evaluations, exclusive>>

\* changeset_execution_order finds an order: no part of the groups waits for itself.
Ordered(read) ==
    \A S \in SUBSET DOMAIN read : S # {} => \E h \in S : read[h].dependsOn \cap S = {}

Dependencies(p) == DOMAIN job[p].read \ {job[p].group}

\* Trusting the dependencies' status to rule cycles out.
CheckOrderUnordered(p) ==
    /\ pc[p] = "closure"
    /\ Unread(p) = {}
    /\ \A d \in Dependencies(p) : job[p].read[d].status = "integrated"
    /\ Goto(p, "readiness", job[p])
    /\ UNCHANGED <<documents, forge, evaluations, exclusive>>

\* Trusting create to have checked the dependencies' status.
CheckOrderOnly(p) ==
    /\ pc[p] = "closure"
    /\ Unread(p) = {}
    /\ Ordered(job[p].read)
    /\ Goto(p, "readiness", job[p])
    /\ UNCHANGED <<documents, forge, evaluations, exclusive>>

CheckOrder(p) ==
    /\ pc[p] = "closure"
    /\ Unread(p) = {}
    /\ Ordered(job[p].read)
    /\ \A d \in Dependencies(p) : job[p].read[d].status = "integrated"
    /\ Goto(p, "readiness", job[p])
    /\ UNCHANGED <<documents, forge, evaluations, exclusive>>

\* change_set_readiness: the newest projection of each selected pull request
\* revision says it is published.
Ready(g, c) ==
    \A s \in g : <<s, DecisionOf(s, c.selects[s])>> \in published \ restacked

CheckReadiness(p) ==
    /\ pc[p] = "readiness"
    /\ \A h \in DOMAIN job[p].read : Ready(h, job[p].read[h])
    /\ Goto(p, "evaluate", job[p])
    /\ UNCHANGED <<documents, forge, evaluations, exclusive>>

\* Each selected pull request comes from the newest decision on its plan, and
\* the policy passes: on a protected branch that decision is an approval.
Evaluate(p) ==
    /\ pc[p] = "evaluate"
    /\ \A s \in job[p].group :
          LET n == DecisionOf(s, job[p].read[job[p].group].selects[s]) IN
          /\ n = Len(plans[s])
          /\ job[p].protected => plans[s][n]
    /\ Goto(p, "integrate", job[p])
    /\ UNCHANGED <<documents, forge, evaluations, exclusive>>

Evaluation(p, revision) ==
    [group |-> job[p].group, revision |-> revision, protected |-> job[p].protected]

\* Marking whatever the newest revision has become.
StoreIntegratedNewest(p) ==
    /\ pc[p] = "integrate"
    /\ LET g == job[p].group IN
       /\ StoreRevision(g, [Last(changesets[g]) EXCEPT !.status = "integrated"])
       /\ evaluations' = evaluations \cup {Evaluation(p, Len(changesets'[g]))}
    /\ Stop(p)
    /\ UNCHANGED <<plans, stacks, forge, exclusive>>

\* The revision after the one that was read; refused when another took it.
StoreIntegrated(p) ==
    /\ pc[p] = "integrate"
    /\ LET g == job[p].group
           c == [job[p].read[g] EXCEPT !.status = "integrated"] IN
       /\ job[p].base < MaxRevision
       /\ IF Len(changesets[g]) = job[p].base
          THEN changesets' = [changesets EXCEPT ![g] = Append(@, c)]
          ELSE changesets[g][job[p].base + 1] = c /\ UNCHANGED changesets
       /\ evaluations' = evaluations \cup {Evaluation(p, job[p].base + 1)}
    /\ Stop(p)
    /\ UNCHANGED <<plans, stacks, forge, exclusive>>

-----------------------------------------------------------------------------
\* review publish and review project (see Delivery) of the pull requests of a
\* decision; they need not belong to the newest one when the command is done.
PublishReview(s) ==
    /\ \E r \in DOMAIN stacks[s] :
          /\ published' = published \cup {<<s, stacks[s][r]>>}
          /\ restacked' = restacked \ {<<s, stacks[s][r]>>}
    /\ UNCHANGED <<documents, pc, job, evaluations, exclusive>>

ProjectReview(s) ==
    /\ \E r \in DOMAIN stacks[s] : restacked' = restacked \cup {<<s, stacks[s][r]>>}
    /\ UNCHANGED <<documents, published, pc, job, evaluations, exclusive>>

\* A command stops: it dies, or a check or a write fails.
Abort(p) ==
    /\ pc[p] # "idle"
    /\ Stop(p)
    /\ UNCHANGED <<documents, forge, evaluations, exclusive>>

ChangesetNext ==
    \/ \E p \in Clients :
          \/ \E s \in Stacks : Decide(p, s)
          \/ \E g \in Groups : StartCreate(p, g) \/ StartIntegrate(p, g)
          \/ Bind(p) \/ Regroup(p)
          \/ CheckDependencies(p) \/ StoreCreated(p)
          \/ ReadDependency(p) \/ CheckOrder(p) \/ CheckReadiness(p) \/ Evaluate(p)
          \/ StoreIntegrated(p)
          \/ Abort(p)
    \/ \E s \in Stacks : PublishReview(s) \/ ProjectReview(s)

ChangesetSpec == ChangesetInit /\ [][ChangesetNext]_changesetVars

-----------------------------------------------------------------------------
ChangesetTypeOK ==
    /\ plans \in [Stacks -> Seq(BOOLEAN)]
    /\ stacks \in [Stacks -> Seq(Decisions)]
    /\ \A s \in Stacks : Len(plans[s]) <= MaxPlan
    /\ DOMAIN changesets = Groups /\ DOMAIN job = Clients
    /\ \A g \in Groups : changesets[g] \in Seq(ChangeSet(g)) /\ Len(changesets[g]) <= MaxRevision
    /\ published \cup restacked \subseteq Stacks \X Decisions
    /\ pc \in [Clients -> Steps]
    /\ evaluations \subseteq
          [group : Groups, revision : 1..MaxRevision, protected : BOOLEAN]
    /\ exclusive \in BOOLEAN

\* What integrate marks as integrated is what it evaluated: the active revision
\* just below, whose stack revisions each were published on the forge in exactly
\* that revision and, for a protected branch, come from an approval.  Decisions,
\* creations, restacks and other integrations that go on meanwhile cannot slip
\* anything else under the mark.
IntegratedWasEvaluated ==
    \A e \in evaluations :
        LET c == changesets[e.group][e.revision]
            before == changesets[e.group][e.revision - 1] IN
        /\ e.revision \in 2..Len(changesets[e.group])
        /\ c.status = "integrated" /\ before.status = "active"
        /\ before.selects = c.selects /\ before.dependsOn = c.dependsOn
        /\ \A s \in e.group :
              LET n == DecisionOf(s, c.selects[s]) IN
              /\ <<s, n>> \in published
              /\ e.protected => plans[s][n]

\* The changesets that are integrated never wait for one another in a circle,
\* although their dependencies are checked one by one against documents that
\* other processes revise meanwhile: there is an order to deliver them in.
IntegratedOrdered ==
    LET I == {g \in Groups : Integrated(g)} IN
    \A S \in SUBSET I : S # {} =>
        \E g \in S : \A c \in LatestChangeset(g) : c.dependsOn \cap S = {}

\* One command at a time: a changeset is integrated only while every changeset
\* it depends on is, also when one was revised after the dependency was declared.
IntegratesAfterDependencies ==
    [][exclusive =>
        \A g \in Groups :
            changesets'[g] # changesets[g] /\ Last(changesets'[g]).status = "integrated" =>
                \A d \in Last(changesets'[g]).dependsOn : Integrated(d)]_changesetVars
=============================================================================
