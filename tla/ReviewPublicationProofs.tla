----------------------- MODULE ReviewPublicationProofs -----------------------
(***************************************************************************)
(* Proofs about review publication: for any number of reviewers, plans,    *)
(* units and shapes, whatever crashes and races, what is published refers  *)
(* to what is published, and of two decisions on one plan revision one is  *)
(* accepted.                                                               *)
(***************************************************************************)
EXTENDS ReviewPublication, WellFoundedInduction, FiniteSetTheorems, FunctionTheorems, TLAPS

(* What a reviewer holds at a step of persist_review_plan.                  *)

\* The plan revision is stored.
Public == {"pull", "storePull", "stack", "storeStack", "changeset", "storeChangeset"}

Held ==
    /\ pc \in [Reviewers -> Steps]
    /\ DOMAIN decision = Reviewers /\ DOMAIN captured = Reviewers
    /\ DOMAIN draft = Reviewers /\ DOMAIN made = Reviewers
    /\ \A p \in Reviewers : pc[p] # "idle" => \E d : decision[p] = {d}

OneRevisionPerPlan == \A d, e \in plans : SamePlan(d, e) => d = e

PublicDecision == \A p \in Reviewers : pc[p] \in Public => decision[p] \subseteq plans

DecisionTypes ==
    /\ plans \subseteq Plan /\ worktree \in Contents
    /\ \A p \in Reviewers : decision[p] \subseteq Plan

DecisionInv ==
    /\ Held /\ OneRevisionPerPlan /\ PublicDecision /\ DecisionTypes
    /\ accepted \subseteq plans

(* A pull request document is that of a unit of a published plan revision.  *)
Grounded(x) ==
    \E d \in plans : d.plan = x.plan /\ d.revision = x.planRevision /\ x.pull \in d.shape

\* A stack document selects one or more revisions of each of its pull requests.
Resolved(t) ==
    /\ \A k \in t.selects : \E x \in pulls : k = <<x.pull, x.revision>> /\ x.pull \in t.shape
    /\ \A u \in t.shape : \E x \in pulls : x.pull = u /\ <<x.pull, x.revision>> \in t.selects

\* The stack of a changeset document.
Based(c) == \E t \in stacks : t.shape = c.shape /\ t.revision = c.stackRevision

MadeInv ==
    \A p \in Reviewers :
        /\ made[p] \subseteq pulls
        /\ pc[p] \notin Public => made[p] = {}
        /\ \A x \in made[p], d \in decision[p] : x.pull \in d.shape
        /\ pc[p] = "stack" => \A d \in decision[p] : \A u \in d.shape :
                                  \E x \in made[p] : x.pull = u

DraftInv ==
    \A p \in Reviewers :
        /\ pc[p] = "storePull" => \A x \in draft[p] :
              Grounded(x) /\ \A d \in decision[p] : x.pull \in d.shape
        /\ pc[p] = "storeStack" => \A t \in draft[p] : Resolved(t)
        /\ pc[p] = "changeset" => draft[p] \subseteq stacks
        /\ pc[p] = "storeChangeset" => \A c \in draft[p] : Based(c)

StoreInv ==
    /\ \A x \in pulls : Grounded(x)
    /\ \A t \in stacks : Resolved(t)
    /\ \A c \in changesets : Based(c)

ReviewInv == DecisionInv /\ MadeInv /\ DraftInv /\ StoreInv

-----------------------------------------------------------------------------
\* The next unit (persist_review_plan goes through them in order) is one of those that remain.
LEMMA MinRemains ==
    ASSUME NEW S, S \subseteq Nat, S # {}
    PROVE  Min(S) \in S
<1>1. PICK x \in S : \A y \in S : <<y, x>> \notin OpToRel(<, Nat)
    BY NatLessThanWellFounded, WFMin, Zenon
<1>2. \A y \in S : ~(y < x)
    BY <1>1, Zenon DEF OpToRel
<1>3. \A y \in S : x <= y
    BY <1>2
<1> QED
    BY <1>3 DEF Min

\* Nothing is published and nobody decides at first.
LEMMA InitInv == ReviewInit => ReviewInv
    BY DEF ReviewInit, ReviewInv, DecisionInv, Held, Steps, OneRevisionPerPlan, PublicDecision,
        DecisionTypes, Public, MadeInv, DraftInv, StoreInv

\* A return that publishes nothing, with the decisions it accepts.
LEMMA ReturnInv ==
    ASSUME ReviewInv, NEW p \in Reviewers, NEW oks, oks \subseteq plans, Return(p, oks),
           UNCHANGED <<published, worktree, exclusive>>
    PROVE  ReviewInv'
<1> USE DEF ReviewInv
<1>1. DecisionInv'
    BY DEF Return, Goto, published, DecisionInv, Held, Steps, OneRevisionPerPlan,
        PublicDecision, DecisionTypes, Public, SamePlan
<1>2. MadeInv'
    BY DEF Return, Goto, published, DecisionInv, Held, Public, MadeInv
<1>3. DraftInv'
    BY DEF Return, Goto, published, DecisionInv, Held, DraftInv, Grounded, Resolved, Based
<1>4. StoreInv'
    BY DEF Return, Goto, published, StoreInv, Grounded, Resolved, Based
<1> QED
    BY <1>1, <1>2, <1>3, <1>4

\* A command that begins.
LEMMA DecideInv ==
    ASSUME ReviewInv, NEW p \in Reviewers, NEW d \in Plan, Decide(p, d)
    PROVE  ReviewInv'
<1> USE DEF ReviewInv
<1>1. DecisionInv'
    BY DEF Decide, Goto, published, DecisionInv, Held, Steps, OneRevisionPerPlan,
        PublicDecision, DecisionTypes, Public, SamePlan
<1>2. MadeInv'
    BY DEF Decide, Goto, published, DecisionInv, Held, Public, MadeInv
<1>3. DraftInv'
    BY DEF Decide, Goto, published, DecisionInv, Held, DraftInv, Grounded, Resolved, Based
<1>4. StoreInv'
    BY DEF Decide, Goto, published, StoreInv, Grounded, Resolved, Based
<1> QED
    BY <1>1, <1>2, <1>3, <1>4

\* The next revision of a plan, with another status or shape, is a plan.
LEMMA PlanRevised ==
    ASSUME NEW d \in Plan, NEW n \in 0..MaxPlan
    PROVE  /\ \A s \in Statuses : [d EXCEPT !.revision = n, !.status = s] \in Plan
           /\ \A s \in Shapes :
                 [d EXCEPT !.revision = n, !.status = "proposed", !.shape = s] \in Plan
    BY DEF Plan, Statuses

\* A reviewer's decision on the newest revision has a shape of the atoms.
LEMMA ReviseInv ==
    ASSUME ReviewInv, NEW p \in Reviewers, NEW i \in Plans, SetStatus(p, i) \/ Correct(p, i)
    PROVE  ReviewInv'
<1> USE DEF ReviewInv
<1>1. LatestPlan(i) \subseteq Plan
    BY DEF LatestPlan, Newest, DecisionInv, DecisionTypes
<1>2. ASSUME NEW d \in Plan, d.revision < MaxPlan
      PROVE  d.revision + 1 \in 0..MaxPlan
    BY <1>2, BoundAssumption DEF Plan
<1>3. CASE SetStatus(p, i)
  <2>1. PICK d \in Plan, s \in {"approved", "changesRequested"} :
            d.revision < MaxPlan /\ Decide(p, [d EXCEPT !.revision = @ + 1, !.status = s])
    BY <1>1, <1>3 DEF SetStatus
  <2>2. [d EXCEPT !.revision = @ + 1, !.status = s] \in Plan
    BY <1>2, <2>1, PlanRevised DEF Statuses
  <2> QED
    BY <2>1, <2>2, DecideInv
<1>4. CASE Correct(p, i)
  <2>1. PICK d \in Plan, s \in Shapes :
            /\ d.revision < MaxPlan
            /\ Decide(p, [d EXCEPT !.revision = @ + 1, !.status = "proposed", !.shape = s])
    BY <1>1, <1>4 DEF Correct
  <2>2. [d EXCEPT !.revision = @ + 1, !.status = "proposed", !.shape = s] \in Plan
    BY <1>2, <2>1, PlanRevised
  <2> QED
    BY <2>1, <2>2, DecideInv
<1> QED
    BY <1>3, <1>4

\* A replay returns with the decision only where that is published.
LEMMA ReplayInv ==
    ASSUME ReviewInv, NEW p \in Reviewers, CheckReplay(p)
    PROVE  ReviewInv'
<1>1. PICK d, e : e \in plans /\ Return(p, {d} \cap {e})
    BY DEF CheckReplay, LatestPlan, Newest
<1> QED
    BY <1>1, ReturnInv DEF CheckReplay

\* Files that change, and nothing.
LEMMA IdleInv ==
    ASSUME ReviewInv, Edit \/ UNCHANGED reviewVars
    PROVE  ReviewInv'
<1> USE DEF Edit, reviewVars, published, local, ReviewInv
<1>1. DecisionInv'
    BY DEF DecisionInv, Held, OneRevisionPerPlan, PublicDecision, DecisionTypes
<1>2. MadeInv'
    BY DEF MadeInv
<1>3. DraftInv'
    BY DEF DraftInv, Grounded, Resolved, Based
<1>4. StoreInv'
    BY DEF StoreInv, Grounded, Resolved, Based
<1> QED
    BY <1>1, <1>2, <1>3, <1>4

\* The worktree is read.
LEMMA ReadChangesInv ==
    ASSUME ReviewInv, NEW p \in Reviewers, ReadChanges(p)
    PROVE  ReviewInv'
<1> USE DEF ReviewInv
<1>1. DecisionInv'
    BY DEF ReadChanges, Goto, published, DecisionInv, Held, Steps, OneRevisionPerPlan,
        PublicDecision, DecisionTypes, Public, SamePlan
<1>2. MadeInv'
    BY DEF ReadChanges, Goto, published, DecisionInv, Held, Public, MadeInv
<1>3. DraftInv'
    BY DEF ReadChanges, Goto, published, DecisionInv, Held, DraftInv, Grounded, Resolved, Based
<1>4. StoreInv'
    BY DEF ReadChanges, Goto, published, StoreInv, Grounded, Resolved, Based
<1> QED
    BY <1>1, <1>2, <1>3, <1>4

\* The decision is a new one.
LEMMA CheckNewInv ==
    ASSUME ReviewInv, NEW p \in Reviewers, CheckNew(p)
    PROVE  ReviewInv'
<1> USE DEF ReviewInv
<1>1. DecisionInv'
    BY DEF CheckNew, Goto, published, DecisionInv, Held, Steps, OneRevisionPerPlan,
        PublicDecision, DecisionTypes, Public, SamePlan
<1>2. MadeInv'
    BY DEF CheckNew, Goto, published, DecisionInv, Held, Public, MadeInv
<1>3. DraftInv'
    BY DEF CheckNew, Goto, published, DecisionInv, Held, DraftInv, Grounded, Resolved, Based
<1>4. StoreInv'
    BY DEF CheckNew, Goto, published, StoreInv, Grounded, Resolved, Based
<1> QED
    BY <1>1, <1>2, <1>3, <1>4

\* Every unit has its pull request.
LEMMA PullsDoneInv ==
    ASSUME ReviewInv, NEW p \in Reviewers, PullsDone(p)
    PROVE  ReviewInv'
<1> USE DEF ReviewInv
<1>1. DecisionInv'
    BY DEF PullsDone, Remaining, Goto, published, DecisionInv, Held, Steps,
        OneRevisionPerPlan, PublicDecision, DecisionTypes, Public, SamePlan
<1>2. MadeInv'
    BY DEF PullsDone, Remaining, Goto, published, DecisionInv, Held, Public, MadeInv
<1>3. DraftInv'
    BY DEF PullsDone, Remaining, Goto, published, DecisionInv, Held, DraftInv, Grounded,
        Resolved, Based
<1>4. StoreInv'
    BY DEF PullsDone, Remaining, Goto, published, StoreInv, Grounded, Resolved, Based
<1> QED
    BY <1>1, <1>2, <1>3, <1>4

\* The decision becomes public, unless another one has its revision.
LEMMA StorePlanInv ==
    ASSUME ReviewInv, NEW p \in Reviewers, StorePlan(p)
    PROVE  ReviewInv'
<1> USE DEF ReviewInv
<1>1. PICK d : decision[p] = {d}
    BY DEF StorePlan, DecisionInv, Held
<1>2. plans' = plans \cup {d} /\ \A e \in plans : SamePlan(d, e) => d = e
    BY <1>1 DEF StorePlan
<1>3. \A e \in plans : SamePlan(e, d) => d = e
    BY <1>2 DEF SamePlan
<1>4. OneRevisionPerPlan'
    BY <1>2, <1>3 DEF DecisionInv, OneRevisionPerPlan, SamePlan
<1>5. DecisionInv'
    BY <1>1, <1>2, <1>4 DEF StorePlan, Goto, DecisionInv, Held, Steps, PublicDecision,
        DecisionTypes, Public
<1>6. MadeInv'
    BY DEF StorePlan, Goto, DecisionInv, Held, Public, MadeInv
<1>7. DraftInv'
    BY <1>2 DEF StorePlan, Goto, DecisionInv, Held, Public, DraftInv, Grounded, Resolved, Based
<1>8. StoreInv'
    BY <1>2 DEF StorePlan, StoreInv, Grounded, Resolved, Based
<1> QED
    BY <1>5, <1>6, <1>7, <1>8

\* The next unit's pull request names the decision that is being published.
LEMMA ReadPullInv ==
    ASSUME ReviewInv, NEW p \in Reviewers, ReadPull(p)
    PROVE  ReviewInv'
<1> USE DEF ReviewInv
<1>1. PICK d : decision[p] = {d}
    BY DEF ReadPull, DecisionInv, Held
<1>2. Remaining(p) = d.shape \ {x.pull : x \in made[p]}
    BY <1>1 DEF Remaining
<1>3. Remaining(p) \subseteq Nat
  <2>1. d.shape \in Shapes
    BY <1>1 DEF DecisionInv, DecisionTypes, Plan
  <2> QED
    BY <1>2, <2>1, ShapeAssumption, UnitAssumption
<1>4. Min(Remaining(p)) \in d.shape
    BY <1>2, <1>3, MinRemains DEF ReadPull
<1> DEFINE u == Min(Remaining(p))
<1>5. draft' = [draft EXCEPT ![p] =
            {[pull |-> u, revision |-> NextRevision(LatestPull(u)), plan |-> d.plan,
              planRevision |-> d.revision, content |-> captured[p]]}]
    BY <1>1 DEF ReadPull
<1>6. d \in plans
    BY <1>1 DEF ReadPull, DecisionInv, PublicDecision, Public
<1> HIDE DEF u
<1>7. \A x \in draft'[p] : x.plan = d.plan /\ x.planRevision = d.revision /\ x.pull = u
    BY <1>5 DEF DecisionInv, Held
<1>8. \A x \in draft'[p] : Grounded(x)' /\ x.pull \in d.shape
    BY <1>4, <1>6, <1>7 DEF u, Grounded, ReadPull, published
<1>9. DecisionInv'
    BY <1>5 DEF ReadPull, Goto, published, DecisionInv, Held, Steps, OneRevisionPerPlan,
        PublicDecision, DecisionTypes, Public
<1>10. MadeInv'
    BY DEF ReadPull, Goto, published, DecisionInv, Held, Public, MadeInv
<1>11. \A q \in Reviewers : q # p => draft'[q] = draft[q] /\ pc'[q] = pc[q]
    BY <1>5 DEF ReadPull, Goto, DecisionInv, Held
<1>12. pc'[p] = "storePull"
    BY DEF ReadPull, Goto, DecisionInv, Held
<1>13. DraftInv'
    BY <1>1, <1>8, <1>11, <1>12 DEF ReadPull, published, DraftInv, Grounded, Resolved, Based
<1>14. StoreInv'
    BY DEF ReadPull, published, StoreInv, Grounded, Resolved, Based
<1> QED
    BY <1>9, <1>10, <1>13, <1>14

\* A pull request is published; what resolved before still does.
LEMMA StorePullInv ==
    ASSUME ReviewInv, NEW p \in Reviewers, StorePull(p)
    PROVE  ReviewInv'
<1> USE DEF ReviewInv
<1>1. \A x \in draft[p] : Grounded(x) /\ \A d \in decision[p] : x.pull \in d.shape
    BY DEF StorePull, DraftInv
<1>2. pulls' = pulls \cup draft[p] /\ made' = [made EXCEPT ![p] = @ \cup draft[p]]
    BY DEF StorePull
<1>3. DecisionInv'
    BY DEF StorePull, Goto, DecisionInv, Held, Steps, OneRevisionPerPlan, PublicDecision,
        DecisionTypes, Public
<1>4. /\ made'[p] = made[p] \cup draft[p]
      /\ \A q \in Reviewers : q # p => made'[q] = made[q] /\ pc'[q] = pc[q]
      /\ pc'[p] = "pull" /\ UNCHANGED decision
    BY <1>2 DEF StorePull, Goto, DecisionInv, Held
<1>5. MadeInv'
    BY <1>1, <1>2, <1>4 DEF StorePull, MadeInv, Public
<1>6. \A t : Resolved(t) => Resolved(t)'
    BY <1>2 DEF Resolved
<1>7. DraftInv'
    BY <1>4, <1>6 DEF StorePull, DecisionInv, Held, DraftInv, Grounded, Based
<1>8. \A x \in pulls' : Grounded(x)'
    BY <1>1, <1>2 DEF StorePull, StoreInv, Grounded
<1>9. StoreInv'
    BY <1>6, <1>8 DEF StorePull, StoreInv, Based
<1> QED
    BY <1>3, <1>5, <1>7, <1>9

\* The stack selects what this process has published, or is a published one.
LEMMA ReadStackInv ==
    ASSUME ReviewInv, NEW p \in Reviewers, ReadStack(p)
    PROVE  ReviewInv'
<1> USE DEF ReviewInv
<1>1. PICK d : decision[p] = {d}
    BY DEF ReadStack, DecisionInv, Held
<1> DEFINE same == {t \in LatestStack(d.shape) : t.selects = Selection(p)}
           next == [shape |-> d.shape, revision |-> NextRevision(LatestStack(d.shape)),
                    selects |-> Selection(p)]
<1>2. draft' = [draft EXCEPT ![p] = IF same # {} THEN same ELSE {next}]
    BY <1>1 DEF ReadStack
<1>3. same \subseteq stacks
    BY DEF LatestStack, Newest
<1>4. next.shape = d.shape /\ next.selects = Selection(p)
    OBVIOUS
<1> HIDE DEF same, next
<1>5. Resolved(next)
    BY <1>1, <1>4 DEF ReadStack, MadeInv, Selection, Resolved
<1>6. \A t \in draft'[p] : Resolved(t)
    BY <1>2, <1>3, <1>5 DEF StoreInv, DecisionInv, Held
<1>7. DecisionInv'
    BY <1>2 DEF ReadStack, Goto, published, DecisionInv, Held, Steps, OneRevisionPerPlan,
        PublicDecision, DecisionTypes, Public
<1>8. MadeInv'
    BY DEF ReadStack, Goto, published, DecisionInv, Held, Public, MadeInv
<1>9. /\ \A q \in Reviewers : q # p => draft'[q] = draft[q] /\ pc'[q] = pc[q]
      /\ pc'[p] = "storeStack"
    BY <1>2 DEF ReadStack, Goto, DecisionInv, Held
<1>10. DraftInv'
    BY <1>6, <1>9 DEF ReadStack, published, DraftInv, Grounded, Resolved, Based
<1>11. StoreInv'
    BY DEF ReadStack, published, StoreInv, Grounded, Resolved, Based
<1> QED
    BY <1>7, <1>8, <1>10, <1>11

\* The stack is published.
LEMMA StoreStackInv ==
    ASSUME ReviewInv, NEW p \in Reviewers, StoreStack(p)
    PROVE  ReviewInv'
<1> USE DEF ReviewInv
<1>1. stacks' = stacks \cup draft[p] /\ \A t \in draft[p] : Resolved(t)
    BY DEF StoreStack, DraftInv
<1>2. DecisionInv'
    BY DEF StoreStack, Goto, DecisionInv, Held, Steps, OneRevisionPerPlan, PublicDecision,
        DecisionTypes, Public
<1>3. MadeInv'
    BY DEF StoreStack, Goto, DecisionInv, Held, Public, MadeInv
<1>4. DraftInv'
    BY <1>1 DEF StoreStack, Goto, DecisionInv, Held, DraftInv, Grounded, Resolved, Based
<1>5. StoreInv'
    BY <1>1 DEF StoreStack, StoreInv, Grounded, Resolved, Based
<1> QED
    BY <1>2, <1>3, <1>4, <1>5

\* The changeset selects the stack just stored, or is a published one.
LEMMA ReadChangesetInv ==
    ASSUME ReviewInv, NEW p \in Reviewers, ReadChangeset(p)
    PROVE  ReviewInv'
<1> USE DEF ReviewInv
<1>1. DecisionInv'
    BY DEF ReadChangeset, LatestChangeset, Newest, Goto, published, DecisionInv, Held, Steps,
        OneRevisionPerPlan, PublicDecision, DecisionTypes, Public, SamePlan
<1>2. MadeInv'
    BY DEF ReadChangeset, LatestChangeset, Newest, Goto, published, DecisionInv, Held, Public,
        MadeInv
<1>3. DraftInv'
    BY DEF ReadChangeset, LatestChangeset, Newest, Goto, published, DecisionInv, Held,
        DraftInv, Grounded, Resolved, Based
<1>4. StoreInv'
    BY DEF ReadChangeset, LatestChangeset, Newest, Goto, published, StoreInv, Grounded,
        Resolved, Based
<1> QED
    BY <1>1, <1>2, <1>3, <1>4

\* The changeset is published and the command returns.
LEMMA StoreChangesetInv ==
    ASSUME ReviewInv, NEW p \in Reviewers, StoreChangeset(p)
    PROVE  ReviewInv'
<1> USE DEF ReviewInv
<1>1. changesets' = changesets \cup draft[p] /\ \A c \in draft[p] : Based(c)
    BY DEF StoreChangeset, DraftInv
<1>2. decision[p] \subseteq plans
    BY DEF StoreChangeset, DecisionInv, PublicDecision, Public
<1>3. PICK oks \in {decision[p], {}} : Return(p, oks)
    BY DEF StoreChangeset
<1>4. accepted' \subseteq plans
    BY <1>2, <1>3 DEF Return, DecisionInv
<1>5. DecisionInv'
    <2>1. Held'
        BY <1>3 DEF Return, Goto, DecisionInv, Held, Steps
    <2>2. OneRevisionPerPlan' /\ DecisionTypes'
        BY <1>3 DEF StoreChangeset, Return, DecisionInv, Held, OneRevisionPerPlan, DecisionTypes
    <2>3. PublicDecision'
        BY <1>3 DEF StoreChangeset, Return, Goto, DecisionInv, Held, PublicDecision, Public
    <2>4. plans' = plans
        BY DEF StoreChangeset
    <2>. QED BY <1>4, <2>1, <2>2, <2>3, <2>4 DEF DecisionInv
<1>6. MadeInv'
    BY <1>3 DEF StoreChangeset, Return, Goto, DecisionInv, Held, Public, MadeInv
<1>7. DraftInv'
    <2>1. /\ pc' = [pc EXCEPT ![p] = "idle"]
          /\ draft' = [draft EXCEPT ![p] = {}] /\ decision' = [decision EXCEPT ![p] = {}]
          /\ plans' = plans /\ pulls' = pulls /\ stacks' = stacks
        BY <1>3 DEF StoreChangeset, Return, Goto
    <2>2. pc'[p] = "idle"
        BY <2>1 DEF DecisionInv, Held
    <2>3. \A q \in Reviewers \ {p} :
              pc'[q] = pc[q] /\ draft'[q] = draft[q] /\ decision'[q] = decision[q]
        BY <2>1 DEF DecisionInv, Held
    <2>. QED BY <2>1, <2>2, <2>3 DEF DraftInv, Grounded, Resolved, Based
<1>8. StoreInv'
    BY <1>1 DEF StoreChangeset, StoreInv, Grounded, Resolved, Based
<1> QED
    BY <1>5, <1>6, <1>7, <1>8

-----------------------------------------------------------------------------
\* Every step of every process preserves it.
LEMMA StepInv == ReviewInv /\ [ReviewNext]_reviewVars => ReviewInv'
<1> SUFFICES ASSUME ReviewInv, [ReviewNext]_reviewVars PROVE ReviewInv'
    OBVIOUS
<1>1. ASSUME NEW p \in Reviewers, NEW i \in Plans, DeriveReview(p, i)
      PROVE  ReviewInv'
  <2>1. [plan |-> i, revision |-> 0, shape |-> Derived, content |-> worktree,
         status |-> "proposed"] \in Plan
    BY ShapeAssumption, BoundAssumption DEF Plan, Statuses, ReviewInv, DecisionInv,
        DecisionTypes
  <2> QED
    BY <1>1, <2>1, DecideInv DEF DeriveReview
<1>2. ASSUME NEW p \in Reviewers, NEW i \in Plans, SetStatus(p, i) \/ Correct(p, i)
      PROVE  ReviewInv'
    BY <1>2, ReviseInv
<1>3. ASSUME NEW p \in Reviewers, CheckReplay(p)
      PROVE  ReviewInv'
    BY <1>3, ReplayInv
<1>4. ASSUME NEW p \in Reviewers, Abort(p)
      PROVE  ReviewInv'
    BY <1>4, ReturnInv DEF Abort, Fail
<1>5. CASE Edit \/ UNCHANGED reviewVars
    BY <1>5, IdleInv
<1> QED
    BY <1>1, <1>2, <1>3, <1>4, <1>5, ReadChangesInv, CheckNewInv, StorePlanInv, ReadPullInv,
        StorePullInv, PullsDoneInv, ReadStackInv, StoreStackInv, ReadChangesetInv,
        StoreChangesetInv DEF ReviewNext

\* So it always holds.
LEMMA AlwaysInv == ReviewSpec => []ReviewInv
    BY InitInv, StepInv, PTL DEF ReviewSpec

\* Every reference of a published document resolves (persist_review_plan): a changeset's
\* to its stack, a stack's to its pull requests, a pull request's to a plan revision it is
\* a unit of, for any number of reviewers that race and crash.
THEOREM ReferencesAlwaysResolve == ReviewSpec => []ReferencesResolve
<1>1. ReviewInv => ReferencesResolve
  <2> SUFFICES ASSUME ReviewInv PROVE ReferencesResolve
    OBVIOUS
  <2> USE DEF ReviewInv, StoreInv
  <2>1. ASSUME NEW t \in stacks PROVE {x.pull : x \in Selected(t)} = t.shape
    <3>1. Resolved(t)
      OBVIOUS
    <3>2. \A x \in Selected(t) : x.pull \in t.shape
      <4> SUFFICES ASSUME NEW x \in pulls, <<x.pull, x.revision>> \in t.selects
                   PROVE  x.pull \in t.shape
        BY DEF Selected
      <4>1. PICK y \in pulls : <<x.pull, x.revision>> = <<y.pull, y.revision>> /\ y.pull \in t.shape
        BY <3>1 DEF Resolved
      <4> QED
        BY <4>1
    <3>3. \A u \in t.shape : \E x \in Selected(t) : x.pull = u
      BY <3>1 DEF Resolved, Selected
    <3> QED
      BY <3>2, <3>3
  <2> QED
    BY <2>1 DEF ReferencesResolve, Based, Grounded
<1> QED
    BY <1>1, AlwaysInv, PTL

\* What was accepted is published, and of two decisions on one plan revision at most one
\* is accepted (store_review_plan refuses the other), for any number of reviewers.
THEOREM OneDecisionWins == ReviewSpec => []OneAccepted
<1>1. ReviewInv => OneAccepted
    BY DEF ReviewInv, DecisionInv, OneRevisionPerPlan, OneAccepted
<1> QED
    BY <1>1, AlwaysInv, PTL

-----------------------------------------------------------------------------
(* A stack is one decision: on top of ReviewInv, what a process made and is about to *)
(* store is of the decision it publishes and of one reading of the worktree.        *)

OnePull == \A x, y \in pulls : SamePull(x, y) => x = y

\* The pull request document x is of process p's decision.
Of(x, p) ==
    /\ \A d \in decision[p] : x.plan = d.plan /\ x.planRevision = d.revision
    /\ x.content = captured[p]

Decided(t) ==
    /\ t.shape \in Shapes
    /\ \A x, y \in Selected(t) :
          /\ x.pull = y.pull => x = y
          /\ x.plan = y.plan /\ x.planRevision = y.planRevision /\ x.content = y.content
    /\ \A x \in Selected(t) : \A d \in plans :
          d.plan = x.plan /\ d.revision = x.planRevision => d.shape = t.shape

MadeChosen ==
    \A p \in Reviewers :
        \A x, y \in made[p] : Of(x, p) /\ (x.pull = y.pull => x = y)

DraftChosen ==
    \A p \in Reviewers :
        /\ pc[p] = "storePull" =>
              \E x : draft[p] = {x} /\ Of(x, p) /\ \A y \in made[p] : y.pull # x.pull
        /\ pc[p] = "storeStack" => \A t \in draft[p] : Decided(t)

ChosenInv == OnePull /\ MadeChosen /\ DraftChosen /\ \A t \in stacks : Decided(t)

\* Publishing more pull requests does not change what a stack selects.
LEMMA SelectedStays ==
    ASSUME pulls \subseteq pulls', \A x \in pulls', y \in pulls : SamePull(x, y) => x = y,
           NEW t, Resolved(t)
    PROVE  Selected(t)' = Selected(t)
<1>1. ASSUME NEW x \in pulls', <<x.pull, x.revision>> \in t.selects
      PROVE  x \in pulls
  <2>1. PICK y \in pulls : <<x.pull, x.revision>> = <<y.pull, y.revision>>
    BY <1>1 DEF Resolved
  <2> QED
    BY <2>1 DEF SamePull
<1> QED
    BY <1>1 DEF Selected

\* Publishing more plans and pull requests does not change what a stack is.
LEMMA DecidedStays ==
    ASSUME ReviewInv, ReviewInv', plans \subseteq plans', pulls \subseteq pulls',
           \A x \in pulls', y \in pulls : SamePull(x, y) => x = y,
           NEW t, Resolved(t), Decided(t)
    PROVE  Decided(t)'
<1>1. Selected(t)' = Selected(t)
    BY SelectedStays
<1>2. ASSUME NEW x \in Selected(t), NEW d \in plans', d.plan = x.plan,
    d.revision = x.planRevision
      PROVE  d \in plans
  <2>1. x \in pulls
    BY DEF Selected
  <2>2. PICK e \in plans : e.plan = x.plan /\ e.revision = x.planRevision
    BY <2>1 DEF ReviewInv, StoreInv, Grounded
  <2> QED
    BY <1>2, <2>2 DEF ReviewInv, DecisionInv, OneRevisionPerPlan, SamePlan
<1> QED
  <2>1. \A x, y \in Selected(t) :
          /\ x.pull = y.pull => x = y
          /\ x.plan = y.plan /\ x.planRevision = y.planRevision /\ x.content = y.content
    BY DEF Decided
  <2>2. \A x \in Selected(t) : \A d \in plans' :
          d.plan = x.plan /\ d.revision = x.planRevision => d.shape = t.shape
    BY <1>2 DEF Decided
  <2> QED
    BY <1>1, <2>1, <2>2 DEF Decided

\* As does a step that publishes neither.
LEMMA DecidedSame ==
    ASSUME UNCHANGED <<plans, pulls>>
    PROVE  \A t : Decided(t) => Decided(t)'
<1>1. \A t : Selected(t)' = Selected(t)
    BY DEF Selected
<1> QED
    BY <1>1 DEF Decided

\* The pull request a process stores is of its decision, and the only one of its unit.
LEMMA PullChosen ==
    ASSUME ReviewInv, ReviewInv', ChosenInv, NEW p \in Reviewers, StorePull(p)
    PROVE  ChosenInv'
<1> USE DEF ChosenInv
<1>1. PICK x : draft[p] = {x} /\ Of(x, p) /\ \A y \in made[p] : y.pull # x.pull
    BY DEF StorePull, DraftChosen
<1>2. pulls' = pulls \cup {x} /\ \A y \in pulls : SamePull(x, y) => x = y
    BY <1>1 DEF StorePull
<1>3. OnePull'
    BY <1>2 DEF OnePull, SamePull
<1>4. /\ made'[p] = made[p] \cup {x}
      /\ \A q \in Reviewers : q # p => made'[q] = made[q] /\ pc'[q] = pc[q] /\ draft'[q] = draft[q]
      /\ pc'[p] = "pull" /\ UNCHANGED <<decision, captured, plans, stacks>>
    BY <1>1 DEF StorePull, Goto, ReviewInv, DecisionInv, Held
<1>5. MadeChosen'
    BY <1>1, <1>4 DEF MadeChosen, Of
<1>6. \A t : Resolved(t) /\ Decided(t) => Decided(t)'
    BY <1>2, <1>4, DecidedStays DEF OnePull, SamePull
<1>7. DraftChosen'
    BY <1>4, <1>6 DEF DraftChosen, Of, ReviewInv, DraftInv
<1>8. \A t \in stacks' : Decided(t)'
    BY <1>4, <1>6 DEF ReviewInv, StoreInv
<1> QED
    BY <1>3, <1>5, <1>7, <1>8

\* A plan revision is published.
LEMMA PlanChosen ==
    ASSUME ReviewInv, ReviewInv', ChosenInv, NEW p \in Reviewers, StorePlan(p)
    PROVE  ChosenInv'
<1> USE DEF ChosenInv
<1>1. /\ plans \subseteq plans' /\ UNCHANGED <<pulls, stacks, decision, captured, draft, made>>
      /\ \A q \in Reviewers : q # p => pc'[q] = pc[q]
      /\ pc'[p] = "pull"
    BY DEF StorePlan, Goto, ReviewInv, DecisionInv, Held
<1>2. OnePull' /\ MadeChosen'
    BY <1>1 DEF OnePull, MadeChosen, Of
<1>3. \A t : Resolved(t) /\ Decided(t) => Decided(t)'
    BY <1>1, DecidedStays DEF OnePull
<1>4. DraftChosen'
    BY <1>1, <1>3 DEF DraftChosen, Of, ReviewInv, DraftInv
<1>5. \A t \in stacks' : Decided(t)'
    BY <1>1, <1>3 DEF ReviewInv, StoreInv
<1> QED
    BY <1>2, <1>4, <1>5

\* The draft of a pull request is of the decision, and of a unit that has none yet.
LEMMA ReadPullChosen ==
    ASSUME ReviewInv, ReviewInv', ChosenInv, NEW p \in Reviewers, ReadPull(p)
    PROVE  ChosenInv'
<1> USE DEF ChosenInv
<1>1. PICK d : decision[p] = {d}
    BY DEF ReadPull, ReviewInv, DecisionInv, Held
<1>2. Remaining(p) = d.shape \ {x.pull : x \in made[p]}
    BY <1>1 DEF Remaining
<1>3. Min(Remaining(p)) \in Remaining(p)
  <2>1. d.shape \in Shapes
    BY <1>1 DEF ReviewInv, DecisionInv, DecisionTypes, Plan
  <2>2. Remaining(p) \subseteq Nat
    BY <1>2, <2>1, ShapeAssumption, UnitAssumption
  <2> QED
    BY <2>2, MinRemains DEF ReadPull
<1> DEFINE u == Min(Remaining(p))
           x == [pull |-> u, revision |-> NextRevision(LatestPull(u)), plan |-> d.plan,
                 planRevision |-> d.revision, content |-> captured[p]]
<1>4. draft' = [draft EXCEPT ![p] = {x}]
    BY <1>1 DEF ReadPull
<1>5. x.pull = u /\ x.plan = d.plan /\ x.planRevision = d.revision /\ x.content = captured[p]
    OBVIOUS
<1>6. u \notin {y.pull : y \in made[p]}
    BY <1>2, <1>3
<1> HIDE DEF u, x
<1>7. Of(x, p) /\ \A y \in made[p] : y.pull # x.pull
    BY <1>1, <1>5, <1>6 DEF Of
<1>8. /\ UNCHANGED <<plans, pulls, stacks, decision, captured, made>>
      /\ \A q \in Reviewers : q # p => pc'[q] = pc[q] /\ draft'[q] = draft[q]
      /\ pc'[p] = "storePull" /\ draft'[p] = {x}
    BY <1>4 DEF ReadPull, Goto, published, ReviewInv, DecisionInv, Held
<1>9. OnePull' /\ MadeChosen' /\ \A t \in stacks' : Decided(t)'
    BY <1>8, DecidedSame DEF OnePull, MadeChosen, Of
<1>10. DraftChosen'
    BY <1>7, <1>8, DecidedSame DEF DraftChosen, Of
<1> QED
    BY <1>9, <1>10

\* The draft of a stack selects what was made for the decision.
LEMMA ReadStackChosen ==
    ASSUME ReviewInv, ReviewInv', ChosenInv, NEW p \in Reviewers, ReadStack(p)
    PROVE  ChosenInv'
<1> USE DEF ChosenInv
<1>1. PICK d : decision[p] = {d}
    BY DEF ReadStack, ReviewInv, DecisionInv, Held
<1> DEFINE same == {t \in LatestStack(d.shape) : t.selects = Selection(p)}
           next == [shape |-> d.shape, revision |-> NextRevision(LatestStack(d.shape)),
                    selects |-> Selection(p)]
<1>2. draft' = [draft EXCEPT ![p] = IF same # {} THEN same ELSE {next}]
    BY <1>1 DEF ReadStack
<1>3. same \subseteq stacks
    BY DEF LatestStack, Newest
<1>4. next.shape = d.shape /\ next.selects = Selection(p)
    OBVIOUS
<1> HIDE DEF same, next
<1>5. d \in plans /\ d.shape \in Shapes
    BY <1>1 DEF ReadStack, ReviewInv, DecisionInv, PublicDecision, Public, DecisionTypes, Plan
<1>6. Selected(next) \subseteq made[p]
  <2> SUFFICES ASSUME NEW x \in pulls, <<x.pull, x.revision>> \in Selection(p)
               PROVE  x \in made[p]
    BY <1>4 DEF Selected
  <2>1. PICK y \in made[p] : <<x.pull, x.revision>> = <<y.pull, y.revision>>
    BY DEF Selection
  <2>2. y \in pulls
    BY DEF ReviewInv, MadeInv
  <2> QED
    BY <2>1, <2>2 DEF OnePull, SamePull
<1>7. Decided(next)
  <2>1. \A x, y \in Selected(next) : Of(x, p) /\ Of(y, p) /\ (x.pull = y.pull => x = y)
    BY <1>6 DEF MadeChosen
  <2>2. \A e \in plans : SamePlan(d, e) => d = e
    BY <1>5 DEF ReviewInv, DecisionInv, OneRevisionPerPlan
  <2> QED
    BY <1>1, <1>4, <1>5, <2>1, <2>2 DEF Of, Decided, SamePlan
<1>8. \A t \in draft'[p] : Decided(t)
    BY <1>2, <1>3, <1>7 DEF ReviewInv, DecisionInv, Held
<1>9. /\ UNCHANGED <<plans, pulls, stacks, decision, captured, made>>
      /\ \A q \in Reviewers : q # p => pc'[q] = pc[q] /\ draft'[q] = draft[q]
      /\ pc'[p] = "storeStack"
    BY <1>2 DEF ReadStack, Goto, published, ReviewInv, DecisionInv, Held
<1>10. OnePull' /\ MadeChosen' /\ \A t \in stacks' : Decided(t)'
    BY <1>9, DecidedSame DEF OnePull, MadeChosen, Of
<1>11. DraftChosen'
    BY <1>8, <1>9, DecidedSame DEF DraftChosen, Of
<1> QED
    BY <1>10, <1>11

\* The stack is published.
LEMMA StackChosen ==
    ASSUME ReviewInv, ReviewInv', ChosenInv, NEW p \in Reviewers, StoreStack(p)
    PROVE  ChosenInv'
<1> USE DEF ChosenInv
<1>1. /\ stacks' = stacks \cup draft[p] /\ \A t \in draft[p] : Decided(t)
      /\ UNCHANGED <<plans, pulls, decision, captured, draft, made>>
      /\ \A q \in Reviewers : q # p => pc'[q] = pc[q]
      /\ pc'[p] = "changeset"
    BY DEF StoreStack, Goto, DraftChosen, ReviewInv, DecisionInv, Held
<1>2. OnePull' /\ MadeChosen' /\ DraftChosen'
    BY <1>1, DecidedSame DEF OnePull, MadeChosen, DraftChosen, Of
<1>3. \A t \in stacks' : Decided(t)'
    BY <1>1, DecidedSame
<1> QED
    BY <1>2, <1>3

\* The other steps publish neither plan, pull request nor stack, and drop or leave alone
\* what was made; a process has made nothing before its decision is public.
LEMMA OtherChosen ==
    ASSUME ReviewInv, ReviewInv', ChosenInv, UNCHANGED <<plans, pulls, stacks>>,
           NEW p \in Reviewers,
           \A q \in Reviewers : q # p =>
               /\ pc'[q] = pc[q] /\ draft'[q] = draft[q] /\ made'[q] = made[q]
               /\ decision'[q] = decision[q] /\ captured'[q] = captured[q],
           pc'[p] \notin {"storePull", "storeStack"},
           \/ made'[p] = {}
           \/ /\ made'[p] = made[p] /\ decision'[p] = decision[p] /\ captured'[p] = captured[p]
    PROVE  ChosenInv'
<1> USE DEF ChosenInv
<1>1. OnePull' /\ \A t \in stacks' : Decided(t)'
    BY DecidedSame DEF OnePull
<1>2. MadeChosen'
    BY DEF MadeChosen, Of
<1>3. DraftChosen'
    BY DecidedSame DEF DraftChosen, Of
<1> QED
    BY <1>1, <1>2, <1>3

\* There are no documents at first.
LEMMA ChosenInit == ReviewInit => ChosenInv
    BY DEF ReviewInit, ChosenInv, OnePull, MadeChosen, DraftChosen

\* Every step preserves it, given that the references resolve before and after.
LEMMA ChosenStep == ReviewInv /\ ReviewInv' /\ ChosenInv /\ [ReviewNext]_reviewVars => ChosenInv'
<1> SUFFICES ASSUME ReviewInv, ReviewInv', ChosenInv, [ReviewNext]_reviewVars PROVE ChosenInv'
    OBVIOUS
<1>1. ASSUME NEW p \in Reviewers, NEW d, Decide(p, d)
      PROVE  ChosenInv'
  <2>1. made[p] = {}
    BY <1>1 DEF Decide, ReviewInv, MadeInv, Public
  <2> QED
    BY <1>1, <2>1, OtherChosen DEF Decide, Goto, published, ReviewInv, DecisionInv, Held
<1>2. ASSUME NEW p \in Reviewers, NEW oks, Return(p, oks), UNCHANGED <<plans, pulls, stacks>>
      PROVE  ChosenInv'
    BY <1>2, OtherChosen DEF Return, Goto, ReviewInv, DecisionInv, Held
<1>3. ASSUME NEW p \in Reviewers, ReadChanges(p)
      PROVE  ChosenInv'
  <2>1. made[p] = {}
    BY <1>3 DEF ReadChanges, ReviewInv, MadeInv, Public
  <2> QED
    BY <1>3, <2>1, OtherChosen DEF ReadChanges, Goto, published, ReviewInv, DecisionInv, Held
<1>4. ASSUME NEW p \in Reviewers, CheckNew(p) \/ PullsDone(p) \/ ReadChangeset(p)
      PROVE  ChosenInv'
    BY <1>4, OtherChosen
       DEF CheckNew, PullsDone, ReadChangeset, Goto, published, ReviewInv, DecisionInv, Held
<1>5. ASSUME NEW p \in Reviewers, CheckReplay(p) \/ StoreChangeset(p) \/ Abort(p)
      PROVE  ChosenInv'
    BY <1>2, <1>5 DEF CheckReplay, StoreChangeset, Abort, Fail, published
<1>6. CASE Edit \/ UNCHANGED reviewVars
    BY <1>6, DecidedSame DEF Edit, reviewVars, published, local, ChosenInv, OnePull, MadeChosen,
        DraftChosen, Of
<1>7. ASSUME NEW p \in Reviewers, NEW i \in Plans,
             DeriveReview(p, i) \/ SetStatus(p, i) \/ Correct(p, i)
      PROVE  ChosenInv'
    BY <1>1, <1>7 DEF DeriveReview, SetStatus, Correct
<1> QED
    BY <1>3, <1>4, <1>5, <1>6, <1>7, PullChosen, PlanChosen, ReadPullChosen, ReadStackChosen,
        StackChosen DEF ReviewNext

\* A function that is one to one has as many arguments as values.
LEMMA SelectsCounted ==
    ASSUME NEW t, Resolved(t), Decided(t)
    PROVE  Cardinality(t.selects) = Cardinality(t.shape)
<1> DEFINE chosen(u) == CHOOSE k \in t.selects : k[1] = u
           f == [u \in t.shape |-> chosen(u)]
<1>1. \A k \in t.selects : k[1] \in t.shape
    BY DEF Resolved
<1>2. \A u \in t.shape : \E k \in t.selects : k[1] = u
    BY DEF Resolved
<1>3. \A k, l \in t.selects : k[1] = l[1] => k = l
  <2> SUFFICES ASSUME NEW k \in t.selects, NEW l \in t.selects, k[1] = l[1]
               PROVE  k = l
    OBVIOUS
  <2>1. PICK x \in pulls : k = <<x.pull, x.revision>>
    BY DEF Resolved
  <2>2. PICK y \in pulls : l = <<y.pull, y.revision>>
    BY DEF Resolved
  <2>3. x \in Selected(t) /\ y \in Selected(t) /\ x.pull = y.pull
    BY <2>1, <2>2 DEF Selected
  <2> QED
    BY <2>1, <2>2, <2>3 DEF Decided
<1>4. \A u \in t.shape : f[u] \in t.selects /\ f[u][1] = u
    BY <1>2
<1> HIDE DEF f
<1>5. f \in Bijection(t.shape, t.selects)
  <2>1. f \in [t.shape -> t.selects]
    BY <1>4 DEF f
  <2>2. \A u, v \in t.shape : f[u] = f[v] => u = v
    BY <1>4
  <2>3. \A k \in t.selects : \E u \in t.shape : f[u] = k
    BY <1>1, <1>3, <1>4
  <2> QED
    BY <2>1, <2>2, <2>3, Fun_IsBij
<1>6. IsFiniteSet(t.shape)
    BY ShapeAssumption DEF Decided
<1> QED
    BY <1>5, <1>6, FS_Bijection DEF ExistsBijection

\* A stack revision is one decision (persist_review_plan selects exactly what it has
\* published): one revision of each of its pull requests, all of one plan revision of its
\* shape and of one reading of the worktree, whatever other reviewers publish meanwhile.
THEOREM StackIsOneDecision == ReviewSpec => []OneDecision
<1>1. ReviewInv /\ ChosenInv => OneDecision
  <2> SUFFICES ASSUME ReviewInv, ChosenInv PROVE OneDecision
    OBVIOUS
  <2>1. \A t \in stacks : Resolved(t) /\ Decided(t)
    BY DEF ReviewInv, StoreInv, ChosenInv
  <2>2. \A t \in stacks : Cardinality(t.selects) = Cardinality(t.shape)
    BY <2>1, SelectsCounted
  <2> QED
    BY <2>1, <2>2 DEF OneDecision, Decided
<1>2. ReviewInit => ReviewInv /\ ChosenInv
    BY InitInv, ChosenInit
<1>3. ReviewInv /\ ChosenInv /\ [ReviewNext]_reviewVars => (ReviewInv /\ ChosenInv)'
    BY StepInv, ChosenStep
<1> QED
    BY <1>1, <1>2, <1>3, PTL DEF ReviewSpec

-----------------------------------------------------------------------------
(* Types.                                                                   *)

Typed ==
    /\ pulls \subseteq Pull /\ stacks \subseteq Stack /\ changesets \subseteq ChangeSet
    /\ captured \in [Reviewers -> Contents] /\ exclusive \in BOOLEAN
    /\ \A p \in Reviewers :
          /\ made[p] \subseteq Pull
          /\ decision[p] = {} \/ \E d : decision[p] = {d}
          /\ pc[p] = "storePull" => draft[p] \subseteq Pull
          /\ pc[p] = "storeStack" => draft[p] \subseteq Stack
          /\ pc[p] = "storeChangeset" => draft[p] \subseteq ChangeSet

\* The revision after the newest is a number: the newest are of one revision.
LEMMA NextRevisionNat ==
    ASSUME NEW D, \A d \in D : d.revision \in Nat, \A d, e \in D : e.revision <= d.revision
    PROVE  NextRevision(D) \in Nat
<1>1. CASE D = {}
    BY <1>1 DEF NextRevision
<1>2. CASE D # {}
  <2> DEFINE S == {d.revision : d \in D}
  <2>1. PICK d \in D : TRUE
    BY <1>2
  <2>2. d.revision \in S /\ \A n \in S : n \in Nat /\ d.revision >= n
    OBVIOUS
  <2>3. Max(S) \in S
    BY <2>2 DEF Max
  <2>4. NextRevision(D) = 1 + Max(S)
    BY <1>2 DEF NextRevision
  <2> HIDE DEF S
  <2> QED
    BY <2>2, <2>3, <2>4
<1> QED
    BY <1>1, <1>2

\* The other processes are where they were, and nothing is published.
LEMMA TypedStays ==
    ASSUME Typed, UNCHANGED <<pulls, stacks, changesets, exclusive>>,
           captured' \in [Reviewers -> Contents], NEW p \in Reviewers,
           \A q \in Reviewers : q # p =>
               /\ pc'[q] = pc[q] /\ draft'[q] = draft[q]
               /\ made'[q] = made[q] /\ decision'[q] = decision[q],
           made'[p] \subseteq Pull, decision'[p] = {} \/ \E d : decision'[p] = {d},
           pc'[p] \notin {"storePull", "storeStack", "storeChangeset"}
    PROVE  Typed'
    BY DEF Typed

\* Every step keeps the types.
LEMMA TypedStep ==
    ASSUME ReviewInv, Typed, [ReviewNext]_reviewVars
    PROVE  Typed'
<1> USE DEF ReviewInv
<1>0. /\ DOMAIN pc = Reviewers /\ DOMAIN decision = Reviewers /\ DOMAIN captured = Reviewers
      /\ DOMAIN draft = Reviewers /\ DOMAIN made = Reviewers
    BY DEF DecisionInv, Held
<1>1. CASE UNCHANGED reviewVars \/ Edit
    BY <1>1 DEF Typed, Edit, reviewVars, published, local
<1>2. ASSUME NEW p \in Reviewers, NEW d, Decide(p, d) PROVE Typed'
  <2>1. decision'[p] = {d} /\ pc'[p] = "read" /\ made'[p] = made[p] /\ made[p] \subseteq Pull
    BY <1>0, <1>2 DEF Decide, Goto, Typed
  <2>2. captured' \in [Reviewers -> Contents]
    BY <1>2 DEF Decide, Typed
  <2> QED
    BY <1>0, <1>2, <2>1, <2>2, TypedStays DEF Decide, Goto, published
<1>3. ASSUME NEW p \in Reviewers, NEW oks, Return(p, oks), UNCHANGED <<pulls, stacks, exclusive>>,
             changesets' \subseteq ChangeSet
      PROVE  Typed'
  <2>1. captured' \in [Reviewers -> Contents]
    BY <1>3, ContentAssumption DEF Return, Typed
  <2> QED
    BY <1>0, <1>3, <2>1 DEF Return, Goto, Typed
<1>4. ASSUME NEW p \in Reviewers, ReadChanges(p) PROVE Typed'
  <2>1. worktree \in Contents
    BY DEF DecisionInv, DecisionTypes
  <2>2. captured' \in [Reviewers -> Contents]
    BY <1>4, <2>1 DEF ReadChanges, Typed
  <2> QED
    BY <1>0, <1>4, <2>2 DEF ReadChanges, Goto, Typed, published
<1>5. ASSUME NEW p \in Reviewers, CheckNew(p) \/ StorePlan(p) \/ PullsDone(p) PROVE Typed'
  <2>1. UNCHANGED <<pulls, stacks, changesets, decision, captured, draft, made, exclusive>>
    BY <1>5 DEF CheckNew, StorePlan, PullsDone, published
  <2>2. /\ pc'[p] \in {"plan", "pull", "stack"}
        /\ \A q \in Reviewers : q # p => pc'[q] = pc[q]
    BY <1>0, <1>5 DEF CheckNew, StorePlan, PullsDone, Goto
  <2> QED
    BY <2>1, <2>2 DEF Typed
<1>6. ASSUME NEW p \in Reviewers, ReadPull(p) PROVE Typed'
  <2>1. PICK d : decision[p] = {d}
    BY <1>6 DEF ReadPull, DecisionInv, Held
  <2> DEFINE u == Min(Remaining(p))
             r == NextRevision(LatestPull(u))
             x == [pull |-> u, revision |-> r, plan |-> d.plan, planRevision |-> d.revision,
                   content |-> captured[p]]
  <2>2. draft' = [draft EXCEPT ![p] = {x}] /\ r <= MaxRevision
    BY <1>6, <2>1 DEF ReadPull
  <2>3. d \in Plan
    BY <2>1 DEF DecisionInv, DecisionTypes
  <2>4. u \in Units
    <3>1. Remaining(p) \subseteq Units
      BY <2>1, <2>3, ShapeAssumption DEF Remaining, Plan
    <3> QED
      BY <1>6, <3>1, MinRemains, UnitAssumption DEF ReadPull
  <2>5. r \in 0..MaxRevision
    <3>1. \A y \in LatestPull(u) : y.revision \in Nat
      BY BoundAssumption DEF LatestPull, Newest, Typed, Pull
    <3>2. \A y, z \in LatestPull(u) : z.revision <= y.revision
      BY DEF LatestPull, Newest
    <3>3. r \in Nat
      BY <3>1, <3>2, NextRevisionNat
    <3> HIDE DEF r
    <3> QED
      BY <2>2, <3>3, BoundAssumption
  <2>6. captured[p] \in Contents
    BY DEF Typed
  <2> HIDE DEF u, r
  <2>7. x \in Pull
    BY <2>3, <2>4, <2>5, <2>6 DEF Pull, Plan
  <2> HIDE DEF x
  <2>8. /\ draft'[p] = {x} /\ pc'[p] = "storePull"
        /\ \A q \in Reviewers : q # p => pc'[q] = pc[q] /\ draft'[q] = draft[q]
        /\ UNCHANGED <<pulls, stacks, changesets, decision, captured, made, exclusive>>
    BY <1>0, <1>6, <2>2 DEF ReadPull, Goto, published
  <2> QED
    BY <2>7, <2>8 DEF Typed
<1>7. ASSUME NEW p \in Reviewers, StorePull(p) PROVE Typed'
  <2>1. draft[p] \subseteq Pull
    BY <1>7 DEF StorePull, Typed
  <2>2. /\ pulls' = pulls \cup draft[p] /\ made'[p] = made[p] \cup draft[p] /\ pc'[p] = "pull"
        /\ \A q \in Reviewers : q # p =>
               pc'[q] = pc[q] /\ draft'[q] = draft[q] /\ made'[q] = made[q]
        /\ UNCHANGED <<stacks, changesets, decision, captured, exclusive>>
    BY <1>0, <1>7 DEF StorePull, Goto
  <2> QED
    BY <2>1, <2>2 DEF Typed
<1>8. ASSUME NEW p \in Reviewers, ReadStack(p) PROVE Typed'
  <2>1. PICK d : decision[p] = {d}
    BY <1>8 DEF ReadStack, DecisionInv, Held
  <2> DEFINE r == NextRevision(LatestStack(d.shape))
             same == {t \in LatestStack(d.shape) : t.selects = Selection(p)}
             next == [shape |-> d.shape, revision |-> r, selects |-> Selection(p)]
  <2>2. draft' = [draft EXCEPT ![p] = IF same # {} THEN same ELSE {next}]
    BY <1>8, <2>1 DEF ReadStack
  <2>3. same \subseteq Stack
    BY DEF LatestStack, Newest, Typed
  <2>4. r \in Nat
    <3>1. \A t \in LatestStack(d.shape) : t.revision \in Nat
      BY DEF LatestStack, Newest, Typed, Stack
    <3>2. \A t, v \in LatestStack(d.shape) : v.revision <= t.revision
      BY DEF LatestStack, Newest
    <3> QED
      BY <3>1, <3>2, NextRevisionNat
  <2>5. Selection(p) \subseteq Units \X (0..MaxRevision)
    BY DEF Selection, Typed, Pull
  <2>6. d.shape \in Shapes
    BY <2>1 DEF DecisionInv, DecisionTypes, Plan
  <2> HIDE DEF r
  <2>7. next \in Stack
    BY <2>4, <2>5, <2>6 DEF Stack
  <2> HIDE DEF same, next
  <2>8. /\ draft'[p] \subseteq Stack /\ pc'[p] = "storeStack"
        /\ \A q \in Reviewers : q # p => pc'[q] = pc[q] /\ draft'[q] = draft[q]
        /\ UNCHANGED <<pulls, stacks, changesets, decision, captured, made, exclusive>>
    BY <1>0, <1>8, <2>2, <2>3, <2>7 DEF ReadStack, Goto, published
  <2> QED
    BY <2>8 DEF Typed
<1>9. ASSUME NEW p \in Reviewers, StoreStack(p) PROVE Typed'
  <2>1. draft[p] \subseteq Stack
    BY <1>9 DEF StoreStack, Typed
  <2>2. /\ stacks' = stacks \cup draft[p] /\ pc'[p] = "changeset"
        /\ \A q \in Reviewers : q # p => pc'[q] = pc[q]
        /\ UNCHANGED <<pulls, changesets, decision, captured, draft, made, exclusive>>
    BY <1>0, <1>9 DEF StoreStack, Goto
  <2> QED
    BY <2>1, <2>2 DEF Typed
<1>10. ASSUME NEW p \in Reviewers, ReadChangeset(p) PROVE Typed'
  <2>1. PICK t \in draft[p] :
          LET same == {c \in LatestChangeset(t.shape) :
                          c.stackRevision = t.revision /\ c.dependsOn = {} /\ c.status = "active"}
          IN  draft' = [draft EXCEPT ![p] =
                 IF same # {} THEN same
                 ELSE {[shape |-> t.shape, revision |-> NextRevision(LatestChangeset(t.shape)),
                        stackRevision |-> t.revision, dependsOn |-> {}, status |-> "active"]}]
    BY <1>10 DEF ReadChangeset
  <2> DEFINE same == {c \in LatestChangeset(t.shape) :
                         c.stackRevision = t.revision /\ c.dependsOn = {} /\ c.status = "active"}
             r == NextRevision(LatestChangeset(t.shape))
             next == [shape |-> t.shape, revision |-> r, stackRevision |-> t.revision,
                      dependsOn |-> {}, status |-> "active"]
  <2>2. draft' = [draft EXCEPT ![p] = IF same # {} THEN same ELSE {next}]
    BY <2>1
  <2>3. same \subseteq ChangeSet
    BY DEF LatestChangeset, Newest, Typed
  <2>4. r \in Nat
    <3>1. \A c \in LatestChangeset(t.shape) : c.revision \in Nat
      BY DEF LatestChangeset, Newest, Typed, ChangeSet
    <3>2. \A c, d \in LatestChangeset(t.shape) : d.revision <= c.revision
      BY DEF LatestChangeset, Newest
    <3> QED
      BY <3>1, <3>2, NextRevisionNat
  <2>5. t.shape \in Shapes /\ t.revision \in Nat
    <3>1. t \in Stack
      BY <1>10 DEF ReadChangeset, DraftInv, Typed
    <3> QED
      BY <3>1 DEF Stack
  <2> HIDE DEF r
  <2>6. next \in ChangeSet
    BY <2>4, <2>5 DEF ChangeSet
  <2> HIDE DEF same, next
  <2>7. /\ draft'[p] \subseteq ChangeSet /\ pc'[p] = "storeChangeset"
        /\ \A q \in Reviewers : q # p => pc'[q] = pc[q] /\ draft'[q] = draft[q]
        /\ UNCHANGED <<pulls, stacks, changesets, decision, captured, made, exclusive>>
    BY <1>0, <1>10, <2>2, <2>3, <2>6 DEF ReadChangeset, Goto, published
  <2> QED
    BY <2>7 DEF Typed
<1>11. ASSUME NEW p \in Reviewers, StoreChangeset(p) PROVE Typed'
  <2>1. changesets' \subseteq ChangeSet /\ UNCHANGED <<pulls, stacks, exclusive>>
    BY <1>11 DEF StoreChangeset, Typed
  <2> QED
    BY <1>3, <1>11, <2>1 DEF StoreChangeset
<1>12. ASSUME NEW p \in Reviewers, CheckReplay(p) \/ Abort(p) PROVE Typed'
  <2>1. UNCHANGED <<pulls, stacks, changesets, exclusive>> /\ \E oks : Return(p, oks)
    BY <1>12 DEF CheckReplay, Abort, Fail, published
  <2>2. changesets' \subseteq ChangeSet
    BY <2>1 DEF Typed
  <2> QED
    BY <1>3, <2>1, <2>2
<1>13. ASSUME NEW p \in Reviewers, NEW i \in Plans,
              DeriveReview(p, i) \/ SetStatus(p, i) \/ Correct(p, i)
       PROVE  Typed'
    BY <1>2, <1>13 DEF DeriveReview, SetStatus, Correct
<1> QED
    BY <1>1, <1>4, <1>5, <1>6, <1>7, <1>8, <1>9, <1>10, <1>11, <1>12, <1>13 DEF ReviewNext

\* Every document, and what every process holds, has the values persist_review_plan may give it.
THEOREM ReviewTypeCorrect == ReviewSpec => []ReviewTypeOK
<1>1. ReviewInit => Typed
    BY ContentAssumption DEF ReviewInit, Typed
<1>2. ReviewInv /\ Typed /\ [ReviewNext]_reviewVars => Typed'
    BY TypedStep
<1>3. ASSUME ReviewInv, Typed PROVE ReviewTypeOK
  <2>1. \A p \in Reviewers : Cardinality(decision[p]) <= 1
    <3> TAKE p \in Reviewers
    <3>1. CASE decision[p] = {}
      BY <3>1, FS_EmptySet
    <3>2. CASE \E d : decision[p] = {d}
      <4>1. PICK d : decision[p] = {d}
        BY <3>2
      <4>2. Cardinality({d}) = 1
        BY FS_Singleton
      <4> QED
        BY <4>1, <4>2
    <3> QED
      BY <1>3, <3>1, <3>2 DEF Typed
  <2> QED
    BY <1>3, <2>1 DEF ReviewTypeOK, ReviewInv, DecisionInv, DecisionTypes, Held, Typed
<1> QED
    BY <1>1, <1>2, <1>3, AlwaysInv, PTL DEF ReviewSpec
-----------------------------------------------------------------------------
(* One process at a time: what is told Ok has been delivered.               *)

\* Everything the stack document t selects is of process p's decision.
ForDecision(t, p) ==
    \A d \in decision[p] :
        /\ t.shape = d.shape
        /\ \A x \in Selected(t) : x.plan = d.plan /\ x.planRevision = d.revision

\* From the stack on, a process holds the documents of its decision.
Submits(p) ==
    /\ pc[p] \in {"storeStack", "changeset", "storeChangeset"} => draft[p] # {}
    /\ pc[p] \in {"storeStack", "changeset"} => \A t \in draft[p] : ForDecision(t, p)
    /\ pc[p] = "storeChangeset" =>
          \A c \in draft[p] : \E t \in stacks :
              c.shape = t.shape /\ c.stackRevision = t.revision /\ ForDecision(t, p)

\* A reviewer's decision, still to be compared, is newer than every published one.
Ahead(p) ==
    pc[p] \in {"read", "check"} =>
        \A d \in decision[p], e \in plans :
            d.revision > 0 /\ e.plan = d.plan => e.revision < d.revision

Alone ==
    exclusive =>
        /\ \A p, q \in Reviewers : pc[p] # "idle" /\ pc[q] # "idle" => p = q
        /\ \A p \in Reviewers : Ahead(p)

SubmitInv == (\A p \in Reviewers : Submits(p)) /\ Alone /\ SerialDecisionDelivered

\* Documents are only added, and a revision of a pull request stays one document.
Grows ==
    /\ pulls \subseteq pulls' /\ stacks \subseteq stacks' /\ changesets \subseteq changesets'
    /\ \A x \in pulls', y \in pulls : SamePull(x, y) => x = y

\* Every step only adds documents.
LEMMA StepGrows ==
    ASSUME ReviewInv, ChosenInv, ChosenInv', [ReviewNext]_reviewVars
    PROVE  Grows
<1>1. pulls \subseteq pulls' /\ stacks \subseteq stacks' /\ changesets \subseteq changesets'
  <2>1. ASSUME NEW p \in Reviewers, NEW i \in Plans,
               DeriveReview(p, i) \/ SetStatus(p, i) \/ Correct(p, i)
        PROVE  UNCHANGED <<pulls, stacks, changesets>>
    BY <2>1 DEF DeriveReview, SetStatus, Correct, Decide, published
  <2>2. ASSUME NEW p \in Reviewers,
               \/ ReadChanges(p) \/ CheckReplay(p) \/ CheckNew(p) \/ StorePlan(p) \/ ReadPull(p)
               \/ PullsDone(p) \/ ReadStack(p) \/ ReadChangeset(p) \/ Abort(p)
        PROVE  UNCHANGED <<pulls, stacks, changesets>>
    BY <2>2 DEF ReadChanges, CheckReplay, CheckNew, StorePlan, ReadPull, PullsDone, ReadStack,
        ReadChangeset, Abort, Fail, published
  <2>3. ASSUME NEW p \in Reviewers, StorePull(p) \/ StoreStack(p) \/ StoreChangeset(p)
        PROVE  /\ pulls \subseteq pulls' /\ stacks \subseteq stacks'
               /\ changesets \subseteq changesets'
    BY <2>3 DEF StorePull, StoreStack, StoreChangeset
  <2>4. CASE Edit \/ UNCHANGED reviewVars
    BY <2>4 DEF Edit, reviewVars, published
  <2> QED
    BY <2>1, <2>2, <2>3, <2>4 DEF ReviewNext
<1>2. \A x, y \in pulls' : SamePull(x, y) => x = y
    BY DEF ChosenInv, OnePull, SamePull
<1> QED
    BY <1>1, <1>2 DEF Grows

\* What was delivered stays delivered: a published stack selects what it selected.
LEMMA DeliveredStays ==
    ASSUME ReviewInv, Grows, NEW d, Delivered(d)
    PROVE  Delivered(d)'
<1>1. PICK t \in stacks, c \in changesets :
          /\ c.shape = t.shape /\ c.stackRevision = t.revision
          /\ t.shape = d.shape
          /\ \A x \in Selected(t) : x.plan = d.plan /\ x.planRevision = d.revision
    BY DEF Delivered
<1>2. Selected(t)' = Selected(t)
    BY SelectedStays DEF Grows, ReviewInv, StoreInv
<1>3. t \in stacks' /\ c \in changesets'
    BY DEF Grows
<1> QED
    BY <1>1, <1>2, <1>3 DEF Delivered

\* A process that is where it was still holds the documents of its decision.
LEMMA SubmitsStays ==
    ASSUME ReviewInv, Grows, NEW q \in Reviewers, UNCHANGED <<pc[q], draft[q], decision[q]>>,
           Submits(q)
    PROVE  Submits(q)'
<1>1. ASSUME NEW t, Resolved(t), ForDecision(t, q) PROVE ForDecision(t, q)'
  <2>1. Selected(t)' = Selected(t)
    BY <1>1, SelectedStays DEF Grows
  <2> QED
    BY <1>1, <2>1 DEF ForDecision
<1>2. \A t \in stacks : Resolved(t)
    BY DEF ReviewInv, StoreInv
<1>3. pc[q] \in {"storeStack", "changeset"} => \A t \in draft[q] : ForDecision(t, q)'
  <2>1. pc[q] = "storeStack" => \A t \in draft[q] : Resolved(t)
    BY DEF ReviewInv, DraftInv
  <2>2. pc[q] = "changeset" => draft[q] \subseteq stacks
    BY DEF ReviewInv, DraftInv
  <2> QED
    BY <1>1, <1>2, <2>1, <2>2 DEF Submits
<1>4. pc[q] = "storeChangeset" =>
          \A c \in draft[q] : \E t \in stacks' :
              c.shape = t.shape /\ c.stackRevision = t.revision /\ ForDecision(t, q)'
  <2>1. stacks \subseteq stacks'
    BY DEF Grows
  <2> QED
    BY <1>1, <1>2, <2>1 DEF Submits
<1> QED
    BY <1>3, <1>4 DEF Submits

\* The stack a process is about to store is of its decision: it selects what was made for it.
LEMMA ReadStackSubmits ==
    ASSUME ReviewInv, ChosenInv, Grows, NEW p \in Reviewers, ReadStack(p)
    PROVE  Submits(p)'
<1>1. PICK d : decision[p] = {d}
    BY DEF ReadStack, ReviewInv, DecisionInv, Held
<1> DEFINE same == {t \in LatestStack(d.shape) : t.selects = Selection(p)}
           next == [shape |-> d.shape, revision |-> NextRevision(LatestStack(d.shape)),
                    selects |-> Selection(p)]
<1>2. draft' = [draft EXCEPT ![p] = IF same # {} THEN same ELSE {next}]
    BY <1>1 DEF ReadStack
<1>3. \A t \in same \cup {next} : t.shape = d.shape /\ t.selects = Selection(p)
    BY DEF LatestStack, Newest
<1> HIDE DEF same, next
<1>4. /\ draft'[p] # {} /\ draft'[p] \subseteq same \cup {next}
      /\ pc'[p] = "storeStack" /\ UNCHANGED <<pulls, decision>>
    BY <1>2 DEF ReadStack, Goto, published, ReviewInv, DecisionInv, Held
<1>5. ASSUME NEW t \in draft'[p] PROVE ForDecision(t, p)'
  <2>1. t.shape = d.shape /\ t.selects = Selection(p)
    BY <1>3, <1>4
  <2>2. ASSUME NEW x \in pulls, <<x.pull, x.revision>> \in Selection(p) PROVE x \in made[p]
    <3>1. PICK y \in made[p] : <<x.pull, x.revision>> = <<y.pull, y.revision>>
      BY <2>2 DEF Selection
    <3>2. y \in pulls
      BY DEF ReviewInv, MadeInv
    <3> QED
      BY <3>1, <3>2 DEF ChosenInv, OnePull, SamePull
  <2>3. \A x \in Selected(t) : x \in made[p]
    BY <2>1, <2>2 DEF Selected
  <2>4. \A x \in Selected(t) : x.plan = d.plan /\ x.planRevision = d.revision
    BY <1>1, <2>3 DEF ChosenInv, MadeChosen, Of
  <2>5. Selected(t)' = Selected(t)
    BY <1>4 DEF Selected
  <2> QED
    BY <1>1, <1>4, <2>1, <2>4, <2>5 DEF ForDecision
<1> QED
    BY <1>4, <1>5 DEF Submits

\* The changeset a process is about to store selects the stack it has stored.
LEMMA ReadChangesetSubmits ==
    ASSUME ReviewInv, NEW p \in Reviewers, Submits(p), ReadChangeset(p)
    PROVE  Submits(p)'
<1>1. PICK t \in draft[p] :
          LET same == {c \in LatestChangeset(t.shape) :
                          c.stackRevision = t.revision /\ c.dependsOn = {} /\ c.status = "active"}
          IN  draft' = [draft EXCEPT ![p] =
                 IF same # {} THEN same
                 ELSE {[shape |-> t.shape, revision |-> NextRevision(LatestChangeset(t.shape)),
                        stackRevision |-> t.revision, dependsOn |-> {}, status |-> "active"]}]
    BY DEF ReadChangeset
<1> DEFINE same == {c \in LatestChangeset(t.shape) :
                       c.stackRevision = t.revision /\ c.dependsOn = {} /\ c.status = "active"}
           next == [shape |-> t.shape, revision |-> NextRevision(LatestChangeset(t.shape)),
                    stackRevision |-> t.revision, dependsOn |-> {}, status |-> "active"]
<1>2. draft' = [draft EXCEPT ![p] = IF same # {} THEN same ELSE {next}]
    BY <1>1
<1>3. \A c \in same \cup {next} : c.shape = t.shape /\ c.stackRevision = t.revision
    BY DEF LatestChangeset, Newest
<1> HIDE DEF same, next
<1>4. /\ draft'[p] # {} /\ draft'[p] \subseteq same \cup {next}
      /\ pc'[p] = "storeChangeset" /\ UNCHANGED <<pulls, stacks, decision>>
    BY <1>2 DEF ReadChangeset, Goto, published, ReviewInv, DecisionInv, Held
<1>5. t \in stacks /\ ForDecision(t, p)
    BY DEF ReadChangeset, ReviewInv, DraftInv, Submits
<1>6. ForDecision(t, p)'
  <2>1. Selected(t)' = Selected(t)
    BY <1>4 DEF Selected
  <2> QED
    BY <1>4, <1>5, <2>1 DEF ForDecision
<1> QED
    BY <1>3, <1>4, <1>5, <1>6 DEF Submits

\* Every step leaves every process with the documents of its decision.
LEMMA SubmitsStep ==
    ASSUME ReviewInv, ChosenInv, ChosenInv', \A q \in Reviewers : Submits(q),
           [ReviewNext]_reviewVars
    PROVE  \A q \in Reviewers : Submits(q)'
<1>0. Grows
    BY StepGrows
<1>1. ASSUME UNCHANGED local PROVE \A q \in Reviewers : Submits(q)'
    BY <1>0, <1>1, SubmitsStays DEF local
<1>2. ASSUME NEW p \in Reviewers, Submits(p)',
             \A q \in Reviewers : q # p => UNCHANGED <<pc[q], draft[q], decision[q]>>
      PROVE  \A q \in Reviewers : Submits(q)'
    BY <1>0, <1>2, SubmitsStays
<1>3. ASSUME NEW p \in Reviewers, pc'[p] \notin {"storeStack", "changeset", "storeChangeset"}
      PROVE  Submits(p)'
    BY <1>3 DEF Submits
<1> USE DEF ReviewInv, DecisionInv, Held
<1>4. ASSUME NEW p \in Reviewers, NEW d, Decide(p, d) PROVE \A q \in Reviewers : Submits(q)'
  <2>1. /\ pc'[p] = "read"
        /\ \A q \in Reviewers : q # p => UNCHANGED <<pc[q], draft[q], decision[q]>>
    BY <1>4 DEF Decide, Goto
  <2> QED
    BY <1>2, <1>3, <2>1
<1>5. ASSUME NEW p \in Reviewers, NEW oks, Return(p, oks) PROVE \A q \in Reviewers : Submits(q)'
  <2>1. /\ pc'[p] = "idle"
        /\ \A q \in Reviewers : q # p => UNCHANGED <<pc[q], draft[q], decision[q]>>
    BY <1>5 DEF Return, Goto
  <2> QED
    BY <1>2, <1>3, <2>1
<1>6. ASSUME NEW p \in Reviewers, ReadChanges(p) \/ CheckNew(p) \/ StorePlan(p) \/ PullsDone(p)
      PROVE  \A q \in Reviewers : Submits(q)'
  <2>1. /\ pc'[p] \in {"check", "plan", "pull", "stack"}
        /\ \A q \in Reviewers : q # p => UNCHANGED <<pc[q], draft[q], decision[q]>>
    BY <1>6 DEF ReadChanges, CheckNew, StorePlan, PullsDone, Goto
  <2> QED
    BY <1>2, <1>3, <2>1
<1>7. ASSUME NEW p \in Reviewers, ReadPull(p) \/ StorePull(p)
      PROVE  \A q \in Reviewers : Submits(q)'
  <2>1. pc'[p] \in {"pull", "storePull"} /\ \A q \in Reviewers : q # p => pc'[q] = pc[q]
    BY <1>7 DEF ReadPull, StorePull, Goto
  <2>2. decision' = decision /\ \A q \in Reviewers : q # p => draft'[q] = draft[q]
    BY <1>7 DEF ReadPull, StorePull
  <2> QED
    BY <1>2, <1>3, <2>1, <2>2
<1>8. ASSUME NEW p \in Reviewers, ReadStack(p) PROVE \A q \in Reviewers : Submits(q)'
  <2>1. Submits(p)'
    BY <1>0, <1>8, ReadStackSubmits
  <2>2. \A q \in Reviewers : q # p => UNCHANGED <<pc[q], draft[q], decision[q]>>
    BY <1>8 DEF ReadStack, Goto
  <2> QED
    BY <1>2, <2>1, <2>2
<1>9. ASSUME NEW p \in Reviewers, StoreStack(p) PROVE \A q \in Reviewers : Submits(q)'
  <2>1. /\ pc[p] = "storeStack" /\ pc'[p] = "changeset" /\ UNCHANGED <<pulls, draft, decision>>
        /\ \A q \in Reviewers : q # p => pc'[q] = pc[q]
    BY <1>9 DEF StoreStack, Goto
  <2>2. \A t : Selected(t)' = Selected(t)
    BY <2>1 DEF Selected
  <2>3. draft[p] # {} /\ \A t \in draft[p] : ForDecision(t, p)
    BY <2>1 DEF Submits
  <2>4. Submits(p)'
    BY <2>1, <2>2, <2>3 DEF Submits, ForDecision
  <2> QED
    BY <1>2, <2>1, <2>4
<1>10. ASSUME NEW p \in Reviewers, ReadChangeset(p) PROVE \A q \in Reviewers : Submits(q)'
  <2>1. Submits(p)'
    BY <1>10, ReadChangesetSubmits
  <2>2. \A q \in Reviewers : q # p => UNCHANGED <<pc[q], draft[q], decision[q]>>
    BY <1>10 DEF ReadChangeset, Goto
  <2> QED
    BY <1>2, <2>1, <2>2
<1>11. ASSUME NEW p \in Reviewers, CheckReplay(p) \/ StoreChangeset(p) \/ Abort(p)
       PROVE  \A q \in Reviewers : Submits(q)'
    BY <1>5, <1>11 DEF CheckReplay, StoreChangeset, Abort, Fail
<1>12. ASSUME NEW p \in Reviewers, NEW i \in Plans,
              DeriveReview(p, i) \/ SetStatus(p, i) \/ Correct(p, i)
       PROVE  \A q \in Reviewers : Submits(q)'
    BY <1>4, <1>12 DEF DeriveReview, SetStatus, Correct
<1>13. CASE Edit \/ UNCHANGED reviewVars
    BY <1>1, <1>13 DEF Edit, reviewVars
<1> HIDE DEF ReviewInv
<1> QED
    BY <1>6, <1>7, <1>8, <1>9, <1>10, <1>11, <1>12, <1>13 DEF ReviewNext

\* One process at a time: the decision of a reviewer is newer than what is published.
LEMMA AloneStep ==
    ASSUME ReviewInv, Alone, [ReviewNext]_reviewVars
    PROVE  Alone'
<1> SUFFICES ASSUME exclusive' PROVE Alone'
    BY DEF Alone
<1>0. exclusive
  <2>1. ASSUME NEW p \in Reviewers, NEW i \in Plans,
               DeriveReview(p, i) \/ SetStatus(p, i) \/ Correct(p, i)
        PROVE  UNCHANGED exclusive
    BY <2>1 DEF DeriveReview, SetStatus, Correct, Decide
  <2>2. ASSUME NEW p \in Reviewers,
               \/ ReadChanges(p) \/ CheckReplay(p) \/ CheckNew(p) \/ StorePlan(p) \/ ReadPull(p)
               \/ StorePull(p) \/ PullsDone(p) \/ ReadStack(p) \/ StoreStack(p)
               \/ ReadChangeset(p) \/ StoreChangeset(p) \/ Abort(p)
        PROVE  UNCHANGED exclusive
    BY <2>2 DEF ReadChanges, CheckReplay, CheckNew, StorePlan, ReadPull, StorePull, PullsDone,
        ReadStack, StoreStack, ReadChangeset, StoreChangeset, Abort, Fail
  <2> QED
    BY <2>1, <2>2 DEF ReviewNext, Edit, reviewVars
<1>1. /\ \A p, q \in Reviewers : pc[p] # "idle" /\ pc[q] # "idle" => p = q
      /\ \A p \in Reviewers : Ahead(p)
    BY <1>0 DEF Alone
<1>2. ASSUME NEW p \in Reviewers, pc[p] # "idle", pc'[p] \notin {"read", "check"},
             \A q \in Reviewers : q # p => pc'[q] = pc[q]
      PROVE  Alone'
    BY <1>1, <1>2 DEF Alone, Ahead
<1>3. ASSUME NEW p \in Reviewers, NEW d, Decide(p, d),
             \A e \in plans : d.revision > 0 /\ e.plan = d.plan => e.revision < d.revision
      PROVE  Alone'
  <2>1. /\ \A q \in Reviewers : pc[q] = "idle"
        /\ \A q \in Reviewers : q # p => pc'[q] = pc[q]
        /\ decision'[p] = {d} /\ UNCHANGED plans
    BY <1>0, <1>3 DEF Decide, Goto, published, ReviewInv, DecisionInv, Held
  <2> QED
    BY <1>3, <2>1 DEF Alone, Ahead
<1>4. ASSUME NEW p \in Reviewers, NEW i \in Plans, DeriveReview(p, i) PROVE Alone'
  <2> DEFINE d == [plan |-> i, revision |-> 0, shape |-> Derived, content |-> worktree,
                   status |-> "proposed"]
  <2>1. Decide(p, d) /\ d.revision = 0
    BY <1>4 DEF DeriveReview
  <2> HIDE DEF d
  <2> QED
    BY <1>3, <2>1
<1>5. ASSUME NEW d \in plans, NEW i, d \in LatestPlan(i)
      PROVE  \A e \in plans : e.plan = d.plan => e.revision < d.revision + 1
  <2>1. \A e \in plans : e.revision \in Nat
    BY BoundAssumption DEF ReviewInv, DecisionInv, DecisionTypes, Plan
  <2>2. \A e \in plans : e.plan = d.plan => e.revision <= d.revision
    BY <1>5 DEF LatestPlan, Newest
  <2> QED
    BY <2>1, <2>2
<1>6. ASSUME NEW p \in Reviewers, NEW i \in Plans, SetStatus(p, i) PROVE Alone'
  <2>1. PICK d \in LatestPlan(i), s \in {"approved", "changesRequested"} :
            Decide(p, [d EXCEPT !.revision = @ + 1, !.status = s])
    BY <1>6 DEF SetStatus
  <2>2. d \in plans
    BY DEF LatestPlan, Newest
  <2> DEFINE n == [d EXCEPT !.revision = @ + 1, !.status = s]
  <2>3. n.revision = d.revision + 1 /\ n.plan = d.plan
    BY <2>2 DEF ReviewInv, DecisionInv, DecisionTypes, Plan
  <2>4. Decide(p, n)
    BY <2>1
  <2> HIDE DEF n
  <2> QED
    BY <1>3, <1>5, <2>2, <2>3, <2>4
<1>7. ASSUME NEW p \in Reviewers, NEW i \in Plans, Correct(p, i) PROVE Alone'
  <2>1. PICK d \in LatestPlan(i), s \in Shapes :
            Decide(p, [d EXCEPT !.revision = @ + 1, !.status = "proposed", !.shape = s])
    BY <1>7 DEF Correct
  <2>2. d \in plans
    BY DEF LatestPlan, Newest
  <2> DEFINE n == [d EXCEPT !.revision = @ + 1, !.status = "proposed", !.shape = s]
  <2>3. n.revision = d.revision + 1 /\ n.plan = d.plan
    BY <2>2 DEF ReviewInv, DecisionInv, DecisionTypes, Plan
  <2>4. Decide(p, n)
    BY <2>1
  <2> HIDE DEF n
  <2> QED
    BY <1>3, <1>5, <2>2, <2>3, <2>4
<1> USE DEF ReviewInv, DecisionInv, Held
<1>8. ASSUME NEW p \in Reviewers, ReadChanges(p) PROVE Alone'
  <2>1. /\ pc[p] = "read" /\ pc'[p] = "check" /\ UNCHANGED <<plans, decision>>
        /\ \A q \in Reviewers : q # p => pc'[q] = pc[q]
    BY <1>8 DEF ReadChanges, Goto, published
  <2> QED
    BY <1>1, <2>1 DEF Alone, Ahead
<1>9. ASSUME NEW p \in Reviewers, NEW oks, pc[p] # "idle", Return(p, oks) PROVE Alone'
  <2>1. pc'[p] = "idle" /\ \A q \in Reviewers : q # p => pc'[q] = pc[q]
    BY <1>9 DEF Return, Goto
  <2> QED
    BY <1>2, <1>9, <2>1
<1>10. ASSUME NEW p \in Reviewers,
              \/ CheckNew(p) \/ StorePlan(p) \/ ReadPull(p) \/ StorePull(p) \/ PullsDone(p)
              \/ ReadStack(p) \/ StoreStack(p) \/ ReadChangeset(p)
       PROVE  Alone'
  <2>1. /\ pc[p] # "idle"
        /\ pc'[p] \in {"plan", "pull", "storePull", "stack", "storeStack", "changeset",
                       "storeChangeset"}
        /\ \A q \in Reviewers : q # p => pc'[q] = pc[q]
    BY <1>10 DEF CheckNew, StorePlan, ReadPull, StorePull, PullsDone, ReadStack, StoreStack,
        ReadChangeset, Goto
  <2> QED
    BY <1>2, <2>1
<1>11. ASSUME NEW p \in Reviewers, CheckReplay(p) \/ StoreChangeset(p) \/ Abort(p)
       PROVE  Alone'
    BY <1>9, <1>11 DEF CheckReplay, StoreChangeset, Abort, Fail
<1>12. CASE Edit \/ UNCHANGED reviewVars
    BY <1>1, <1>12 DEF Edit, reviewVars, local, published, Alone, Ahead
<1> HIDE DEF ReviewInv
<1> QED
    BY <1>4, <1>6, <1>7, <1>8, <1>10, <1>11, <1>12 DEF ReviewNext

\* What is told Ok has its changeset, or is a derived plan that was published before.
LEMMA AcceptedStep ==
    ASSUME ReviewInv, ChosenInv, ChosenInv', \A q \in Reviewers : Submits(q), Alone,
           SerialDecisionDelivered, [ReviewNext]_reviewVars
    PROVE  SerialDecisionDelivered'
<1>0. Grows
    BY StepGrows
<1> SUFFICES ASSUME exclusive', NEW d \in accepted', d.revision > 0
             PROVE  Delivered(d)'
    BY DEF SerialDecisionDelivered
<1>1. ASSUME d \in accepted, exclusive PROVE Delivered(d)'
    BY <1>0, <1>1, DeliveredStays DEF SerialDecisionDelivered
<1>2. ASSUME UNCHANGED <<accepted, exclusive>> PROVE Delivered(d)'
    BY <1>1, <1>2
<1>3. ASSUME NEW p \in Reviewers, CheckReplay(p) PROVE Delivered(d)'
  <2>1. PICK f \in decision[p] : \E e \in LatestPlan(f.plan) :
            e.revision = f.revision /\ Return(p, {f} \cap {e})
    BY <1>3 DEF CheckReplay
  <2>2. PICK e \in LatestPlan(f.plan) : e.revision = f.revision /\ Return(p, {f} \cap {e})
    BY <2>1
  <2>3. exclusive /\ pc[p] = "check"
    BY <1>3 DEF CheckReplay
  <2>4. e \in plans /\ e.plan = f.plan
    BY DEF LatestPlan, Newest
  <2>5. f.revision \in Nat
    BY BoundAssumption DEF ReviewInv, DecisionInv, DecisionTypes, Plan
  <2>6. ~(f.revision > 0)
    BY <2>2, <2>3, <2>4, <2>5 DEF Alone, Ahead
  <2>7. d \in accepted
    BY <2>2, <2>6 DEF Return
  <2> QED
    BY <1>1, <2>3, <2>7
<1>4. ASSUME NEW p \in Reviewers, StoreChangeset(p) PROVE Delivered(d)'
  <2>1. pc[p] = "storeChangeset" /\ exclusive /\ changesets' = changesets \cup draft[p]
    BY <1>4 DEF StoreChangeset
  <2>2. d \in accepted \/ decision[p] = {d}
    <3>1. PICK oks \in {decision[p], {}} : Return(p, oks)
      BY <1>4 DEF StoreChangeset
    <3>2. \E f : decision[p] = {f}
      BY <2>1 DEF ReviewInv, DecisionInv, Held
    <3> QED
      BY <3>1, <3>2 DEF Return
  <2>3. PICK c \in draft[p], t \in stacks :
            c.shape = t.shape /\ c.stackRevision = t.revision /\ ForDecision(t, p)
    BY <2>1 DEF Submits
  <2>4. UNCHANGED <<pulls, stacks>>
    BY <1>4 DEF StoreChangeset
  <2>5. Selected(t)' = Selected(t)
    BY <2>4 DEF Selected
  <2>6. CASE decision[p] = {d}
    BY <2>1, <2>3, <2>4, <2>5, <2>6 DEF ForDecision, Delivered
  <2> QED
    BY <1>1, <2>1, <2>2, <2>6
<1>5. ASSUME NEW p \in Reviewers, Abort(p) PROVE Delivered(d)'
  <2>1. accepted' = accepted /\ exclusive
    BY <1>5 DEF Abort, Fail, Return
  <2> QED
    BY <1>1, <2>1
<1>6. ASSUME NEW p \in Reviewers, NEW i \in Plans,
             DeriveReview(p, i) \/ SetStatus(p, i) \/ Correct(p, i)
      PROVE  Delivered(d)'
    BY <1>2, <1>6 DEF DeriveReview, SetStatus, Correct, Decide
<1>7. ASSUME NEW p \in Reviewers,
             \/ ReadChanges(p) \/ CheckNew(p) \/ StorePlan(p) \/ ReadPull(p) \/ StorePull(p)
             \/ PullsDone(p) \/ ReadStack(p) \/ StoreStack(p) \/ ReadChangeset(p)
      PROVE  Delivered(d)'
  <2>1. UNCHANGED <<accepted, exclusive>>
    BY <1>7 DEF ReadChanges, CheckNew, StorePlan, ReadPull, StorePull, PullsDone, ReadStack,
        StoreStack, ReadChangeset
  <2> QED
    BY <1>2, <2>1
<1>8. CASE Edit \/ UNCHANGED reviewVars
    BY <1>2, <1>8 DEF Edit, reviewVars
<1> QED
    BY <1>3, <1>4, <1>5, <1>6, <1>7, <1>8 DEF ReviewNext

\* One process at a time, a reviewer's decision that was accepted has its stack and its
\* changeset (persist_review_plan returns Ok after the last store), whichever earlier attempts
\* died half way: a decision numbered above the first is never taken for a replay.
THEOREM SerialDecisionIsDelivered == ReviewSpec => []SerialDecisionDelivered
<1> DEFINE Inv == ReviewInv /\ ChosenInv /\ SubmitInv
<1>1. ReviewInit => SubmitInv
    BY DEF ReviewInit, SubmitInv, Submits, Alone, Ahead, SerialDecisionDelivered
<1>2. ReviewInit => Inv
    BY <1>1, InitInv, ChosenInit
<1>3. Inv /\ [ReviewNext]_reviewVars => Inv'
  <2> SUFFICES ASSUME Inv, [ReviewNext]_reviewVars PROVE Inv'
    OBVIOUS
  <2>1. ReviewInv' /\ ChosenInv'
    BY StepInv, ChosenStep
  <2>2. SubmitInv'
    BY <2>1, SubmitsStep, AloneStep, AcceptedStep DEF SubmitInv
  <2> QED
    BY <2>1, <2>2
<1>4. Inv => SerialDecisionDelivered
    BY DEF SubmitInv
<1> QED
    BY <1>2, <1>3, <1>4, PTL DEF ReviewSpec
=============================================================================
