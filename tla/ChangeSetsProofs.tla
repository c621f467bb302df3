--------------------------- MODULE ChangeSetsProofs --------------------------
(***************************************************************************)
(* Proofs about coordinated delivery: for any stacks, in any number of     *)
(* repositories, any changesets over them and any number of clients.       *)
(***************************************************************************)
EXTENDS ChangeSets, TLAPS

Creating == {"dependencies", "store"}
Integrating == {"closure", "readiness", "evaluate", "integrate"}
Checked == {"evaluate", "integrate"}

\* Documents refer to documents that exist.
DocumentsResolve ==
    /\ \A s \in Stacks : \A r \in 1..Len(stacks[s]) : stacks[s][r] \in 1..Len(plans[s])
    /\ \A g \in Groups : \A i \in 1..Len(changesets[g]) : \A s \in g :
          changesets[g][i].selects[s] \in 1..Len(stacks[s])

\* What a client carries through a review decision ...
DecisionHeld(p) ==
    /\ pc[p] = "bind" =>
          job[p].stack \in Stacks /\ job[p].decision \in 1..Len(plans[job[p].stack])
    /\ pc[p] = "regroup" =>
          job[p].stack \in Stacks /\ job[p].revision \in 1..Len(stacks[job[p].stack])

\* ... through a creation ...
CreationHeld(p) ==
    pc[p] \in Creating =>
        /\ job[p].group \in Groups
        /\ job[p].content \in ChangeSet(job[p].group)
        /\ job[p].content.status = "active"
        /\ \A s \in job[p].group : job[p].content.selects[s] \in 1..Len(stacks[s])

\* ... and through an integration: the revision it read is still there, and the
\* checks it passed are about documents that do not change.
Base(p) == changesets[job[p].group][job[p].base]
BaseDecision(p, s) == stacks[s][Base(p).selects[s]]

IntegrationHeld(p) ==
    /\ pc[p] \in Integrating =>
          /\ job[p] = [group |-> job[p].group, base |-> job[p].base,
                       protected |-> job[p].protected, read |-> job[p].read]
          /\ job[p].group \in Groups
          /\ job[p].base \in 1..Len(changesets[job[p].group])
          /\ job[p].protected \in BOOLEAN
          /\ job[p].group \in DOMAIN job[p].read
          /\ job[p].read[job[p].group] = Base(p)
          /\ Base(p).status = "active"
    /\ pc[p] \in Checked =>
          \A s \in job[p].group : <<s, BaseDecision(p, s)>> \in published
    /\ pc[p] = "integrate" /\ job[p].protected =>
          \A s \in job[p].group : plans[s][BaseDecision(p, s)]

Held(p) == DecisionHeld(p) /\ CreationHeld(p) /\ IntegrationHeld(p)

\* IntegratedWasEvaluated says this of every evaluation.
EvaluatedRightly(e) ==
    LET c == changesets[e.group][e.revision]
        before == changesets[e.group][e.revision - 1] IN
    /\ e.revision \in 2..Len(changesets[e.group])
    /\ c.status = "integrated" /\ before.status = "active"
    /\ before.selects = c.selects /\ before.dependsOn = c.dependsOn
    /\ \A s \in e.group :
          LET n == DecisionOf(s, c.selects[s]) IN
          /\ <<s, n>> \in published
          /\ e.protected => plans[s][n]

IInv == /\ ChangesetTypeOK
        /\ DocumentsResolve
        /\ \A p \in Clients : Held(p)
        /\ \A e \in evaluations : EvaluatedRightly(e)

-----------------------------------------------------------------------------
\* Documents and publications are only added.
Kept(f, D) ==
    \A x \in D : /\ Len(f[x]) <= Len(f'[x])
                 /\ \A i \in 1..Len(f[x]) : f'[x][i] = f[x][i]

Grows ==
    /\ Kept(plans, Stacks) /\ Kept(stacks, Stacks) /\ Kept(changesets, Groups)
    /\ published \subseteq published'

\* A longer sequence keeps its places.
LEMMA AppendFacts ==
    ASSUME NEW T, NEW q \in Seq(T), NEW v \in T
    PROVE  /\ Append(q, v) \in Seq(T)
           /\ Len(Append(q, v)) = Len(q) + 1
           /\ Len(q) \in Nat
           /\ \A i \in 1..Len(q) : Append(q, v)[i] = q[i]
           /\ Append(q, v)[Len(q) + 1] = v
OBVIOUS

\* What was held of documents that were there is still held.
LEMMA HeldStays ==
    ASSUME ChangesetTypeOK, DocumentsResolve, Grows, NEW p \in Clients, Held(p),
           pc'[p] = pc[p], job'[p] = job[p]
    PROVE  Held(p)'
<1>1. DecisionHeld(p)'
    BY DEF Held, DecisionHeld, Grows, Kept, ChangesetTypeOK
<1>2. CreationHeld(p)'
    <2>1. ASSUME pc[p] \in Creating, NEW s \in job[p].group
          PROVE  job[p].content.selects[s] \in 1..Len(stacks'[s])
        <3>1. s \in Stacks
            BY <2>1, GroupAssumption DEF Held, CreationHeld
        <3>. QED BY <2>1, <3>1 DEF Held, CreationHeld, Grows, Kept, ChangesetTypeOK
    <2>. QED BY <2>1 DEF Held, CreationHeld
<1>3. IntegrationHeld(p)'
    <2>. SUFFICES ASSUME pc[p] \in Integrating PROVE IntegrationHeld(p)'
        BY DEF IntegrationHeld, Integrating, Checked
    <2>1. /\ job[p].group \in Groups
          /\ job[p].base \in 1..Len(changesets[job[p].group])
        BY DEF Held, IntegrationHeld
    <2>2. Len(changesets[job[p].group]) \in Nat /\ Len(changesets'[job[p].group]) >= Len(changesets[job[p].group])
        BY <2>1 DEF Grows, Kept, ChangesetTypeOK
    <2>3. job[p].base \in 1..Len(changesets'[job[p].group]) /\ Base(p)' = Base(p)
        BY <2>1, <2>2 DEF Grows, Kept, Base
    <2>4. ASSUME NEW s \in job[p].group
          PROVE  /\ s \in Stacks
                 /\ BaseDecision(p, s)' = BaseDecision(p, s)
                 /\ BaseDecision(p, s) \in 1..Len(plans[s])
        <3>1. s \in Stacks
            BY <2>1, GroupAssumption
        <3>2. Base(p).selects[s] \in 1..Len(stacks[s])
            BY <2>1, <3>1 DEF DocumentsResolve, Base
        <3>. QED BY <2>3, <3>1, <3>2 DEF Grows, Kept, BaseDecision, DocumentsResolve
    <2>5. \A s \in job[p].group : plans'[s][BaseDecision(p, s)] = plans[s][BaseDecision(p, s)]
        BY <2>4 DEF Grows, Kept
    <2>. QED BY <2>1, <2>3, <2>4, <2>5 DEF Held, IntegrationHeld, Grows
<1>. QED BY <1>1, <1>2, <1>3 DEF Held

\* An evaluation that was right about documents that were there still is.
LEMMA EvaluatedStays ==
    ASSUME ChangesetTypeOK, DocumentsResolve, Grows,
           NEW e, e.group \in Groups, EvaluatedRightly(e)
    PROVE  EvaluatedRightly(e)'
<1> DEFINE c == changesets[e.group][e.revision]
           D(s) == DecisionOf(s, c.selects[s])
<1>1. /\ Len(changesets[e.group]) \in Nat /\ Len(changesets'[e.group]) \in Nat
      /\ Len(changesets'[e.group]) >= Len(changesets[e.group])
      /\ \A i \in 1..Len(changesets[e.group]) : changesets'[e.group][i] = changesets[e.group][i]
    BY DEF Grows, Kept, ChangesetTypeOK
<1>0. e.revision \in 2..Len(changesets[e.group])
    BY DEF EvaluatedRightly
<1>2. e.revision \in 1..Len(changesets[e.group]) /\ e.revision - 1 \in 1..Len(changesets[e.group])
    BY <1>0, <1>1
<1>3. c' = c /\ changesets'[e.group][e.revision - 1] = changesets[e.group][e.revision - 1]
    BY <1>1, <1>2
<1>4. ASSUME NEW s \in e.group
      PROVE  D(s)' = D(s) /\ plans'[s][D(s)] = plans[s][D(s)]
    <2>1. s \in Stacks
        BY GroupAssumption
    <2>2. c.selects[s] \in 1..Len(stacks[s])
        BY <1>2 DEF DocumentsResolve
    <2>3. D(s) \in 1..Len(plans[s])
        BY <2>1, <2>2 DEF DocumentsResolve, DecisionOf
    <2>4. stacks'[s][c.selects[s]] = stacks[s][c.selects[s]]
        BY <2>1, <2>2 DEF Grows, Kept
    <2>5. D(s)' = D(s)
        BY <1>3, <2>4 DEF DecisionOf
    <2>6. plans'[s][D(s)] = plans[s][D(s)]
        BY <2>1, <2>3 DEF Grows, Kept
    <2>. QED BY <2>5, <2>6
<1>5. published \subseteq published'
    BY DEF Grows
<1>6. \A s \in e.group : <<s, D(s)>> \in published /\ (e.protected => plans[s][D(s)])
    BY DEF EvaluatedRightly
<1>7. \A s \in e.group : <<s, D(s)'>> \in published' /\ (e.protected => plans'[s][D(s)'])
    BY <1>4, <1>5, <1>6
<1> DEFINE b == changesets[e.group][e.revision - 1]
<1>8. /\ c'.status = "integrated" /\ b'.status = "active"
      /\ b'.selects = c'.selects /\ b'.dependsOn = c'.dependsOn
    BY <1>3 DEF EvaluatedRightly
<1>9. e.revision \in 2..Len(changesets'[e.group])
    BY <1>0, <1>1
<1>. QED BY <1>7, <1>8, <1>9 DEF EvaluatedRightly

-----------------------------------------------------------------------------
\* Moving one client leaves the others alone.
Others(p) == \A q \in Clients \ {p} : pc'[q] = pc[q] /\ job'[q] = job[q]

\* Goto moves one client only.
LEMMA GotoFacts ==
    ASSUME ChangesetTypeOK, NEW p \in Clients, NEW step \in Steps, NEW carries,
           Goto(p, step, carries)
    PROVE  /\ pc' \in [Clients -> Steps] /\ DOMAIN job' = Clients
           /\ pc'[p] = step /\ job'[p] = carries
           /\ Others(p)
BY DEF Goto, ChangesetTypeOK, Others

\* A client that does nothing holds nothing.
LEMMA IdleHeld ==
    ASSUME NEW p \in Clients, pc'[p] = "idle"
    PROVE  Held(p)'
BY DEF Held, DecisionHeld, CreationHeld, IntegrationHeld, Creating, Integrating, Checked

\* What every step of a client that adds documents, or none, preserves.
LEMMA Frame ==
    ASSUME IInv, ChangesetTypeOK', DocumentsResolve', Grows, UNCHANGED evaluations,
           NEW p \in Clients, Others(p), Held(p)'
    PROVE  IInv'
<1>1. \A q \in Clients : Held(q)'
    BY HeldStays DEF IInv, Others
<1>2. ASSUME NEW e \in evaluations PROVE EvaluatedRightly(e)'
    <2>1. e.group \in Groups
        BY DEF IInv, ChangesetTypeOK
    <2>. QED BY <2>1, EvaluatedStays DEF IInv
<1>. QED BY <1>1, <1>2 DEF IInv

\* A step that publishes nothing preserves the invariant when its client's part holds.
LEMMA ReadingStep ==
    ASSUME IInv, NEW p \in Clients, NEW step \in Steps, NEW carries,
           Goto(p, step, carries),
           UNCHANGED <<documents, forge, evaluations, exclusive>>, Held(p)'
    PROVE  IInv'
<1>1. UNCHANGED <<plans, stacks, changesets, published, restacked, evaluations, exclusive>>
    BY DEF documents, forge
<1>2. /\ pc' \in [Clients -> Steps] /\ DOMAIN job' = Clients
      /\ Others(p)
    BY GotoFacts DEF IInv
<1>3. ChangesetTypeOK'
    BY <1>1, <1>2 DEF IInv, ChangesetTypeOK
<1>4. DocumentsResolve'
    BY <1>1 DEF IInv, DocumentsResolve
<1>5. Grows
    BY <1>1 DEF Grows, Kept, IInv, ChangesetTypeOK
<1>. QED BY <1>1, <1>2, <1>3, <1>4, <1>5, Frame

\* Appending a revision that selects stack revisions there are.
LEMMA Storing ==
    ASSUME ChangesetTypeOK, DocumentsResolve, UNCHANGED <<plans, stacks>>,
           NEW g \in Groups, NEW c \in ChangeSet(g), Len(changesets[g]) < MaxRevision,
           \A s \in g : c.selects[s] \in 1..Len(stacks[s]),
           changesets' = [changesets EXCEPT ![g] = Append(@, c)]
    PROVE  /\ DOMAIN changesets' = Groups
           /\ \A h \in Groups : changesets'[h] \in Seq(ChangeSet(h)) /\ Len(changesets'[h]) <= MaxRevision
           /\ Kept(changesets, Groups)
           /\ changesets'[g] = Append(changesets[g], c)
           /\ DocumentsResolve'
<1>1. \A h \in Groups : changesets[h] \in Seq(ChangeSet(h)) /\ Len(changesets[h]) <= MaxRevision
    BY DEF ChangesetTypeOK
<1>2. DOMAIN changesets = Groups /\ DOMAIN changesets' = Groups
    BY DEF ChangesetTypeOK
<1>3. changesets'[g] = Append(changesets[g], c) /\ \A h \in Groups \ {g} : changesets'[h] = changesets[h]
    BY <1>2
<1>4. /\ changesets'[g] \in Seq(ChangeSet(g))
      /\ Len(changesets[g]) \in Nat
      /\ Len(changesets'[g]) = Len(changesets[g]) + 1
      /\ \A i \in 1..Len(changesets[g]) : changesets'[g][i] = changesets[g][i]
      /\ changesets'[g][Len(changesets[g]) + 1] = c
    BY <1>1, <1>3, AppendFacts
<1>5. \A h \in Groups : Len(changesets[h]) \in Nat /\ Len(changesets'[h]) \in Nat
    BY <1>1, <1>3, <1>4
<1>6. \A h \in Groups : changesets'[h] \in Seq(ChangeSet(h)) /\ Len(changesets'[h]) <= MaxRevision
    BY <1>1, <1>3, <1>4, BoundAssumption
<1>7. Kept(changesets, Groups)
    BY <1>3, <1>4, <1>5 DEF Kept
<1>8. ASSUME NEW h \in Groups, NEW i \in 1..Len(changesets'[h]), NEW s \in h
      PROVE  changesets'[h][i].selects[s] \in 1..Len(stacks'[s])
    <2>1. CASE h = g /\ i = Len(changesets[g]) + 1
        BY <2>1, <1>4
    <2>2. CASE h # g \/ i # Len(changesets[g]) + 1
        <3>1. i \in 1..Len(changesets[h]) /\ changesets'[h][i] = changesets[h][i]
            BY <2>2, <1>3, <1>4, <1>5
        <3>. QED BY <3>1 DEF DocumentsResolve
    <2>. QED BY <2>1, <2>2
<1>9. DocumentsResolve'
    BY <1>8 DEF DocumentsResolve
<1>. QED BY <1>2, <1>3, <1>6, <1>7, <1>9

-----------------------------------------------------------------------------
\* A step that stores the revision c of group g, if it is not already the newest.
LEMMA StoringStep ==
    ASSUME IInv, NEW p \in Clients, NEW g \in Groups, NEW c \in ChangeSet(g),
           \A s \in g : c.selects[s] \in 1..Len(stacks[s]),
           StoreRevision(g, c), Stop(p),
           UNCHANGED <<plans, stacks, forge, evaluations, exclusive>>
    PROVE  IInv'
<1>1. UNCHANGED <<plans, stacks, published, restacked, evaluations, exclusive>>
    BY DEF forge
<1>2. pc' \in [Clients -> Steps] /\ DOMAIN job' = Clients /\ pc'[p] = "idle" /\ Others(p)
    BY GotoFacts DEF Stop, IInv, Steps
<1>3. Held(p)'
    BY <1>2, IdleHeld
<1>4. /\ DOMAIN changesets' = Groups
      /\ \A h \in Groups : changesets'[h] \in Seq(ChangeSet(h)) /\ Len(changesets'[h]) <= MaxRevision
      /\ Kept(changesets, Groups)
      /\ DocumentsResolve'
    <2>1. CASE LatestChangeset(g) = {c}
        <3>1. UNCHANGED changesets
            BY <2>1 DEF StoreRevision
        <3>. QED BY <1>1, <3>1 DEF IInv, ChangesetTypeOK, DocumentsResolve, Kept
    <2>2. CASE LatestChangeset(g) # {c}
        <3>1. Len(changesets[g]) < MaxRevision
              /\ changesets' = [changesets EXCEPT ![g] = Append(@, c)]
            BY <2>2 DEF StoreRevision
        <3>. QED BY <1>1, <3>1, Storing DEF IInv
    <2>. QED BY <2>1, <2>2
<1>5. ChangesetTypeOK'
    BY <1>1, <1>2, <1>4 DEF IInv, ChangesetTypeOK
<1>6. Grows
    BY <1>1, <1>4 DEF Grows, Kept, IInv, ChangesetTypeOK
<1>. QED BY <1>1, <1>2, <1>3, <1>4, <1>5, <1>6, Frame

\* A decision's plan revision: publication is the client's to go on from.
LEMMA DecideStep ==
    ASSUME IInv, NEW p \in Clients, NEW s \in Stacks, Decide(p, s)
    PROVE  IInv'
<1> DEFINE n == Len(plans[s]) + 1
<1>1. UNCHANGED <<stacks, changesets, published, restacked, evaluations, exclusive>>
    BY DEF Decide, forge
<1>2. /\ pc' \in [Clients -> Steps] /\ DOMAIN job' = Clients /\ Others(p)
      /\ pc'[p] = "bind" /\ job'[p] = [stack |-> s, decision |-> n]
    BY GotoFacts DEF Decide, IInv, Steps
<1>3. PICK a \in BOOLEAN : plans' = [plans EXCEPT ![s] = Append(@, a)]
    BY DEF Decide
<1>4. /\ plans \in [Stacks -> Seq(BOOLEAN)]
      /\ plans[s] \in Seq(BOOLEAN)
      /\ \A x \in Stacks : Len(plans[x]) \in Nat /\ Len(plans[x]) <= MaxPlan
      /\ Len(plans[s]) < MaxPlan
    BY DEF IInv, ChangesetTypeOK, Decide
<1>5. /\ plans'[s] \in Seq(BOOLEAN) /\ Len(plans'[s]) = n
      /\ \A i \in 1..Len(plans[s]) : plans'[s][i] = plans[s][i]
      /\ \A x \in Stacks \ {s} : plans'[x] = plans[x]
    <2>1. plans'[s] = Append(plans[s], a) /\ \A x \in Stacks \ {s} : plans'[x] = plans[x]
        BY <1>3, <1>4
    <2>. QED BY <1>4, <2>1, AppendFacts
<1>6. /\ plans' \in [Stacks -> Seq(BOOLEAN)]
      /\ \A x \in Stacks : Len(plans'[x]) <= MaxPlan
    BY <1>3, <1>4, <1>5, BoundAssumption
<1>7. Kept(plans, Stacks)
    <2>1. ASSUME NEW x \in Stacks
          PROVE  /\ Len(plans[x]) <= Len(plans'[x])
                 /\ \A i \in 1..Len(plans[x]) : plans'[x][i] = plans[x][i]
        <3>1. CASE x = s
            <4>1. Len(plans[s]) <= n
                BY <1>4
            <4>. QED BY <1>5, <3>1, <4>1
        <3>2. CASE x # s
            BY <1>4, <1>5, <3>2
        <3>. QED BY <3>1, <3>2
    <2>. QED BY <2>1 DEF Kept
<1>8. ChangesetTypeOK'
    BY <1>1, <1>2, <1>6 DEF IInv, ChangesetTypeOK
<1>9. Grows
    BY <1>1, <1>7 DEF Grows, Kept, IInv, ChangesetTypeOK
<1>10. DocumentsResolve'
    <2>1. \A x \in Stacks : Len(plans'[x]) \in Nat /\ Len(plans[x]) <= Len(plans'[x])
        BY <1>4, <1>5
    <2>. QED BY <1>1, <1>4, <2>1 DEF IInv, DocumentsResolve
<1>11. Held(p)'
    BY <1>2, <1>4, <1>5
    DEF Held, DecisionHeld, CreationHeld, IntegrationHeld, Creating, Integrating, Checked
<1>. QED BY <1>1, <1>2, <1>8, <1>9, <1>10, <1>11, Frame

\* A decision's stack revision, of the plan revision it published.
LEMMA BindStep ==
    ASSUME IInv, NEW p \in Clients, Bind(p)
    PROVE  IInv'
<1> DEFINE s == job[p].stack
           d == job[p].decision
           r == Len(stacks[s]) + 1
<1>1. UNCHANGED <<plans, changesets, published, restacked, evaluations, exclusive>>
    BY DEF Bind, forge
<1>2. /\ pc' \in [Clients -> Steps] /\ DOMAIN job' = Clients /\ Others(p)
      /\ pc'[p] = "regroup" /\ job'[p] = [stack |-> s, revision |-> r]
    BY GotoFacts DEF Bind, IInv, Steps
<1>3. s \in Stacks /\ d \in 1..Len(plans[s])
    BY DEF Bind, IInv, Held, DecisionHeld
<1>4. /\ stacks \in [Stacks -> Seq(Decisions)]
      /\ \A x \in Stacks : Len(stacks[x]) \in Nat /\ Len(plans[x]) \in Nat
      /\ d \in Decisions
    <2>1. Len(plans[s]) \in Nat /\ Len(plans[s]) <= MaxPlan
        BY <1>3 DEF IInv, ChangesetTypeOK
    <2>2. d \in Decisions
        BY <1>3, <2>1, BoundAssumption DEF Decisions
    <2>. QED BY <2>2 DEF IInv, ChangesetTypeOK
<1>5. /\ stacks'[s] \in Seq(Decisions) /\ Len(stacks'[s]) = r
      /\ \A i \in 1..Len(stacks[s]) : stacks'[s][i] = stacks[s][i]
      /\ stacks'[s][r] = d
      /\ \A x \in Stacks \ {s} : stacks'[x] = stacks[x]
    <2>1. stacks'[s] = Append(stacks[s], d) /\ \A x \in Stacks \ {s} : stacks'[x] = stacks[x]
        BY <1>3, <1>4 DEF Bind
    <2>2. stacks[s] \in Seq(Decisions)
        BY <1>3, <1>4
    <2>. QED BY <1>4, <2>1, <2>2, AppendFacts
<1>6. stacks' \in [Stacks -> Seq(Decisions)]
    BY <1>3, <1>4, <1>5 DEF Bind
<1>7. Kept(stacks, Stacks)
    BY <1>4, <1>5 DEF Kept
<1>8. ChangesetTypeOK'
    BY <1>1, <1>2, <1>6 DEF IInv, ChangesetTypeOK
<1>9. Grows
    BY <1>1, <1>7 DEF Grows, Kept, IInv, ChangesetTypeOK
<1>10. DocumentsResolve'
    <2>1. \A x \in Stacks : \A i \in 1..Len(stacks'[x]) : stacks'[x][i] \in 1..Len(plans[x])
        <3>. SUFFICES ASSUME NEW x \in Stacks, NEW i \in 1..Len(stacks'[x])
                      PROVE  stacks'[x][i] \in 1..Len(plans[x])
            OBVIOUS
        <3>1. CASE x = s /\ i = r
            BY <3>1, <1>3, <1>5
        <3>2. CASE x # s \/ i # r
            <4>1. i \in 1..Len(stacks[x]) /\ stacks'[x][i] = stacks[x][i]
                BY <3>2, <1>4, <1>5
            <4>. QED BY <4>1 DEF IInv, DocumentsResolve
        <3>. QED BY <3>1, <3>2
    <2>2. \A x \in Stacks : Len(stacks'[x]) \in Nat /\ Len(stacks[x]) <= Len(stacks'[x])
        BY <1>4, <1>5
    <2>3. \A g \in Groups : \A i \in 1..Len(changesets[g]) : \A x \in g :
              changesets[g][i].selects[x] \in 1..Len(stacks'[x])
        BY <1>4, <2>2, GroupAssumption DEF IInv, DocumentsResolve
    <2>. QED BY <1>1, <2>1, <2>3 DEF DocumentsResolve
<1>11. Held(p)'
    BY <1>2, <1>3, <1>4, <1>5
    DEF Held, DecisionHeld, CreationHeld, IntegrationHeld, Creating, Integrating, Checked
<1>. QED BY <1>1, <1>2, <1>8, <1>9, <1>10, <1>11, Frame

\* A decision's changeset of its stack alone.
LEMMA RegroupStep ==
    ASSUME IInv, NEW p \in Clients, Regroup(p)
    PROVE  IInv'
<1> DEFINE g == {job[p].stack}
           c == [selects |-> [s \in g |-> job[p].revision], dependsOn |-> {}, status |-> "active"]
<1>1. job[p].stack \in Stacks /\ job[p].revision \in 1..Len(stacks[job[p].stack])
    BY DEF Regroup, IInv, Held, DecisionHeld
<1>2. g \in Groups
    BY <1>1, GroupAssumption
<1>3. Len(stacks[job[p].stack]) \in Nat
    BY <1>1 DEF IInv, ChangesetTypeOK
<1>4. c \in ChangeSet(g) /\ \A s \in g : c.selects[s] \in 1..Len(stacks[s])
    BY <1>1, <1>3 DEF ChangeSet, Selection
<1>. QED BY <1>2, <1>4, StoringStep DEF Regroup

\* The changeset of changeset create, with the dependencies it checked.
LEMMA StoreCreatedStep ==
    ASSUME IInv, NEW p \in Clients, StoreCreated(p)
    PROVE  IInv'
<1>1. /\ job[p].group \in Groups
      /\ job[p].content \in ChangeSet(job[p].group)
      /\ \A s \in job[p].group : job[p].content.selects[s] \in 1..Len(stacks[s])
    BY DEF StoreCreated, IInv, Held, CreationHeld, Creating
<1>. QED BY <1>1, StoringStep DEF StoreCreated

\* changeset create reads the newest stacks.
LEMMA StartCreateStep ==
    ASSUME IInv, NEW p \in Clients, NEW g \in Groups, StartCreate(p, g)
    PROVE  IInv'
<1>1. PICK D \in SUBSET (Groups \ {g}) :
          Goto(p, "dependencies",
               [group |-> g,
                content |-> [selects |-> [s \in g |-> Len(stacks[s])],
                             dependsOn |-> D, status |-> "active"]])
    BY DEF StartCreate
<1> DEFINE c == [selects |-> [s \in g |-> Len(stacks[s])], dependsOn |-> D, status |-> "active"]
<1>2. pc'[p] = "dependencies" /\ job'[p] = [group |-> g, content |-> c]
    BY <1>1, GotoFacts DEF IInv, Steps
<1>3. UNCHANGED stacks
    BY DEF StartCreate, documents
<1>4. \A s \in g : stacks[s] \in Seq(Decisions) /\ stacks[s] # <<>>
    BY GroupAssumption DEF StartCreate, IInv, ChangesetTypeOK
<1>5. \A s \in g : Len(stacks[s]) \in Nat \ {0}
    BY <1>4
<1>6. c \in ChangeSet(g) /\ \A s \in g : c.selects[s] \in 1..Len(stacks[s])
    BY <1>5 DEF ChangeSet, Selection
<1>7. Held(p)'
    BY <1>2, <1>3, <1>6
    DEF Held, DecisionHeld, CreationHeld, IntegrationHeld, Creating, Integrating, Checked
<1>. QED BY <1>1, <1>7, ReadingStep DEF StartCreate, Steps

\* changeset create goes on when its dependencies exist.
LEMMA CheckDependenciesStep ==
    ASSUME IInv, NEW p \in Clients, CheckDependencies(p)
    PROVE  IInv'
<1>1. pc'[p] = "store" /\ job'[p] = job[p]
    BY GotoFacts DEF CheckDependencies, IInv, Steps
<1>2. UNCHANGED stacks
    BY DEF CheckDependencies, documents
<1>3. Held(p)'
    BY <1>1, <1>2
    DEF CheckDependencies, IInv, Held, DecisionHeld, CreationHeld, IntegrationHeld, Creating,
        Integrating, Checked
<1>. QED BY <1>3, ReadingStep DEF CheckDependencies, Steps

\* integrate holds an active changeset that is in its place.
LEMMA StartIntegrateStep ==
    ASSUME IInv, NEW p \in Clients, NEW g \in Groups, StartIntegrate(p, g)
    PROVE  IInv'
<1>1. PICK c \in LatestChangeset(g), onProtected \in BOOLEAN :
          /\ c.status = "active"
          /\ Goto(p, "closure", [group |-> g, base |-> Len(changesets[g]),
                                 protected |-> onProtected, read |-> [h \in {g} |-> c]])
    BY DEF StartIntegrate
<1>2. /\ pc'[p] = "closure"
      /\ job'[p] = [group |-> g, base |-> Len(changesets[g]),
                    protected |-> onProtected, read |-> [h \in {g} |-> c]]
    BY <1>1, GotoFacts DEF IInv, Steps
<1>3. changesets[g] \in Seq(ChangeSet(g)) /\ changesets[g] # <<>> /\ c = Last(changesets[g])
    BY DEF IInv, ChangesetTypeOK, LatestChangeset
<1>4. Len(changesets[g]) \in 1..Len(changesets[g]) /\ c = changesets[g][Len(changesets[g])]
    BY <1>3 DEF Last
<1>5. UNCHANGED changesets
    BY DEF StartIntegrate, documents
<1>6. Base(p)' = c
    BY <1>2, <1>4, <1>5 DEF Base
<1>7. IntegrationHeld(p)'
    <2>1. /\ job'[p].group = g /\ job'[p].base = Len(changesets[g]) /\ job'[p].protected \in BOOLEAN
          /\ job'[p].read = [h \in {g} |-> c]
        BY <1>2
    <2>2. job'[p].read[g] = c /\ g \in DOMAIN job'[p].read
        BY <2>1
    <2>. QED BY <1>1, <1>2, <1>4, <1>5, <1>6, <2>1, <2>2 DEF IntegrationHeld, Integrating, Checked
<1>8. Held(p)'
    BY <1>2, <1>7 DEF Held, DecisionHeld, CreationHeld, Creating
<1>. QED BY <1>1, <1>8, ReadingStep DEF StartIntegrate, Steps

\* integrate reads one more dependency.
LEMMA ReadDependencyStep ==
    ASSUME IInv, NEW p \in Clients, ReadDependency(p)
    PROVE  IInv'
<1>0. PICK d \in Unread(p) : \E c \in LatestChangeset(d) :
          Goto(p, "closure",
               [job[p] EXCEPT !.read = [h \in DOMAIN @ \cup {d} |-> IF h = d THEN c ELSE @[h]]])
    BY DEF ReadDependency
<1>1. PICK c \in LatestChangeset(d) :
          Goto(p, "closure",
               [job[p] EXCEPT !.read = [h \in DOMAIN @ \cup {d} |-> IF h = d THEN c ELSE @[h]]])
    BY <1>0
<1> DEFINE r == [h \in DOMAIN job[p].read \cup {d} |-> IF h = d THEN c ELSE job[p].read[h]]
<1>2. IntegrationHeld(p) /\ pc[p] = "closure"
    BY DEF ReadDependency, IInv, Held
<1>3. /\ pc'[p] = "closure"
      /\ job'[p] = [group |-> job[p].group, base |-> job[p].base,
                    protected |-> job[p].protected, read |-> r]
    <2>1. pc'[p] = "closure" /\ job'[p] = [job[p] EXCEPT !.read = r]
        BY <1>1, GotoFacts DEF IInv, Steps
    <2>2. job[p] = [group |-> job[p].group, base |-> job[p].base,
                    protected |-> job[p].protected, read |-> job[p].read]
        BY <1>2 DEF IntegrationHeld, Integrating
    <2>. QED BY <2>1, <2>2
<1>4. UNCHANGED changesets
    BY DEF ReadDependency, documents
<1>5. job[p].group # d /\ job[p].group \in DOMAIN job[p].read
    BY <1>2 DEF Unread, IntegrationHeld, Integrating
<1>6. job'[p].group = job[p].group /\ job'[p].base = job[p].base
      /\ job'[p].protected = job[p].protected /\ job'[p].read = r
    BY <1>3
<1>7. job[p].group \in DOMAIN r /\ r[job[p].group] = job[p].read[job[p].group]
    BY <1>5
<1>8. Base(p)' = Base(p)
    BY <1>4, <1>6 DEF Base
<1>9. IntegrationHeld(p)'
    BY <1>2, <1>3, <1>4, <1>6, <1>7, <1>8 DEF IntegrationHeld, Integrating, Checked
<1>10. Held(p)'
    BY <1>3, <1>9 DEF Held, DecisionHeld, CreationHeld, Creating
<1>. QED BY <1>1, <1>10, ReadingStep DEF ReadDependency, Steps

\* What the checks of an integration leave alone.
LEMMA CheckingKeeps ==
    ASSUME IInv, NEW p \in Clients, NEW step \in Steps, Goto(p, step, job[p]),
           UNCHANGED <<documents, forge, evaluations, exclusive>>
    PROVE  /\ pc'[p] = step /\ job'[p] = job[p]
           /\ UNCHANGED <<plans, stacks, changesets, published>>
           /\ Base(p)' = Base(p)
           /\ \A s : BaseDecision(p, s)' = BaseDecision(p, s)
<1>1. pc'[p] = step /\ job'[p] = job[p]
    BY GotoFacts DEF IInv
<1>2. UNCHANGED <<plans, stacks, changesets, published>>
    BY DEF documents, forge
<1>. QED BY <1>1, <1>2 DEF Base, BaseDecision

\* integrate goes on when its dependencies are integrated and in order.
LEMMA CheckOrderStep ==
    ASSUME IInv, NEW p \in Clients, CheckOrder(p)
    PROVE  IInv'
<1>1. /\ pc'[p] = "readiness" /\ job'[p] = job[p]
      /\ UNCHANGED <<plans, stacks, changesets, published>>
      /\ Base(p)' = Base(p)
    BY CheckingKeeps DEF CheckOrder, Steps
<1>2. IntegrationHeld(p) /\ pc[p] = "closure"
    BY DEF CheckOrder, IInv, Held
<1>3. Held(p)'
    BY <1>1, <1>2 DEF Held, DecisionHeld, CreationHeld, IntegrationHeld, Creating, Integrating, Checked
<1>. QED BY <1>3, ReadingStep DEF CheckOrder, Steps

\* integrate goes on when what it would integrate is published and fresh.
LEMMA CheckReadinessStep ==
    ASSUME IInv, NEW p \in Clients, CheckReadiness(p)
    PROVE  IInv'
<1>1. /\ pc'[p] = "evaluate" /\ job'[p] = job[p]
      /\ UNCHANGED <<plans, stacks, changesets, published>>
      /\ Base(p)' = Base(p)
      /\ \A s : BaseDecision(p, s)' = BaseDecision(p, s)
    BY CheckingKeeps DEF CheckReadiness, Steps
<1>2. IntegrationHeld(p) /\ pc[p] = "readiness"
    BY DEF CheckReadiness, IInv, Held
<1>3. \A s \in job[p].group : <<s, BaseDecision(p, s)>> \in published
    <2>1. job[p].group \in DOMAIN job[p].read /\ job[p].read[job[p].group] = Base(p)
        BY <1>2 DEF IntegrationHeld, Integrating
    <2>2. Ready(job[p].group, Base(p))
        BY <2>1 DEF CheckReadiness
    <2>. QED BY <2>2 DEF Ready, BaseDecision, DecisionOf
<1>4. IntegrationHeld(p)'
    BY <1>1, <1>2, <1>3 DEF IntegrationHeld, Integrating, Checked
<1>5. Held(p)'
    BY <1>1, <1>4 DEF Held, DecisionHeld, CreationHeld, Creating
<1>. QED BY <1>5, ReadingStep DEF CheckReadiness, Steps

\* An evaluation is of the revision that is held, whose plans are approved.
LEMMA EvaluateStep ==
    ASSUME IInv, NEW p \in Clients, Evaluate(p)
    PROVE  IInv'
<1>1. /\ pc'[p] = "integrate" /\ job'[p] = job[p]
      /\ UNCHANGED <<plans, stacks, changesets, published>>
      /\ Base(p)' = Base(p)
      /\ \A s : BaseDecision(p, s)' = BaseDecision(p, s)
    BY CheckingKeeps DEF Evaluate, Steps
<1>2. IntegrationHeld(p) /\ pc[p] = "evaluate"
    BY DEF Evaluate, IInv, Held
<1>3. job[p].protected => \A s \in job[p].group : plans[s][BaseDecision(p, s)]
    <2>1. job[p].read[job[p].group] = Base(p)
        BY <1>2 DEF IntegrationHeld, Integrating
    <2>2. \A s \in job[p].group : job[p].protected => plans[s][DecisionOf(s, Base(p).selects[s])]
        BY <2>1 DEF Evaluate
    <2>. QED BY <2>2 DEF BaseDecision, DecisionOf
<1>4. IntegrationHeld(p)'
    BY <1>1, <1>2, <1>3 DEF IntegrationHeld, Integrating, Checked
<1>5. Held(p)'
    BY <1>1, <1>4 DEF Held, DecisionHeld, CreationHeld, Creating
<1>. QED BY <1>5, ReadingStep DEF Evaluate, Steps

\* A command that ends holds nothing.
LEMMA AbortStep ==
    ASSUME IInv, NEW p \in Clients, Abort(p)
    PROVE  IInv'
<1>1. pc'[p] = "idle"
    BY GotoFacts DEF Abort, Stop, IInv, Steps
<1>2. Held(p)'
    BY <1>1, IdleHeld
<1>. QED BY <1>2, ReadingStep DEF Abort, Stop, Steps

\* Publications and restacks are about decisions that stack revisions name.
LEMMA ForgeStep ==
    ASSUME IInv, NEW s \in Stacks, PublishReview(s) \/ ProjectReview(s)
    PROVE  IInv'
<1>1. UNCHANGED <<plans, stacks, changesets, pc, job, evaluations, exclusive>>
    BY DEF PublishReview, ProjectReview, documents
<1>2. PICK r \in DOMAIN stacks[s] :
          /\ published' \subseteq published \cup {<<s, stacks[s][r]>>}
          /\ restacked' \subseteq restacked \cup {<<s, stacks[s][r]>>}
          /\ published \subseteq published'
    BY DEF PublishReview, ProjectReview
<1>3. stacks[s][r] \in Decisions
    <2>1. stacks[s] \in Seq(Decisions)
        BY DEF IInv, ChangesetTypeOK
    <2>. QED BY <2>1
<1>4. ChangesetTypeOK'
    BY <1>1, <1>2, <1>3 DEF IInv, ChangesetTypeOK
<1>5. DocumentsResolve'
    BY <1>1 DEF IInv, DocumentsResolve
<1>6. Grows
    BY <1>1, <1>2 DEF Grows, Kept, IInv, ChangesetTypeOK
<1>7. \A q \in Clients : Held(q)'
    BY <1>1, <1>6, HeldStays DEF IInv
<1>8. ASSUME NEW e \in evaluations PROVE EvaluatedRightly(e)'
    <2>1. e.group \in Groups
        BY DEF IInv, ChangesetTypeOK
    <2>. QED BY <1>6, <2>1, EvaluatedStays DEF IInv
<1>. QED BY <1>1, <1>4, <1>5, <1>7, <1>8 DEF IInv

\* The integrated revision is its base but for the status.
LEMMA Marking ==
    ASSUME NEW g, NEW b \in ChangeSet(g), NEW c, c = [b EXCEPT !.status = "integrated"]
    PROVE  /\ c \in ChangeSet(g) /\ c.status = "integrated"
           /\ c.selects = b.selects /\ c.dependsOn = b.dependsOn
BY DEF ChangeSet

\* What is stored as integrated is what was evaluated.
LEMMA StoreIntegratedStep ==
    ASSUME IInv, NEW p \in Clients, StoreIntegrated(p)
    PROVE  IInv'
<1>0. PICK g, n, guarded, b :
          g = job[p].group /\ n = job[p].base /\ guarded = job[p].protected /\ b = changesets[g][n]
    OBVIOUS
<1>c. PICK c : c = [b EXCEPT !.status = "integrated"]
    OBVIOUS
<1> DEFINE e == [group |-> g, revision |-> n + 1, protected |-> guarded]
<1>1. UNCHANGED <<plans, stacks, published, restacked, exclusive>>
    BY DEF StoreIntegrated, forge
<1>2. /\ pc' \in [Clients -> Steps] /\ DOMAIN job' = Clients /\ pc'[p] = "idle" /\ Others(p)
    BY GotoFacts DEF StoreIntegrated, Stop, IInv, Steps
<1>3. /\ g \in Groups /\ n \in 1..Len(changesets[g]) /\ guarded \in BOOLEAN
      /\ job[p].read[g] = b /\ b.status = "active"
      /\ \A s \in g : /\ <<s, stacks[s][b.selects[s]]>> \in published
                      /\ guarded => plans[s][stacks[s][b.selects[s]]]
    <2>1. IntegrationHeld(p) /\ pc[p] = "integrate"
        BY DEF StoreIntegrated, IInv, Held
    <2>. QED BY <1>0, <2>1 DEF IntegrationHeld, Integrating, Checked, Base, BaseDecision
<1>4. /\ changesets[g] \in Seq(ChangeSet(g)) /\ Len(changesets[g]) \in Nat
      /\ Len(changesets[g]) <= MaxRevision
      /\ b \in ChangeSet(g)
    <2>1. changesets[g] \in Seq(ChangeSet(g)) /\ Len(changesets[g]) <= MaxRevision
        BY <1>3 DEF IInv, ChangesetTypeOK
    <2>2. n \in 1..Len(changesets[g]) /\ b = changesets[g][n]
        BY <1>0, <1>3
    <2>. QED BY <2>1, <2>2
<1>5. /\ c \in ChangeSet(g) /\ c.status = "integrated"
      /\ c.selects = b.selects /\ c.dependsOn = b.dependsOn
    BY <1>4, <1>c, Marking
<1>6. \A s \in g : c.selects[s] \in 1..Len(stacks[s])
    BY <1>0, <1>3, <1>5 DEF IInv, DocumentsResolve
<1>7. /\ n < MaxRevision
      /\ IF Len(changesets[g]) = n
         THEN changesets' = [changesets EXCEPT ![g] = Append(@, c)]
         ELSE changesets[g][n + 1] = c /\ UNCHANGED changesets
      /\ evaluations' = evaluations \cup {e}
    BY <1>0, <1>3, <1>c DEF StoreIntegrated, Evaluation
<1>8. /\ DOMAIN changesets' = Groups
      /\ \A h \in Groups : changesets'[h] \in Seq(ChangeSet(h)) /\ Len(changesets'[h]) <= MaxRevision
      /\ Kept(changesets, Groups)
      /\ DocumentsResolve'
      /\ n + 1 \in 2..Len(changesets'[g])
      /\ changesets'[g][n + 1] = c /\ changesets'[g][n] = b
    <2>1. CASE Len(changesets[g]) = n
        <3>1. changesets' = [changesets EXCEPT ![g] = Append(@, c)] /\ Len(changesets[g]) < MaxRevision
            BY <1>7, <2>1
        <3>2. /\ DOMAIN changesets' = Groups
              /\ \A h \in Groups : changesets'[h] \in Seq(ChangeSet(h)) /\ Len(changesets'[h]) <= MaxRevision
              /\ Kept(changesets, Groups)
              /\ changesets'[g] = Append(changesets[g], c)
              /\ DocumentsResolve'
            BY <1>1, <1>3, <1>5, <1>6, <3>1, Storing DEF IInv
        <3>3. /\ Len(changesets'[g]) = n + 1
              /\ changesets'[g][n + 1] = c /\ changesets'[g][n] = b
            <4>1. /\ Len(Append(changesets[g], c)) = Len(changesets[g]) + 1
                  /\ \A i \in 1..Len(changesets[g]) : Append(changesets[g], c)[i] = changesets[g][i]
                  /\ Append(changesets[g], c)[Len(changesets[g]) + 1] = c
                BY <1>4, <1>5, AppendFacts
            <4>. QED BY <1>0, <1>3, <2>1, <3>2, <4>1
        <3>. QED BY <1>3, <1>4, <3>2, <3>3
    <2>2. CASE Len(changesets[g]) # n
        <3>1. UNCHANGED changesets /\ changesets[g][n + 1] = c
            BY <1>7, <2>2
        <3>2. n + 1 \in 2..Len(changesets[g])
            BY <1>3, <1>4, <2>2
        <3>. QED BY <1>0, <1>1, <3>1, <3>2 DEF IInv, ChangesetTypeOK, DocumentsResolve, Kept
    <2>. QED BY <2>1, <2>2
<1>9. n + 1 \in 1..MaxRevision
    BY <1>3, <1>4, <1>7, BoundAssumption
<1>10. e \in [group : Groups, revision : 1..MaxRevision, protected : BOOLEAN]
    BY <1>3, <1>9
<1>11. ChangesetTypeOK'
    BY <1>1, <1>2, <1>7, <1>8, <1>10 DEF IInv, ChangesetTypeOK
<1>12. Grows
    BY <1>1, <1>8 DEF Grows, Kept, IInv, ChangesetTypeOK
<1>13. \A q \in Clients : Held(q)'
    BY <1>2, <1>12, HeldStays, IdleHeld DEF IInv, Others
<1>14. EvaluatedRightly(e)'
    <2>1. (n + 1) - 1 = n
        BY <1>3, <1>4
    <2>2. /\ changesets'[e.group][e.revision] = c
          /\ changesets'[e.group][e.revision - 1] = b
          /\ e.revision \in 2..Len(changesets'[e.group])
        BY <1>8, <2>1
    <2>3. \A s \in g : LET d == stacks'[s][c.selects[s]] IN
                       <<s, d>> \in published' /\ (guarded => plans'[s][d])
        BY <1>1, <1>3, <1>5
    <2>. QED BY <1>3, <1>5, <2>2, <2>3 DEF EvaluatedRightly, DecisionOf
<1>15. ASSUME NEW x \in evaluations PROVE EvaluatedRightly(x)'
    <2>1. x.group \in Groups
        BY DEF IInv, ChangesetTypeOK
    <2>. QED BY <1>12, <2>1, EvaluatedStays DEF IInv
<1>. QED BY <1>7, <1>8, <1>11, <1>13, <1>14, <1>15 DEF IInv

-----------------------------------------------------------------------------
\* The invariant holds of empty histories.
LEMMA Initially == ChangesetInit => IInv
<1>. SUFFICES ASSUME ChangesetInit PROVE IInv
    OBVIOUS
<1>1. /\ plans \in [Stacks -> Seq(BOOLEAN)] /\ stacks \in [Stacks -> Seq(Decisions)]
      /\ \A s \in Stacks : Len(plans[s]) = 0 /\ Len(stacks[s]) = 0
      /\ DOMAIN changesets = Groups
      /\ \A g \in Groups : changesets[g] \in Seq(ChangeSet(g)) /\ Len(changesets[g]) = 0
    BY DEF ChangesetInit
<1>2. ChangesetTypeOK
    BY <1>1, BoundAssumption DEF ChangesetInit, ChangesetTypeOK, Steps
<1>3. DocumentsResolve
    BY <1>1 DEF DocumentsResolve
<1>4. \A p \in Clients : Held(p)
    BY DEF ChangesetInit, Held, DecisionHeld, CreationHeld, IntegrationHeld, Creating, Integrating, Checked
<1>5. evaluations = {}
    BY DEF ChangesetInit
<1>. QED BY <1>2, <1>3, <1>4, <1>5 DEF IInv

\* Every step preserves the invariant.
LEMMA Inductive == IInv /\ [ChangesetNext]_changesetVars => IInv'
<1>. SUFFICES ASSUME IInv, [ChangesetNext]_changesetVars PROVE IInv'
    OBVIOUS
<1>1. CASE UNCHANGED changesetVars
    <2>1. UNCHANGED <<plans, stacks, changesets, published, restacked, pc, job, evaluations, exclusive>>
        BY <1>1 DEF changesetVars, documents, forge
    <2>2. ChangesetTypeOK' /\ DocumentsResolve'
        BY <2>1 DEF IInv, ChangesetTypeOK, DocumentsResolve
    <2>3. Grows
        BY <2>1 DEF Grows, Kept, IInv, ChangesetTypeOK
    <2>4. \A p \in Clients : Held(p)'
        BY <2>1, <2>3, HeldStays DEF IInv
    <2>5. ASSUME NEW e \in evaluations PROVE EvaluatedRightly(e)'
        <3>1. e.group \in Groups
            BY DEF IInv, ChangesetTypeOK
        <3>. QED BY <2>3, <3>1, EvaluatedStays DEF IInv
    <2>. QED BY <2>1, <2>2, <2>4, <2>5 DEF IInv
<1>2. ASSUME NEW p \in Clients, NEW s \in Stacks, Decide(p, s) PROVE IInv'
    BY <1>2, DecideStep
<1>3. ASSUME NEW p \in Clients, NEW g \in Groups, StartCreate(p, g) \/ StartIntegrate(p, g)
      PROVE  IInv'
    BY <1>3, StartCreateStep, StartIntegrateStep
<1>4. ASSUME NEW p \in Clients, Bind(p) \/ Regroup(p) \/ CheckDependencies(p) \/ StoreCreated(p)
      PROVE  IInv'
    BY <1>4, BindStep, RegroupStep, CheckDependenciesStep, StoreCreatedStep
<1>5. ASSUME NEW p \in Clients,
             ReadDependency(p) \/ CheckOrder(p) \/ CheckReadiness(p) \/ Evaluate(p)
                 \/ StoreIntegrated(p)
      PROVE  IInv'
    BY <1>5, ReadDependencyStep, CheckOrderStep, CheckReadinessStep, EvaluateStep,
       StoreIntegratedStep
<1>6. ASSUME NEW p \in Clients, Abort(p) PROVE IInv'
    BY <1>6, AbortStep
<1>7. ASSUME NEW s \in Stacks, PublishReview(s) \/ ProjectReview(s) PROVE IInv'
    BY <1>7, ForgeStep
<1>. QED BY <1>1, <1>2, <1>3, <1>4, <1>5, <1>6, <1>7 DEF ChangesetNext

\* What the strengthening is for.
LEMMA Strong == IInv => ChangesetTypeOK /\ IntegratedWasEvaluated
BY DEF IInv, EvaluatedRightly, IntegratedWasEvaluated

\* The documents, what each command carries and the integrations recorded keep
\* their types, through any decisions, creations, integrations, restacks and
\* aborted commands.
THEOREM ChangesetTypeCorrect == ChangesetSpec => []ChangesetTypeOK
<1>1. ChangesetSpec => []IInv
    BY Initially, Inductive, PTL DEF ChangesetSpec
<1>. QED BY <1>1, Strong, PTL

\* integrate --changeset marks exactly what it evaluated, for any number of
\* stacks, changesets and concurrent commands.
THEOREM OnlyEvaluatedIntegrates == ChangesetSpec => []IntegratedWasEvaluated
<1>1. ChangesetSpec => []IInv
    BY Initially, Inductive, PTL DEF ChangesetSpec
<1>. QED BY <1>1, Strong, PTL

-----------------------------------------------------------------------------
(* One command at a time: nothing an integration read is revised under it. *)

Sole == exclusive => \A p, q \in Clients : pc[p] # "idle" /\ pc[q] # "idle" => p = q

Fresh(p) ==
    exclusive /\ pc[p] \in Integrating =>
        /\ job[p].base = Len(changesets[job[p].group])
        /\ DOMAIN job[p].read \subseteq Groups
        /\ \A h \in DOMAIN job[p].read : LatestChangeset(h) = {job[p].read[h]}
        /\ pc[p] # "closure" =>
              \A d \in job[p].read[job[p].group].dependsOn :
                  d \in DOMAIN job[p].read /\ job[p].read[d].status = "integrated"

SInv == IInv /\ Sole /\ \A p \in Clients : Fresh(p)

\* The step of a client that is at work or may start to be.
Moves(p) ==
    /\ pc[p] # "idle" \/ MayStart(p)
    /\ Others(p)
    /\ UNCHANGED exclusive

\* Every step is one client's and leaves what the others hold.
LEMMA StepMoves ==
    ASSUME IInv, NEW p \in Clients,
           \/ \E s \in Stacks : Decide(p, s)
           \/ \E g \in Groups : StartCreate(p, g) \/ StartIntegrate(p, g)
           \/ Bind(p) \/ Regroup(p) \/ CheckDependencies(p) \/ StoreCreated(p)
           \/ ReadDependency(p) \/ CheckOrder(p) \/ CheckReadiness(p) \/ Evaluate(p)
           \/ StoreIntegrated(p) \/ Abort(p)
    PROVE  Moves(p)
<1>1. (pc[p] # "idle" \/ MayStart(p)) /\ UNCHANGED exclusive
    BY DEF Decide, StartCreate, StartIntegrate, Bind, Regroup, CheckDependencies, StoreCreated,
           ReadDependency, CheckOrder, CheckReadiness, Evaluate, StoreIntegrated, Abort
<1>2. \E step, carries : Goto(p, step, carries)
    BY DEF Decide, StartCreate, StartIntegrate, Bind, Regroup, CheckDependencies, StoreCreated,
           ReadDependency, CheckOrder, CheckReadiness, Evaluate, StoreIntegrated, Abort, Stop
<1>3. Others(p)
    BY <1>2 DEF Goto, Others, IInv, ChangesetTypeOK
<1>. QED BY <1>1, <1>3 DEF Moves

\* Then nobody else is integrating, if one command runs at a time.
LEMMA SoleStays ==
    ASSUME Sole, NEW p \in Clients, Moves(p)
    PROVE  Sole' /\ \A q \in Clients \ {p} : Fresh(q)'
<1>1. ASSUME exclusive, NEW q \in Clients \ {p} PROVE pc'[q] = "idle"
    BY <1>1 DEF Sole, Moves, MayStart, Others
<1>2. Sole'
    BY <1>1 DEF Sole, Moves
<1>3. \A q \in Clients \ {p} : Fresh(q)'
    BY <1>1 DEF Fresh, Moves, Integrating
<1>. QED BY <1>2, <1>3

\* A command alone begins with the newest revision.
LEMMA FreshStart ==
    ASSUME SInv, NEW p \in Clients, NEW g \in Groups, StartIntegrate(p, g)
    PROVE  Fresh(p)'
<1>1. PICK c \in LatestChangeset(g), onProtected \in BOOLEAN :
          Goto(p, "closure", [group |-> g, base |-> Len(changesets[g]),
                              protected |-> onProtected, read |-> [h \in {g} |-> c]])
    BY DEF StartIntegrate
<1>2. /\ pc'[p] = "closure"
      /\ job'[p] = [group |-> g, base |-> Len(changesets[g]),
                    protected |-> onProtected, read |-> [h \in {g} |-> c]]
    BY <1>1, GotoFacts DEF SInv, IInv, Steps
<1>3. /\ job'[p].group = g /\ job'[p].base = Len(changesets[g])
      /\ job'[p].read = [h \in {g} |-> c]
    BY <1>2
<1>4. UNCHANGED changesets
    BY DEF StartIntegrate, documents
<1>5. LatestChangeset(g)' = {c}
    BY <1>4 DEF LatestChangeset
<1>. QED BY <1>2, <1>3, <1>4, <1>5 DEF Fresh

\* A command alone reads dependencies that stay the newest.
LEMMA FreshRead ==
    ASSUME SInv, NEW p \in Clients, ReadDependency(p), exclusive
    PROVE  Fresh(p)'
<1>0. PICK d \in Unread(p) : \E c \in LatestChangeset(d) :
          Goto(p, "closure",
               [job[p] EXCEPT !.read = [h \in DOMAIN @ \cup {d} |-> IF h = d THEN c ELSE @[h]]])
    BY DEF ReadDependency
<1>1. PICK c \in LatestChangeset(d) :
          Goto(p, "closure",
               [job[p] EXCEPT !.read = [h \in DOMAIN @ \cup {d} |-> IF h = d THEN c ELSE @[h]]])
    BY <1>0
<1>2. PICK r : r = [h \in DOMAIN job[p].read \cup {d} |-> IF h = d THEN c ELSE job[p].read[h]]
    OBVIOUS
<1>3. IntegrationHeld(p) /\ Fresh(p) /\ pc[p] = "closure"
    BY DEF ReadDependency, SInv, IInv, Held
<1>4. /\ pc'[p] = "closure"
      /\ job'[p].group = job[p].group /\ job'[p].base = job[p].base /\ job'[p].read = r
    <2>1. pc'[p] = "closure" /\ job'[p] = [job[p] EXCEPT !.read = r]
        BY <1>1, <1>2, GotoFacts DEF SInv, IInv, Steps
    <2>2. job[p] = [group |-> job[p].group, base |-> job[p].base,
                    protected |-> job[p].protected, read |-> job[p].read]
        BY <1>3 DEF IntegrationHeld, Integrating
    <2>. QED BY <2>1, <2>2
<1>5. UNCHANGED changesets
    BY DEF ReadDependency, documents
<1>6. /\ DOMAIN job[p].read \subseteq Groups
      /\ \A h \in DOMAIN job[p].read : LatestChangeset(h) = {job[p].read[h]}
      /\ job[p].base = Len(changesets[job[p].group])
    BY <1>3 DEF Fresh, Integrating
<1>7. d \in Groups
    <2>1. PICK h \in DOMAIN job[p].read : d \in job[p].read[h].dependsOn
        BY DEF Unread
    <2>2. h \in Groups /\ changesets[h] \in Seq(ChangeSet(h)) /\ changesets[h] # <<>>
          /\ job[p].read[h] = Last(changesets[h])
        BY <1>6 DEF LatestChangeset, SInv, IInv, ChangesetTypeOK
    <2>3. job[p].read[h] \in ChangeSet(h)
        BY <2>2 DEF Last
    <2>. QED BY <2>1, <2>3 DEF ChangeSet
<1>8. DOMAIN r \subseteq Groups /\ \A h \in DOMAIN r : LatestChangeset(h) = {r[h]}
    BY <1>2, <1>6, <1>7 DEF LatestChangeset
<1>. QED BY <1>4, <1>5, <1>6, <1>8 DEF Fresh, LatestChangeset

\* The checks: a changeset does not depend on itself, so each of its
\* dependencies is one of those found to be integrated.
LEMMA FreshCheck ==
    ASSUME SInv, NEW p \in Clients, exclusive, CheckOrder(p) \/ CheckReadiness(p) \/ Evaluate(p)
    PROVE  Fresh(p)'
<1>1. /\ pc'[p] \in Integrating \ {"closure"} /\ job'[p] = job[p]
      /\ UNCHANGED changesets
    BY CheckingKeeps DEF SInv, CheckOrder, CheckReadiness, Evaluate, Steps, Integrating
<1>2. Fresh(p) /\ pc[p] \in Integrating
    BY DEF SInv, CheckOrder, CheckReadiness, Evaluate, Integrating
<1>3. \A d \in job[p].read[job[p].group].dependsOn :
          d \in DOMAIN job[p].read /\ job[p].read[d].status = "integrated"
    <2>1. CASE pc[p] # "closure"
        BY <1>2, <2>1 DEF Fresh
    <2>2. CASE pc[p] = "closure"
        <3>1. /\ Unread(p) = {}
              /\ \A d \in Dependencies(p) : job[p].read[d].status = "integrated"
            BY <2>2 DEF CheckOrder, CheckReadiness, Evaluate
        <3>2. /\ job[p].group \in Groups /\ job[p].group \in DOMAIN job[p].read
              /\ job[p].base \in 1..Len(changesets[job[p].group])
              /\ job[p].read[job[p].group] = changesets[job[p].group][job[p].base]
            BY <1>2 DEF SInv, IInv, Held, IntegrationHeld, Base
        <3>3. job[p].read[job[p].group] \in ChangeSet(job[p].group)
            BY <3>2 DEF SInv, IInv, ChangesetTypeOK
        <3>4. \A d \in job[p].read[job[p].group].dependsOn : d # job[p].group
            BY <3>3 DEF ChangeSet
        <3>5. \A d \in job[p].read[job[p].group].dependsOn : d \in DOMAIN job[p].read
            BY <3>1, <3>2 DEF Unread
        <3>. QED BY <3>1, <3>4, <3>5 DEF Dependencies
    <2>. QED BY <2>1, <2>2
<1>. QED BY <1>1, <1>2, <1>3 DEF Fresh, LatestChangeset

\* The invariant of one command at a time holds initially.
LEMMA SInitially == ChangesetInit => SInv
BY Initially DEF ChangesetInit, SInv, Sole, Fresh, Integrating

\* Every step preserves the invariant of one command at a time.
LEMMA SInductive == SInv /\ [ChangesetNext]_changesetVars => SInv'
<1>. SUFFICES ASSUME SInv, [ChangesetNext]_changesetVars PROVE SInv'
    OBVIOUS
<1>1. IInv'
    BY Inductive DEF SInv
<1>2. CASE UNCHANGED <<changesets, pc, job, exclusive>>
    BY <1>1, <1>2 DEF SInv, Sole, Fresh, LatestChangeset
<1>3. ASSUME NEW p \in Clients,
             \/ \E s \in Stacks : Decide(p, s)
             \/ \E g \in Groups : StartCreate(p, g) \/ StartIntegrate(p, g)
             \/ Bind(p) \/ Regroup(p) \/ CheckDependencies(p) \/ StoreCreated(p)
             \/ ReadDependency(p) \/ CheckOrder(p) \/ CheckReadiness(p) \/ Evaluate(p)
             \/ StoreIntegrated(p) \/ Abort(p)
      PROVE  SInv'
    <2>1. Moves(p)
        BY <1>3, StepMoves DEF SInv
    <2>2. Sole' /\ \A q \in Clients \ {p} : Fresh(q)'
        BY <2>1, SoleStays DEF SInv
    <2>3. CASE \/ \E s \in Stacks : Decide(p, s)
               \/ \E g \in Groups : StartCreate(p, g)
               \/ Bind(p) \/ Regroup(p) \/ CheckDependencies(p) \/ StoreCreated(p)
               \/ StoreIntegrated(p) \/ Abort(p)
        <3>1. pc'[p] \notin Integrating
            BY <2>3 DEF SInv, IInv, ChangesetTypeOK, Decide, StartCreate, Bind, Regroup,
                        CheckDependencies, StoreCreated, StoreIntegrated, Abort, Stop, Goto,
                        Integrating
        <3>. QED BY <1>1, <2>2, <3>1 DEF SInv, Fresh
    <2>4. CASE \E g \in Groups : StartIntegrate(p, g)
        BY <1>1, <2>2, <2>4, FreshStart DEF SInv
    <2>5. CASE ReadDependency(p) \/ CheckOrder(p) \/ CheckReadiness(p) \/ Evaluate(p)
        <3>1. CASE exclusive
            BY <1>1, <2>2, <2>5, <3>1, FreshRead, FreshCheck DEF SInv
        <3>2. CASE ~exclusive
            <4>1. ~exclusive'
                BY <2>1, <3>2 DEF Moves
            <4>. QED BY <1>1, <2>2, <4>1 DEF SInv, Fresh
        <3>. QED BY <3>1, <3>2
    <2>. QED BY <1>3, <2>3, <2>4, <2>5
<1>4. ASSUME NEW s \in Stacks, PublishReview(s) \/ ProjectReview(s) PROVE SInv'
    BY <1>2, <1>4 DEF PublishReview, ProjectReview, documents
<1>5. CASE UNCHANGED changesetVars
    BY <1>2, <1>5 DEF changesetVars, documents
<1>. QED BY <1>3, <1>4, <1>5 DEF ChangesetNext

\* What is stored as integrated has dependencies that are integrated.
LEMMA AfterDependencies ==
    ASSUME SInv, [ChangesetNext]_changesetVars, exclusive, NEW g \in Groups,
           changesets'[g] # changesets[g], Last(changesets'[g]).status = "integrated",
           NEW d \in Last(changesets'[g]).dependsOn
    PROVE  Integrated(d)
<1>1. ASSUME NEW h \in Groups, NEW c \in ChangeSet(h), c.status = "active", StoreRevision(h, c)
      PROVE  FALSE
    <2>1. /\ changesets' = [changesets EXCEPT ![h] = Append(@, c)]
          /\ DOMAIN changesets = Groups
        BY <1>1 DEF StoreRevision, SInv, IInv, ChangesetTypeOK
    <2>2. h = g /\ changesets'[g] = Append(changesets[g], c)
        BY <2>1
    <2>3. changesets[g] \in Seq(ChangeSet(g))
        BY DEF SInv, IInv, ChangesetTypeOK
    <2>4. Last(changesets'[g]) = c
        BY <1>1, <2>2, <2>3, AppendFacts DEF Last
    <2>. QED BY <1>1, <2>4
<1>2. ASSUME NEW p \in Clients, Regroup(p) PROVE FALSE
    <2> DEFINE h == {job[p].stack}
               c == [selects |-> [s \in h |-> job[p].revision], dependsOn |-> {}, status |-> "active"]
    <2>1. job[p].stack \in Stacks /\ job[p].revision \in 1..Len(stacks[job[p].stack])
        BY <1>2 DEF Regroup, SInv, IInv, Held, DecisionHeld
    <2>2. Len(stacks[job[p].stack]) \in Nat
        BY <2>1 DEF SInv, IInv, ChangesetTypeOK
    <2>3. h \in Groups /\ c \in ChangeSet(h) /\ c.status = "active"
        BY <2>1, <2>2, GroupAssumption DEF ChangeSet, Selection
    <2>. QED BY <1>1, <1>2, <2>3 DEF Regroup
<1>3. ASSUME NEW p \in Clients, StoreCreated(p) PROVE FALSE
    <2>1. /\ job[p].group \in Groups /\ job[p].content \in ChangeSet(job[p].group)
          /\ job[p].content.status = "active"
        BY <1>3 DEF StoreCreated, SInv, IInv, Held, CreationHeld, Creating
    <2>. QED BY <1>1, <1>3, <2>1 DEF StoreCreated
<1>4. PICK p \in Clients : StoreIntegrated(p)
    BY <1>2, <1>3
    DEF ChangesetNext, changesetVars, documents, Decide, StartCreate, StartIntegrate, Bind,
        CheckDependencies, ReadDependency, CheckOrder, CheckReadiness, Evaluate, Abort,
        PublishReview, ProjectReview
<1>5. PICK h, b : h = job[p].group /\ b = job[p].read[h]
    OBVIOUS
<1>6. PICK c : c = [b EXCEPT !.status = "integrated"]
    OBVIOUS
<1>7. /\ job[p].base = Len(changesets[h])
      /\ \A x \in DOMAIN job[p].read : LatestChangeset(x) = {job[p].read[x]}
      /\ \A x \in b.dependsOn : x \in DOMAIN job[p].read /\ job[p].read[x].status = "integrated"
    BY <1>4, <1>5 DEF StoreIntegrated, SInv, Fresh, Integrating
<1>8. /\ h \in Groups
      /\ h \in DOMAIN job[p].read
    BY <1>4, <1>5 DEF StoreIntegrated, SInv, IInv, Held, IntegrationHeld, Integrating
<1>9. b \in ChangeSet(h)
    <2>1. b = changesets[h][job[p].base] /\ job[p].base \in 1..Len(changesets[h])
        BY <1>4, <1>5 DEF StoreIntegrated, SInv, IInv, Held, IntegrationHeld, Integrating, Base
    <2>2. changesets[h] \in Seq(ChangeSet(h))
        BY <1>8 DEF SInv, IInv, ChangesetTypeOK
    <2>. QED BY <2>1, <2>2
<1>10. c \in ChangeSet(h) /\ c.dependsOn = b.dependsOn
    BY <1>6, <1>9, Marking
<1>11. /\ changesets' = [changesets EXCEPT ![h] = Append(@, c)]
       /\ DOMAIN changesets = Groups
    BY <1>4, <1>5, <1>6, <1>7 DEF StoreIntegrated, SInv, IInv, ChangesetTypeOK
<1>12. h = g /\ changesets'[g] = Append(changesets[g], c)
    BY <1>11
<1>13. Last(changesets'[g]) = c
    <2>1. changesets[g] \in Seq(ChangeSet(g)) /\ c \in ChangeSet(g)
        BY <1>10, <1>12 DEF SInv, IInv, ChangesetTypeOK
    <2>. QED BY <1>12, <2>1, AppendFacts DEF Last
<1>14. d \in b.dependsOn
    BY <1>10, <1>13
<1>. QED BY <1>7, <1>14 DEF Integrated

\* One command at a time: a changeset is integrated only once every changeset
\* it depends on is, and still is; for any set of changesets, whatever depends
\* on what.
THEOREM DeliveredAfterDependencies == ChangesetSpec => IntegratesAfterDependencies
<1>1. ChangesetSpec => []SInv
    BY SInitially, SInductive, PTL DEF ChangesetSpec
<1> DEFINE After == exclusive =>
        \A g \in Groups :
            changesets'[g] # changesets[g] /\ Last(changesets'[g]).status = "integrated" =>
                \A d \in Last(changesets'[g]).dependsOn : Integrated(d)
<1>2. SInv /\ [ChangesetNext]_changesetVars => [After]_changesetVars
    BY AfterDependencies
<1>. QED BY <1>1, <1>2, PTL DEF ChangesetSpec, IntegratesAfterDependencies

-----------------------------------------------------------------------------
(* Changesets never wait for one another in a circle.  Dependencies are checked *)
(* one by one against documents that others revise, so the argument is about    *)
(* what an integration that goes on may still come to wait for.                 *)

\* Read as integrated, but revised since.
Stale(p) ==
    {h \in DOMAIN job[p].read :
        job[p].read[h].status = "integrated" /\ LatestChangeset(h) # {job[p].read[h]}}

\* An integration that can still mark the newest revision of its changeset.
Pending(p, g) ==
    pc[p] \in Integrating /\ job[p].group = g /\ job[p].base = Len(changesets[g])

\* What an integrated changeset waits for, and what one that may become
\* integrated relies on without it being so any more.
Waits(g) ==
    {h \in Groups :
        \/ Integrated(g) /\ h \in Last(changesets[g]).dependsOn
        \/ \E p \in Clients : Pending(p, g) /\ h \in Stale(p)}

Acyclic == \A S \in SUBSET Groups : S # {} => \E g \in S : Waits(g) \cap S = {}

\* What an integration that found an order has read.
Read(p) ==
    pc[p] \in Integrating \ {"closure"} =>
        /\ Unread(p) = {}
        /\ Ordered(job[p].read)
        /\ \A d \in Dependencies(p) : job[p].read[d].status = "integrated"

CInv == IInv /\ (\A p \in Clients : Read(p)) /\ Acyclic

\* A group waits for no more than it did, but for groups that wait for nothing.
LEMMA FewerWaits ==
    ASSUME Acyclic,
           \A x, y \in Groups : y \in Waits(x)' => y \in Waits(x) \/ Waits(y)' = {}
    PROVE  Acyclic'
<1>. SUFFICES ASSUME NEW S \in SUBSET Groups, S # {}
              PROVE  \E g \in S : Waits(g)' \cap S = {}
    BY DEF Acyclic
<1>1. CASE \E g \in S : Waits(g)' = {}
    BY <1>1
<1>2. CASE \A g \in S : Waits(g)' # {}
    <2>1. PICK g \in S : Waits(g) \cap S = {}
        BY DEF Acyclic
    <2>. QED BY <1>2, <2>1
<1>. QED BY <1>1, <1>2

\* The newest revision of a changeset, and what appending one makes of it.
LEMMA Newest ==
    ASSUME ChangesetTypeOK, NEW g \in Groups
    PROVE  /\ Len(changesets[g]) \in Nat
           /\ Len(changesets[g]) = 0 => LatestChangeset(g) = {} /\ ~Integrated(g)
           /\ Len(changesets[g]) > 0 =>
                 /\ Last(changesets[g]) = changesets[g][Len(changesets[g])]
                 /\ LatestChangeset(g) = {changesets[g][Len(changesets[g])]}
                 /\ Integrated(g) <=> changesets[g][Len(changesets[g])].status = "integrated"
<1>1. changesets[g] \in Seq(ChangeSet(g))
    BY DEF ChangesetTypeOK
<1>2. Len(changesets[g]) \in Nat /\ (changesets[g] = <<>> <=> Len(changesets[g]) = 0)
    BY <1>1
<1>. QED BY <1>2 DEF LatestChangeset, Integrated, Last

\* An integration that can still mark the newest revision finds it active.
LEMMA PendingIsActive ==
    ASSUME IInv, NEW p \in Clients, NEW g \in Groups, Pending(p, g)
    PROVE  /\ ~Integrated(g)
           /\ LatestChangeset(g) = {job[p].read[g]} /\ job[p].read[g].status = "active"
<1>1. /\ job[p].group = g /\ job[p].base = Len(changesets[g])
      /\ job[p].base \in 1..Len(changesets[g])
      /\ job[p].read[g] = changesets[g][job[p].base]
      /\ changesets[g][job[p].base].status = "active"
    BY DEF Pending, IInv, Held, IntegrationHeld, Base
<1>2. Len(changesets[g]) \in Nat /\ Len(changesets[g]) > 0
    BY <1>1, Newest DEF IInv
<1>. QED BY <1>1, <1>2, Newest DEF IInv

\* A step that leaves the changesets alone, in which nothing that a client read
\* becomes stale.
LEMMA NothingStored ==
    ASSUME CInv, NEW p \in Clients, Others(p), UNCHANGED changesets,
           \A g, h \in Groups : Pending(p, g)' /\ h \in Stale(p)' => Pending(p, g) /\ h \in Stale(p)
    PROVE  Acyclic'
<1>1. ASSUME NEW q \in Clients, NEW g \in Groups, NEW h \in Groups,
             Pending(q, g)', h \in Stale(q)'
      PROVE  Pending(q, g) /\ h \in Stale(q)
    <2>1. CASE q = p
        BY <1>1, <2>1
    <2>2. CASE q # p
        <3>1. pc'[q] = pc[q] /\ job'[q] = job[q]
            BY <2>2 DEF Others
        <3>2. Pending(q, g)
            BY <1>1, <3>1 DEF Pending
        <3>3. h \in Stale(q)
            BY <1>1, <3>1 DEF Stale, LatestChangeset
        <3>. QED BY <3>2, <3>3
    <2>. QED BY <2>1, <2>2
<1>2. ASSUME NEW g \in Groups, NEW h \in Waits(g)' PROVE h \in Waits(g)
    <2>1. /\ h \in Groups
          /\ \/ Integrated(g)' /\ h \in Last(changesets'[g]).dependsOn
             \/ \E q \in Clients : Pending(q, g)' /\ h \in Stale(q)'
        BY <1>2 DEF Waits
    <2>2. (Integrated(g)' <=> Integrated(g)) /\ changesets'[g] = changesets[g]
        BY DEF Integrated, LatestChangeset
    <2>. QED BY <1>1, <2>1, <2>2 DEF Waits
<1>. QED BY <1>2, FewerWaits DEF CInv

\* Steps before and after which the client is not integrating.
LEMMA NotIntegrating ==
    ASSUME CInv, NEW p \in Clients, Others(p), UNCHANGED changesets, pc'[p] \notin Integrating
    PROVE  Acyclic'
<1>1. \A g \in Groups : ~Pending(p, g)'
    BY DEF Pending
<1>. QED BY <1>1, NothingStored

\* What a client has read stays read while it does not move.
LEMMA ReadStays ==
    ASSUME NEW q \in Clients, Read(q), pc'[q] = pc[q], job'[q] = job[q]
    PROVE  Read(q)'
BY DEF Read, Unread, Dependencies

\* A stored revision that is active: its changeset waits for nothing any more,
\* but integrations that read it as integrated now rely on what it was.
LEMMA ActiveStored ==
    ASSUME CInv, NEW p \in Clients, Others(p), pc'[p] = "idle",
           NEW g \in Groups, NEW c \in ChangeSet(g), c.status = "active", StoreRevision(g, c),
           ChangesetTypeOK'
    PROVE  Acyclic'
<1>1. CASE LatestChangeset(g) = {c}
    BY <1>1, NotIntegrating DEF StoreRevision, Integrating
<1>2. CASE LatestChangeset(g) # {c}
    <2>1. /\ changesets' = [changesets EXCEPT ![g] = Append(@, c)]
          /\ DOMAIN changesets = Groups /\ changesets[g] \in Seq(ChangeSet(g))
        BY <1>2 DEF StoreRevision, CInv, IInv, ChangesetTypeOK
    <2>2. /\ changesets'[g] = Append(changesets[g], c)
          /\ \A h \in Groups \ {g} : changesets'[h] = changesets[h]
        BY <2>1
    <2>3. /\ Len(changesets[g]) \in Nat /\ Len(changesets'[g]) = Len(changesets[g]) + 1
          /\ changesets'[g][Len(changesets[g]) + 1] = c
        BY <2>1, <2>2, AppendFacts
    <2>4. ~Integrated(g)'
        <3>1. changesets'[g] # <<>> /\ Last(changesets'[g]) = c
            BY <2>3 DEF Last
        <3>. QED BY <3>1 DEF Integrated, LatestChangeset
    <2>5. ASSUME NEW q \in Clients PROVE ~Pending(q, g)'
        <3>1. CASE q = p
            BY <3>1 DEF Pending, Integrating
        <3>2. CASE q # p
            <4>1. pc'[q] = pc[q] /\ job'[q] = job[q]
                BY <3>2 DEF Others
            <4>2. pc[q] \in Integrating /\ job[q].group = g => job[q].base \in 1..Len(changesets[g])
                BY DEF CInv, IInv, Held, IntegrationHeld
            <4>. QED BY <2>3, <4>1, <4>2 DEF Pending
        <3>. QED BY <3>1, <3>2
    <2>6. Waits(g)' = {}
        BY <2>4, <2>5 DEF Waits
    <2>7. ASSUME NEW x \in Groups \ {g}, NEW h \in Waits(x)', h # g PROVE h \in Waits(x)
        <3>1. /\ h \in Groups
              /\ \/ Integrated(x)' /\ h \in Last(changesets'[x]).dependsOn
                 \/ \E q \in Clients : Pending(q, x)' /\ h \in Stale(q)'
            BY <2>7 DEF Waits
        <3>2. CASE Integrated(x)' /\ h \in Last(changesets'[x]).dependsOn
            <4>1. changesets'[x] = changesets[x]
                BY <2>2
            <4>2. Integrated(x) /\ h \in Last(changesets[x]).dependsOn
                BY <3>2, <4>1 DEF Integrated, LatestChangeset
            <4>. QED BY <3>1, <4>2 DEF Waits
        <3>3. ASSUME NEW q \in Clients, Pending(q, x)', h \in Stale(q)' PROVE h \in Waits(x)
            <4>1. q # p
                BY <3>3 DEF Pending, Integrating
            <4>2. pc'[q] = pc[q] /\ job'[q] = job[q]
                BY <4>1 DEF Others
            <4>3. Pending(q, x)
                BY <2>2, <3>3, <4>2 DEF Pending
            <4>4. h \in Stale(q)
                BY <2>2, <2>7, <3>1, <3>3, <4>2 DEF Stale, LatestChangeset
            <4>. QED BY <3>1, <4>3, <4>4 DEF Waits
        <3>. QED BY <3>1, <3>2, <3>3
    <2>8. ASSUME NEW x \in Groups, NEW y \in Groups, y \in Waits(x)'
          PROVE  y \in Waits(x) \/ Waits(y)' = {}
        BY <2>6, <2>7, <2>8
    <2>. QED BY <2>8, FewerWaits DEF CInv
<1>. QED BY <1>1, <1>2

-----------------------------------------------------------------------------
\* Where Read and Acyclic hold for the others, they need to hold for the client.
LEMMA ReadOfOthers ==
    ASSUME CInv, NEW p \in Clients, Others(p), Read(p)'
    PROVE  \A q \in Clients : Read(q)'
BY ReadStays DEF CInv, Others

\* An integration that begins relies on nothing yet: all it read is its own changeset.
LEMMA AcyclicStart ==
    ASSUME CInv, NEW p \in Clients, NEW g \in Groups, StartIntegrate(p, g)
    PROVE  Acyclic' /\ Read(p)'
<1>1. PICK c \in LatestChangeset(g), onProtected \in BOOLEAN :
          /\ c.status = "active"
          /\ Goto(p, "closure", [group |-> g, base |-> Len(changesets[g]),
                                 protected |-> onProtected, read |-> [h \in {g} |-> c]])
    BY DEF StartIntegrate
<1>2. /\ pc'[p] = "closure" /\ Others(p)
      /\ job'[p] = [group |-> g, base |-> Len(changesets[g]),
                    protected |-> onProtected, read |-> [h \in {g} |-> c]]
    BY <1>1, GotoFacts DEF CInv, IInv, Steps
<1>3. job'[p].read = [h \in {g} |-> c]
    BY <1>2
<1>4. UNCHANGED changesets
    BY DEF StartIntegrate, documents
<1>5. \A h : h \notin Stale(p)'
    BY <1>1, <1>3 DEF Stale
<1>. QED BY <1>2, <1>4, <1>5, NothingStored DEF Read

\* A dependency is the newest when it is read, so it is not relied on as a stale one.
LEMMA AcyclicRead ==
    ASSUME CInv, NEW p \in Clients, ReadDependency(p)
    PROVE  Acyclic' /\ Read(p)'
<1>0. PICK d \in Unread(p) : \E c \in LatestChangeset(d) :
          Goto(p, "closure",
               [job[p] EXCEPT !.read = [h \in DOMAIN @ \cup {d} |-> IF h = d THEN c ELSE @[h]]])
    BY DEF ReadDependency
<1>1. PICK c \in LatestChangeset(d) :
          Goto(p, "closure",
               [job[p] EXCEPT !.read = [h \in DOMAIN @ \cup {d} |-> IF h = d THEN c ELSE @[h]]])
    BY <1>0
<1>2. PICK r : r = [h \in DOMAIN job[p].read \cup {d} |-> IF h = d THEN c ELSE job[p].read[h]]
    OBVIOUS
<1>3. pc[p] \in Integrating /\ IntegrationHeld(p) /\ UNCHANGED changesets
    BY DEF ReadDependency, CInv, IInv, Held, Integrating, documents
<1>4. /\ pc'[p] = "closure" /\ Others(p)
      /\ job'[p].group = job[p].group /\ job'[p].base = job[p].base /\ job'[p].read = r
    <2>1. pc'[p] = "closure" /\ Others(p) /\ job'[p] = [job[p] EXCEPT !.read = r]
        BY <1>1, <1>2, GotoFacts DEF CInv, IInv, Steps
    <2>2. job[p] = [group |-> job[p].group, base |-> job[p].base,
                    protected |-> job[p].protected, read |-> job[p].read]
        BY <1>3 DEF IntegrationHeld
    <2>. QED BY <2>1, <2>2
<1>5. LatestChangeset(d) = {c}
    BY <1>1 DEF LatestChangeset
<1>6. \A h : h \in Stale(p)' => h \in Stale(p)
    BY <1>2, <1>3, <1>4, <1>5 DEF Stale, LatestChangeset
<1>7. \A g \in Groups : Pending(p, g)' => Pending(p, g)
    BY <1>3, <1>4 DEF Pending
<1>. QED BY <1>3, <1>4, <1>6, <1>7, NothingStored DEF Read

\* The checks change nothing that waits.
LEMMA AcyclicCheck ==
    ASSUME CInv, NEW p \in Clients, CheckOrder(p) \/ CheckReadiness(p) \/ Evaluate(p)
    PROVE  Acyclic' /\ Read(p)'
<1>1. /\ job'[p] = job[p] /\ UNCHANGED changesets
      /\ pc[p] \in Integrating /\ pc'[p] \in Integrating
    BY CheckingKeeps DEF CInv, CheckOrder, CheckReadiness, Evaluate, Steps, Integrating
<1>2. Others(p)
    BY GotoFacts DEF CInv, IInv, Steps, CheckOrder, CheckReadiness, Evaluate
<1>3. \A g, h \in Groups : Pending(p, g)' /\ h \in Stale(p)' => Pending(p, g) /\ h \in Stale(p)
    BY <1>1 DEF Pending, Stale, LatestChangeset
<1>4. Acyclic'
    BY <1>1, <1>2, <1>3, NothingStored
<1>5. /\ Unread(p) = {} /\ Ordered(job[p].read)
      /\ \A d \in Dependencies(p) : job[p].read[d].status = "integrated"
    <2>1. CASE CheckOrder(p)
        BY <2>1 DEF CheckOrder
    <2>2. CASE CheckReadiness(p) \/ Evaluate(p)
        BY <2>2 DEF CInv, Read, CheckReadiness, Evaluate, Integrating
    <2>. QED BY <2>1, <2>2
<1>6. Read(p)'
    BY <1>1, <1>5 DEF Read, Unread, Dependencies
<1>. QED BY <1>4, <1>6

\* Marking closes no circle: the changeset would have to wait, through changesets
\* it was found to depend on and that are integrated as they were read, for
\* itself, but these were found to have an order; and through one that is not as
\* it was read, it waited for the rest of the circle before.
LEMMA AcyclicMark ==
    ASSUME CInv, NEW p \in Clients, StoreIntegrated(p), ChangesetTypeOK'
    PROVE  Acyclic' /\ Read(p)'
<1>0. pc'[p] = "idle" /\ Others(p)
    BY GotoFacts DEF StoreIntegrated, Stop, CInv, IInv, Steps
<1>1. Read(p)'
    BY <1>0 DEF Read, Integrating
<1>2. PICK g, r : g = job[p].group /\ r = job[p].read
    OBVIOUS
<1>3. PICK c : c = [r[g] EXCEPT !.status = "integrated"]
    OBVIOUS
<1>4. /\ g \in Groups /\ g \in DOMAIN r
      /\ job[p].base \in 1..Len(changesets[g])
      /\ r[g] = changesets[g][job[p].base]
      /\ pc[p] = "integrate"
    BY <1>2 DEF StoreIntegrated, CInv, IInv, Held, IntegrationHeld, Base, Integrating
<1>5. /\ DOMAIN changesets = Groups /\ changesets[g] \in Seq(ChangeSet(g))
      /\ r[g] \in ChangeSet(g)
    BY <1>4 DEF CInv, IInv, ChangesetTypeOK
<1>6. c \in ChangeSet(g) /\ c.status = "integrated" /\ c.dependsOn = r[g].dependsOn
    BY <1>3, <1>5, Marking
<1>7. CASE Len(changesets[g]) # job[p].base
    <2>1. UNCHANGED changesets
        BY <1>2, <1>7 DEF StoreIntegrated
    <2>. QED BY <1>0, <1>1, <2>1, NotIntegrating DEF Integrating
<1>8. CASE Len(changesets[g]) = job[p].base
    <2>1. changesets' = [changesets EXCEPT ![g] = Append(@, c)]
        BY <1>2, <1>3, <1>8 DEF StoreIntegrated
    <2>2. /\ changesets'[g] = Append(changesets[g], c)
          /\ \A h \in Groups \ {g} : changesets'[h] = changesets[h]
        BY <1>4, <1>5, <2>1
    <2>3. /\ Len(changesets[g]) \in Nat /\ Len(changesets'[g]) = Len(changesets[g]) + 1
          /\ changesets'[g][Len(changesets[g]) + 1] = c
        BY <1>5, <1>6, <2>2, AppendFacts
    <2>4. Last(changesets'[g]) = c
        BY <2>3 DEF Last
    <2>5. Pending(p, g)
        BY <1>2, <1>4, <1>8 DEF Pending, Integrating
    <2>6. LatestChangeset(g) = {r[g]} /\ r[g].status = "active"
        BY <1>2, <1>4, <2>5, PendingIsActive DEF CInv
    <2>7. ASSUME NEW x \in Groups \ {g}, NEW h \in Waits(x)' PROVE h \in Waits(x)
        <3>1. /\ h \in Groups
              /\ \/ Integrated(x)' /\ h \in Last(changesets'[x]).dependsOn
                 \/ \E q \in Clients : Pending(q, x)' /\ h \in Stale(q)'
            BY <2>7 DEF Waits
        <3>2. CASE Integrated(x)' /\ h \in Last(changesets'[x]).dependsOn
            <4>1. changesets'[x] = changesets[x]
                BY <2>2
            <4>2. Integrated(x) /\ h \in Last(changesets[x]).dependsOn
                BY <3>2, <4>1 DEF Integrated, LatestChangeset
            <4>. QED BY <3>1, <4>2 DEF Waits
        <3>3. ASSUME NEW q \in Clients, Pending(q, x)', h \in Stale(q)' PROVE h \in Waits(x)
            <4>1. pc'[q] = pc[q] /\ job'[q] = job[q]
                BY <1>0, <3>3 DEF Pending, Integrating, Others
            <4>2. Pending(q, x)
                BY <2>2, <3>3, <4>1 DEF Pending
            <4>3. h \in Stale(q)
                <5>1. CASE h = g
                    BY <2>6, <3>3, <4>1, <5>1 DEF Stale
                <5>2. CASE h # g
                    BY <2>2, <3>1, <3>3, <4>1, <5>2 DEF Stale, LatestChangeset
                <5>. QED BY <5>1, <5>2
            <4>. QED BY <3>1, <4>2, <4>3 DEF Waits
        <3>. QED BY <3>1, <3>2, <3>3
    <2>8. ASSUME NEW h \in Waits(g)' PROVE h \in r[g].dependsOn
        <3>1. ASSUME NEW q \in Clients PROVE ~Pending(q, g)'
            <4>1. CASE q = p
                BY <1>0, <4>1 DEF Pending, Integrating
            <4>2. CASE q # p
                <5>1. pc'[q] = pc[q] /\ job'[q] = job[q]
                    BY <1>0, <4>2 DEF Others
                <5>2. pc[q] \in Integrating /\ job[q].group = g =>
                          job[q].base \in 1..Len(changesets[g])
                    BY DEF CInv, IInv, Held, IntegrationHeld
                <5>. QED BY <2>3, <5>1, <5>2 DEF Pending
            <4>. QED BY <4>1, <4>2
        <3>2. h \in Last(changesets'[g]).dependsOn
            BY <2>8, <3>1 DEF Waits
        <3>. QED BY <1>6, <2>4, <3>2
    <2>9. /\ \A h \in DOMAIN r : r[h].dependsOn \subseteq DOMAIN r
          /\ Ordered(r)
          /\ \A h \in DOMAIN r \ {g} : r[h].status = "integrated"
        BY <1>2, <1>4 DEF CInv, Read, Unread, Dependencies, Integrating
    <2>10. ASSUME NEW S \in SUBSET Groups, S # {}, \A x \in S : Waits(x)' \cap S # {}
           PROVE  FALSE
        <3>1. \A x \in S \ {g} : Waits(x) \cap S # {}
            BY <2>7, <2>10
        <3>2. g \in S /\ Waits(g) \cap S = {}
            BY <2>10, <3>1 DEF CInv, Acyclic
        <3>3. ASSUME NEW h \in S \cap DOMAIN r, h # g
              PROVE  Waits(h) \subseteq r[h].dependsOn
            <4>1. h \notin Stale(p)
                BY <1>4, <2>5, <3>2, <3>3 DEF Waits
            <4>2. LatestChangeset(h) = {r[h]} /\ r[h].status = "integrated"
                BY <1>2, <2>9, <3>3, <4>1 DEF Stale
            <4>3. Integrated(h) /\ Last(changesets[h]) = r[h]
                BY <4>2 DEF Integrated, LatestChangeset
            <4>4. \A q \in Clients : ~Pending(q, h)
                BY <3>3, <4>3, PendingIsActive DEF CInv
            <4>. QED BY <4>3, <4>4 DEF Waits
        <3>4. ASSUME NEW h \in S \cap DOMAIN r
              PROVE  r[h].dependsOn \cap (S \cap DOMAIN r) # {}
            <4>1. CASE h = g
                BY <2>8, <2>9, <2>10, <4>1
            <4>2. CASE h # g
                BY <2>9, <3>1, <3>3, <4>2
            <4>. QED BY <4>1, <4>2
        <3>5. S \cap DOMAIN r \in SUBSET DOMAIN r /\ S \cap DOMAIN r # {}
            BY <1>4, <3>2
        <3>. QED BY <2>9, <3>4, <3>5 DEF Ordered
    <2>11. Acyclic'
        BY <2>10 DEF Acyclic
    <2>. QED BY <1>1, <2>11
<1>. QED BY <1>7, <1>8

\* The invariant of the order holds initially.
LEMMA CInitially == ChangesetInit => CInv
<1>. SUFFICES ASSUME ChangesetInit PROVE CInv
    OBVIOUS
<1>1. IInv
    BY Initially
<1>2. \A p \in Clients : Read(p) /\ \A g \in Groups : ~Pending(p, g)
    BY DEF ChangesetInit, Read, Pending, Integrating
<1>3. \A g \in Groups : ~Integrated(g)
    BY DEF ChangesetInit, Integrated, LatestChangeset
<1>4. Acyclic
    BY <1>2, <1>3 DEF Acyclic, Waits
<1>. QED BY <1>1, <1>2, <1>4 DEF CInv

\* Every step preserves the invariant of the order.
LEMMA CInductive == CInv /\ [ChangesetNext]_changesetVars => CInv'
<1>. SUFFICES ASSUME CInv, [ChangesetNext]_changesetVars PROVE CInv'
    OBVIOUS
<1>1. IInv' /\ ChangesetTypeOK'
    BY Inductive DEF CInv, IInv
<1>2. CASE UNCHANGED <<changesets, pc, job>>
    <2>1. \A p \in Clients : Read(p)'
        BY <1>2, ReadStays DEF CInv
    <2>2. ASSUME NEW g \in Groups, NEW h \in Waits(g)' PROVE h \in Waits(g)
        BY <1>2, <2>2 DEF Waits, Integrated, LatestChangeset, Pending, Stale
    <2>. QED BY <1>1, <2>1, <2>2, FewerWaits DEF CInv
<1>3. ASSUME NEW p \in Clients,
             \/ \E s \in Stacks : Decide(p, s)
             \/ \E g \in Groups : StartCreate(p, g) \/ StartIntegrate(p, g)
             \/ Bind(p) \/ Regroup(p) \/ CheckDependencies(p) \/ StoreCreated(p)
             \/ ReadDependency(p) \/ CheckOrder(p) \/ CheckReadiness(p) \/ Evaluate(p)
             \/ StoreIntegrated(p) \/ Abort(p)
      PROVE  CInv'
    <2>0. Others(p)
        BY <1>3, StepMoves DEF CInv, Moves
    <2>. SUFFICES Acyclic' /\ Read(p)'
        BY <1>1, <2>0, ReadOfOthers DEF CInv
    <2>1. CASE \/ \E s \in Stacks : Decide(p, s)
               \/ \E g \in Groups : StartCreate(p, g)
               \/ Bind(p) \/ CheckDependencies(p) \/ Abort(p)
        <3>1. pc'[p] \notin Integrating /\ UNCHANGED changesets
            BY <2>1 DEF CInv, IInv, ChangesetTypeOK, Decide, StartCreate, Bind,
                        CheckDependencies, Abort, Stop, Goto, Integrating, documents
        <3>. QED BY <2>0, <3>1, NotIntegrating DEF Read
    <2>2. CASE Regroup(p)
        <3> DEFINE g == {job[p].stack}
                   c == [selects |-> [s \in g |-> job[p].revision], dependsOn |-> {},
                         status |-> "active"]
        <3>1. job[p].stack \in Stacks /\ job[p].revision \in 1..Len(stacks[job[p].stack])
            BY <2>2 DEF Regroup, CInv, IInv, Held, DecisionHeld
        <3>2. Len(stacks[job[p].stack]) \in Nat
            BY <3>1 DEF CInv, IInv, ChangesetTypeOK
        <3>3. g \in Groups /\ c \in ChangeSet(g) /\ c.status = "active"
            BY <3>1, <3>2, GroupAssumption DEF ChangeSet, Selection
        <3>4. pc'[p] = "idle"
            BY <2>2, GotoFacts DEF Regroup, Stop, CInv, IInv, Steps
        <3>5. StoreRevision(g, c)
            BY <2>2 DEF Regroup
        <3>6. Acyclic'
            BY <1>1, <2>0, <3>3, <3>4, <3>5, ActiveStored
        <3>. QED BY <3>4, <3>6 DEF Read, Integrating
    <2>3. CASE StoreCreated(p)
        <3>1. /\ job[p].group \in Groups /\ job[p].content \in ChangeSet(job[p].group)
              /\ job[p].content.status = "active"
            BY <2>3 DEF StoreCreated, CInv, IInv, Held, CreationHeld, Creating
        <3>2. pc'[p] = "idle"
            BY <2>3, GotoFacts DEF StoreCreated, Stop, CInv, IInv, Steps
        <3>3. StoreRevision(job[p].group, job[p].content)
            BY <2>3 DEF StoreCreated
        <3>4. Acyclic'
            BY <1>1, <2>0, <3>1, <3>2, <3>3, ActiveStored
        <3>. QED BY <3>2, <3>4 DEF Read, Integrating
    <2>4. CASE \E g \in Groups : StartIntegrate(p, g)
        BY <2>4, AcyclicStart
    <2>5. CASE ReadDependency(p)
        BY <2>5, AcyclicRead
    <2>6. CASE CheckOrder(p) \/ CheckReadiness(p) \/ Evaluate(p)
        BY <2>6, AcyclicCheck
    <2>7. CASE StoreIntegrated(p)
        BY <1>1, <2>7, AcyclicMark
    <2>. QED BY <1>3, <2>1, <2>2, <2>3, <2>4, <2>5, <2>6, <2>7
<1>4. ASSUME NEW s \in Stacks, PublishReview(s) \/ ProjectReview(s) PROVE CInv'
    BY <1>2, <1>4 DEF PublishReview, ProjectReview, documents
<1>5. CASE UNCHANGED changesetVars
    BY <1>2, <1>5 DEF changesetVars, documents
<1>. QED BY <1>3, <1>4, <1>5 DEF ChangesetNext

\* Whatever creations, decisions and integrations go on at the same time, and
\* whichever of them stop half-way, the integrated changesets have an order.
THEOREM IntegratedAlwaysOrdered == ChangesetSpec => []IntegratedOrdered
<1>1. CInv => IntegratedOrdered
    <2>. SUFFICES ASSUME CInv, NEW S \in SUBSET {g \in Groups : Integrated(g)}, S # {}
                  PROVE  \E g \in S : \A c \in LatestChangeset(g) : c.dependsOn \cap S = {}
        BY DEF IntegratedOrdered
    <2>1. PICK g \in S : Waits(g) \cap S = {}
        BY DEF CInv, Acyclic
    <2>2. \A c \in LatestChangeset(g) : c = Last(changesets[g])
        BY DEF LatestChangeset
    <2>3. \A h \in S : h \notin Last(changesets[g]).dependsOn
        BY <2>1 DEF Waits
    <2>. QED BY <2>2, <2>3
<1>2. ChangesetSpec => []CInv
    BY CInitially, CInductive, PTL DEF ChangesetSpec
<1>. QED BY <1>1, <1>2, PTL
=============================================================================
