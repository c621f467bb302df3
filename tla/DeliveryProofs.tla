---------------------------- MODULE DeliveryProofs ---------------------------
(***************************************************************************)
(* Proofs about delivery: for any number of commands, plans, decisions and *)
(* units, whatever the shape of the stack, and whatever dies or races.     *)
(***************************************************************************)
EXTENDS Delivery, SequenceTheorems, FiniteSetTheorems, WellFoundedInduction, TLAPS

\* c is what a restack makes of unit u: one layer per unit from a root of the stack to u.
Stacked(c, u) ==
    /\ c \in Seq(Layer) /\ c # Base
    /\ c[Len(c)].unit = u
    /\ Parent[c[1].unit] = c[1].unit
    /\ \A k \in 1..Len(c) - 1 :
          Parent[c[k + 1].unit] # c[k + 1].unit /\ c[k].unit = Parent[c[k + 1].unit]

\* Every layer is the content of a decision that was taken.
Decided(c) == \A k \in DOMAIN c : \E n \in Pulls : decisions[n].content = c[k].content

(* What a command holds.                                                    *)

\* It works on a decision and goes through the units in order.
InOrder(p) ==
    /\ pc[p] # "idle" => pull[p] \in Pulls
    /\ pc[p] \notin {"idle", "final"} => todo[p] # {}
    /\ pc[p] \in {"idle", "final"} => todo[p] = {}
    /\ pc[p] = "evidence" => todo[p] = Units
    /\ \A u \in Units \ todo[p], v \in todo[p] : u < v

\* A restack has a commit for each unit it is done with, on the parent's.
Restacked(p) ==
    /\ pc[p] \notin Restacking => made[p] = {}
    /\ pc[p] \in {"reset", "commit"} =>
          \A u \in Units : u \in todo[p] <=> \A m \in made[p] : m[1] # u
    /\ pc[p] = "record" => \A u \in Units : \E m \in made[p] : m[1] = u
    /\ \A m, k \in made[p] : m[1] = k[1] => m = k
    /\ \A m \in made[p] :
          /\ Stacked(m[2], m[1]) /\ Decided(m[2])
          /\ Parent[m[1]] # m[1] =>
                \E k \in made[p] : k[1] = Parent[m[1]] /\ k[2] = Front(m[2])

\* What it has recorded of its restack.
Recorded(p) ==
    pc[p] = "record" =>
        \A m \in made[p] : m[1] \notin todo[p] =>
            \E x \in projections : x.unit = m[1] /\ x.pull = pull[p] /\ x.commit = m[2]

\* What it has published, and what it has done for the unit at hand.
Published(p) ==
    /\ pc[p] \in {"push", "review", "publish", "final"} =>
          \A u \in Units \ todo[p] :
              \E x \in projections : x.unit = u /\ x.pull = pull[p] /\ x.status = "published"
    /\ pc[p] \in {"review", "publish"} => remoteBranch[NextUnit(todo[p])] # {}
    /\ pc[p] = "publish" => NextUnit(todo[p]) \in reviews

Held == \A p \in Commands : InOrder(p) /\ Restacked(p) /\ Recorded(p) /\ Published(p)

\* A unit's projections are numbered from 0, without gap or repetition.
Numbered ==
    /\ \A x, y \in projections : x.unit = y.unit /\ x.revision = y.revision => x = y
    /\ \A x \in projections : \A r \in 0..x.revision :
          \E y \in projections : y.unit = x.unit /\ y.revision = r

\* A branch has one commit, of layers that were decided.
Branches ==
    /\ DOMAIN branch = Units /\ DOMAIN remoteBranch = Units
    /\ \A u \in Units : \A c, d \in branch[u] : c = d
    /\ \A u \in Units : \A c \in branch[u] : Decided(c)

DeliveryInv ==
    /\ DeliveryTypeOK /\ DOMAIN made = Commands
    /\ Held
    /\ Numbered
    /\ PublishedHasReview
    /\ ParentRecorded
    /\ DeliveredIsFetchable
    /\ remoteDecisions <= Len(decisions)
    /\ Branches
    /\ calm => exclusive

(* One command at a time.                                                   *)

TurnInv == exclusive =>
    /\ \A p, q \in Commands : pc[p] # "idle" /\ pc[q] # "idle" => p = q
    /\ \A p \in Commands :
          pc[p] \in {"push", "review", "publish", "final"} => remoteDecisions = Len(decisions)
    /\ \A u \in Units : HasEvidence(u)

\* The newest projection of its unit.
IsNewest(x) == \A y \in projections : y.unit = x.unit => y.revision <= x.revision

\* A restack has yet to record the unit.
Awaited(u) ==
    \E p \in Commands : pc[p] \in {"reset", "commit"} \/ (pc[p] = "record" /\ u \in todo[p])

\* One command at a time and every restack finished: branches are as the newest
\* projections say, but for what is being restacked.
CalmInv == exclusive /\ calm =>
    /\ \A u \in Units : \A c \in branch[u] :
          Stacked(c, u) \/ \E p \in Commands : pc[p] = "commit" /\ NextUnit(todo[p]) = u
    /\ \A u \in Units : \A c \in remoteBranch[u] : Stacked(c, u)
    /\ \A p \in Commands : \A m \in made[p] : branch[m[1]] = {m[2]}
    /\ \A x \in projections : IsNewest(x) => Awaited(x.unit) \/ branch[x.unit] = {x.commit}
    /\ \A p \in Commands : pc[p] \in {"review", "publish"} =>
          remoteBranch[NextUnit(todo[p])] = branch[NextUnit(todo[p])]
    /\ PublishedIsRemote

-----------------------------------------------------------------------------
(* Units and commits.                                                       *)

\* The unit at hand is one of those that are left, and the first of them.
LEMMA NextUnitIn ==
    ASSUME NEW S, S \subseteq Units, S # {}
    PROVE  /\ NextUnit(S) \in S
           /\ \A v \in S : NextUnit(S) <= v
<1>1. S \subseteq Nat
    BY UnitAssumption
<1>2. PICK x \in S : \A y \in S : <<y, x>> \notin OpToRel(<, Nat)
    BY <1>1, NatLessThanWellFounded, WFMin, Zenon
<1>3. \A y \in S : ~(y < x)
    BY <1>1, <1>2, Zenon DEF OpToRel
<1>4. \A y \in S : x <= y
    BY <1>1, <1>3
<1>. QED BY <1>4 DEF NextUnit

\* Ticking a unit off leaves the others, which all come later.
LEMMA RestIsLater ==
    ASSUME NEW S, S \subseteq Units, S # {}
    PROVE  /\ S \ {NextUnit(S)} \subseteq Units
           /\ \A v \in S \ {NextUnit(S)} : NextUnit(S) < v
<1>1. NextUnit(S) \in S /\ \A v \in S : NextUnit(S) <= v
    BY NextUnitIn
<1>2. \A v \in S : v \in Nat
    BY UnitAssumption
<1>3. \A v \in S : v # NextUnit(S) => NextUnit(S) < v
    BY <1>1, <1>2
<1>. QED BY <1>3

\* A commit's parent is the commit it was made on.
LEMMA FrontOfAppend ==
    ASSUME NEW c \in Seq(Layer), NEW l \in Layer
    PROVE  Front(Append(c, l)) = c
<1> DEFINE d == Append(c, l)
<1>1. d \in Seq(Layer) /\ Len(d) = Len(c) + 1 /\ \A k \in 1..Len(c) : d[k] = c[k]
    BY AppendProperties
<1>2. Len(c) \in Nat
    BY LenProperties
<1> HIDE DEF d
<1>3. \A k \in 1..Len(c) : d[k] \in Layer
    BY <1>1, <1>2, ElementOfSeq
<1>4. /\ SubSeq(d, 1, Len(c)) \in Seq(Layer)
      /\ Len(SubSeq(d, 1, Len(c))) = Len(c)
      /\ \A k \in 1..Len(c) : SubSeq(d, 1, Len(c))[k] = d[k]
    BY <1>2, <1>3, SubSeqProperties
<1>5. SubSeq(d, 1, Len(c)) = c
    BY <1>1, <1>2, <1>4, SeqEqual
<1>6. Front(d) = SubSeq(d, 1, Len(c))
    BY <1>1, <1>2 DEF Front
<1>. QED BY <1>5, <1>6 DEF d

\* A commit on the parent's, or of a root on the base.
LEMMA StackedExtends ==
    ASSUME NEW u \in Units, NEW l \in Layer, l.unit = u, NEW c,
           IF Parent[u] = u THEN c = Base ELSE Stacked(c, Parent[u])
    PROVE  Stacked(Append(c, l), u)
<1>1. c \in Seq(Layer)
    <2>1. <<>> \in Seq(Layer)
        BY EmptySeq
    <2>2. CASE Parent[u] = u
        BY <2>1, <2>2 DEF Base
    <2>3. CASE Parent[u] # u
        BY <2>3 DEF Stacked
    <2>. QED BY <2>2, <2>3
<1>0. Len(c) \in Nat
    BY <1>1, LenProperties
<1> DEFINE d == Append(c, l)
<1>2. /\ d \in Seq(Layer) /\ d # <<>> /\ Len(d) = Len(c) + 1 /\ d[Len(c) + 1] = l
      /\ \A k \in 1..Len(c) : d[k] = c[k]
    BY <1>0, <1>1, AppendProperties, EmptySeq
<1> HIDE DEF d
<1>3. CASE Parent[u] = u
    BY <1>1, <1>2, <1>3 DEF Base, Stacked, d
<1>4. CASE Parent[u] # u
    <2>1. Stacked(c, Parent[u]) /\ Len(c) \in Nat \ {0}
        BY <1>1, <1>4, EmptySeq DEF Stacked, Base
    <2>2. d[1] = c[1] /\ d[Len(c)] = c[Len(c)]
        BY <1>2, <2>1
    <2>3. \A k \in 1..Len(d) - 1 :
              Parent[d[k + 1].unit] # d[k + 1].unit /\ d[k].unit = Parent[d[k + 1].unit]
        <3> TAKE k \in 1..Len(d) - 1
        <3>1. CASE k = Len(c)
            BY <1>2, <1>4, <2>1, <2>2, <3>1 DEF Stacked
        <3>2. CASE k # Len(c)
            <4>1. k \in 1..Len(c) - 1 /\ k + 1 \in 1..Len(c) /\ k \in 1..Len(c)
                BY <1>2, <2>1, <3>2
            <4>2. d[k] = c[k] /\ d[k + 1] = c[k + 1]
                BY <1>2, <4>1
            <4>. QED BY <2>1, <4>1, <4>2 DEF Stacked
        <3>. QED BY <3>1, <3>2
    <2>. QED BY <1>2, <2>1, <2>2, <2>3 DEF Stacked, Base, d
<1>. QED BY <1>3, <1>4

\* Read back from their ends, two commits of one unit have layers of the same units, so the
\* shorter one cannot end in a root where the other goes on.
LEMMA NotDeeper ==
    ASSUME NEW u, NEW c, NEW d, Stacked(c, u), Stacked(d, u)
    PROVE  ~(Len(c) < Len(d))
<1> SUFFICES ASSUME Len(c) < Len(d) PROVE FALSE
    OBVIOUS
<1>1. Len(c) \in Nat \ {0} /\ Len(d) \in Nat \ {0}
    BY EmptySeq, LenProperties DEF Stacked, Base
<1> DEFINE N == {k \in Nat : k < Len(c) /\ c[Len(c) - k].unit # d[Len(d) - k].unit}
<1>2. N = {}
    <2> SUFFICES ASSUME N # {} PROVE FALSE
        OBVIOUS
    <2>1. N \subseteq Nat
        OBVIOUS
    <2> HIDE DEF N
    <2>2. PICK k \in N : \A j \in N : <<j, k>> \notin OpToRel(<, Nat)
        BY <2>1, NatLessThanWellFounded, WFMin, Zenon
    <2>3. \A j \in N : ~(j < k)
        BY <2>1, <2>2, Zenon DEF OpToRel
    <2>4. k \in Nat /\ k < Len(c) /\ c[Len(c) - k].unit # d[Len(d) - k].unit
        BY DEF N
    <2>5. k # 0
        BY <1>1, <2>4 DEF Stacked
    <2>6. c[Len(c) - (k - 1)].unit = d[Len(d) - (k - 1)].unit
        <3>1. k - 1 \in Nat /\ k - 1 < k /\ k - 1 < Len(c)
            BY <1>1, <2>4, <2>5
        <3>. QED BY <2>3, <3>1 DEF N
    <2>7. /\ Len(c) - k \in 1..Len(c) - 1 /\ Len(c) - k + 1 = Len(c) - (k - 1)
          /\ Len(d) - k \in 1..Len(d) - 1 /\ Len(d) - k + 1 = Len(d) - (k - 1)
        BY <1>1, <2>4, <2>5
    <2>8. c[Len(c) - k].unit = Parent[c[Len(c) - (k - 1)].unit]
        BY <2>7 DEF Stacked
    <2>9. d[Len(d) - k].unit = Parent[d[Len(d) - (k - 1)].unit]
        BY <2>7 DEF Stacked
    <2>. QED BY <2>4, <2>6, <2>8, <2>9
<1> DEFINE j == Len(d) - Len(c)
<1>3. c[1].unit = d[j + 1].unit
    <2>1. Len(c) - 1 \in Nat /\ Len(c) - 1 < Len(c)
        BY <1>1
    <2>2. Len(c) - (Len(c) - 1) = 1 /\ Len(d) - (Len(c) - 1) = j + 1
        BY <1>1
    <2>. QED BY <1>2, <2>1, <2>2
<1>4. j \in 1..Len(d) - 1
    BY <1>1
<1>. QED BY <1>3, <1>4 DEF Stacked

\* Two commits of one unit have as many layers.
LEMMA SameDepth ==
    ASSUME NEW u, NEW c, NEW d, Stacked(c, u), Stacked(d, u)
    PROVE  Len(c) = Len(d)
<1>1. Len(c) \in Nat /\ Len(d) \in Nat
    BY LenProperties DEF Stacked
<1>. QED BY <1>1, NotDeeper

\* What Git lets a push replace is what is pushed.
LEMMA AdvanceIsSame ==
    ASSUME NEW u, NEW c, NEW d, Stacked(c, u), Stacked(d, u), Ancestor(c, d)
    PROVE  c = d
<1>1. c \in Seq(Layer) /\ d \in Seq(Layer)
    BY DEF Stacked
<1>2. Len(c) = Len(d)
    BY SameDepth
<1>. QED BY <1>1, <1>2, SubSeqFull DEF Ancestor, IsPrefix

\* What an invariant says of a command at work, of the unit at hand.
LEMMA AtHand ==
    ASSUME DeliveryTypeOK, NEW p \in Commands, InOrder(p), pc[p] \notin {"idle", "final"}
    PROVE  /\ pull[p] \in Pulls /\ todo[p] \subseteq Units /\ todo[p] # {}
           /\ NextUnit(todo[p]) \in todo[p] /\ NextUnit(todo[p]) \in Units
           /\ \A v \in todo[p] \ {NextUnit(todo[p])} : NextUnit(todo[p]) < v
<1>1. todo[p] \subseteq Units /\ todo[p] # {} /\ pull[p] \in Pulls
    BY DEF DeliveryTypeOK, InOrder
<1>. QED BY <1>1, NextUnitIn, RestIsLater

\* The commit to build on is that of the parent, which is already made.
LEMMA ParentTipIs ==
    ASSUME DeliveryTypeOK, NEW p \in Commands, InOrder(p), Restacked(p),
           pc[p] \in {"reset", "commit"}
    PROVE  LET u == NextUnit(todo[p]) IN
           IF Parent[u] = u THEN ParentTip(p, u) = Base
           ELSE /\ \E m \in made[p] : m[1] = Parent[u] /\ m[2] = ParentTip(p, u)
                /\ Stacked(ParentTip(p, u), Parent[u])
                /\ Decided(ParentTip(p, u))
<1> DEFINE u == NextUnit(todo[p])
<1>1. todo[p] \subseteq Units /\ u \in todo[p] /\ u \in Units /\ \A v \in todo[p] : u <= v
    BY AtHand, NextUnitIn
<1> HIDE DEF u
<1>2. CASE Parent[u] = u
    BY <1>2 DEF ParentTip, u
<1>3. CASE Parent[u] # u
    <2>0. Parent[u] \in Units /\ Parent[u] <= u /\ u \in Nat /\ Parent[u] \in Nat
        BY <1>1, ParentAssumption, UnitAssumption
    <2>1. Parent[u] \in Units /\ Parent[u] < u
        BY <1>3, <2>0
    <2>2. Parent[u] \notin todo[p]
        BY <1>1, <2>0, <2>1
    <2>3. \E m \in made[p] : m[1] = Parent[u]
        BY <2>1, <2>2 DEF Restacked
    <2> DEFINE m == CHOOSE m \in made[p] : m[1] = Parent[u]
    <2>4. m \in made[p] /\ m[1] = Parent[u]
        BY <2>3
    <2>5. ParentTip(p, u) = m[2]
        BY <1>3 DEF ParentTip
    <2>6. Stacked(m[2], m[1]) /\ Decided(m[2])
        BY <2>4 DEF Restacked
    <2> HIDE DEF m
    <2>7. Stacked(ParentTip(p, u), Parent[u]) /\ Decided(ParentTip(p, u))
        BY <2>4, <2>5, <2>6
    <2>. QED BY <1>3, <2>4, <2>5, <2>7 DEF u
<1>. QED BY <1>2, <1>3

\* A restack that records has the commit of the unit.
LEMMA MadeOfUnit ==
    ASSUME NEW p \in Commands, Restacked(p), pc[p] = "record", NEW u \in Units
    PROVE  (CHOOSE m \in made[p] : m[1] = u) \in made[p]
           /\ (CHOOSE m \in made[p] : m[1] = u)[1] = u
<1>1. \E m \in made[p] : m[1] = u
    BY DEF Restacked
<1>. QED BY <1>1

\* The newest of some projections exists: revisions are bounded.
LEMMA NewestExists ==
    ASSUME NEW P, P # {}, NEW b \in Nat, \A x \in P : x.revision \in 0..b
    PROVE  \E x \in P : \A y \in P : y.revision <= x.revision
<1> DEFINE D == {d \in Nat : \E x \in P : x.revision = b - d}
<1>1. D \subseteq Nat /\ D # {}
    <2>1. PICK x \in P : TRUE
        OBVIOUS
    <2>2. b - x.revision \in Nat /\ x.revision = b - (b - x.revision)
        BY <2>1
    <2>. QED BY <2>1, <2>2
<1>2. PICK d \in D : \A e \in D : <<e, d>> \notin OpToRel(<, Nat)
    BY <1>1, NatLessThanWellFounded, WFMin, Zenon
<1>3. \A e \in D : ~(e < d)
    BY <1>1, <1>2, Zenon DEF OpToRel
<1>4. d \in Nat /\ \E x \in P : x.revision = b - d
    BY <1>2
<1>6. PICK x \in P : x.revision = b - d
    BY <1>4
<1>5. \A y \in P : y.revision <= x.revision
    <2> TAKE y \in P
    <2>1. b - y.revision \in Nat /\ y.revision = b - (b - y.revision)
        OBVIOUS
    <2>2. b - y.revision \in D
        BY <2>1
    <2> HIDE DEF D
    <2>3. ~(b - y.revision < d)
        BY <1>3, <2>2
    <2>. QED BY <1>4, <1>6, <2>1, <2>3
<1>. QED BY <1>5

\* What Record numbers a projection.
NextRevision(u) ==
    IF LatestProjection(u) = {} THEN 0
    ELSE 1 + (CHOOSE x \in LatestProjection(u) : TRUE).revision

\* What the type invariant says of a projection's fields.
LEMMA RevisionTypes ==
    ASSUME DeliveryTypeOK
    PROVE  /\ MaxProjection[exclusive] \in Nat
           /\ \A x \in projections :
                 x.unit \in Units /\ x.revision \in 0..MaxProjection[exclusive]
                 /\ x.pull \in 1..MaxDecision
<1>1. MaxProjection[exclusive] \in Nat
    BY BoundAssumption DEF DeliveryTypeOK
<1>2. \A x \in projections : x \in Projection
    BY DEF DeliveryTypeOK
<1>. QED BY <1>1, <1>2 DEF Projection

\* No projection of the unit has that number or a higher one, and there is one of each lower
\* number.
LEMMA NextRevisionIsNext ==
    ASSUME DeliveryTypeOK, Numbered, NEW u \in Units
    PROVE  /\ NextRevision(u) \in Nat
           /\ \A y \in projections : y.unit = u => y.revision < NextRevision(u)
           /\ \A r \in 0..NextRevision(u) - 1 :
                 \E y \in projections : y.unit = u /\ y.revision = r
<1> DEFINE P == {x \in projections : x.unit = u}
<1>1. MaxProjection[exclusive] \in Nat /\ \A x \in P : x.revision \in 0..MaxProjection[exclusive]
    BY RevisionTypes
<1>2. CASE P = {}
    <2>1. LatestProjection(u) = {}
        BY <1>2 DEF LatestProjection, Newest
    <2>. QED BY <1>2, <2>1 DEF NextRevision
<1>3. CASE P # {}
    <2>1. \E x \in P : \A y \in P : y.revision <= x.revision
        BY <1>1, <1>3, NewestExists
    <2>2. LatestProjection(u) = {x \in P : \A y \in P : y.revision <= x.revision}
        BY DEF LatestProjection, Newest
    <2>3. LatestProjection(u) # {}
        BY <2>1, <2>2
    <2> DEFINE x == CHOOSE x \in LatestProjection(u) : TRUE
    <2>4. x \in P /\ \A y \in P : y.revision <= x.revision
        BY <2>2, <2>3
    <2>5. NextRevision(u) = 1 + x.revision
        BY <2>3 DEF NextRevision
    <2> HIDE DEF x
    <2>6. x.revision \in Nat /\ \A y \in P : y.revision \in Nat
        BY <1>1, <2>4
    <2>7. \A r \in 0..x.revision : \E y \in projections : y.unit = u /\ y.revision = r
        BY <2>4 DEF Numbered
    <2>. QED BY <2>4, <2>5, <2>6, <2>7
<1>. QED BY <1>2, <1>3

\* A projection whose next number is free is the newest of its unit.
LEMMA FreeIsNewest ==
    ASSUME DeliveryTypeOK, Numbered, NEW x \in projections,
           \A y \in projections : y.unit = x.unit => y.revision # x.revision + 1
    PROVE  IsNewest(x)
<1> SUFFICES ASSUME NEW y \in projections, y.unit = x.unit, ~(y.revision <= x.revision)
             PROVE  FALSE
    BY DEF IsNewest
<1>1. x.revision \in Nat /\ y.revision \in Nat
    BY RevisionTypes
<1>2. x.revision + 1 \in 0..y.revision
    BY <1>1
<1>. QED BY <1>2 DEF Numbered

-----------------------------------------------------------------------------
(* What a step leaves of what the invariant says.                           *)

\* What no step takes back.
Grows ==
    /\ projections \subseteq projections'
    /\ reviews \subseteq reviews'
    /\ \A u \in Units : remoteBranch[u] # {} => remoteBranch'[u] # {}
    /\ Len(decisions) <= Len(decisions')
    /\ \A c : Decided(c) => Decided(c)'

\* The command is where it was.
Same(q) == pc'[q] = pc[q] /\ pull'[q] = pull[q] /\ todo'[q] = todo[q] /\ made'[q] = made[q]

Holds(p) == InOrder(p) /\ Restacked(p) /\ Recorded(p) /\ Published(p)

\* Without a decision, what was decided is what was decided.
LEMMA UnchangedDecided ==
    ASSUME UNCHANGED decisions
    PROVE  (\A c : Decided(c) => Decided(c)') /\ Len(decisions) = Len(decisions') /\ Pulls' = Pulls
<1>1. Pulls' = Pulls
    BY DEF Pulls
<1>. QED BY <1>1 DEF Decided

\* A decision is added to those that were taken.
LEMMA DecideDecided ==
    ASSUME DeliveryTypeOK, NEW p \in Commands, Decide(p)
    PROVE  /\ Len(decisions') = Len(decisions) + 1 /\ Len(decisions) \in Nat
           /\ \A n \in Pulls : decisions'[n] = decisions[n]
           /\ \A c : Decided(c) => Decided(c)'
           /\ decisions' \in Seq([plan : Plans, content : Contents])
<1>1. PICK i \in Plans, c \in Contents : decisions' = Append(decisions, [plan |-> i, content |-> c])
    BY DEF Decide
<1>2. [plan |-> i, content |-> c] \in [plan : Plans, content : Contents]
    OBVIOUS
<1>3. decisions \in Seq([plan : Plans, content : Contents]) /\ Len(decisions) \in Nat
    BY LenProperties DEF DeliveryTypeOK
<1>4. /\ Len(decisions') = Len(decisions) + 1
      /\ \A n \in 1..Len(decisions) : decisions'[n] = decisions[n]
      /\ decisions' \in Seq([plan : Plans, content : Contents])
    BY <1>1, <1>2, <1>3, AppendProperties
<1>5. Pulls = 1..Len(decisions) /\ Pulls' = 1..Len(decisions')
    BY DEF Pulls
<1>6. \A e : Decided(e) => Decided(e)'
    <2> TAKE e
    <2> HAVE Decided(e)
    <2> SUFFICES ASSUME NEW k \in DOMAIN e
                 PROVE  \E n \in Pulls' : decisions'[n].content = e[k].content
        BY DEF Decided
    <2>1. PICK n \in Pulls : decisions[n].content = e[k].content
        BY DEF Decided
    <2>2. n \in Pulls' /\ decisions'[n] = decisions[n]
        BY <1>3, <1>4, <1>5
    <2>. QED BY <2>1, <2>2
<1>. QED BY <1>3, <1>4, <1>5, <1>6

\* What a command holds stays true while others work.
LEMMA SameHolds ==
    ASSUME DeliveryTypeOK, DeliveryTypeOK', NEW q \in Commands, Holds(q), Same(q), Grows
    PROVE  Holds(q)'
<1>1. Len(decisions) \in Nat /\ Len(decisions') \in Nat
    BY LenProperties DEF DeliveryTypeOK
<1>2. Pulls \subseteq Pulls'
    BY <1>1 DEF Pulls, Grows
<1>3. InOrder(q)'
    BY <1>2 DEF Holds, InOrder, Same
<1>4. Restacked(q)'
    BY DEF Holds, Restacked, Same, Grows
<1>5. Recorded(q)'
    BY DEF Holds, Recorded, Same, Grows
<1>6. Published(q)'
    <2>1. pc[q] \in {"review", "publish"} => NextUnit(todo[q]) \in Units
        BY AtHand DEF Holds
    <2>. QED BY <2>1 DEF Holds, Published, Same, Grows
<1>. QED BY <1>3, <1>4, <1>5, <1>6 DEF Holds

\* A step of one command keeps what all hold, when it keeps what that one holds.
LEMMA HeldStep ==
    ASSUME DeliveryTypeOK, DeliveryTypeOK', Held, Grows, NEW p \in Commands, Holds(p)',
           \A q \in Commands \ {p} : Same(q)
    PROVE  Held'
<1> SUFFICES ASSUME NEW q \in Commands PROVE Holds(q)'
    BY DEF Held, Holds
<1>1. CASE q = p
    BY <1>1
<1>2. CASE q # p
    BY <1>2, SameHolds DEF Held, Holds
<1>. QED BY <1>1, <1>2

\* What is stored is kept by a step that records nothing and delivers nothing.
LEMMA SameStore ==
    ASSUME Grows, UNCHANGED <<projections, delivered>>,
           remoteProjections \subseteq remoteProjections',
           remoteDecisions <= remoteDecisions', DeliveryTypeOK, DeliveryTypeOK',
           Numbered, PublishedHasReview, ParentRecorded, DeliveredIsFetchable
    PROVE  Numbered' /\ PublishedHasReview' /\ ParentRecorded' /\ DeliveredIsFetchable'
<1>1. Numbered' /\ ParentRecorded'
    BY DEF Numbered, ParentRecorded
<1>2. PublishedHasReview'
    BY RevisionTypes DEF PublishedHasReview, Grows
<1>3. DeliveredIsFetchable'
    <2>1. \A n \in delivered : n \in Nat
        BY BoundAssumption DEF DeliveryTypeOK
    <2>2. remoteDecisions \in Nat /\ remoteDecisions' \in Nat
        BY BoundAssumption DEF DeliveryTypeOK
    <2>3. \A n \in delivered : n <= remoteDecisions'
        BY <2>1, <2>2 DEF DeliveredIsFetchable
    <2>. QED BY <2>3 DEF DeliveredIsFetchable
<1>. QED BY <1>1, <1>2, <1>3

\* A command that stops holds nothing.
LEMMA StopHolds ==
    ASSUME DeliveryTypeOK, DOMAIN made = Commands, NEW p \in Commands, Stop(p)
    PROVE  /\ Holds(p)' /\ \A q \in Commands \ {p} : Same(q)
           /\ pc' \in [Commands -> {"idle"} \cup Restacking \cup Publishing]
           /\ pull' \in [Commands -> 0..MaxDecision]
           /\ todo' \in [Commands -> SUBSET Units]
           /\ \A q \in Commands : \A m \in made'[q] : m \in Units \X Seq(Layer)
           /\ DOMAIN made' = Commands
           /\ pc'[p] = "idle" /\ made'[p] = {}
<1>1. /\ DOMAIN pc = Commands /\ DOMAIN pull = Commands /\ DOMAIN todo = Commands
      /\ MaxDecision \in Nat
    BY BoundAssumption DEF DeliveryTypeOK
<1>2. pc'[p] = "idle" /\ todo'[p] = {} /\ made'[p] = {}
    BY <1>1 DEF Stop
<1>3. \A q \in Commands \ {p} : Same(q)
    BY <1>1 DEF Stop, Same
<1>4. Holds(p)'
    BY <1>2 DEF Holds, InOrder, Restacked, Recorded, Published, Restacking
<1>5. /\ pc' \in [Commands -> {"idle"} \cup Restacking \cup Publishing]
      /\ pull' \in [Commands -> 0..MaxDecision]
      /\ todo' \in [Commands -> SUBSET Units]
    BY <1>1 DEF Stop, DeliveryTypeOK
<1>6. \A q \in Commands : \A m \in made'[q] : m \in Units \X Seq(Layer)
    BY <1>2, <1>3 DEF Same, DeliveryTypeOK
<1>7. DOMAIN made' = Commands
    BY DEF Stop
<1>. QED BY <1>2, <1>3, <1>4, <1>5, <1>6, <1>7

\* A command that takes its next step keeps what it holds.
LEMMA GotoSame ==
    ASSUME DeliveryTypeOK, DOMAIN made = Commands, NEW p \in Commands, NEW step, Goto(p, step),
           step \in Restacking \cup Publishing
    PROVE  /\ pc'[p] = step /\ todo'[p] = todo[p] /\ pull'[p] = pull[p] /\ made'[p] = made[p]
           /\ \A q \in Commands \ {p} : Same(q)
           /\ pc' \in [Commands -> {"idle"} \cup Restacking \cup Publishing]
           /\ UNCHANGED <<pull, todo, made>>
BY DEF Goto, Same, DeliveryTypeOK

-----------------------------------------------------------------------------
(* One lemma per action.                                                    *)

\* The initial state.
LEMMA InitInv == DeliveryInit => DeliveryInv
<1> SUFFICES ASSUME DeliveryInit PROVE DeliveryInv
    OBVIOUS
<1>1. exclusive \in BOOLEAN /\ calm \in BOOLEAN /\ (calm => exclusive)
    BY DEF DeliveryInit
<1>2. MaxDecision \in Nat /\ MaxTime[exclusive] \in Nat
    BY <1>1, BoundAssumption
<1>3. decisions \in Seq([plan : Plans, content : Contents]) /\ Len(decisions) = 0
    BY EmptySeq DEF DeliveryInit
<1>4. /\ pc \in [Commands -> {"idle"} \cup Restacking \cup Publishing]
      /\ pull \in [Commands -> 0..MaxDecision] /\ todo \in [Commands -> SUBSET Units]
      /\ DOMAIN made = Commands /\ \A p \in Commands : made[p] = {}
    BY <1>2 DEF DeliveryInit
<1>5. clock \in 0..MaxTime[exclusive] /\ remoteDecisions \in 0..MaxDecision
    BY <1>2 DEF DeliveryInit
<1>6. /\ DOMAIN branch = Units /\ DOMAIN remoteBranch = Units
      /\ \A u \in Units : branch[u] = {} /\ remoteBranch[u] = {}
    BY DEF DeliveryInit
<1>7. /\ projections = {} /\ remoteProjections = {} /\ reviews = {} /\ delivered = {}
      /\ remoteDecisions = 0
    BY DEF DeliveryInit
<1>8. DeliveryTypeOK
    BY <1>1, <1>2, <1>3, <1>4, <1>5, <1>6, <1>7 DEF DeliveryTypeOK
<1>9. Held
    <2>1. \A p \in Commands : pc[p] = "idle" /\ todo[p] = {} /\ made[p] = {}
        BY DEF DeliveryInit
    <2>. QED BY <2>1 DEF Held, InOrder, Restacked, Recorded, Published, Restacking
<1>10. Numbered /\ PublishedHasReview /\ ParentRecorded /\ DeliveredIsFetchable
    BY <1>7 DEF Numbered, PublishedHasReview, ParentRecorded, DeliveredIsFetchable
<1>11. Branches
    BY <1>6 DEF Branches
<1>. QED BY <1>1, <1>3, <1>4, <1>7, <1>8, <1>9, <1>10, <1>11 DEF DeliveryInv

\* A review decision: only the decisions change.
LEMMA DecideInv ==
    ASSUME DeliveryInv, NEW p \in Commands, Decide(p)
    PROVE  DeliveryInv' /\ Grows
<1>1. /\ Len(decisions') = Len(decisions) + 1 /\ Len(decisions) \in Nat
      /\ \A c : Decided(c) => Decided(c)'
      /\ decisions' \in Seq([plan : Plans, content : Contents])
    BY DecideDecided DEF DeliveryInv
<1>2. UNCHANGED <<projections, branch, clock, forge, local, delivered, modes>>
    BY DEF Decide
<1>3. DeliveryTypeOK'
    <2>1. Len(decisions') <= MaxDecision
        BY <1>1, BoundAssumption DEF Decide
    <2>. QED BY <1>1, <1>2, <2>1 DEF DeliveryInv, DeliveryTypeOK, Projection, forge, local, modes
<1>4. Grows
    BY <1>1, <1>2 DEF Grows, forge
<1>5. \A q \in Commands : Same(q)
    BY <1>2 DEF Same, local
<1>6. Held'
    BY <1>3, <1>4, <1>5, SameHolds DEF DeliveryInv, Held, Holds
<1>7. /\ remoteDecisions \in Nat /\ remoteDecisions' = remoteDecisions
      /\ remoteProjections' = remoteProjections
    BY <1>2, BoundAssumption DEF forge, DeliveryInv, DeliveryTypeOK
<1>8. Numbered' /\ PublishedHasReview' /\ ParentRecorded' /\ DeliveredIsFetchable'
    BY <1>2, <1>3, <1>4, <1>7, SameStore DEF DeliveryInv
<1>9. Branches'
    BY <1>1, <1>2 DEF Branches, DeliveryInv, forge
<1>10. remoteDecisions' <= Len(decisions')
    BY <1>1, <1>7 DEF DeliveryInv
<1>. QED BY <1>2, <1>3, <1>4, <1>6, <1>8, <1>9, <1>10 DEF DeliveryInv, local, modes

\* Steps that change neither the decisions nor the projections: what is stored and the
\* branches are kept.
LEMMA CommandInv ==
    ASSUME DeliveryInv, DeliveryTypeOK', DOMAIN made' = Commands, NEW p \in Commands, Holds(p)',
           \A q \in Commands \ {p} : Same(q),
           UNCHANGED <<decisions, projections, branch, delivered, modes>>,
           DOMAIN remoteBranch' = Units, reviews \subseteq reviews',
           \A u \in Units : remoteBranch[u] # {} => remoteBranch'[u] # {},
           remoteProjections \subseteq remoteProjections',
           remoteDecisions <= remoteDecisions', remoteDecisions' <= Len(decisions)
    PROVE  DeliveryInv' /\ Grows
<1>1. Grows
    <2>1. Len(decisions) <= Len(decisions')
        BY LenProperties DEF DeliveryInv, DeliveryTypeOK
    <2>2. \A c : Decided(c) => Decided(c)'
        BY UnchangedDecided
    <2>. QED BY <2>1, <2>2 DEF Grows
<1>2. Held'
    BY <1>1, HeldStep DEF DeliveryInv
<1>3. Numbered' /\ PublishedHasReview' /\ ParentRecorded' /\ DeliveredIsFetchable'
    BY <1>1, SameStore DEF DeliveryInv
<1>4. Branches'
    BY <1>1 DEF Branches, DeliveryInv, Grows
<1>. QED BY <1>1, <1>2, <1>3, <1>4 DEF DeliveryInv, modes

\* Numbers and domains the type invariant gives, and that an unchanged forge keeps.
LEMMA ReflexiveForge ==
    ASSUME DeliveryInv
    PROVE  remoteDecisions <= remoteDecisions /\ remoteDecisions \in Nat /\ Len(decisions) \in Nat
           /\ Len(decisions) <= MaxDecision /\ MaxDecision \in Nat
           /\ DOMAIN remoteBranch = Units
BY BoundAssumption, LenProperties DEF DeliveryInv, DeliveryTypeOK, Branches

\* review project and review publish begin with the pull requests of a decision.
Starts(p) ==
    \E i \in Plans, step \in {"reset", "evidence"} : \E n \in Selected(i) : Start(p, n, step)

\* A command starts on the pull requests of a decision.
LEMMA StartInv ==
    ASSUME DeliveryInv, NEW p \in Commands, NEW i \in Plans, NEW n \in Selected(i),
           NEW step \in {"reset", "evidence"}, Start(p, n, step)
    PROVE  DeliveryInv' /\ Grows
<1>1. n \in Pulls /\ pc[p] = "idle" /\ made[p] = {}
    BY DEF Selected, Start, MayStart, DeliveryInv, Held, Restacked, Restacking
<1>2. /\ pc'[p] = step /\ pull'[p] = n /\ todo'[p] = Units /\ made'[p] = {}
      /\ \A q \in Commands \ {p} : Same(q)
    BY <1>1 DEF Start, DeliveryInv, DeliveryTypeOK, Same
<1>3. UNCHANGED <<refs, forge, made, delivered, modes>>
    BY DEF Start
<1>4. n \in 0..MaxDecision
    BY <1>1, ReflexiveForge DEF Pulls
<1>5. DeliveryTypeOK'
    BY <1>3, <1>4 DEF Start, DeliveryInv, DeliveryTypeOK, Projection, refs, forge, modes,
                      Restacking, Publishing
<1>6. Holds(p)'
    <2>1. n \in Pulls'
        BY <1>1, <1>3 DEF Pulls, refs
    <2>2. InOrder(p)' /\ Restacked(p)'
        BY <1>2, <2>1, UnitAssumption DEF InOrder, Restacked, Restacking
    <2>3. Recorded(p)' /\ Published(p)'
        BY <1>2 DEF Recorded, Published
    <2>. QED BY <2>2, <2>3 DEF Holds
<1>. QED BY <1>2, <1>3, <1>5, <1>6, CommandInv, ReflexiveForge DEF refs, forge, modes, DeliveryInv

\* A command stops where it is.
LEMMA AbortInv ==
    ASSUME DeliveryInv, NEW p \in Commands, Abort(p)
    PROVE  DeliveryInv' /\ Grows
<1>1. /\ Holds(p)' /\ \A q \in Commands \ {p} : Same(q)
      /\ pc' \in [Commands -> {"idle"} \cup Restacking \cup Publishing]
      /\ pull' \in [Commands -> 0..MaxDecision]
      /\ todo' \in [Commands -> SUBSET Units]
      /\ \A q \in Commands : \A m \in made'[q] : m \in Units \X Seq(Layer)
      /\ DOMAIN made' = Commands
    BY StopHolds DEF Abort, DeliveryInv
<1>2. UNCHANGED <<refs, forge, delivered, modes>>
    BY DEF Abort
<1>3. DeliveryTypeOK'
    BY <1>1, <1>2 DEF DeliveryInv, DeliveryTypeOK, Projection, refs, forge, modes
<1>4. /\ UNCHANGED <<decisions, projections, branch, delivered, modes>>
      /\ DOMAIN remoteBranch' = Units /\ reviews \subseteq reviews'
      /\ \A u \in Units : remoteBranch[u] # {} => remoteBranch'[u] # {}
      /\ remoteProjections \subseteq remoteProjections'
      /\ remoteDecisions <= remoteDecisions' /\ remoteDecisions' <= Len(decisions)
    BY <1>2, ReflexiveForge DEF refs, forge, DeliveryInv
<1>. QED BY <1>1, <1>3, <1>4, CommandInv

\* All Orkia refs are on the forge.
LEMMA PushEvidenceInv ==
    ASSUME DeliveryInv, NEW p \in Commands, PushEvidence(p)
    PROVE  DeliveryInv' /\ Grows
<1>1. /\ pc'[p] = "push" /\ todo'[p] = todo[p] /\ pull'[p] = pull[p] /\ made'[p] = made[p]
      /\ \A q \in Commands \ {p} : Same(q)
      /\ pc' \in [Commands -> {"idle"} \cup Restacking \cup Publishing]
      /\ UNCHANGED <<pull, todo, made>>
    BY GotoSame DEF PushEvidence, DeliveryInv, Publishing
<1>2. /\ UNCHANGED <<refs, remoteBranch, reviews, delivered, modes>>
      /\ remoteDecisions' = Len(decisions) /\ remoteProjections' = projections
      /\ pc[p] = "evidence"
    BY DEF PushEvidence, PushRefs
<1>3. DeliveryTypeOK'
    <2>1. remoteDecisions' \in 0..MaxDecision
        BY <1>2, ReflexiveForge
    <2>. QED BY <1>1, <1>2, <2>1 DEF DeliveryInv, DeliveryTypeOK, Projection, refs, modes
<1>4. Holds(p)'
    <2>1. InOrder(p) /\ Restacked(p)
        BY DEF DeliveryInv, Held
    <2>2. Pulls' = Pulls /\ todo[p] = Units
        BY <1>2, <2>1 DEF Pulls, refs, InOrder
    <2>3. InOrder(p)' /\ Published(p)'
        BY <1>1, <1>2, <2>1, <2>2 DEF InOrder, Published
    <2>4. made[p] = {} /\ Restacked(p)' /\ Recorded(p)'
        BY <1>1, <1>2, <2>1 DEF Restacked, Recorded, Restacking
    <2>. QED BY <2>3, <2>4 DEF Holds
<1>5. remoteProjections \subseteq remoteProjections' /\ remoteDecisions <= remoteDecisions'
      /\ remoteDecisions' <= Len(decisions)
    BY <1>2, ReflexiveForge DEF DeliveryInv, DeliveryTypeOK
<1>. QED BY <1>1, <1>2, <1>3, <1>4, <1>5, CommandInv, ReflexiveForge
         DEF refs, modes, DeliveryInv

\* The branch of the unit at hand is on the forge.
LEMMA PushBranchInv ==
    ASSUME DeliveryInv, NEW p \in Commands, PushBranch(p)
    PROVE  DeliveryInv' /\ Grows
<1> DEFINE u == NextUnit(todo[p])
<1>1. /\ pc'[p] = "review" /\ todo'[p] = todo[p] /\ pull'[p] = pull[p] /\ made'[p] = made[p]
      /\ \A q \in Commands \ {p} : Same(q)
      /\ pc' \in [Commands -> {"idle"} \cup Restacking \cup Publishing]
      /\ UNCHANGED <<pull, todo, made>>
    BY GotoSame DEF PushBranch, DeliveryInv, Publishing
<1>2. /\ UNCHANGED <<refs, remoteDecisions, remoteProjections, reviews, delivered, modes>>
      /\ remoteBranch' = [remoteBranch EXCEPT ![u] = branch[u]]
      /\ pc[p] = "push" /\ branch[u] # {}
    BY DEF PushBranch
<1>3. InOrder(p) /\ Restacked(p) /\ Published(p)
    BY DEF DeliveryInv, Held
<1>4. u \in Units
    BY <1>2, <1>3, AtHand DEF DeliveryInv
<1> HIDE DEF u
<1>5. /\ remoteBranch'[u] = branch[u] /\ DOMAIN remoteBranch' = Units
      /\ \A v \in Units : v # u => remoteBranch'[v] = remoteBranch[v]
    BY <1>2, <1>4, ReflexiveForge
<1>6. DeliveryTypeOK'
    <2>1. \A v \in Units : \A c \in branch'[v] \cup remoteBranch'[v] : c \in Seq(Layer)
        BY <1>2, <1>5 DEF DeliveryInv, DeliveryTypeOK, refs
    <2>. QED BY <1>1, <1>2, <2>1 DEF DeliveryInv, DeliveryTypeOK, Projection, refs, modes
<1>7. \A v \in Units : remoteBranch[v] # {} => remoteBranch'[v] # {}
    BY <1>2, <1>5
<1>8. Holds(p)'
    <2>1. Pulls' = Pulls /\ NextUnit(todo'[p]) = u
        BY <1>1, <1>2 DEF Pulls, refs, u
    <2>2. InOrder(p)'
        BY <1>1, <1>2, <1>3, <2>1 DEF InOrder
    <2>3. Published(p)'
        <3>1. remoteBranch'[NextUnit(todo'[p])] # {}
            BY <1>2, <1>5, <2>1
        <3>2. projections' = projections
            BY <1>2 DEF refs
        <3>. QED BY <1>1, <1>2, <1>3, <3>1, <3>2 DEF Published
    <2>4. made[p] = {} /\ Restacked(p)' /\ Recorded(p)'
        BY <1>1, <1>2, <1>3 DEF Restacked, Recorded, Restacking
    <2>. QED BY <2>2, <2>3, <2>4 DEF Holds
<1>. QED BY <1>1, <1>2, <1>5, <1>6, <1>7, <1>8, CommandInv, ReflexiveForge
         DEF refs, modes, DeliveryInv

\* The unit at hand has a review.
LEMMA OpenReviewInv ==
    ASSUME DeliveryInv, NEW p \in Commands, OpenReview(p)
    PROVE  DeliveryInv' /\ Grows
<1> DEFINE u == NextUnit(todo[p])
<1>1. /\ pc'[p] = "publish" /\ todo'[p] = todo[p] /\ pull'[p] = pull[p] /\ made'[p] = made[p]
      /\ \A q \in Commands \ {p} : Same(q)
      /\ pc' \in [Commands -> {"idle"} \cup Restacking \cup Publishing]
      /\ UNCHANGED <<pull, todo, made>>
    BY GotoSame DEF OpenReview, DeliveryInv, Publishing
<1>2. /\ UNCHANGED <<refs, remoteBranch, remoteDecisions, remoteProjections, delivered, modes>>
      /\ reviews' = reviews \cup {u} /\ pc[p] = "review"
    BY DEF OpenReview
<1>3. InOrder(p) /\ Restacked(p) /\ Published(p)
    BY DEF DeliveryInv, Held
<1>4. u \in Units
    BY <1>2, <1>3, AtHand DEF DeliveryInv
<1> HIDE DEF u
<1>5. DeliveryTypeOK'
    BY <1>1, <1>2, <1>4 DEF DeliveryInv, DeliveryTypeOK, Projection, refs, modes
<1>6. Holds(p)'
    <2>1. Pulls' = Pulls /\ NextUnit(todo'[p]) = u /\ projections' = projections
        BY <1>1, <1>2 DEF Pulls, refs, u
    <2>2. InOrder(p)'
        BY <1>1, <1>2, <1>3, <2>1 DEF InOrder
    <2>3. Published(p)'
        <3>1. remoteBranch'[u] # {}
            BY <1>2, <1>3 DEF Published, u
        <3>. QED BY <1>1, <1>2, <1>3, <2>1, <3>1 DEF Published
    <2>4. made[p] = {} /\ Restacked(p)' /\ Recorded(p)'
        BY <1>1, <1>2, <1>3 DEF Restacked, Recorded, Restacking
    <2>. QED BY <2>2, <2>3, <2>4 DEF Holds
<1>. QED BY <1>1, <1>2, <1>5, <1>6, CommandInv, ReflexiveForge
         DEF refs, modes, DeliveryInv

\* Commits and branches change, nothing that is recorded or on the forge.
LEMMA BranchInv ==
    ASSUME DeliveryInv, DeliveryTypeOK', DOMAIN made' = Commands, NEW p \in Commands, Holds(p)',
           \A q \in Commands \ {p} : Same(q),
           UNCHANGED <<decisions, projections, forge, delivered, modes>>, Branches'
    PROVE  DeliveryInv' /\ Grows
<1>1. Grows
    <2>1. Len(decisions) <= Len(decisions')
        BY ReflexiveForge
    <2>2. \A c : Decided(c) => Decided(c)'
        BY UnchangedDecided
    <2>. QED BY <2>1, <2>2 DEF Grows, forge
<1>2. Held'
    BY <1>1, HeldStep DEF DeliveryInv
<1>3. remoteProjections \subseteq remoteProjections' /\ remoteDecisions <= remoteDecisions'
      /\ remoteDecisions' <= Len(decisions')
    BY ReflexiveForge DEF forge, DeliveryInv
<1>4. Numbered' /\ PublishedHasReview' /\ ParentRecorded' /\ DeliveredIsFetchable'
    BY <1>1, <1>3, SameStore DEF DeliveryInv
<1>. QED BY <1>1, <1>2, <1>3, <1>4 DEF DeliveryInv, modes

\* The branch is put back on the parent's commit.
LEMMA ResetInv ==
    ASSUME DeliveryInv, NEW p \in Commands, Reset(p)
    PROVE  DeliveryInv' /\ Grows
<1> DEFINE u == NextUnit(todo[p])
<1> DEFINE b == ParentTip(p, u)
<1>1. /\ pc'[p] = "commit" /\ todo'[p] = todo[p] /\ pull'[p] = pull[p] /\ made'[p] = made[p]
      /\ \A q \in Commands \ {p} : Same(q)
      /\ pc' \in [Commands -> {"idle"} \cup Restacking \cup Publishing]
      /\ UNCHANGED <<pull, todo, made>>
    BY GotoSame DEF Reset, DeliveryInv, Restacking
<1>2. /\ UNCHANGED <<decisions, projections, clock, forge, delivered, modes>>
      /\ branch' = [branch EXCEPT ![u] = {b}] /\ pc[p] = "reset"
    BY DEF Reset
<1>3. InOrder(p) /\ Restacked(p)
    BY DEF DeliveryInv, Held
<1>4. u \in Units
    BY <1>2, <1>3, AtHand DEF DeliveryInv
<1>5. b \in Seq(Layer) /\ Decided(b)
    <2>1. Base \in Seq(Layer) /\ Decided(Base)
        BY EmptySeq DEF Base, Decided
    <2>2. IF Parent[u] = u THEN b = Base ELSE Stacked(b, Parent[u]) /\ Decided(b)
        BY <1>2, <1>3, ParentTipIs DEF DeliveryInv
    <2>. QED BY <2>1, <2>2 DEF Stacked
<1> HIDE DEF u, b
<1>6. \A c : Decided(c) => Decided(c)'
    BY <1>2, UnchangedDecided
<1>7. /\ branch'[u] = {b} /\ DOMAIN branch' = Units
      /\ \A v \in Units : v # u => branch'[v] = branch[v]
    BY <1>2, <1>4 DEF DeliveryInv, Branches
<1>8. DeliveryTypeOK'
    <2>1. \A v \in Units : \A c \in branch'[v] \cup remoteBranch'[v] : c \in Seq(Layer)
        BY <1>2, <1>5, <1>7 DEF DeliveryInv, DeliveryTypeOK, forge
    <2>. QED BY <1>1, <1>2, <2>1 DEF DeliveryInv, DeliveryTypeOK, Projection, forge, modes
<1>9. Branches'
    BY <1>2, <1>5, <1>6, <1>7 DEF DeliveryInv, Branches, forge
<1>10. Holds(p)'
    <2>1. Pulls' = Pulls
        BY <1>2, UnchangedDecided
    <2>2. InOrder(p)' /\ Restacked(p)'
        BY <1>1, <1>2, <1>3, <1>6, <2>1 DEF InOrder, Restacked, Restacking
    <2>3. Recorded(p)' /\ Published(p)'
        BY <1>1 DEF Recorded, Published
    <2>. QED BY <2>2, <2>3 DEF Holds
<1>. QED BY <1>1, <1>2, <1>8, <1>9, <1>10, BranchInv DEF DeliveryInv

\* The commit of CommitBranch, in the words of the action.
LEMMA CommitIs ==
    ASSUME DeliveryInv, NEW p \in Commands, CommitBranch(p)
    PROVE  LET u == NextUnit(todo[p])
               b == ParentTip(p, u) IN
           \E t \in Nat : \E l \in Layer : LET c == Append(b, l) IN
              /\ t \in {clock, clock + 1} /\ t <= MaxTime[exclusive] /\ clock' = t
              /\ l.unit = u /\ l.content = decisions[pull[p]].content
              /\ branch[u] = {b}
              /\ branch' = [branch EXCEPT ![u] = {c}]
              /\ made' = [made EXCEPT ![p] = @ \cup {<<u, c>>}]
              /\ Stacked(c, u) /\ Decided(c) /\ c \in Seq(Layer) /\ Front(c) = b
              /\ Parent[u] # u => \E m \in made[p] : m[1] = Parent[u] /\ m[2] = b
<1> DEFINE u == NextUnit(todo[p])
<1> DEFINE b == ParentTip(p, u)
<1>1. pc[p] = "commit" /\ DeliveryTypeOK /\ InOrder(p) /\ Restacked(p)
    BY DEF CommitBranch, DeliveryInv, Held
<1>2. u \in Units /\ pull[p] \in Pulls
    BY <1>1, AtHand
<1>3. PICK t \in {clock, clock + 1} :
         /\ t <= MaxTime[exclusive]
         /\ branch[u] = {b}
         /\ clock' = t
         /\ branch' = [branch EXCEPT ![u] =
               {Append(b, [unit |-> u, content |-> decisions[pull[p]].content, time |-> t])}]
         /\ made' = [made EXCEPT ![p] = @ \cup
               {<<u, Append(b, [unit |-> u, content |-> decisions[pull[p]].content, time |-> t])>>}]
    BY DEF CommitBranch
<1>4. t \in Nat
    BY <1>1, BoundAssumption DEF DeliveryTypeOK
<1> DEFINE l == [unit |-> u, content |-> decisions[pull[p]].content, time |-> t]
<1>5. decisions[pull[p]].content \in Contents
    <2>1. /\ decisions \in Seq([plan : Plans, content : Contents])
          /\ pull[p] \in 1..Len(decisions)
        BY <1>1, <1>2 DEF DeliveryTypeOK, Pulls
    <2>2. decisions[pull[p]] \in [plan : Plans, content : Contents]
        BY <2>1, ElementOfSeq
    <2>. QED BY <2>2
<1>6. IF Parent[u] = u THEN b = Base
      ELSE /\ \E m \in made[p] : m[1] = Parent[u] /\ m[2] = b
           /\ Stacked(b, Parent[u]) /\ Decided(b)
    BY <1>1, ParentTipIs
<1>7. b \in Seq(Layer) /\ Decided(b)
    <2>1. Base \in Seq(Layer) /\ Decided(Base)
        BY EmptySeq DEF Base, Decided
    <2>. QED BY <1>6, <2>1 DEF Stacked
<1> HIDE DEF u, b
<1>8. l \in Layer /\ l.unit = u /\ l.content = decisions[pull[p]].content
    BY <1>2, <1>4, <1>5 DEF Layer
<1> DEFINE c == Append(b, l)
<1>9. /\ branch' = [branch EXCEPT ![u] = {c}]
      /\ made' = [made EXCEPT ![p] = @ \cup {<<u, c>>}]
    BY <1>3 DEF u, b
<1> HIDE DEF l
<1>10. Stacked(c, u)
    BY <1>2, <1>6, <1>8, StackedExtends
<1>11. /\ c \in Seq(Layer) /\ Len(c) = Len(b) + 1 /\ c[Len(b) + 1] = l /\ Len(b) \in Nat
       /\ \A k \in 1..Len(b) : c[k] = b[k]
    BY <1>7, <1>8, AppendProperties, LenProperties
<1>12. Front(c) = b
    BY <1>7, <1>8, FrontOfAppend
<1> HIDE DEF c
<1>13. Decided(c)
    <2> SUFFICES ASSUME NEW k \in DOMAIN c
                 PROVE  \E n \in Pulls : decisions[n].content = c[k].content
        BY DEF Decided
    <2>1. k \in 1..Len(b) + 1 /\ DOMAIN b = 1..Len(b)
        BY <1>7, <1>11, LenProperties
    <2>2. CASE k = Len(b) + 1
        BY <1>2, <1>8, <1>11, <2>2
    <2>3. CASE k \in DOMAIN b
        BY <1>7, <1>11, <2>1, <2>3 DEF Decided
    <2>. QED BY <1>11, <2>1, <2>2, <2>3
<1>. QED BY <1>3, <1>4, <1>6, <1>8, <1>9, <1>10, <1>11, <1>12, <1>13 DEF u, b, c

\* A commit on the parent's becomes the branch and part of the restack.
LEMMA CommitInv ==
    ASSUME DeliveryInv, NEW p \in Commands, CommitBranch(p)
    PROVE  DeliveryInv' /\ Grows
<1> DEFINE u == NextUnit(todo[p])
<1> DEFINE b == ParentTip(p, u)
<1>1. PICK t \in Nat, l \in Layer : LET c == Append(b, l) IN
              /\ t \in {clock, clock + 1} /\ t <= MaxTime[exclusive] /\ clock' = t
              /\ branch' = [branch EXCEPT ![u] = {c}]
              /\ made' = [made EXCEPT ![p] = @ \cup {<<u, c>>}]
              /\ Stacked(c, u) /\ Decided(c) /\ c \in Seq(Layer) /\ Front(c) = b
              /\ Parent[u] # u => \E m \in made[p] : m[1] = Parent[u] /\ m[2] = b
    BY CommitIs
<1> DEFINE c == Append(b, l)
<1>2. /\ DeliveryTypeOK /\ InOrder(p) /\ Restacked(p) /\ pc[p] = "commit"
      /\ DOMAIN pc = Commands /\ DOMAIN todo = Commands /\ DOMAIN made = Commands
    BY DEF CommitBranch, DeliveryInv, Held, DeliveryTypeOK
<1>3. /\ u \in Units /\ u \in todo[p] /\ todo[p] \subseteq Units
      /\ \A v \in todo[p] \ {u} : u < v
    BY <1>2, AtHand
<1> DEFINE rest == todo[p] \ {u}
<1>4. /\ pc' = [pc EXCEPT ![p] = IF rest = {} THEN "record" ELSE "reset"]
      /\ todo' = [todo EXCEPT ![p] = IF rest = {} THEN Units ELSE rest]
      /\ UNCHANGED <<decisions, projections, forge, pull, delivered, modes>>
    BY DEF CommitBranch
<1> HIDE DEF u, b, c
<1>5. /\ pc'[p] = (IF rest = {} THEN "record" ELSE "reset")
      /\ todo'[p] = (IF rest = {} THEN Units ELSE rest)
      /\ made'[p] = made[p] \cup {<<u, c>>}
      /\ pull'[p] = pull[p]
      /\ \A q \in Commands \ {p} : Same(q)
    BY <1>1, <1>2, <1>4 DEF c, Same
<1>6. /\ Stacked(c, u) /\ Decided(c) /\ c \in Seq(Layer) /\ Front(c) = b
      /\ branch' = [branch EXCEPT ![u] = {c}]
      /\ Parent[u] # u => \E m \in made[p] : m[1] = Parent[u] /\ m[2] = b
    BY <1>1 DEF c
<1>7. /\ branch'[u] = {c} /\ DOMAIN branch' = Units
      /\ \A v \in Units : v # u => branch'[v] = branch[v]
    BY <1>3, <1>6 DEF DeliveryInv, Branches
<1>8. \A d : Decided(d) => Decided(d)'
    BY <1>4, UnchangedDecided
<1>9. DeliveryTypeOK'
    <2>1. \A v \in Units : \A d \in branch'[v] \cup remoteBranch'[v] : d \in Seq(Layer)
        BY <1>2, <1>4, <1>6, <1>7 DEF DeliveryTypeOK, forge
    <2>2. clock' \in 0..MaxTime[exclusive]
        BY <1>1, BoundAssumption, <1>2 DEF DeliveryTypeOK
    <2>3. pc' \in [Commands -> {"idle"} \cup Restacking \cup Publishing]
        BY <1>2, <1>4 DEF DeliveryTypeOK, Restacking
    <2>4. todo' \in [Commands -> SUBSET Units]
        BY <1>2, <1>4 DEF DeliveryTypeOK
    <2>5. \A q \in Commands : \A m \in made'[q] : m \in Units \X Seq(Layer)
        <3> TAKE q \in Commands
        <3>1. \A m \in made[q] : m \in Units \X Seq(Layer)
            BY <1>2 DEF DeliveryTypeOK
        <3>2. <<u, c>> \in Units \X Seq(Layer)
            BY <1>3, <1>6
        <3>3. CASE q = p
            BY <1>5, <3>1, <3>2, <3>3
        <3>4. CASE q # p
            BY <1>5, <3>1, <3>4 DEF Same
        <3>. QED BY <3>3, <3>4
    <2>. QED BY <1>2, <1>4, <2>1, <2>2, <2>3, <2>4, <2>5
             DEF DeliveryTypeOK, Projection, forge, modes
<1>10. Branches'
    BY <1>4, <1>6, <1>7, <1>8 DEF DeliveryInv, Branches, forge
<1>11. InOrder(p)'
    <2>1. Pulls' = Pulls /\ pull'[p] \in Pulls'
        BY <1>2, <1>4, <1>5, UnchangedDecided DEF InOrder
    <2>2. todo'[p] # {}
        BY <1>5, UnitAssumption
    <2>3. \A v \in Units \ todo'[p], w \in todo'[p] : v < w
        BY <1>2, <1>3, <1>5 DEF InOrder
    <2>. QED BY <1>5, <2>1, <2>2, <2>3 DEF InOrder
<1>12. Restacked(p)'
    <2>1. \A m \in made[p] : m[1] # u
        BY <1>2, <1>3 DEF Restacked
    <2>2. \A m, k \in made'[p] : m[1] = k[1] => m = k
        BY <1>2, <1>5, <2>1 DEF Restacked
    <2>3. \A m \in made'[p] :
              /\ Stacked(m[2], m[1]) /\ Decided(m[2])'
              /\ Parent[m[1]] # m[1] =>
                    \E k \in made'[p] : k[1] = Parent[m[1]] /\ k[2] = Front(m[2])
        <3> TAKE m \in made'[p]
        <3>1. CASE m = <<u, c>>
            BY <1>5, <1>6, <1>8, <3>1
        <3>2. CASE m \in made[p]
            BY <1>2, <1>5, <1>8, <3>2 DEF Restacked
        <3>. QED BY <1>5, <3>1, <3>2
    <2>4. \A v \in Units : v \in todo[p] <=> \A m \in made[p] : m[1] # v
        BY <1>2 DEF Restacked
    <2>5. \A v \in Units : (\A m \in made'[p] : m[1] # v) <=> v \in rest
        <3> TAKE v \in Units
        <3>1. <<u, c>>[1] = u
            OBVIOUS
        <3>2. (\A m \in made'[p] : m[1] # v) <=> (\A m \in made[p] : m[1] # v) /\ u # v
            BY <1>5, <3>1
        <3>. QED BY <2>4, <3>2
    <2>6. CASE rest = {}
        BY <1>5, <2>2, <2>3, <2>5, <2>6 DEF Restacked, Restacking
    <2>7. CASE rest # {}
        BY <1>5, <2>2, <2>3, <2>5, <2>7 DEF Restacked, Restacking
    <2>. QED BY <2>6, <2>7
<1>13. Recorded(p)' /\ Published(p)'
    <2>1. pc'[p] = "record" => todo'[p] = Units
        BY <1>5
    <2>2. \A m \in made'[p] : m[1] \in Units
        BY <1>2, <1>3, <1>5 DEF DeliveryTypeOK
    <2>. QED BY <1>5, <2>1, <2>2 DEF Recorded, Published
<1>14. Holds(p)'
    BY <1>11, <1>12, <1>13 DEF Holds
<1>15. DOMAIN made' = Commands
    BY <1>1, <1>2
<1>. QED BY <1>4, <1>5, <1>9, <1>10, <1>14, <1>15, BranchInv

\* A projection is recorded: it is the next of its unit, its review is there when it
\* says it is published, and so is its parent's projection.
LEMMA ProjectionInv ==
    ASSUME DeliveryInv, DeliveryTypeOK', DOMAIN made' = Commands, NEW p \in Commands, Holds(p)',
           \A q \in Commands \ {p} : Same(q),
           UNCHANGED <<decisions, branch, forge, delivered, modes>>,
           NEW x, projections' = projections \cup {x},
           \A y \in projections : y.unit = x.unit => y.revision < x.revision,
           \A r \in 0..x.revision - 1 : \E y \in projections : y.unit = x.unit /\ y.revision = r,
           x.status = "published" => x.unit \in reviews /\ remoteBranch[x.unit] # {},
           Parent[x.unit] # x.unit =>
              \E y \in projections :
                 y.unit = Parent[x.unit] /\ y.pull = x.pull /\ y.commit = Front(x.commit)
    PROVE  DeliveryInv' /\ Grows
<1>1. Grows
    <2>1. Len(decisions) <= Len(decisions')
        BY ReflexiveForge
    <2>2. \A c : Decided(c) => Decided(c)'
        BY UnchangedDecided
    <2>. QED BY <2>1, <2>2 DEF Grows, forge
<1>2. Held'
    BY <1>1, HeldStep DEF DeliveryInv
<1>3. /\ x.revision \in Nat /\ \A y \in projections : y.revision \in Nat
      /\ Numbered
    <2>1. x \in projections' /\ \A y \in projections : y \in projections'
        OBVIOUS
    <2>2. \A y \in projections' : y.revision \in 0..MaxProjection[exclusive']
        BY DEF DeliveryTypeOK, Projection
    <2>3. MaxProjection[exclusive'] \in Nat
        BY BoundAssumption DEF DeliveryTypeOK
    <2>. QED BY <2>1, <2>2, <2>3 DEF DeliveryInv
<1>4. Numbered'
    <2>1. ASSUME NEW y \in projections', NEW z \in projections',
                 y.unit = z.unit, y.revision = z.revision
          PROVE  y = z
        BY <1>3, <2>1 DEF Numbered
    <2>2. ASSUME NEW y \in projections', NEW r \in 0..y.revision
          PROVE  \E z \in projections' : z.unit = y.unit /\ z.revision = r
        <3>1. CASE y \in projections
            BY <1>3, <2>2, <3>1 DEF Numbered
        <3>2. CASE y = x
            <4>1. r = x.revision \/ r \in 0..x.revision - 1
                BY <1>3, <2>2, <3>2
            <4>. QED BY <3>2, <4>1
        <3>. QED BY <3>1, <3>2
    <2>. QED BY <2>1, <2>2 DEF Numbered
<1>5. PublishedHasReview'
    BY DEF DeliveryInv, PublishedHasReview, forge
<1>6. ParentRecorded'
    BY DEF DeliveryInv, ParentRecorded
<1>7. DeliveredIsFetchable' /\ Branches'
    BY <1>1 DEF DeliveryInv, DeliveredIsFetchable, forge, Branches, Grows
<1>8. remoteDecisions' <= Len(decisions') /\ (calm' => exclusive')
    BY DEF DeliveryInv, forge, modes
<1>. QED BY <1>1, <1>2, <1>4, <1>5, <1>6, <1>7, <1>8 DEF DeliveryInv

\* The next unit of a restack is recorded.
LEMMA RecordInv ==
    ASSUME DeliveryInv, NEW p \in Commands, Record(p)
    PROVE  DeliveryInv' /\ Grows
<1> DEFINE u == NextUnit(todo[p])
<1> DEFINE m == CHOOSE m \in made[p] : m[1] = u
<1> DEFINE x == [unit |-> u, revision |-> NextRevision(u), pull |-> pull[p],
                 commit |-> m[2], status |-> "projected"]
<1> DEFINE rest == todo[p] \ {u}
<1>1. /\ DeliveryTypeOK /\ InOrder(p) /\ Restacked(p) /\ Recorded(p) /\ pc[p] = "record"
      /\ DOMAIN pc = Commands /\ DOMAIN todo = Commands /\ DOMAIN made = Commands
    BY DEF Record, DeliveryInv, Held, DeliveryTypeOK
<1>2. /\ u \in Units /\ u \in todo[p] /\ todo[p] \subseteq Units /\ pull[p] \in Pulls
      /\ \A v \in rest : u < v
    BY <1>1, AtHand
<1>3. /\ NextRevision(u) <= MaxProjection[exclusive]
      /\ projections' = projections \cup {x}
      /\ IF Cardinality(todo[p]) = 1 THEN Stop(p)
         ELSE TickOff(p, "record", "record") /\ UNCHANGED <<pull, made>>
      /\ UNCHANGED <<decisions, branch, clock, forge, delivered, modes>>
    BY DEF Record, NextRevision
<1> HIDE DEF u
<1>4. m \in made[p] /\ m[1] = u
    BY <1>1, <1>2, MadeOfUnit
<1>5. /\ NextRevision(u) \in Nat
      /\ \A y \in projections : y.unit = u => y.revision < NextRevision(u)
      /\ \A r \in 0..NextRevision(u) - 1 :
            \E y \in projections : y.unit = u /\ y.revision = r
    BY <1>2, NextRevisionIsNext DEF DeliveryInv
<1> HIDE DEF m
<1>6. /\ x.unit = u /\ x.revision = NextRevision(u) /\ x.pull = pull[p] /\ x.commit = m[2]
      /\ x.status = "projected"
    OBVIOUS
<1>7. x \in Projection
    <2>1. m[2] \in Seq(Layer)
        BY <1>1, <1>4 DEF DeliveryTypeOK
    <2>2. pull[p] \in 1..MaxDecision
        BY <1>2, ReflexiveForge DEF Pulls
    <2>3. NextRevision(u) \in 0..MaxProjection[exclusive]
        BY <1>1, <1>3, <1>5, RevisionTypes
    <2>. QED BY <1>2, <2>1, <2>2, <2>3 DEF Projection, Statuses
<1>8. \A r \in 0..x.revision - 1 : \E y \in projections : y.unit = x.unit /\ y.revision = r
    BY <1>5, <1>6
<1>9. Parent[x.unit] # x.unit =>
         \E y \in projections :
            y.unit = Parent[x.unit] /\ y.pull = x.pull /\ y.commit = Front(x.commit)
    <2> HAVE Parent[x.unit] # x.unit
    <2>1. PICK k \in made[p] : k[1] = Parent[u] /\ k[2] = Front(m[2])
        BY <1>1, <1>4, <1>6 DEF Restacked
    <2>2. Parent[u] \in Nat /\ u \in Nat /\ Parent[u] < u /\ Parent[u] \in Units
        <3>1. Parent[u] \in Units /\ Parent[u] <= u
            BY <1>2, ParentAssumption
        <3>2. Parent[u] \in Nat /\ u \in Nat
            BY <1>2, <3>1, UnitAssumption
        <3>. QED BY <1>6, <3>1, <3>2
    <2>3. k[1] \notin todo[p]
        BY <1>2, <2>1, <2>2
    <2>4. PICK y \in projections : y.unit = k[1] /\ y.pull = pull[p] /\ y.commit = k[2]
        BY <1>1, <2>1, <2>3 DEF Recorded
    <2>. QED BY <1>6, <2>1, <2>4
<1> HIDE DEF x
<1>10. x.status # "published" /\ \A y \in projections : y.unit = x.unit => y.revision < x.revision
    BY <1>5, <1>6
<1>11. CASE Cardinality(todo[p]) = 1
    <2>1. Stop(p)
        BY <1>3, <1>11
    <2>2. /\ Holds(p)' /\ \A q \in Commands \ {p} : Same(q)
          /\ pc' \in [Commands -> {"idle"} \cup Restacking \cup Publishing]
          /\ pull' \in [Commands -> 0..MaxDecision]
          /\ todo' \in [Commands -> SUBSET Units]
          /\ \A q \in Commands : \A k \in made'[q] : k \in Units \X Seq(Layer)
          /\ DOMAIN made' = Commands
        BY <1>1, <2>1, StopHolds
    <2>3. DeliveryTypeOK'
        BY <1>1, <1>3, <1>7, <2>2 DEF DeliveryTypeOK, Projection, forge, modes
    <2>. QED BY <1>3, <1>8, <1>9, <1>10, <2>2, <2>3, ProjectionInv
<1>12. CASE Cardinality(todo[p]) # 1
    <2>1. TickOff(p, "record", "record") /\ UNCHANGED <<pull, made>>
        BY <1>3, <1>12
    <2>2. pc'[p] = "record" /\ todo'[p] = rest /\ pull'[p] = pull[p] /\ made'[p] = made[p]
        BY <1>1, <2>1 DEF TickOff, u
    <2>3. \A q \in Commands \ {p} : Same(q)
        BY <1>1, <2>1 DEF TickOff, Same
    <2>4. DeliveryTypeOK'
        <3>1. pc' \in [Commands -> {"idle"} \cup Restacking \cup Publishing]
              /\ todo' \in [Commands -> SUBSET Units]
            BY <1>1, <2>1 DEF TickOff, DeliveryTypeOK, Restacking
        <3>. QED BY <1>1, <1>3, <1>7, <2>1, <3>1 DEF DeliveryTypeOK, Projection, forge, modes
    <2>5. rest # {}
        <3>1. rest = {} => todo[p] = {u}
            BY <1>2
        <3>2. Cardinality({u}) = 1
            BY FS_Singleton
        <3>. QED BY <1>12, <3>1, <3>2
    <2>6. Pulls' = Pulls /\ \A c : Decided(c) => Decided(c)'
        BY <1>3, UnchangedDecided
    <2>7. InOrder(p)'
        BY <1>1, <1>2, <2>2, <2>5, <2>6 DEF InOrder
    <2>8. Restacked(p)'
        BY <1>1, <2>2, <2>6 DEF Restacked, Restacking
    <2>9. Recorded(p)'
        <3> SUFFICES ASSUME NEW k \in made[p], k[1] \notin rest
                     PROVE  \E y \in projections' :
                                y.unit = k[1] /\ y.pull = pull[p] /\ y.commit = k[2]
            BY <2>2 DEF Recorded
        <3>1. CASE k[1] = u
            <4>1. k = m
                BY <1>1, <1>4, <3>1 DEF Restacked
            <4>. QED BY <1>3, <1>6, <3>1, <4>1
        <3>2. CASE k[1] # u
            BY <1>1, <1>3, <3>2 DEF Recorded
        <3>. QED BY <3>1, <3>2
    <2>10. Holds(p)'
        BY <2>2, <2>7, <2>8, <2>9 DEF Holds, Published
    <2>. QED BY <1>1, <1>3, <1>8, <1>9, <1>10, <2>1, <2>3, <2>4, <2>10, ProjectionInv
<1>. QED BY <1>11, <1>12

\* The projection RecordPublished records, in the words of ProjectionInv.
LEMMA PublicationIs ==
    ASSUME DeliveryInv, NEW p \in Commands, RecordPublished(p)
    PROVE  \E x \in projections, y \in Projection :
              /\ IsNewest(x) /\ x.unit = NextUnit(todo[p]) /\ x.pull = pull[p]
              /\ y.unit = x.unit /\ y.pull = x.pull /\ y.commit = x.commit
              /\ y.revision = x.revision + 1 /\ y.status = "published"
              /\ projections' = projections \cup {y}
<1>1. PICK x \in LatestProjectionFor(NextUnit(todo[p]), pull[p]) :
          /\ x.revision < MaxProjection[exclusive]
          /\ \A y \in projections : y.unit = x.unit => y.revision # x.revision + 1
          /\ projections' = projections \cup
                {[x EXCEPT !.revision = @ + 1, !.status = "published"]}
    BY DEF RecordPublished
<1>2. x \in projections /\ x.unit = NextUnit(todo[p]) /\ x.pull = pull[p]
    BY DEF LatestProjectionFor, Newest
<1>3. IsNewest(x)
    BY <1>1, <1>2, FreeIsNewest DEF DeliveryInv
<1> DEFINE y == [x EXCEPT !.revision = @ + 1, !.status = "published"]
<1>4. x \in Projection
    BY <1>2 DEF DeliveryInv, DeliveryTypeOK
<1>5. /\ y.unit = x.unit /\ y.pull = x.pull /\ y.commit = x.commit
      /\ y.revision = x.revision + 1 /\ y.status = "published"
    BY <1>4 DEF Projection
<1>6. x.revision + 1 \in 0..MaxProjection[exclusive]
    BY <1>1, <1>2, RevisionTypes DEF DeliveryInv
<1>7. y \in Projection
    BY <1>4, <1>6 DEF Projection, Statuses
<1>. QED BY <1>1, <1>2, <1>3, <1>5, <1>7

\* The unit at hand is published.
LEMMA RecordPublishedInv ==
    ASSUME DeliveryInv, NEW p \in Commands, RecordPublished(p)
    PROVE  DeliveryInv' /\ Grows
<1> DEFINE u == NextUnit(todo[p])
<1> DEFINE rest == todo[p] \ {u}
<1>1. PICK x \in projections, y \in Projection :
              /\ IsNewest(x) /\ x.unit = u /\ x.pull = pull[p]
              /\ y.unit = x.unit /\ y.pull = x.pull /\ y.commit = x.commit
              /\ y.revision = x.revision + 1 /\ y.status = "published"
              /\ projections' = projections \cup {y}
    BY PublicationIs
<1>2. /\ DeliveryTypeOK /\ InOrder(p) /\ Restacked(p) /\ Published(p) /\ pc[p] = "publish"
      /\ DOMAIN pc = Commands /\ DOMAIN todo = Commands /\ DOMAIN made = Commands
    BY DEF RecordPublished, DeliveryInv, Held, DeliveryTypeOK
<1>3. /\ u \in Units /\ u \in todo[p] /\ todo[p] \subseteq Units /\ pull[p] \in Pulls
      /\ \A v \in rest : u < v
    BY <1>2, AtHand
<1>4. /\ TickOff(p, "push", "final")
      /\ UNCHANGED <<decisions, branch, clock, forge, pull, made, delivered, modes>>
    BY DEF RecordPublished
<1>5. u \in reviews /\ remoteBranch[u] # {}
    BY <1>2 DEF Published
<1>6. /\ pc'[p] = (IF rest = {} THEN "final" ELSE "push") /\ todo'[p] = rest
      /\ pull'[p] = pull[p] /\ made'[p] = made[p]
      /\ \A q \in Commands \ {p} : Same(q)
    BY <1>2, <1>4 DEF TickOff, Same
<1>7. DeliveryTypeOK'
    <2>1. pc' \in [Commands -> {"idle"} \cup Restacking \cup Publishing]
          /\ todo' \in [Commands -> SUBSET Units]
        BY <1>2, <1>4 DEF TickOff, DeliveryTypeOK, Publishing
    <2>. QED BY <1>1, <1>2, <1>4, <2>1 DEF DeliveryTypeOK, Projection, forge, modes
<1> HIDE DEF u
<1>8. x.revision \in Nat /\ \A z \in projections : z.revision \in Nat
    BY <1>2, RevisionTypes
<1>9. \A z \in projections : z.unit = y.unit => z.revision < y.revision
    BY <1>1, <1>8 DEF IsNewest
<1>10. \A r \in 0..y.revision - 1 : \E z \in projections : z.unit = y.unit /\ z.revision = r
    <2>1. \A r \in 0..x.revision : \E z \in projections : z.unit = x.unit /\ z.revision = r
        BY DEF DeliveryInv, Numbered
    <2>. QED BY <1>1, <1>8, <2>1
<1>11. Parent[y.unit] # y.unit =>
          \E z \in projections :
             z.unit = Parent[y.unit] /\ z.pull = y.pull /\ z.commit = Front(y.commit)
    <2>1. Parent[x.unit] # x.unit =>
             \E z \in projections :
                z.unit = Parent[x.unit] /\ z.pull = x.pull /\ z.commit = Front(x.commit)
        BY DEF DeliveryInv, ParentRecorded
    <2>. QED BY <1>1, <2>1
<1>12. Holds(p)'
    <2>1. Pulls' = Pulls
        BY <1>4, UnchangedDecided
    <2>2. InOrder(p)'
        BY <1>2, <1>3, <1>6, <2>1 DEF InOrder
    <2>3. made[p] = {} /\ Restacked(p)' /\ Recorded(p)'
        BY <1>2, <1>6 DEF Restacked, Recorded, Restacking
    <2>4. Published(p)'
        <3>1. \A v \in Units \ rest :
                 \E z \in projections' : z.unit = v /\ z.pull = pull[p] /\ z.status = "published"
            BY <1>1, <1>2 DEF Published
        <3>. QED BY <1>6, <3>1 DEF Published
    <2>. QED BY <2>2, <2>3, <2>4 DEF Holds
<1>13. projections' = projections \cup {y} /\ DOMAIN made' = Commands
       /\ y.unit \in reviews /\ remoteBranch[y.unit] # {}
    BY <1>1, <1>2, <1>4, <1>5
<1>. QED BY <1>4, <1>6, <1>7, <1>9, <1>10, <1>11, <1>12, <1>13, ProjectionInv

\* The forge holds it all, and the publish returns Ok.
LEMMA PushFinalInv ==
    ASSUME DeliveryInv, NEW p \in Commands, PushFinal(p)
    PROVE  DeliveryInv' /\ Grows
<1>1. /\ Holds(p)' /\ \A q \in Commands \ {p} : Same(q)
      /\ pc' \in [Commands -> {"idle"} \cup Restacking \cup Publishing]
      /\ pull' \in [Commands -> 0..MaxDecision]
      /\ todo' \in [Commands -> SUBSET Units]
      /\ \A q \in Commands : \A k \in made'[q] : k \in Units \X Seq(Layer)
      /\ DOMAIN made' = Commands
    BY StopHolds DEF PushFinal, DeliveryInv
<1>2. /\ UNCHANGED <<refs, remoteBranch, reviews, modes>>
      /\ remoteDecisions' = Len(decisions) /\ remoteProjections' = projections
      /\ delivered' = delivered \cup {pull[p]} /\ pc[p] = "final"
    BY DEF PushFinal, PushRefs
<1>3. InOrder(p) /\ Published(p) /\ DeliveryTypeOK
    BY DEF DeliveryInv, Held
<1>4. pull[p] \in 1..Len(decisions) /\ todo[p] = {}
    BY <1>2, <1>3 DEF InOrder, Pulls
<1>5. DeliveryTypeOK'
    <2>1. remoteDecisions' \in 0..MaxDecision /\ delivered' \subseteq 1..MaxDecision
        BY <1>2, <1>3, <1>4, ReflexiveForge DEF DeliveryTypeOK
    <2>. QED BY <1>1, <1>2, <1>3, <2>1 DEF DeliveryTypeOK, Projection, refs, modes
<1>6. Grows
    <2>1. Len(decisions) <= Len(decisions')
        BY <1>2, ReflexiveForge DEF refs
    <2>2. \A c : Decided(c) => Decided(c)'
        BY <1>2, UnchangedDecided DEF refs
    <2>. QED BY <1>2, <2>1, <2>2 DEF Grows, refs
<1>7. Held'
    BY <1>1, <1>5, <1>6, HeldStep DEF DeliveryInv
<1>8. DeliveredIsFetchable'
    <2>1. remoteDecisions \in Nat /\ Len(decisions) \in Nat /\ remoteDecisions <= Len(decisions)
        BY ReflexiveForge DEF DeliveryInv
    <2>2. \A n \in delivered : n \in Nat
        BY <1>3, BoundAssumption DEF DeliveryTypeOK
    <2> SUFFICES ASSUME NEW n \in delivered'
                 PROVE  /\ n <= remoteDecisions'
                        /\ \A u \in Units : \E x \in remoteProjections' :
                              x.unit = u /\ x.pull = n /\ x.status = "published"
        BY DEF DeliveredIsFetchable
    <2>3. CASE n \in delivered
        <3>1. n <= remoteDecisions
              /\ \A u \in Units : \E x \in remoteProjections :
                    x.unit = u /\ x.pull = n /\ x.status = "published"
            BY <2>3 DEF DeliveryInv, DeliveredIsFetchable
        <3>2. remoteProjections \subseteq remoteProjections'
            BY <1>2, <1>3 DEF DeliveryTypeOK
        <3>. QED BY <1>2, <2>1, <2>2, <2>3, <3>1, <3>2
    <2>4. CASE n = pull[p]
        <3>1. \A u \in Units :
                 \E x \in projections : x.unit = u /\ x.pull = n /\ x.status = "published"
            BY <1>2, <1>3, <1>4, <2>4 DEF Published
        <3>. QED BY <1>2, <1>4, <2>4, <3>1, <2>1
    <2>. QED BY <1>2, <2>3, <2>4
<1>9. Numbered' /\ ParentRecorded' /\ PublishedHasReview'
    BY <1>2 DEF DeliveryInv, Numbered, ParentRecorded, PublishedHasReview, refs
<1>10. Branches'
    BY <1>2, <1>6 DEF DeliveryInv, Branches, refs, Grows
<1>11. remoteDecisions' <= Len(decisions') /\ (calm' => exclusive')
    BY <1>2, ReflexiveForge DEF DeliveryInv, refs, modes
<1>. QED BY <1>1, <1>5, <1>7, <1>6, <1>8, <1>9, <1>10, <1>11 DEF DeliveryInv

\* A stuttering step.
LEMMA StutterInv ==
    ASSUME DeliveryInv, UNCHANGED deliveryVars
    PROVE  DeliveryInv' /\ Grows
<1>1. Pulls' = Pulls /\ \A c : Decided(c) <=> Decided(c)'
    BY DEF deliveryVars, refs, Pulls, Decided
<1>2. DeliveryTypeOK'
    BY DEF DeliveryInv, DeliveryTypeOK, Projection, deliveryVars, refs, forge, local, modes
<1>3. Held'
    <2> SUFFICES ASSUME NEW p \in Commands
                 PROVE  InOrder(p)' /\ Restacked(p)' /\ Recorded(p)' /\ Published(p)'
        BY DEF Held
    <2>1. InOrder(p) /\ Restacked(p) /\ Recorded(p) /\ Published(p)
        BY DEF DeliveryInv, Held
    <2>2. InOrder(p)' /\ Restacked(p)'
        BY <1>1, <2>1 DEF InOrder, Restacked, deliveryVars, local
    <2>3. Recorded(p)' /\ Published(p)'
        BY <2>1 DEF Recorded, Published, deliveryVars, local, refs, forge
    <2>. QED BY <2>2, <2>3
<1>4. Numbered' /\ PublishedHasReview' /\ ParentRecorded' /\ DeliveredIsFetchable' /\ Branches'
    BY <1>1 DEF DeliveryInv, Numbered, PublishedHasReview, ParentRecorded, DeliveredIsFetchable,
                Branches, deliveryVars, refs, forge
<1>5. Grows
    BY <1>1, ReflexiveForge DEF Grows, deliveryVars, refs, forge
<1>. QED BY <1>2, <1>3, <1>4, <1>5 DEF DeliveryInv, deliveryVars, refs, forge, local, modes

\* Every step, with what it cannot take back.
LEMMA StepInv ==
    ASSUME DeliveryInv, [DeliveryNext]_deliveryVars
    PROVE  DeliveryInv' /\ Grows
<1>1. CASE UNCHANGED deliveryVars
    BY <1>1, StutterInv
<1>2. CASE DeliveryNext
    <2> SUFFICES ASSUME NEW p \in Commands,
                        \/ Decide(p)
                        \/ \E i \in Plans : StartProject(p, i) \/ StartPublish(p, i)
                        \/ Reset(p) \/ CommitBranch(p) \/ Record(p)
                        \/ PushEvidence(p) \/ PushBranch(p) \/ OpenReview(p) \/ RecordPublished(p)
                        \/ PushFinal(p)
                        \/ Abort(p)
                 PROVE  DeliveryInv' /\ Grows
        BY <1>2 DEF DeliveryNext
    <2>1. CASE \E i \in Plans : StartProject(p, i) \/ StartPublish(p, i)
        <3>1. Starts(p)
            BY <2>1 DEF Starts, StartProject, StartPublish
        <3>. QED BY <3>1, StartInv DEF Starts
    <2>. QED BY <2>1, DecideInv, ResetInv, CommitInv, RecordInv, PushEvidenceInv, PushBranchInv,
                OpenReviewInv, RecordPublishedInv, PushFinalInv, AbortInv
<1>. QED BY <1>1, <1>2

-----------------------------------------------------------------------------
(* What holds of every command, whatever races and dies.                    *)

\* The invariant of every command holds in every behaviour.
LEMMA DeliveryInvHolds == DeliverySpec => []DeliveryInv
<1>1. DeliveryInv /\ [DeliveryNext]_deliveryVars => DeliveryInv'
    BY StepInv
<1>. QED BY <1>1, InitInv, PTL DEF DeliverySpec

\* A decision, a Projection, a review, a branch and a command (main.rs, review project and
\* review publish) always have the values they may have.
THEOREM DeliveryTypeCorrect == DeliverySpec => []DeliveryTypeOK
<1>1. DeliveryInv => DeliveryTypeOK
    BY DEF DeliveryInv
<1>. QED BY <1>1, DeliveryInvHolds, PTL

\* Whatever crashes, fails or races, a Projection is published only once its branch and its
\* review are on the forge (publish_review_plan records it last).
THEOREM PublishedAlwaysHasReview == DeliverySpec => []PublishedHasReview
<1>1. DeliveryInv => PublishedHasReview
    BY DEF DeliveryInv
<1>. QED BY <1>1, DeliveryInvHolds, PTL

\* A recorded projection stands on a recorded projection of its parent, of the same decision
\* (project_review_plan restacks and records parents first).
THEOREM ParentAlwaysRecorded == DeliverySpec => []ParentRecorded
<1>1. DeliveryInv => ParentRecorded
    BY DEF DeliveryInv
<1>. QED BY <1>1, DeliveryInvHolds, PTL

\* What a publication that returned Ok delivered can be fetched, for good (the final
\* push_orkia_refs of publish_review_plan).
THEOREM DeliveredAlwaysFetchable == DeliverySpec => []DeliveredIsFetchable
<1>1. DeliveryInv => DeliveredIsFetchable
    BY DEF DeliveryInv
<1>. QED BY <1>1, DeliveryInvHolds, PTL

-----------------------------------------------------------------------------
(* One command at a time.                                                   *)

\* The steps of a command, which starts only when no other is at work.
Steps(p) ==
    \/ Decide(p)
    \/ Starts(p)
    \/ Reset(p) \/ CommitBranch(p) \/ Record(p)
    \/ PushEvidence(p) \/ PushBranch(p) \/ OpenReview(p) \/ RecordPublished(p)
    \/ PushFinal(p)
    \/ Abort(p)

\* Every step of delivery is the step of a command.
LEMMA NextSteps ==
    ASSUME DeliveryNext
    PROVE  \E p \in Commands : Steps(p)
BY DEF DeliveryNext, Steps, Starts, StartProject, StartPublish

Alone(p) == \A q \in Commands \ {p} : pc[q] = "idle"

\* One command at a time: when one takes a step, the others are idle and stay so.
LEMMA WorksAlone ==
    ASSUME DeliveryInv, TurnInv, exclusive, NEW p \in Commands, Steps(p)
    PROVE  /\ Alone(p)
           /\ \A q \in Commands \ {p} : made[q] = {}
           /\ exclusive' = exclusive /\ calm' = calm
           /\ \A q \in Commands \ {p} : Same(q)
<1>1. /\ DOMAIN pc = Commands /\ DOMAIN pull = Commands /\ DOMAIN todo = Commands
      /\ DOMAIN made = Commands
    BY DEF DeliveryInv, DeliveryTypeOK
<1>2. exclusive' = exclusive /\ calm' = calm
    BY DEF Steps, Decide, Starts, Start, Reset, CommitBranch, Record, PushEvidence, PushBranch,
           OpenReview, RecordPublished, PushFinal, Abort, modes
<1>3. \A q \in Commands \ {p} : Same(q)
    <2>1. CASE Decide(p)
        BY <2>1 DEF Decide, Same, local
    <2>2. CASE Starts(p)
        BY <1>1, <2>2 DEF Starts, Start, Same
    <2>3. CASE Reset(p) \/ CommitBranch(p)
        BY <1>1, <2>3 DEF Reset, CommitBranch, Goto, Same
    <2>4. CASE Record(p)
        <3>1. Stop(p) \/ (TickOff(p, "record", "record") /\ UNCHANGED <<pull, made>>)
            BY <2>4 DEF Record
        <3>. QED BY <1>1, <3>1 DEF Stop, TickOff, Same
    <2>5. CASE PushEvidence(p) \/ PushBranch(p) \/ OpenReview(p)
        BY <1>1, <2>5 DEF PushEvidence, PushBranch, OpenReview, Goto, Same
    <2>6. CASE RecordPublished(p)
        BY <1>1, <2>6 DEF RecordPublished, TickOff, Same
    <2>7. CASE PushFinal(p) \/ Abort(p)
        BY <1>1, <2>7 DEF PushFinal, Abort, Stop, Same
    <2>. QED BY <2>1, <2>2, <2>3, <2>4, <2>5, <2>6, <2>7 DEF Steps
<1>4. Alone(p)
    <2>1. pc[p] # "idle" \/ \A q \in Commands : pc[q] = "idle"
        BY DEF Steps, Decide, Starts, Start, MayStart, Reset, CommitBranch, Record, PushEvidence,
               PushBranch, OpenReview, RecordPublished, PushFinal, Abort
    <2>. QED BY <2>1 DEF TurnInv, Alone
<1>5. \A q \in Commands \ {p} : made[q] = {}
    BY <1>4 DEF Alone, DeliveryInv, Held, Restacked, Restacking
<1>. QED BY <1>2, <1>3, <1>4, <1>5

Delivering == {"push", "review", "publish", "final"}

\* The steps that push nothing and decide nothing leave the evidence as it is, and a command that
\* is about to publish was already.
LEMMA QuietTurn ==
    ASSUME DeliveryInv, TurnInv, exclusive, NEW p \in Commands,
           UNCHANGED <<decisions, remoteDecisions, remoteBranch>>,
           Alone(p), \A q \in Commands \ {p} : Same(q), exclusive' = exclusive,
           pc'[p] \in Delivering => pc[p] \in Delivering
    PROVE  TurnInv'
<1>1. \A q, r \in Commands : pc'[q] # "idle" /\ pc'[r] # "idle" => q = r
    BY DEF Alone, Same
<1>2. \A q \in Commands : pc'[q] \in Delivering => remoteDecisions' = Len(decisions')
    BY DEF TurnInv, Alone, Same, Delivering
<1>3. \A u \in Units : HasEvidence(u)'
    BY DEF TurnInv, HasEvidence
<1>. QED BY <1>1, <1>2, <1>3 DEF TurnInv, Delivering

\* Pushing all refs brings the forge what the branches it has show.
LEMMA PushRefsTurn ==
    ASSUME DeliveryInv, TurnInv, exclusive, NEW p \in Commands,
           PushRefs, UNCHANGED <<decisions, remoteBranch>>,
           Alone(p), \A q \in Commands \ {p} : Same(q), exclusive' = exclusive
    PROVE  TurnInv'
<1>1. remoteDecisions' = Len(decisions) /\ Len(decisions) = Len(decisions')
    BY DEF PushRefs
<1>2. \A q, r \in Commands : pc'[q] # "idle" /\ pc'[r] # "idle" => q = r
    BY DEF Alone, Same
<1>3. \A u \in Units : HasEvidence(u)'
    <2>1. \A n \in 1..remoteDecisions : n \in 1..remoteDecisions'
        BY <1>1, ReflexiveForge DEF DeliveryInv
    <2>. QED BY <2>1 DEF TurnInv, HasEvidence
<1>. QED BY <1>1, <1>2, <1>3 DEF TurnInv

\* Every step of a command, when one works at a time.
LEMMA StepTurn ==
    ASSUME DeliveryInv, TurnInv, exclusive, NEW p \in Commands, Steps(p)
    PROVE  TurnInv'
<1>1. /\ Alone(p) /\ exclusive' = exclusive
      /\ \A q \in Commands \ {p} : Same(q)
    BY WorksAlone
<1>2. DOMAIN pc = Commands /\ pc[p] \in {"idle"} \cup Restacking \cup Publishing
    BY DEF DeliveryInv, DeliveryTypeOK
<1>3. CASE Decide(p)
    <2>1. \A q \in Commands : pc'[q] = "idle"
        BY <1>3 DEF Decide, MayStart, local
    <2>2. /\ Len(decisions) \in Nat /\ remoteDecisions' = remoteDecisions
          /\ \A n \in Pulls : decisions'[n] = decisions[n]
          /\ remoteBranch' = remoteBranch
        BY <1>3, DecideDecided DEF Decide, forge, DeliveryInv
    <2>3. \A n \in 1..remoteDecisions : decisions'[n] = decisions[n]
        BY <2>2, ReflexiveForge DEF Pulls, DeliveryInv
    <2>4. \A u \in Units : HasEvidence(u)'
        BY <2>2, <2>3 DEF TurnInv, HasEvidence
    <2>. QED BY <2>1, <2>4 DEF TurnInv
<1>4. CASE Starts(p)
    <2>1. pc'[p] \in {"reset", "evidence"} /\ UNCHANGED <<decisions, remoteDecisions, remoteBranch>>
        BY <1>2, <1>4 DEF Starts, Start, refs, forge
    <2>. QED BY <1>1, <2>1, QuietTurn DEF Delivering
<1>5. CASE Reset(p) \/ CommitBranch(p) \/ OpenReview(p) \/ RecordPublished(p) \/ Abort(p)
    <2>1. UNCHANGED <<decisions, remoteDecisions, remoteBranch>>
        BY <1>5 DEF Reset, CommitBranch, OpenReview, RecordPublished, Abort, refs, forge
    <2>2. pc'[p] \in Delivering => pc[p] \in Delivering
        BY <1>2, <1>5 DEF Reset, CommitBranch, OpenReview, RecordPublished, Abort, Stop, Goto,
                          TickOff, Delivering
    <2>. QED BY <1>1, <2>1, <2>2, QuietTurn
<1>6. CASE Record(p)
    <2>1. UNCHANGED <<decisions, remoteDecisions, remoteBranch>>
        BY <1>6 DEF Record, forge
    <2>2. Stop(p) \/ TickOff(p, "record", "record")
        BY <1>6 DEF Record
    <2>3. pc'[p] \notin Delivering
        BY <1>2, <2>2 DEF Stop, TickOff, Delivering
    <2>. QED BY <1>1, <2>1, <2>3, QuietTurn
<1>7. CASE PushEvidence(p) \/ PushFinal(p)
    BY <1>1, <1>7, PushRefsTurn DEF PushEvidence, PushFinal, refs
<1>8. CASE PushBranch(p)
    <2> DEFINE u == NextUnit(todo[p])
    <2>1. /\ remoteBranch' = [remoteBranch EXCEPT ![u] = branch[u]]
          /\ UNCHANGED <<decisions, remoteDecisions>> /\ pc[p] = "push"
        BY <1>8 DEF PushBranch, refs
    <2>2. \A q, r \in Commands : pc'[q] # "idle" /\ pc'[r] # "idle" => q = r
        BY <1>1 DEF Alone, Same
    <2>3. remoteDecisions = Len(decisions)
        BY <2>1 DEF TurnInv
    <2> HIDE DEF u
    <2>4. \A v \in Units : HasEvidence(v)'
        <3> SUFFICES ASSUME NEW v \in Units, NEW c \in remoteBranch'[v], NEW k \in DOMAIN c
                     PROVE  \E n \in 1..remoteDecisions : decisions[n].content = c[k].content
            BY <2>1 DEF HasEvidence
        <3>1. c \in branch[v] \/ c \in remoteBranch[v]
            BY <2>1, ReflexiveForge
        <3>2. CASE c \in branch[v]
            BY <2>3, <3>2 DEF DeliveryInv, Branches, Decided, Pulls
        <3>3. CASE c \in remoteBranch[v]
            BY <3>3 DEF TurnInv, HasEvidence
        <3>. QED BY <3>1, <3>2, <3>3
    <2>. QED BY <2>1, <2>2, <2>3, <2>4 DEF TurnInv
<1>. QED BY <1>3, <1>4, <1>5, <1>6, <1>7, <1>8 DEF Steps

\* The initial state, of one command at a time.
LEMMA InitTurn == DeliveryInit => TurnInv /\ CalmInv
<1> SUFFICES ASSUME DeliveryInit PROVE TurnInv /\ CalmInv
    OBVIOUS
<1>1. /\ \A p \in Commands : pc[p] = "idle" /\ made[p] = {}
      /\ \A u \in Units : branch[u] = {} /\ remoteBranch[u] = {}
      /\ projections = {}
    BY DEF DeliveryInit
<1>2. TurnInv
    BY <1>1 DEF TurnInv, HasEvidence
<1>3. CalmInv
    BY <1>1 DEF CalmInv, PublishedIsRemote
<1>. QED BY <1>2, <1>3

-----------------------------------------------------------------------------
(* One command at a time and every restack finished.                        *)

\* What CalmInv says, outside a restack: no branch is half made.
LEMMA SettledBranches ==
    ASSUME DeliveryInv, CalmInv, exclusive, calm,
           NEW p \in Commands, Alone(p), pc[p] \notin Restacking
    PROVE  /\ \A u \in Units : \A c \in branch[u] : Stacked(c, u)
           /\ \A x \in projections : IsNewest(x) => branch[x.unit] = {x.commit}
<1>1. \A q \in Commands : pc[q] \notin Restacking
    BY DEF Alone, Restacking
<1>2. \A u : ~Awaited(u)
    BY <1>1 DEF Awaited, Restacking
<1>. QED BY <1>1, <1>2 DEF CalmInv, Restacking

\* Steps outside a restack that leave branches and projections as they are.
LEMMA QuietCalm ==
    ASSUME DeliveryInv, CalmInv, exclusive, calm, NEW p \in Commands, Alone(p),
           pc[p] \notin Restacking, pc'[p] # "commit",
           \A q \in Commands \ {p} : Same(q), made'[p] = {},
           \A q \in Commands \ {p} : made[q] = {},
           UNCHANGED <<projections, branch, remoteBranch>>,
           pc'[p] \in {"review", "publish"} =>
              remoteBranch[NextUnit(todo'[p])] = branch[NextUnit(todo'[p])]
    PROVE  CalmInv'
<1>1. \A q \in Commands : made'[q] = {}
    BY DEF Same
<1>2. \A x \in projections : IsNewest(x)' => branch[x.unit] = {x.commit}
    BY SettledBranches DEF IsNewest
<1>3. \A q \in Commands : pc'[q] \in {"review", "publish"} =>
         remoteBranch[NextUnit(todo'[q])] = branch[NextUnit(todo'[q])]
    BY DEF Same, Alone
<1>4. \A u \in Units : \A c \in branch[u] : Stacked(c, u)
    BY SettledBranches
<1>5. \A u \in Units : \A c \in remoteBranch[u] : Stacked(c, u)
    BY DEF CalmInv
<1>6. PublishedIsRemote'
    BY DEF CalmInv, PublishedIsRemote
<1>. QED BY <1>1, <1>2, <1>3, <1>4, <1>5, <1>6 DEF CalmInv

\* A reset leaves the branch in between, and all branches awaited.
LEMMA ResetCalm ==
    ASSUME DeliveryInv, CalmInv, exclusive, calm, NEW p \in Commands, Alone(p), Reset(p),
           \A q \in Commands \ {p} : Same(q) /\ made[q] = {}
    PROVE  CalmInv'
<1> DEFINE u == NextUnit(todo[p])
<1>1. /\ UNCHANGED <<projections, remoteBranch>> /\ pc[p] = "reset"
      /\ branch' = [branch EXCEPT ![u] = {ParentTip(p, u)}]
      /\ pc'[p] = "commit" /\ todo'[p] = todo[p] /\ made'[p] = made[p]
    BY DEF Reset, Goto, DeliveryInv, DeliveryTypeOK, forge
<1>2. u \in todo[p] /\ u \in Units
    BY <1>1, AtHand DEF DeliveryInv, Held
<1>0. NextUnit(todo'[p]) = u
    BY <1>1
<1> HIDE DEF u
<1>3. \A v \in Units : v # u => branch'[v] = branch[v]
    BY <1>1, <1>2 DEF DeliveryInv, Branches
<1>4. \A v \in Units : \A c \in branch'[v] :
         Stacked(c, v) \/ \E q \in Commands : pc'[q] = "commit" /\ NextUnit(todo'[q]) = v
    <2> TAKE v \in Units
    <2>1. CASE v = u
        BY <1>0, <1>1, <2>1
    <2>2. CASE v # u
        <3>1. \A q \in Commands : pc[q] # "commit"
            BY <1>1 DEF Alone
        <3>. QED BY <1>3, <2>2, <3>1 DEF CalmInv
    <2>. QED BY <2>1, <2>2
<1>5. \A q \in Commands : \A m \in made'[q] : branch'[m[1]] = {m[2]}
    <2>1. \A m \in made[p] : m[1] # u /\ m[1] \in Units
        BY <1>1, <1>2 DEF DeliveryInv, DeliveryTypeOK, Held, Restacked
    <2>2. \A m \in made[p] : branch'[m[1]] = {m[2]}
        BY <1>3, <2>1 DEF CalmInv
    <2>. QED BY <1>1, <2>2 DEF Same
<1>6. \A v : Awaited(v)'
    BY <1>1 DEF Awaited
<1>7. \A q \in Commands : pc'[q] \notin {"review", "publish"}
    BY <1>1 DEF Same, Alone
<1>8. PublishedIsRemote' /\ \A v \in Units : \A c \in remoteBranch'[v] : Stacked(c, v)
    BY <1>1 DEF CalmInv, PublishedIsRemote
<1>. QED BY <1>4, <1>5, <1>6, <1>7, <1>8 DEF CalmInv

\* A commit makes the branch what a restack makes of its unit.
LEMMA CommitCalm ==
    ASSUME DeliveryInv, CalmInv, exclusive, calm, NEW p \in Commands, Alone(p), CommitBranch(p),
           \A q \in Commands \ {p} : Same(q) /\ made[q] = {}
    PROVE  CalmInv'
<1> DEFINE u == NextUnit(todo[p])
<1>1. /\ UNCHANGED <<projections, remoteBranch>> /\ pc[p] = "commit"
      /\ DOMAIN pc = Commands /\ DOMAIN todo = Commands /\ DOMAIN made = Commands
    BY DEF CommitBranch, DeliveryInv, DeliveryTypeOK, forge
<1>2. u \in todo[p] /\ u \in Units
    BY <1>1, AtHand DEF DeliveryInv, Held
<1> DEFINE b == ParentTip(p, u)
<1>0. PICK t \in Nat, l \in Layer : LET c == Append(b, l) IN
               /\ branch' = [branch EXCEPT ![u] = {c}]
               /\ made' = [made EXCEPT ![p] = @ \cup {<<u, c>>}]
               /\ Stacked(c, u)
    BY CommitIs
<1> DEFINE c == Append(b, l)
<1>3. /\ branch' = [branch EXCEPT ![u] = {c}] /\ Stacked(c, u)
      /\ made' = [made EXCEPT ![p] = @ \cup {<<u, c>>}]
    BY <1>0
<1>4. /\ pc'[p] \in {"record", "reset"}
      /\ pc'[p] = "record" => todo'[p] = Units
    BY <1>1 DEF CommitBranch
<1> HIDE DEF u, c
<1>5. branch'[u] = {c} /\ \A v \in Units : v # u => branch'[v] = branch[v]
    BY <1>2, <1>3 DEF DeliveryInv, Branches
<1>6. \A v \in Units : \A d \in branch'[v] : Stacked(d, v)
    <2> TAKE v \in Units
    <2>1. CASE v = u
        BY <1>3, <1>5, <2>1
    <2>2. CASE v # u
        <3>1. \A q \in Commands : pc[q] = "commit" => NextUnit(todo[q]) = u
            BY DEF Alone, u
        <3>. QED BY <1>5, <2>2, <3>1 DEF CalmInv
    <2>. QED BY <2>1, <2>2
<1>7. \A q \in Commands : \A m \in made'[q] : branch'[m[1]] = {m[2]}
    <2>1. \A m \in made[p] : m[1] # u /\ m[1] \in Units
        BY <1>1, <1>2 DEF DeliveryInv, DeliveryTypeOK, Held, Restacked
    <2>2. \A m \in made[p] : branch'[m[1]] = {m[2]}
        BY <1>5, <2>1 DEF CalmInv
    <2>3. made'[p] = made[p] \cup {<<u, c>>}
        BY <1>1, <1>3
    <2>. QED BY <1>5, <2>2, <2>3 DEF Same
<1>8. \A v \in Units : Awaited(v)'
    BY <1>4 DEF Awaited
<1>9. \A x \in projections' : x.unit \in Units
    BY <1>1, RevisionTypes DEF DeliveryInv
<1>10. \A q \in Commands : pc'[q] \notin {"review", "publish"}
    BY <1>4 DEF Same, Alone
<1>11. PublishedIsRemote' /\ \A v \in Units : \A d \in remoteBranch'[v] : Stacked(d, v)
    BY <1>1 DEF CalmInv, PublishedIsRemote
<1>. QED BY <1>6, <1>7, <1>8, <1>9, <1>10, <1>11 DEF CalmInv

\* A recorded projection is the newest of its unit and names the branch's commit.
LEMMA RecordCalm ==
    ASSUME DeliveryInv, CalmInv, exclusive, calm, NEW p \in Commands, Alone(p), Record(p),
           \A q \in Commands \ {p} : Same(q) /\ made[q] = {}
    PROVE  CalmInv'
<1> DEFINE u == NextUnit(todo[p])
<1> DEFINE m == CHOOSE m \in made[p] : m[1] = u
<1>1. /\ UNCHANGED <<branch, remoteBranch>> /\ pc[p] = "record"
      /\ DOMAIN pc = Commands /\ DOMAIN todo = Commands /\ DOMAIN made = Commands
    BY DEF Record, DeliveryInv, DeliveryTypeOK, forge
<1>2. u \in todo[p] /\ u \in Units
    BY <1>1, AtHand DEF DeliveryInv, Held
<1>3. m \in made[p] /\ m[1] = u
    BY <1>1, <1>2, MadeOfUnit DEF DeliveryInv, Held
<1>4. PICK x : /\ x.unit = u /\ x.revision = NextRevision(u) /\ x.commit = m[2]
               /\ x.status = "projected" /\ projections' = projections \cup {x}
    BY DEF Record, NextRevision
<1>5. \A y \in projections : y.unit = u => y.revision < x.revision
    BY <1>2, <1>4, NextRevisionIsNext DEF DeliveryInv
<1>6. x.revision \in Nat /\ \A y \in projections : y.revision \in Nat
    <2>1. DeliveryTypeOK /\ Numbered
        BY DEF DeliveryInv
    <2>2. x.revision \in Nat
        BY <1>2, <1>4, <2>1, NextRevisionIsNext
    <2>3. ASSUME NEW y \in projections PROVE y.revision \in Nat
        <3>1. MaxProjection[exclusive] \in Nat /\ y.revision \in 0..MaxProjection[exclusive]
            BY <2>1, RevisionTypes
        <3>. QED BY <3>1
    <2>. QED BY <2>2, <2>3
<1>7. \/ Cardinality(todo[p]) = 1 /\ pc'[p] = "idle" /\ made'[p] = {}
      \/ pc'[p] = "record" /\ todo'[p] = todo[p] \ {u} /\ made'[p] = made[p]
    <2>1. \/ Cardinality(todo[p]) = 1 /\ Stop(p)
          \/ TickOff(p, "record", "record") /\ UNCHANGED made
        BY DEF Record
    <2>. QED BY <1>1, <2>1 DEF Stop, TickOff
<1> HIDE DEF u, m
<1>8. \A v \in Units : \A c \in branch'[v] : Stacked(c, v)
    BY <1>1 DEF CalmInv, Alone
<1>9. \A q \in Commands : \A k \in made'[q] : branch'[k[1]] = {k[2]}
    BY <1>1, <1>7 DEF CalmInv, Same
<1>10. \A y \in projections' : IsNewest(y)' => Awaited(y.unit)' \/ branch'[y.unit] = {y.commit}
    <2> SUFFICES ASSUME NEW y \in projections', IsNewest(y)', ~Awaited(y.unit)'
                 PROVE  branch[y.unit] = {y.commit}
        BY <1>1
    <2>1. CASE y = x
        BY <1>3, <1>4, <2>1 DEF CalmInv
    <2>2. CASE y # x
        <3>1. y \in projections /\ x \in projections'
            BY <1>4, <2>2
        <3>2. y.unit # u
            BY <1>4, <1>5, <1>6, <3>1 DEF IsNewest
        <3>3. IsNewest(y)
            BY <1>4 DEF IsNewest
        <3>4. ~Awaited(y.unit)
            <4> SUFFICES ASSUME Awaited(y.unit) PROVE FALSE
                OBVIOUS
            <4>1. y.unit \in todo[p]
                BY <1>1 DEF Awaited, Alone
            <4>2. todo[p] # {u} /\ todo[p] \subseteq Units
                BY <3>2, <4>1 DEF DeliveryInv, DeliveryTypeOK
            <4>3. Cardinality(todo[p]) # 1
                <5>1. IsFiniteSet(todo[p])
                    BY <4>2, UnitAssumption, FS_Subset
                <5>2. Cardinality(todo[p]) = 1 => \E z : todo[p] = {z}
                    BY <5>1, FS_Singleton
                <5>. QED BY <1>2, <3>2, <4>1, <5>2
            <4>. QED BY <1>7, <3>2, <4>1, <4>3 DEF Awaited
        <3>. QED BY <3>1, <3>3, <3>4 DEF CalmInv
    <2>. QED BY <2>1, <2>2
<1>11. \A q \in Commands : pc'[q] \notin {"review", "publish"}
    BY <1>7 DEF Same, Alone
<1>12. PublishedIsRemote' /\ \A v \in Units : \A d \in remoteBranch'[v] : Stacked(d, v)
    BY <1>1, <1>4 DEF CalmInv, PublishedIsRemote
<1>. QED BY <1>8, <1>9, <1>10, <1>11, <1>12 DEF CalmInv

\* A push replaces a published commit only by itself: Git lets the branch only advance, and
\* two commits of a unit have as many layers.
LEMMA PushBranchCalm ==
    ASSUME DeliveryInv, CalmInv, exclusive, calm, NEW p \in Commands, Alone(p), PushBranch(p),
           \A q \in Commands \ {p} : Same(q) /\ made[q] = {}
    PROVE  CalmInv'
<1> DEFINE u == NextUnit(todo[p])
<1>1. /\ UNCHANGED <<branch, projections>> /\ pc[p] = "push"
      /\ branch[u] # {} /\ MayPush(u)
      /\ remoteBranch' = [remoteBranch EXCEPT ![u] = branch[u]]
      /\ pc'[p] = "review" /\ todo'[p] = todo[p] /\ made'[p] = made[p]
    BY DEF PushBranch, Goto, DeliveryInv, DeliveryTypeOK, refs
<1>2. u \in Units
    BY <1>1, AtHand DEF DeliveryInv, Held
<1>3. NextUnit(todo'[p]) = u
    BY <1>1
<1> HIDE DEF u
<1>4. /\ remoteBranch'[u] = branch[u]
      /\ \A v \in Units : v # u => remoteBranch'[v] = remoteBranch[v]
    BY <1>1, <1>2, ReflexiveForge
<1>5. /\ \A v \in Units : \A c \in branch[v] : Stacked(c, v)
      /\ \A x \in projections : IsNewest(x) => branch[x.unit] = {x.commit}
    BY <1>1, SettledBranches DEF Restacking
<1>6. \A v \in Units : \A c \in remoteBranch'[v] : Stacked(c, v)
    BY <1>4, <1>5 DEF CalmInv
<1>7. \A x \in projections : x.status = "published" => remoteBranch'[x.unit] = {x.commit}
    <2> SUFFICES ASSUME NEW x \in projections, x.status = "published"
                 PROVE  remoteBranch'[x.unit] = {x.commit}
        OBVIOUS
    <2>1. remoteBranch[x.unit] = {x.commit} /\ x.unit \in Units
        BY RevisionTypes DEF CalmInv, PublishedIsRemote, DeliveryInv
    <2>2. CASE x.unit = u
        <3>1. PICK d \in branch[u] : TRUE
            BY <1>1
        <3>2. Stacked(x.commit, u) /\ Stacked(d, u)
            BY <1>2, <1>5, <2>1, <2>2 DEF CalmInv
        <3>3. Ancestor(x.commit, d)
            BY <1>1, <2>1, <2>2 DEF MayPush
        <3>4. x.commit = d
            BY <3>2, <3>3, AdvanceIsSame
        <3>5. branch[u] = {d}
            BY <1>2 DEF DeliveryInv, Branches
        <3>. QED BY <1>4, <2>2, <3>4, <3>5
    <2>3. CASE x.unit # u
        BY <1>4, <2>1, <2>3
    <2>. QED BY <2>2, <2>3
<1>8. \A q \in Commands : made'[q] = {}
    BY <1>1 DEF Same, DeliveryInv, Held, Restacked, Restacking
<1>9. \A x \in projections' : IsNewest(x)' => branch'[x.unit] = {x.commit}
    BY <1>1, <1>5 DEF IsNewest
<1>10. \A q \in Commands : pc'[q] \in {"review", "publish"} =>
          remoteBranch'[NextUnit(todo'[q])] = branch'[NextUnit(todo'[q])]
    BY <1>1, <1>3, <1>4 DEF Same, Alone
<1>11. PublishedIsRemote'
    BY <1>1, <1>7 DEF PublishedIsRemote
<1>. QED BY <1>1, <1>5, <1>6, <1>8, <1>9, <1>10, <1>11 DEF CalmInv

\* A publication names the commit of the newest projection, which is the branch that was pushed.
LEMMA RecordPublishedCalm ==
    ASSUME DeliveryInv, CalmInv, exclusive, calm, NEW p \in Commands, Alone(p), RecordPublished(p),
           \A q \in Commands \ {p} : Same(q) /\ made[q] = {}
    PROVE  CalmInv'
<1> DEFINE u == NextUnit(todo[p])
<1>1. /\ UNCHANGED <<branch, remoteBranch, made>> /\ pc[p] = "publish"
      /\ pc'[p] \in {"push", "final"}
    BY DEF RecordPublished, TickOff, DeliveryInv, DeliveryTypeOK, forge
<1>2. u \in Units
    BY <1>1, AtHand DEF DeliveryInv, Held
<1>3. PICK x \in projections, y \in Projection :
              /\ IsNewest(x) /\ x.unit = u
              /\ y.unit = x.unit /\ y.commit = x.commit
              /\ y.revision = x.revision + 1
              /\ projections' = projections \cup {y}
    BY PublicationIs
<1>4. remoteBranch[u] = branch[u]
    BY <1>1 DEF CalmInv
<1> HIDE DEF u
<1>5. /\ \A v \in Units : \A c \in branch[v] : Stacked(c, v)
      /\ \A z \in projections : IsNewest(z) => branch[z.unit] = {z.commit}
    BY <1>1, SettledBranches DEF Restacking
<1>6. branch[u] = {y.commit}
    BY <1>3, <1>5
<1>7. PublishedIsRemote'
    BY <1>1, <1>3, <1>4, <1>6 DEF CalmInv, PublishedIsRemote
<1>8. \A z \in projections' : IsNewest(z)' => branch'[z.unit] = {z.commit}
    <2> SUFFICES ASSUME NEW z \in projections', IsNewest(z)' PROVE branch[z.unit] = {z.commit}
        BY <1>1
    <2>1. CASE z = y
        BY <1>3, <1>6, <2>1
    <2>2. CASE z # y
        <3>1. z \in projections /\ IsNewest(z)
            BY <1>3, <2>2 DEF IsNewest
        <3>. QED BY <1>5, <3>1
    <2>. QED BY <2>1, <2>2
<1>9. \A q \in Commands : made'[q] = {}
    BY <1>1 DEF DeliveryInv, Held, Restacked, Restacking
<1>10. \A q \in Commands : pc'[q] \notin {"review", "publish"}
    BY <1>1 DEF Same, Alone
<1>11. \A v \in Units : \A c \in remoteBranch'[v] : Stacked(c, v)
    BY <1>1 DEF CalmInv
<1>. QED BY <1>1, <1>5, <1>7, <1>8, <1>9, <1>10, <1>11 DEF CalmInv

\* Every step of a command.
LEMMA StepCalm ==
    ASSUME DeliveryInv, TurnInv, CalmInv, exclusive, calm, NEW p \in Commands, Steps(p)
    PROVE  CalmInv'
<1>1. /\ Alone(p) /\ \A q \in Commands \ {p} : Same(q) /\ made[q] = {}
    BY WorksAlone
<1>2. /\ DOMAIN pc = Commands /\ DOMAIN made = Commands /\ DOMAIN todo = Commands
      /\ pc[p] \notin Restacking => made[p] = {}
    BY DEF DeliveryInv, DeliveryTypeOK, Held, Restacked
<1>3. CASE Decide(p)
    <2>1. pc[p] = "idle" /\ UNCHANGED <<projections, branch, remoteBranch, pc, made, todo>>
        BY <1>3 DEF Decide, MayStart, forge, local
    <2>. QED BY <1>1, <1>2, <2>1, QuietCalm DEF Restacking
<1>4. CASE Starts(p)
    <2>1. /\ pc[p] = "idle" /\ UNCHANGED <<projections, branch, remoteBranch, made>>
          /\ pc'[p] \in {"reset", "evidence"}
        BY <1>2, <1>4 DEF Starts, Start, MayStart, refs, forge
    <2>. QED BY <1>1, <1>2, <2>1, QuietCalm DEF Restacking
<1>5. CASE PushEvidence(p)
    <2>1. /\ pc[p] = "evidence" /\ UNCHANGED <<projections, branch, remoteBranch, made>>
          /\ pc'[p] = "push"
        BY <1>2, <1>5 DEF PushEvidence, Goto, refs
    <2>. QED BY <1>1, <1>2, <2>1, QuietCalm DEF Restacking
<1>6. CASE OpenReview(p)
    <2>1. /\ pc[p] = "review" /\ UNCHANGED <<projections, branch, remoteBranch, made, todo>>
          /\ pc'[p] = "publish"
        BY <1>2, <1>6 DEF OpenReview, Goto, refs
    <2>2. remoteBranch[NextUnit(todo[p])] = branch[NextUnit(todo[p])]
        BY <2>1 DEF CalmInv
    <2>. QED BY <1>1, <1>2, <2>1, <2>2, QuietCalm DEF Restacking
<1>7. CASE PushFinal(p) \/ Abort(p)
    <2>1. pc[p] \notin Restacking /\ UNCHANGED <<projections, branch, remoteBranch>>
        BY <1>7 DEF PushFinal, Abort, refs, forge, Restacking
    <2>2. pc'[p] = "idle" /\ made'[p] = {}
        BY <1>2, <1>7 DEF PushFinal, Abort, Stop
    <2>. QED BY <1>1, <2>1, <2>2, QuietCalm
<1>. QED BY <1>1, <1>3, <1>4, <1>5, <1>6, <1>7, ResetCalm, CommitCalm, RecordCalm, PushBranchCalm,
            RecordPublishedCalm DEF Steps

\* A stuttering step.
LEMMA StutterTurns ==
    ASSUME UNCHANGED deliveryVars
    PROVE  (TurnInv => TurnInv') /\ (CalmInv => CalmInv')
<1>1. TurnInv => TurnInv'
    BY DEF TurnInv, HasEvidence, deliveryVars, refs, forge, local, modes
<1>2. \A u : Awaited(u) <=> Awaited(u)'
    BY DEF Awaited, deliveryVars, local
<1>3. \A x : IsNewest(x) <=> IsNewest(x)'
    BY DEF IsNewest, deliveryVars, refs
<1>4. CalmInv => CalmInv'
    <2>1. PublishedIsRemote => PublishedIsRemote'
        BY DEF PublishedIsRemote, deliveryVars, refs, forge, modes
    <2>. QED BY <1>2, <1>3, <2>1 DEF CalmInv, deliveryVars, refs, forge, local, modes
<1>. QED BY <1>1, <1>4

\* Which commands run together does not change.
LEMMA ModesStay ==
    ASSUME [DeliveryNext]_deliveryVars
    PROVE  exclusive' = exclusive /\ calm' = calm
BY DEF DeliveryNext, deliveryVars, Decide, StartProject, StartPublish, Start, Reset, CommitBranch,
       Record, PushEvidence, PushBranch, OpenReview, RecordPublished, PushFinal, Abort, modes

\* The invariants of one command at a time hold in every behaviour.
LEMMA TurnsHold == DeliverySpec => [](DeliveryInv /\ TurnInv /\ CalmInv)
<1>1. ASSUME DeliveryInv, TurnInv, CalmInv, [DeliveryNext]_deliveryVars
      PROVE  TurnInv' /\ CalmInv'
    <2>1. exclusive' = exclusive /\ calm' = calm
        BY <1>1, ModesStay
    <2>2. CASE UNCHANGED deliveryVars
        BY <1>1, <2>2, StutterTurns
    <2>3. CASE DeliveryNext
        <3>1. PICK p \in Commands : Steps(p)
            BY <2>3, NextSteps
        <3>2. TurnInv'
            <4>1. CASE exclusive
                BY <1>1, <3>1, <4>1, StepTurn
            <4>2. CASE ~exclusive
                BY <2>1, <4>2 DEF TurnInv
            <4>. QED BY <4>1, <4>2
        <3>3. CalmInv'
            <4>1. CASE exclusive /\ calm
                BY <1>1, <3>1, <4>1, StepCalm
            <4>2. CASE ~(exclusive /\ calm)
                BY <2>1, <4>2 DEF CalmInv
            <4>. QED BY <4>1, <4>2
        <3>. QED BY <3>2, <3>3
    <2>. QED BY <1>1, <2>2, <2>3
<1>2. DeliveryInv /\ TurnInv /\ CalmInv /\ [DeliveryNext]_deliveryVars
         => (DeliveryInv /\ TurnInv /\ CalmInv)'
    BY <1>1, StepInv
<1>. QED BY <1>2, InitInv, InitTurn, PTL DEF DeliverySpec

\* One command at a time: a review never shows a branch of which the signed decisions cannot be
\* fetched (push_orkia_refs comes before push_branch), whatever dies.
THEOREM EvidenceAlwaysFirst == DeliverySpec => []EvidenceFirst
<1>1. DeliveryInv /\ TurnInv => EvidenceFirst
    BY DEF DeliveryInv, DeliveryTypeOK, TurnInv, EvidenceFirst
<1>. QED BY <1>1, TurnsHold, PTL

\* One command at a time and every restack finished: the commit of a published projection is the
\* one the forge shows (push_branch never forces, and a Projection names the branch's commit).
THEOREM PublishedIsAlwaysRemote == DeliverySpec => []PublishedIsRemote
<1>1. CalmInv => PublishedIsRemote
    BY DEF CalmInv, PublishedIsRemote
<1>. QED BY <1>1, TurnsHold, PTL
=============================================================================
