------------------------------- MODULE Planning -----------------------------
(***************************************************************************)
(* From the files a checkpoint changed to the reviews on the forge: atoms  *)
(* are the semantic boundaries the changed lines touch, dependencies are   *)
(* inferred between them, the planner groups atoms into review units, the  *)
(* plan is validated, its units become StackPullRequests, and these are    *)
(* ordered, alone or with work of other repositories.                      *)
(*                                                                         *)
(* Each step is a pure function; the actions compute them one after the    *)
(* other from inputs chosen in Init.  An atom is named by what it is: its  *)
(* file, lines and kind; a unit by its atoms; a pull request by its unit.  *)
(***************************************************************************)
EXTENDS Naturals, FiniteSets, FiniteSetsExt

CONSTANTS
    Files,              \* 1..n: paths in their order
    Layouts,            \* syntax trees: each a set of [from, to, import, test]
    Lines,              \* the lines of a file
    MinimumConfidence,
    Foreign,            \* a pull request of another repository
    MaxForeign          \* bound: dependencies on it, and of it

ASSUME PlanningAssumption ==
    /\ Files \subseteq Nat /\ IsFiniteSet(Files) /\ Files # {}
    /\ Lines \subseteq Nat
    /\ MinimumConfidence \in Nat /\ MaxForeign \in Nat
    /\ \A t \in Layouts :
          /\ IsFiniteSet(t)
          /\ t \subseteq [from : Lines, to : Lines, import : BOOLEAN, test : BOOLEAN]

VARIABLES
    input,          \* [layout, changed, shared, covered]
    atoms,
    dependencies,   \* of atoms: [from, to, kind, confidence]
    units,          \* review units: [atoms, dependsOn], units named by atoms
    needs,          \* pull request -> those it waits for, Foreign among them
    stage           \* how far it has come, or "refused"

planningVars == <<input, atoms, dependencies, units, needs, stage>>

-----------------------------------------------------------------------------
(* Atoms and what depends on what.                                          *)

\* extract_atoms_in_ranges: what the changed lines touch; nothing of the kind is one
\* atom for the lines from the first to the last change.
AtomsOf(f, layout, changed) ==
    LET touched == {n \in layout : \E l \in changed : n.from <= l /\ l <= n.to}
        hunk == [from |-> Min(changed), to |-> Max(changed), import |-> FALSE, test |-> FALSE] IN
    {[file |-> f, node |-> n] : n \in IF touched = {} THEN {hunk} ELSE touched}

Overlap(a, b) ==
    a.file = b.file /\ a.node.from <= b.node.to /\ b.node.from <= a.node.to

\* The order of atoms: by file and first line; hashes decide the rest, in some order.
Earlier(a, b) ==
    \/ a.file < b.file
    \/ a.file = b.file /\ a.node.from < b.node.from
    \/ a.file = b.file /\ a.node.from = b.node.from /\ a.node.to > b.node.to
    \/ /\ a.file = b.file /\ a.node.from = b.node.from /\ a.node.to = b.node.to
       /\ \/ a.node.import /\ ~b.node.import
          \/ a.node.import = b.node.import /\ a.node.test /\ ~b.node.test

\* infer_dependencies, before edges between the same atoms are reduced to one.
Inferred(A, shared) ==
    LET edge(a, b, kind, c) == [from |-> a, to |-> b, kind |-> kind, confidence |-> c]
        pairs == {p \in A \X A : Earlier(p[1], p[2])}
        sibling(p) == p[1].file = p[2].file /\ ~Overlap(p[1], p[2]) IN
    {edge(p[1], p[2], "causal", 700) : p \in {q \in pairs :
        q[1].file = q[2].file \/ (q[1].file \in shared /\ q[2].file \in shared)}}
    \cup {edge(p[1], p[2], "hard", 1000) : p \in {q \in pairs : Overlap(q[1], q[2])}}
    \cup {edge(p[1], p[2], "import", 950) : p \in {q \in A \X A :
            sibling(q) /\ q[2].node.import /\ ~q[1].node.import}}
    \cup {edge(p[1], p[2], "test", 900) : p \in {q \in A \X A :
            q[1].node.test /\ ~q[2].node.test /\ q[1].file # q[2].file}}

\* infer_dependencies: the strongest edge from one atom to another.
Dependencies(A, shared) ==
    LET all == Inferred(A, shared) IN
    {d \in all : \A e \in all : e.from = d.from /\ e.to = d.to => e.confidence <= d.confidence}

\* confidence: the mean, rounded down.
Confidence(A, D) ==
    IF A = {} THEN 0 ELSE IF D = {} THEN 850
    ELSE MapThenSumSet(LAMBDA d : d.confidence, D) \div Cardinality(D)
-----------------------------------------------------------------------------
(* Review units.                                                            *)

\* hard_components that follows an edge in its direction only.
HardComponentDirected(a, A, D) ==
    LET reach[n \in 0..Cardinality(A)] ==
            IF n = 0 THEN {a}
            ELSE LET found == reach[n - 1] IN
                 found \cup {d.to : d \in {e \in D : e.kind = "hard" /\ e.from \in found}} IN
    reach[Cardinality(A)]

\* hard_components: the atoms that hard edges, either way, connect with a.
HardComponent(a, A, D) ==
    LET hard == {d \in D : d.kind = "hard"}
        reach[n \in 0..Cardinality(A)] ==
            IF n = 0 THEN {a}
            ELSE LET found == reach[n - 1] IN
                 found \cup {d.to : d \in {e \in hard : e.from \in found}}
                       \cup {d.from : d \in {e \in hard : e.to \in found}} IN
    reach[Cardinality(A)]

\* plan, and one_unit_plan when coverage or confidence is too low.
PlanUnits(A, D, covered) ==
    LET components == {HardComponent(a, A, D) : a \in A}
        leads(u, v) == u # v /\ \E d \in D : d.kind # "causal" /\ d.from \in u /\ d.to \in v IN
    IF ~covered \/ Confidence(A, D) < MinimumConfidence
    THEN {[atoms |-> A, dependsOn |-> {}]}
    ELSE {[atoms |-> u, dependsOn |-> {v \in components : leads(u, v)}] : u \in components}

-----------------------------------------------------------------------------
(* Orders.  The loop that completes what waits for nothing incomplete, round *)
(* by round, until nothing is left or nothing is ready.                      *)

\* What is complete after n rounds.
Completed(K, waits) ==
    LET complete[n \in 0..Cardinality(K)] ==
            IF n = 0 THEN {}
            ELSE LET done == complete[n - 1] IN done \cup {k \in K : waits[k] \subseteq done} IN
    complete

Orderable(K, waits) == Completed(K, waits)[Cardinality(K)] = K

\* The round that completes k.
Round(k, K, waits) == Min({n \in 0..Cardinality(K) : k \in Completed(K, waits)[n]})

UnitNames == {u.atoms : u \in units}
UnitWaits == [n \in UnitNames |-> (CHOOSE u \in units : u.atoms = n).dependsOn]

\* ReviewPlan::validate: units partition the atoms; dependencies are closed and
\* acyclic.
ValidPlan ==
    /\ units # {} /\ {} \notin UnitNames
    /\ UNION UnitNames = atoms
    /\ \A m, n \in UnitNames : m = n \/ m \cap n = {}
    /\ \A n \in UnitNames : n \notin UnitWaits[n] /\ UnitWaits[n] \subseteq UnitNames
    /\ Orderable(UnitNames, UnitWaits)

\* plan_mono_repository and stack_pull_request_projections: a review is opened
\* against the branch of its parent, or the base; several parents are refused, and so
\* is waiting for work of another repository, none of which counts as published.
Projectable ==
    \A n \in UnitNames : Cardinality(UnitWaits[n]) <= 1 /\ Foreign \notin needs[n]

-----------------------------------------------------------------------------
PlanningInit ==
    /\ input \in [layout : [Files -> Layouts],
                  changed : [Files -> {C \in SUBSET Lines : C # {}}],
                  shared : SUBSET Files, covered : BOOLEAN]
    /\ atoms = {} /\ dependencies = {} /\ units = {}
    /\ needs = <<>> /\ stage = "changed"

\* derive_review_plan up to the planner's input.
Analyse ==
    /\ stage = "changed"
    /\ atoms' = UNION {AtomsOf(f, input.layout[f], input.changed[f]) : f \in Files}
    /\ dependencies' = Dependencies(atoms', input.shared)
    /\ stage' = "analysed"
    /\ UNCHANGED <<input, units, needs>>

Plan ==
    /\ stage = "analysed"
    /\ units' = PlanUnits(atoms, dependencies, input.covered)
    /\ stage' = "planned"
    /\ UNCHANGED <<input, atoms, dependencies, needs>>

\* The plan is stored and its units become pull requests (from_review_plan).
Accept ==
    /\ stage = "planned" /\ ValidPlan
    /\ needs' = UnitWaits
    /\ stage' = "accepted"
    /\ UNCHANGED <<input, atoms, dependencies, units>>

\* add_stack_pull_request_dependency: work of another repository joins the changeset;
\* it waits for some of this repository's and some of this repository's for it.
Compose ==
    /\ stage = "accepted"
    /\ \E before, after \in {S \in SUBSET UnitNames : Cardinality(S) <= MaxForeign} :
          needs' = [k \in UnitNames \cup {Foreign} |->
                      IF k \in UnitNames
                      THEN UnitWaits[k] \cup IF k \in after THEN {Foreign} ELSE {}
                      ELSE before]
    /\ stage' = "composed"
    /\ UNCHANGED <<input, atoms, dependencies, units>>

\* stack_pull_request_execution_order and changeset_execution_order.
Schedule ==
    /\ stage = "composed" /\ Orderable(DOMAIN needs, needs)
    /\ stage' = "scheduled"
    /\ UNCHANGED <<input, atoms, dependencies, units, needs>>

\* A plan or a changeset that cannot be ordered.
RefuseOrder ==
    /\ \/ stage = "planned" /\ ~ValidPlan
       \/ stage = "composed" /\ ~Orderable(DOMAIN needs, needs)
    /\ stage' = "refused"
    /\ UNCHANGED <<input, atoms, dependencies, units, needs>>

\* review project and publish: the reviews are opened, or all refused.
OpenReviews ==
    /\ stage = "scheduled"
    /\ stage' = IF Projectable THEN "opened" ELSE "unprojectable"
    /\ UNCHANGED <<input, atoms, dependencies, units, needs>>

PlanningNext == Analyse \/ Plan \/ Accept \/ Compose \/ Schedule \/ RefuseOrder \/ OpenReviews

PlanningSpec == PlanningInit /\ [][PlanningNext]_planningVars

-----------------------------------------------------------------------------
\* What belongs together stays together: boundaries of a file that overlap, directly
\* or through others, are reviewed in one unit, and every atom in exactly one.
UnitsClosed ==
    /\ UNION UnitNames = atoms
    /\ \A m, n \in UnitNames : m = n \/ m \cap n = {}
    /\ \A a, b \in atoms : Overlap(a, b) => \E n \in UnitNames : {a, b} \subseteq n

\* A loop of the graph, stated without the algorithm: a set of nodes each of which
\* waits for another of the set.
Looping(K, waits) == \E L \in SUBSET K : L # {} /\ \A k \in L : waits[k] \cap L # {}

\* Two units of one file that each hold an import among other things: each waits for
\* the import of the other.
InnerImports ==
    \E m, n \in UnitNames : m # n /\ \E a, b \in m : \E c, d \in n :
        /\ a.file = c.file
        /\ a.node.import /\ ~b.node.import /\ c.node.import /\ ~d.node.import

\* The planner's own plans are refused only for a loop, and there are two causes.  One
\* is an import inside another boundary, in two units of a file (see
\* SiblingsIndependent).  The other is that two files both have something called a
\* test: a test waits for all that is no test in the other files, and may itself be
\* waited for.
LoopsExplained ==
    ValidPlan \/
        /\ Looping(UnitNames, UnitWaits)
        /\ InnerImports \/ \E a, b \in atoms : a.file # b.file /\ a.node.test /\ b.node.test

\* An order is found exactly when there is no loop, and in it everything comes after
\* what it waits for, across repositories too.
OrderSound ==
    /\ (stage = "refused") = Looping(DOMAIN needs, needs)
    /\ stage = "scheduled" =>
          \A k \in DOMAIN needs : \A l \in needs[k] :
              Round(l, DOMAIN needs, needs) < Round(k, DOMAIN needs, needs)

\* What a review needs, directly or not.
Ancestors(n) ==
    LET found[i \in 0..Cardinality(UnitNames)] ==
            IF i = 0 THEN UnitWaits[n]
            ELSE LET done == found[i - 1] IN done \cup UNION {UnitWaits[m] : m \in done} IN
    found[Cardinality(UnitNames)]

\* An opened review stands on one line of branches that holds all it waits for; a plan
\* that cannot be opened has a unit that uses what two others hold, or one that waits
\* for another repository.
ReviewsStacked ==
    /\ stage = "opened" => \A n \in UnitNames :
          /\ needs[n] \subseteq Ancestors(n)
          /\ \A l, m \in Ancestors(n) : l = m \/ l \in Ancestors(m) \/ m \in Ancestors(l)
    /\ stage = "unprojectable" => \E n \in UnitNames :
          \/ Foreign \in needs[n]
          \/ \E l, m \in Ancestors(n) :
                l # m /\ \E a, b \in n : \E d, e \in dependencies :
                   d.from = a /\ d.to \in l /\ e.from = b /\ e.to \in m

\* The chain from changed lines to an execution order and open reviews.
PlanningSound ==
    /\ stage # "changed" /\ units # {} => UnitsClosed /\ LoopsExplained
    /\ needs # <<>> /\ stage \in {"refused", "scheduled"} => OrderSound
    /\ ReviewsStacked

\* The comment of infer_dependencies says: "Disjoint sibling symbols are intentionally
\* independent and may become parallel StackPullRequests", and a test is named after
\* it.  Then two units of one file that each hold something else than an import never
\* wait for each other, which refuses the plan as a loop.
SiblingsIndependent ==
    \A m, n \in UnitNames :
        /\ m # n /\ \E a \in m, b \in n :
              a.file = b.file /\ ~a.node.import /\ ~b.node.import
        => ~(n \in UnitWaits[m] /\ m \in UnitWaits[n])
=============================================================================
