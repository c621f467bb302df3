----------------------------- MODULE SharedProofs ----------------------------
(***************************************************************************)
(* Proofs about what the parties of a repository share. Views: for any     *)
(* operators, views and commits, what a command leaves a view to show      *)
(* belongs to a verified state, and advancing loses no commit. The server: *)
(* for any number of requests in flight, deliveries, failures and deaths   *)
(* its webhook implements the log that records a delivery once, and for    *)
(* any changesets, documents and grants its status API answers only those  *)
(* that may ask, and rightly.                                              *)
(***************************************************************************)
EXTENDS Views, Status, Webhooks, WellFoundedInduction, TLAPS


-----------------------------------------------------------------------------
(* What a commit descends from is computed by recursion along the parents.  A  *)
(* history in which a parent is an earlier commit has one such function, and   *)
(* commits made later do not change it.                                        *)

\* f gives each commit up to c its parent, an earlier one.
Rooted(f, c) == c \in Nat /\ \A d \in 1..c : f[d] \in 0..(d - 1)

\* up gives each commit up to c the commits it descends from.
Climbs(up, f, c) == up = [d \in 0..c |-> IF d = 0 THEN {} ELSE {d} \cup up[f[d]]]

Climb(f, c) == CHOOSE up : Climbs(up, f, c)
Above(f, c) == Climb(f, c)[c]

\* A set of numbers that is not empty has a smallest one.
LEMMA Smallest ==
    ASSUME NEW D \in SUBSET Nat, D # {}
    PROVE  \E n \in D : \A k \in D : ~(k < n)
<1>1. PICK n \in D : \A k \in D : <<k, n>> \notin OpToRel(<, Nat)
    BY NatLessThanWellFounded, WFMin, Zenon
<1>2. \A k \in D : ~(k < n)
    BY <1>1, Zenon DEF OpToRel
<1>. QED BY <1>2

\* There is such a function, ...
LEMMA ClimbExists ==
    ASSUME NEW f, NEW c, Rooted(f, c)
    PROVE  Climbs(Climb(f, c), f, c)
<1>. SUFFICES \E up : Climbs(up, f, c)
    BY DEF Climb
<1>. SUFFICES ASSUME ~\E up : Climbs(up, f, c) PROVE FALSE
    OBVIOUS
<1> DEFINE D == {n \in 0..c : ~\E up : Climbs(up, f, n)}
<1>1. c \in Nat /\ c \in D /\ D \subseteq Nat
    BY DEF Rooted
<1>2. PICK n \in D : \A k \in D : ~(k < n)
    BY <1>1, Smallest, Zenon
<1>3. n \in 0..c /\ ~\E up : Climbs(up, f, n)
    BY <1>2
<1>4. CASE n = 0
    <2>1. PICK up : up = [d \in 0..0 |-> {}]
        OBVIOUS
    <2>2. Climbs(up, f, 0)
        BY <2>1 DEF Climbs
    <2>. QED BY <1>3, <1>4, <2>2
<1>5. CASE n # 0
    <2>1. n - 1 \in 0..c /\ n - 1 < n /\ n \in 1..c
        BY <1>1, <1>3, <1>5
    <2>2. n - 1 \notin D
        BY <1>2, <2>1
    <2>3. PICK up : Climbs(up, f, n - 1)
        BY <2>1, <2>2
    <2>4. PICK more : more = [d \in 0..n |-> IF d = n THEN {n} \cup up[f[n]] ELSE up[d]]
        OBVIOUS
    <2>5. f[n] \in 0..(n - 1)
        BY <2>1 DEF Rooted
    <2>6. more[n] = {n} \cup more[f[n]]
        BY <1>1, <1>3, <1>5, <2>4, <2>5
    <2>7. ASSUME NEW d \in 0..n, d # n
          PROVE  more[d] = IF d = 0 THEN {} ELSE {d} \cup more[f[d]]
        <3>1. d \in 0..(n - 1) /\ more[d] = up[d]
            BY <1>1, <1>3, <2>4, <2>7
        <3>2. up[d] = IF d = 0 THEN {} ELSE {d} \cup up[f[d]]
            BY <2>3, <3>1 DEF Climbs
        <3>3. d # 0 => f[d] \in 0..(n - 1) /\ more[f[d]] = up[f[d]]
            <4>1. d # 0 => d \in 1..c /\ f[d] \in 0..(d - 1)
                BY <1>1, <1>3, <3>1 DEF Rooted
            <4>2. d # 0 => f[d] \in 0..n /\ f[d] # n
                BY <1>1, <1>3, <3>1, <4>1
            <4>. QED BY <1>1, <1>3, <2>4, <3>1, <4>1, <4>2
        <3>. QED BY <3>1, <3>2, <3>3
    <2>8. \A d \in 0..n : more[d] = IF d = 0 THEN {} ELSE {d} \cup more[f[d]]
        BY <1>3, <1>5, <2>6, <2>7
    <2>9. Climbs(more, f, n)
        BY <2>4, <2>8 DEF Climbs
    <2>. QED BY <1>3, <2>9
<1>. QED BY <1>4, <1>5

\* ... and only one, whatever the parents of later commits.
LEMMA ClimbUnique ==
    ASSUME NEW f, NEW g, NEW c, NEW e, Rooted(f, c), e \in 0..c,
           \A d \in 1..e : g[d] = f[d],
           NEW up, Climbs(up, f, c), NEW v, Climbs(v, g, e)
    PROVE  \A d \in 0..e : up[d] = v[d]
<1> DEFINE D == {n \in 0..e : up[n] # v[n]}
<1>. SUFFICES ASSUME D # {} PROVE FALSE
    OBVIOUS
<1>1. c \in Nat /\ e \in Nat /\ D \subseteq Nat
    BY DEF Rooted
<1>2. PICK n \in D : \A k \in D : ~(k < n)
    BY <1>1, Smallest, Zenon
<1>3. n \in 0..e /\ n \in 0..c /\ up[n] # v[n]
    BY <1>1, <1>2
<1>4. /\ up[n] = IF n = 0 THEN {} ELSE {n} \cup up[f[n]]
      /\ v[n] = IF n = 0 THEN {} ELSE {n} \cup v[g[n]]
    BY <1>3 DEF Climbs
<1>5. n # 0
    BY <1>3, <1>4
<1>6. f[n] \in 0..(n - 1) /\ g[n] = f[n]
    BY <1>1, <1>3, <1>5 DEF Rooted
<1>7. f[n] \in 0..e /\ f[n] < n
    BY <1>1, <1>3, <1>6
<1>8. up[f[n]] = v[f[n]]
    BY <1>2, <1>7
<1>. QED BY <1>3, <1>4, <1>5, <1>6, <1>8

\* A commit descends from itself and from what its parent descends from.
LEMMA AboveFacts ==
    ASSUME NEW f, NEW c, Rooted(f, c)
    PROVE  /\ c = 0 => Above(f, c) = {}
           /\ c # 0 => c \in Above(f, c)
           /\ c # 0 => Above(f, c) = {c} \cup Above(f, f[c])
<1>1. Climbs(Climb(f, c), f, c) /\ c \in 0..c /\ c \in Nat
    BY ClimbExists DEF Rooted
<1>2. Climb(f, c)[c] = IF c = 0 THEN {} ELSE {c} \cup Climb(f, c)[f[c]]
    BY <1>1 DEF Climbs
<1>3. ASSUME c # 0 PROVE Climb(f, c)[f[c]] = Above(f, f[c])
    <2>1. f[c] \in 0..(c - 1) /\ Rooted(f, f[c]) /\ f[c] \in 0..c /\ f[c] \in Nat
        BY <1>1, <1>3 DEF Rooted
    <2>2. Climbs(Climb(f, f[c]), f, f[c])
        BY <2>1, ClimbExists
    <2>3. \A d \in 0..f[c] : Climb(f, c)[d] = Climb(f, f[c])[d]
        BY <1>1, <2>1, <2>2, ClimbUnique
    <2>. QED BY <2>1, <2>3 DEF Above
<1>. QED BY <1>2, <1>3 DEF Above

\* Commits made later leave it as it is.
LEMMA AboveStays ==
    ASSUME NEW f, NEW g, NEW c, Rooted(f, c), \A d \in 1..c : g[d] = f[d]
    PROVE  Above(g, c) = Above(f, c)
<1>1. c \in Nat /\ c \in 0..c /\ Rooted(g, c)
    BY DEF Rooted
<1>2. Climbs(Climb(f, c), f, c) /\ Climbs(Climb(g, c), g, c)
    BY <1>1, ClimbExists
<1>3. Climb(f, c)[c] = Climb(g, c)[c]
    BY <1>1, <1>2, ClimbUnique
<1>. QED BY <1>3 DEF Above

\* The model's name for it.
LEMMA AncestryIsAbove == \A c : Ancestry(c) = Above(parent, c)
BY DEF Ancestry, Above, Climb, Climbs

-----------------------------------------------------------------------------
(* The invariant. *)

\* A parent is an earlier commit, 0 for the root; every commit may have a state.
History ==
    /\ parent \in Seq(Nat) /\ states \in Seq({"none", "verified", "unsigned"})
    /\ Len(states) = Len(parent)
    /\ \A c \in 1..Len(parent) : parent[c] \in 0..(c - 1)

Shape(m) == m = [base |-> m.base, scope |-> m.scope, visible |-> m.visible]

\* Metadata m that shows operations of a verified state only: f are the parents
\* of the commits and s their states.
Shows(m, f, s) ==
    /\ Shape(m)
    /\ m.base \in 1..Len(f)
    /\ m.visible # {} => s[m.base] = "verified" /\ m.visible \subseteq Above(f, m.base)

\* What a process carries from one step to the next.
Carries(p) ==
    /\ doing[p] = "bind" => task[p].view \in Views /\ Shape(task[p].next)
    /\ doing[p] \in {"metadata", "checkout", "rewind", "write"} =>
          task[p].view \in Views /\ Shows(task[p].next, parent, states)
    /\ doing[p] \in {"validate", "metadata", "branch", "materialize", "checkout", "rewind"} =>
          task[p].view \in Views /\ task[p].target \in 1..Len(parent)
    /\ doing[p] \in {"record", "revise", "delete", "unname"} => task[p].view \in Views
    /\ doing[p] = "revise" => task[p].onto \in 1..Len(parent)

ViewInv ==
    /\ History
    /\ branch \in [Views -> 0..Len(parent)]
    /\ DOMAIN metadata = Views
    /\ \A v \in Views : \A m \in metadata[v] :
          Shape(m) /\ (v \notin given => Shows(m, parent, states))
    /\ DOMAIN doing = Operators /\ DOMAIN task = Operators
    /\ head \in Views \cup {NoView}
    /\ serial \in BOOLEAN
    /\ \A p \in Operators : Carries(p)

\* One command at a time, and then an advance whose checks were passed still has
\* the tip of the branch below its target.
OneCommand ==
    serial => \A p, q \in Operators : doing[p] # "nothing" /\ doing[q] # "nothing" => p = q

Passed(p) ==
    serial /\ doing[p] \in {"metadata", "branch"} =>
        branch[task[p].view] \in Above(parent, task[p].target)

AdvanceInv == ViewInv /\ OneCommand /\ \A p \in Operators : Passed(p)

-----------------------------------------------------------------------------
\* Commits are only added, and a verified state stays verified.
Preserved ==
    /\ History'
    /\ Len(parent) <= Len(parent')
    /\ \A c \in 1..Len(parent) :
          parent'[c] = parent[c] /\ (states[c] = "verified" => states'[c] = "verified")

\* Every commit of the history, and the empty line, has an ancestry.
LEMMA HistoryRooted ==
    ASSUME History, NEW c \in 0..Len(parent)
    PROVE  Rooted(parent, c)
BY DEF History, Rooted

\* A commit keeps what it descends from.
LEMMA AncestryStays ==
    ASSUME History, Preserved, NEW c \in 0..Len(parent)
    PROVE  Above(parent', c) = Above(parent, c)
<1>1. Rooted(parent, c) /\ \A d \in 1..c : parent'[d] = parent[d]
    BY HistoryRooted DEF History, Preserved
<1>. QED BY <1>1, AboveStays

\* What shows operations of a verified state does so when commits were added.
LEMMA ShowsStays ==
    ASSUME History, Preserved, NEW m, Shows(m, parent, states)
    PROVE  Shows(m, parent', states')
<1>1. m.base \in 1..Len(parent) /\ Len(parent) \in Nat /\ Len(parent') \in Nat
    BY DEF Shows, History, Preserved
<1>2. m.base \in 0..Len(parent) /\ m.base \in 1..Len(parent')
    BY <1>1 DEF Preserved
<1>3. Above(parent', m.base) = Above(parent, m.base)
    BY <1>2, AncestryStays
<1>. QED BY <1>1, <1>2, <1>3 DEF Shows, Preserved

\* A step that adds no commit and changes no state preserves the history.
LEMMA NoCommit ==
    ASSUME History, UNCHANGED <<parent, states>>
    PROVE  Preserved
BY DEF History, Preserved

\* A longer sequence keeps its places.
LEMMA AppendFacts ==
    ASSUME NEW T, NEW q \in Seq(T), NEW v \in T
    PROVE  /\ Append(q, v) \in Seq(T)
           /\ Len(Append(q, v)) = Len(q) + 1
           /\ \A i \in 1..Len(q) : Append(q, v)[i] = q[i]
           /\ Append(q, v)[Len(q) + 1] = v
OBVIOUS

\* A new commit on another one descends from it.
LEMMA CommitFacts ==
    ASSUME History, NEW onto \in 1..Len(parent), NewCommit(onto)
    PROVE  /\ Preserved
           /\ Len(parent) \in Nat /\ Len(parent') = Len(parent) + 1
           /\ onto \in Above(parent', Len(parent) + 1)
<1> DEFINE n == Len(parent) + 1
<1>1. /\ parent' = Append(parent, onto) /\ states' = Append(states, "none")
      /\ parent \in Seq(Nat) /\ states \in Seq({"none", "verified", "unsigned"})
      /\ Len(states) = Len(parent) /\ Len(parent) \in Nat /\ onto \in Nat
    BY DEF NewCommit, History
<1>2. /\ parent' \in Seq(Nat) /\ states' \in Seq({"none", "verified", "unsigned"})
      /\ Len(parent') = n /\ Len(states') = n
      /\ parent'[n] = onto
      /\ \A c \in 1..Len(parent) : parent'[c] = parent[c] /\ states'[c] = states[c]
    <2>1. /\ parent' \in Seq(Nat) /\ Len(parent') = n /\ parent'[n] = onto
          /\ \A c \in 1..Len(parent) : parent'[c] = parent[c]
        BY <1>1, AppendFacts
    <2>2. /\ states' \in Seq({"none", "verified", "unsigned"}) /\ Len(states') = n
          /\ \A c \in 1..Len(parent) : states'[c] = states[c]
        BY <1>1, AppendFacts
    <2>. QED BY <2>1, <2>2
<1>3. History'
    <2>1. ASSUME NEW c \in 1..n PROVE parent'[c] \in 0..(c - 1)
        <3>1. CASE c = n
            BY <1>1, <1>2, <3>1
        <3>2. CASE c # n
            <4>1. c \in 1..Len(parent)
                BY <1>1, <3>2, SMTT(30)
            <4>. QED BY <1>2, <4>1 DEF History
        <3>. QED BY <3>1, <3>2
    <2>. QED BY <1>2, <2>1 DEF History
<1>4. Preserved
    BY <1>1, <1>2, <1>3 DEF Preserved
<1>5. Rooted(parent', n) /\ Rooted(parent', onto)
    <2>1. \A c \in 1..n : parent'[c] \in 0..(c - 1)
        BY <1>2, <1>3 DEF History
    <2>2. n \in Nat /\ onto \in Nat /\ 1..onto \subseteq 1..n
        BY <1>1
    <2>. HIDE DEF n
    <2>. QED BY <2>1, <2>2 DEF Rooted
<1>6. onto \in Above(parent', onto) /\ n # 0 /\ onto # 0
    BY <1>1, <1>5, AboveFacts
<1>7. Above(parent', n) = {n} \cup Above(parent', onto)
    BY <1>2, <1>5, <1>6, AboveFacts
<1>. QED BY <1>1, <1>2, <1>4, <1>6, <1>7

-----------------------------------------------------------------------------
\* A step of one process leaves what the others do alone.
Others(p) ==
    /\ DOMAIN doing' = Operators /\ DOMAIN task' = Operators
    /\ \A q \in Operators \ {p} : doing'[q] = doing[q] /\ task'[q] = task[q]

\* Then moves one process only.
LEMMA ThenFacts ==
    ASSUME ViewInv, NEW p \in Operators, NEW s, NEW t, Then(p, s, t)
    PROVE  doing'[p] = s /\ task'[p] = t /\ Others(p) /\ serial' = serial
BY DEF ViewInv, Then, Others

\* What a process carries stays good when others add commits.
LEMMA CarriesStays ==
    ASSUME ViewInv, Preserved, NEW q \in Operators, doing'[q] = doing[q], task'[q] = task[q]
    PROVE  Carries(q)'
<1>1. Carries(q) /\ History /\ Len(parent) \in Nat /\ Len(parent') \in Nat
    BY DEF ViewInv, History, Preserved
<1>2. Shows(task[q].next, parent, states) => Shows(task[q].next, parent', states')
    BY <1>1, ShowsStays
<1>. QED BY <1>1, <1>2 DEF Carries, Preserved

\* What a step has to show that it preserves the invariant.
LEMMA ViewFrame ==
    ASSUME ViewInv, NEW p \in Operators, Preserved, Others(p), serial' = serial,
           branch' \in [Views -> 0..Len(parent')], DOMAIN metadata' = Views,
           \A v \in Views : \A m \in metadata'[v] :
               \/ m \in metadata[v] /\ (v \in given => v \in given')
               \/ Shape(m) /\ (v \notin given' => Shows(m, parent', states')),
           head' \in Views \cup {NoView}, Carries(p)'
    PROVE  ViewInv'
<1>1. \A q \in Operators : Carries(q)'
    BY CarriesStays DEF Others
<1>2. \A v \in Views : \A m \in metadata'[v] :
          Shape(m) /\ (v \notin given' => Shows(m, parent', states'))
    BY ShowsStays DEF ViewInv
<1>. QED BY <1>1, <1>2 DEF ViewInv, Preserved, Others

\* A step that makes no commit and writes no metadata.
LEMMA ViewQuiet ==
    ASSUME ViewInv, NEW p \in Operators, UNCHANGED <<parent, states, metadata, given>>, Others(p),
           serial' = serial, branch' \in [Views -> 0..Len(parent)],
           head' \in Views \cup {NoView}, Carries(p)'
    PROVE  ViewInv'
<1>1. Preserved
    BY NoCommit DEF ViewInv
<1>. QED BY <1>1, ViewFrame DEF ViewInv

\* A step that makes no commit and writes what the process carries.
LEMMA ViewWrites ==
    ASSUME ViewInv, NEW p \in Operators, UNCHANGED <<parent, states, branch, head>>, Others(p),
           serial' = serial, NEW v \in Views, NEW m, Shows(m, parent, states),
           MoveMetadata(v, m), Carries(p)'
    PROVE  ViewInv'
<1>1. Preserved
    BY NoCommit DEF ViewInv
<1>2. DOMAIN metadata' = Views /\ metadata'[v] = {m}
      /\ \A w \in Views \ {v} : metadata'[w] = metadata[w]
    BY DEF MoveMetadata, ViewInv
<1>3. Shows(m, parent', states') /\ Shape(m)
    BY <1>1, ShowsStays DEF ViewInv, Shows
<1>4. given' = given \ {v}
    BY DEF MoveMetadata
<1>5. \A w \in Views : \A k \in metadata'[w] :
          \/ k \in metadata[w] /\ (w \in given => w \in given')
          \/ Shape(k) /\ (w \notin given' => Shows(k, parent', states'))
    BY <1>2, <1>3, <1>4
<1>. QED BY <1>1, <1>2, <1>5, ViewFrame DEF ViewInv

\* A step that makes no commit and puts metadata as it was given where none was.
LEMMA ViewGives ==
    ASSUME ViewInv, NEW p \in Operators, UNCHANGED <<parent, states, branch, head>>, Others(p),
           serial' = serial, NEW v \in Views, NEW m, Shape(m),
           GiveMetadata(v, m), Carries(p)'
    PROVE  ViewInv'
<1>1. Preserved
    BY NoCommit DEF ViewInv
<1>2. DOMAIN metadata' = Views /\ metadata'[v] = {m} /\ given' = given \cup {v}
      /\ \A w \in Views \ {v} : metadata'[w] = metadata[w]
    BY DEF GiveMetadata, ViewInv
<1>3. \A w \in Views : \A k \in metadata'[w] :
          \/ k \in metadata[w] /\ (w \in given => w \in given')
          \/ Shape(k) /\ (w \notin given' => Shows(k, parent', states'))
    BY <1>2
<1>. QED BY <1>1, <1>2, <1>3, ViewFrame DEF ViewInv

-----------------------------------------------------------------------------
(* The steps. *)

\* Commits are the places of a sequence.
LEMMA CommitNames ==
    ASSUME History
    PROVE  Commits = 1..Len(parent) /\ Len(parent) \in Nat
BY DEF History, Commits

\* The two invariants hold of a repository with one branch of two commits.
LEMMA ViewInitially == ViewInit => AdvanceInv
<1>. SUFFICES ASSUME ViewInit PROVE AdvanceInv
    OBVIOUS
<1>1. parent = <<0, 1>> /\ states = <<"verified", "none">>
    BY DEF ViewInit
<1>2. /\ parent \in Seq(Nat) /\ states \in Seq({"none", "verified", "unsigned"})
      /\ Len(states) = 2 /\ Len(parent) = 2 /\ parent[1] = 0 /\ parent[2] = 1
    BY <1>1
<1>3. History
    <2>1. \A c \in 1..2 : parent[c] \in 0..(c - 1)
        BY <1>2
    <2>. QED BY <1>2, <2>1 DEF History
<1>. QED BY <1>2, <1>3
         DEF ViewInit, AdvanceInv, ViewInv, Carries, OneCommand, Passed, NoView

\* create_view carries the metadata that its caller gave.
LEMMA CreateStep ==
    ASSUME ViewInv, NEW p \in Operators, NEW v \in Views, NEW base \in Commits,
           NEW scope, CreateView(p, v, base, scope)
    PROVE  ViewInv'
<1>3. PICK visible, m : /\ m = [base |-> base, scope |-> scope, visible |-> visible]
                        /\ Then(p, "bind", [view |-> v, next |-> m])
    BY DEF CreateView, Begin
<1>1. /\ doing'[p] = "bind" /\ Others(p) /\ serial' = serial
      /\ task'[p] = [view |-> v, next |-> m]
    BY <1>3, ThenFacts
<1>2. /\ UNCHANGED <<parent, states, metadata, given, head>>
      /\ branch' = [branch EXCEPT ![v] = base]
      /\ base \in 1..Len(parent)
    BY CommitNames DEF CreateView, MoveBranch, checkout, metadataRefs, ViewInv
<1>4. Shape(m) /\ task'[p].view = v /\ task'[p].next = m
    BY <1>1, <1>3 DEF Shape
<1>5. Carries(p)'
    BY <1>1, <1>4 DEF Carries
<1>6. branch' \in [Views -> 0..Len(parent)]
    BY <1>2 DEF ViewInv
<1>. QED BY <1>1, <1>2, <1>5, <1>6, ViewQuiet DEF ViewInv

\* The metadata create_view carries is written where none was.
LEMMA BindStep ==
    ASSUME ViewInv, NEW p \in Operators, BindView(p)
    PROVE  ViewInv'
<1>1. /\ doing'[p] = "nothing" /\ Others(p) /\ serial' = serial
      /\ UNCHANGED <<parent, states, branch, head>>
    BY ThenFacts DEF BindView, Done, checkout
<1>2. Carries(p)'
    BY <1>1 DEF Carries
<1>3. task[p].view \in Views /\ Shape(task[p].next)
    BY DEF BindView, ViewInv, Carries
<1>4. CASE metadata[task[p].view] = {}
    BY <1>1, <1>2, <1>3, <1>4, ViewGives DEF BindView
<1>5. CASE metadata[task[p].view] # {}
    BY <1>1, <1>2, <1>5, ViewQuiet DEF BindView, metadataRefs, ViewInv
<1>. QED BY <1>4, <1>5

\* An advance begins with a target that is a commit.
LEMMA StartAdvanceStep ==
    ASSUME ViewInv, NEW p \in Operators, NEW v \in Views, NEW c \in Commits,
           StartAdvance(p, v, c)
    PROVE  ViewInv'
<1>1. PICK publishes \in BOOLEAN :
          Then(p, "validate", [view |-> v, target |-> c, publishes |-> publishes])
    BY DEF StartAdvance
<1>2. /\ doing'[p] = "validate" /\ Others(p) /\ serial' = serial
      /\ task'[p].view = v /\ task'[p].target = c
    BY <1>1, ThenFacts
<1>3. UNCHANGED <<parent, states, branch, metadata, given, head>> /\ c \in 1..Len(parent)
    BY CommitNames DEF StartAdvance, viewRefs, metadataRefs, checkout, ViewInv
<1>4. Carries(p)'
    BY <1>2, <1>3 DEF Carries
<1>. QED BY <1>2, <1>3, <1>4, ViewQuiet DEF ViewInv

\* The metadata that an advance or unrecord_view prepares for a verified commit.
LEMMA Prepared ==
    ASSUME NEW m, Shape(m), NEW c \in 1..Len(parent), VerifiedState(c),
           NEW n, n = [m EXCEPT !.base = c, !.visible = Operations(c)]
    PROVE  Shows(n, parent, states)
<1>1. n = [base |-> c, scope |-> m.scope, visible |-> Operations(c)]
    BY DEF Shape
<1>2. Operations(c) = Above(parent, c)
    BY AncestryIsAbove DEF Operations
<1>. QED BY <1>1, <1>2 DEF Shows, Shape, VerifiedState

\* What passes validation is an accepted target, with metadata of its operations.
LEMMA ValidateStep ==
    ASSUME ViewInv, NEW p \in Operators, ValidateAdvance(p)
    PROVE  /\ ViewInv'
           /\ branch'[task'[p].view] \in Above(parent', task'[p].target)
<1>1. PICK v, c : v = task[p].view /\ c = task[p].target
    OBVIOUS
<1>2. /\ v \in Views /\ c \in 1..Len(parent)
      /\ VerifiedState(c) /\ c \in Nat
      /\ \E m \in metadata[v] : Acceptable(m, v, c)
    BY <1>1, CommitNames DEF ValidateAdvance, Accepted, ViewInv, Carries
<1>3. PICK m \in metadata[v] :
          Then(p, "metadata", [view |-> v, target |-> c,
                               next |-> [m EXCEPT !.base = c, !.visible = Operations(c)]])
    BY <1>1 DEF ValidateAdvance
<1>4. PICK n : n = [m EXCEPT !.base = c, !.visible = Operations(c)]
    OBVIOUS
<1>5. /\ doing'[p] = "metadata" /\ Others(p) /\ serial' = serial
      /\ task'[p] = [view |-> v, target |-> c, next |-> n]
    BY <1>3, <1>4, ThenFacts
<1>6. UNCHANGED <<parent, states, branch, metadata, given, head>>
    BY DEF ValidateAdvance, viewRefs, metadataRefs, checkout
<1>7. Shows(n, parent, states)
    <2>1. Shape(m)
        BY <1>2 DEF ViewInv
    <2>. QED BY <1>2, <1>4, <2>1, Prepared
<1>8. task'[p].view = v /\ task'[p].target = c /\ task'[p].next = n
    BY <1>5
<1>9. Carries(p)'
    BY <1>2, <1>5, <1>6, <1>7, <1>8 DEF Carries
<1>10. ViewInv'
    BY <1>5, <1>6, <1>9, ViewQuiet DEF ViewInv
<1>11. branch[v] \in Above(parent, c)
    BY <1>2, AncestryIsAbove DEF Acceptable, Descends
<1>. QED BY <1>6, <1>8, <1>10, <1>11

\* The first of the two writes of an advance: metadata of the verified target.
LEMMA AdvanceMetadataStep ==
    ASSUME ViewInv, NEW p \in Operators, AdvanceMetadata(p)
    PROVE  /\ ViewInv'
           /\ doing[p] = "metadata" /\ task'[p] = task[p] /\ UNCHANGED <<parent, branch, serial>>
<1>1. /\ doing[p] = "metadata" /\ doing'[p] = "branch" /\ Others(p) /\ serial' = serial
      /\ task'[p] = task[p] /\ UNCHANGED <<parent, states, branch, head>>
    BY ThenFacts DEF AdvanceMetadata, checkout
<1>2. /\ task[p].view \in Views /\ Shows(task[p].next, parent, states)
      /\ task[p].target \in 1..Len(parent)
    BY <1>1 DEF ViewInv, Carries
<1>3. Carries(p)'
    BY <1>1, <1>2 DEF Carries
<1>4. MoveMetadata(task[p].view, task[p].next)
    BY DEF AdvanceMetadata
<1>. QED BY <1>1, <1>2, <1>3, <1>4, ViewWrites

\* The branch moves to a commit, and the process is done or goes on with the same.
LEMMA MoveStep ==
    ASSUME ViewInv, NEW p \in Operators,
           \/ AdvanceBranch(p) \/ CheckoutParent(p) \/ RewindBranch(p) \/ DeleteBranch(p)
    PROVE  ViewInv'
<1>1. /\ doing'[p] \in {"nothing", "rewind", "write", "unname"} /\ Others(p)
      /\ serial' = serial /\ UNCHANGED <<parent, states, metadata, given, head>>
      /\ doing'[p] = "rewind" => doing[p] = "checkout" /\ task'[p] = task[p]
      /\ doing'[p] = "write" => doing[p] = "rewind" /\ task'[p] = task[p]
      /\ doing'[p] = "unname" => doing[p] = "delete" /\ task'[p] = task[p]
    <2>1. CASE AdvanceBranch(p)
        BY <2>1, ThenFacts DEF AdvanceBranch, Done, checkout, metadataRefs
    <2>2. CASE CheckoutParent(p)
        BY <2>2, ThenFacts DEF CheckoutParent, viewRefs, metadataRefs
    <2>3. CASE RewindBranch(p)
        BY <2>3, ThenFacts DEF RewindBranch, checkout, metadataRefs
    <2>4. CASE DeleteBranch(p)
        BY <2>4, ThenFacts DEF DeleteBranch, checkout, metadataRefs
    <2>. QED BY <2>1, <2>2, <2>3, <2>4
<1>2. Carries(p)'
    BY <1>1 DEF ViewInv, Carries
<1>3. branch' \in [Views -> 0..Len(parent)]
    <2>1. CASE CheckoutParent(p)
        BY <2>1 DEF CheckoutParent, viewRefs, metadataRefs, ViewInv
    <2>2. CASE AdvanceBranch(p) \/ RewindBranch(p)
        <3>1. /\ task[p].target \in 1..Len(parent) /\ 1..Len(parent) \subseteq 0..Len(parent)
              /\ branch' = [branch EXCEPT ![task[p].view] = task[p].target]
            BY <2>2, CommitNames DEF AdvanceBranch, RewindBranch, MoveBranch, ViewInv, Carries
        <3>. QED BY <3>1 DEF ViewInv
    <2>3. CASE DeleteBranch(p)
        <3>1. branch' = [branch EXCEPT ![task[p].view] = 0] /\ 0 \in 0..Len(parent)
            BY <2>3, CommitNames DEF DeleteBranch, MoveBranch, ViewInv
        <3>. QED BY <3>1 DEF ViewInv
    <2>. QED BY <2>1, <2>2, <2>3
<1>. QED BY <1>1, <1>2, <1>3, ViewQuiet DEF ViewInv

\* A command that reads first, and then carries the view it is for.
LEMMA StartStep ==
    ASSUME ViewInv, NEW p \in Operators, NEW v \in Views,
           StartRecord(p, v) \/ StartRevise(p, v) \/ StartDelete(p, v)
    PROVE  ViewInv'
<1>1. UNCHANGED <<parent, states, branch, metadata, given, head>>
    BY DEF StartRecord, StartRevise, StartDelete, viewRefs, metadataRefs, checkout
<1>2. PICK c : c = branch[v]
    OBVIOUS
<1>3. c \in 0..Len(parent) /\ Len(parent) \in Nat
    BY <1>2, CommitNames DEF ViewInv
<1>4. /\ doing'[p] \in {"record", "revise", "delete"} /\ Others(p) /\ serial' = serial
      /\ task'[p].view = v
      /\ doing'[p] = "revise" => task'[p].onto \in 1..Len(parent)
    <2>1. CASE StartRecord(p, v)
        <3>1. Then(p, "record", [view |-> v])
            BY <2>1 DEF StartRecord, Begin
        <3>. QED BY <3>1, ThenFacts
    <2>2. CASE StartRevise(p, v)
        <3>1. /\ Then(p, "revise", [view |-> v, onto |-> parent[c]])
              /\ c # 0 /\ parent[c] # 0
            BY <1>2, <2>2 DEF StartRevise, Begin, OnDraft
        <3>2. parent[c] \in 1..Len(parent)
            <4>1. parent[c] \in 0..(c - 1)
                BY <1>3, <3>1 DEF ViewInv, History
            <4>. QED BY <1>3, <3>1, <4>1
        <3>. QED BY <3>1, <3>2, ThenFacts
    <2>3. CASE StartDelete(p, v)
        <3>1. PICK m : Then(p, "delete", [view |-> v, tip |-> branch[v], was |-> m])
            BY <2>3 DEF StartDelete, Begin
        <3>. QED BY <3>1, ThenFacts
    <2>. QED BY <2>1, <2>2, <2>3
<1>5. Carries(p)'
    BY <1>1, <1>4 DEF Carries
<1>. QED BY <1>1, <1>4, <1>5, ViewQuiet DEF ViewInv

\* A commit is made: the branch of the view moves to it.
LEMMA CommitStep ==
    ASSUME ViewInv, NEW p \in Operators, CommitRecord(p) \/ CommitRevise(p)
    PROVE  /\ ViewInv'
           /\ CommitRecord(p) =>
                 \A v \in Views : branch[v] = 0 \/ branch'[v] = branch[v]
                     \/ branch[v] \in Above(parent', branch'[v])
<1> DEFINE n == Len(parent) + 1
<1>1. PICK v, onto : /\ v = task[p].view
                     /\ onto = IF doing[p] = "record" THEN branch[v] ELSE task[p].onto
    OBVIOUS
<1>2. /\ NewCommit(onto) /\ branch' = [branch EXCEPT ![v] = n]
      /\ Then(p, "materialize", [view |-> v, target |-> n])
      /\ UNCHANGED <<metadata, given, head>> /\ v \in Views
      /\ doing[p] = "record" => onto = branch[v] /\ onto # 0
      /\ doing[p] = "revise" => onto \in 1..Len(parent)
      /\ doing[p] \in {"record", "revise"}
      /\ CommitRecord(p) => doing[p] = "record"
    BY <1>1 DEF CommitRecord, CommitRevise, MoveBranch, metadataRefs, ViewInv, Carries
<1>3. onto \in 1..Len(parent)
    <2>1. branch[v] \in 0..Len(parent) /\ Len(parent) \in Nat
        BY <1>2, CommitNames DEF ViewInv
    <2>. QED BY <1>2, <2>1
<1>4. /\ Preserved
      /\ Len(parent) \in Nat /\ Len(parent') = n
      /\ onto \in Above(parent', n)
    BY <1>2, <1>3, CommitFacts DEF ViewInv
<1>5. /\ doing'[p] = "materialize" /\ Others(p) /\ serial' = serial
      /\ task'[p].view = v /\ task'[p].target = n
    BY <1>2, ThenFacts
<1>6. Carries(p)'
    BY <1>2, <1>4, <1>5 DEF Carries
<1>7. /\ branch'[v] = n /\ \A w \in Views \ {v} : branch'[w] = branch[w]
      /\ branch' \in [Views -> 0..Len(parent')]
    <2>1. 0..Len(parent) \subseteq 0..Len(parent') /\ n \in 0..Len(parent')
        BY <1>4
    <2>. QED BY <1>2, <2>1 DEF ViewInv
<1>8. ViewInv'
    BY <1>2, <1>4, <1>5, <1>6, <1>7, ViewFrame DEF ViewInv
<1>. QED BY <1>2, <1>4, <1>7, <1>8

\* A recorded commit gets its verified state, which hides no other one's.
LEMMA MaterializeStep ==
    ASSUME ViewInv, NEW p \in Operators, MaterializeRecord(p)
    PROVE  ViewInv'
<1>1. PICK v, c : v = task[p].view /\ c = task[p].target
    OBVIOUS
<1>2. /\ states' = [states EXCEPT ![c] = "verified"]
      /\ Then(p, "validate", [view |-> v, target |-> c, publishes |-> FALSE])
      /\ UNCHANGED <<parent, branch, metadata, given, head>>
      /\ v \in Views /\ c \in 1..Len(parent)
    BY <1>1 DEF MaterializeRecord, viewRefs, metadataRefs, checkout, ViewInv, Carries
<1>3. Preserved
    <2>1. /\ states \in Seq({"none", "verified", "unsigned"}) /\ Len(states) = Len(parent)
          /\ Len(parent) \in Nat
        BY CommitNames DEF ViewInv, History
    <2>2. /\ states' \in Seq({"none", "verified", "unsigned"}) /\ Len(states') = Len(parent)
          /\ \A d \in 1..Len(parent) : states[d] = "verified" => states'[d] = "verified"
        BY <1>2, <2>1
    <2>3. parent' = parent
        BY <1>2
    <2>4. History'
        BY <2>2, <2>3 DEF ViewInv, History
    <2>. QED BY <2>1, <2>2, <2>3, <2>4 DEF Preserved
<1>4. /\ doing'[p] = "validate" /\ Others(p) /\ serial' = serial
      /\ task'[p].view = v /\ task'[p].target = c
    BY <1>2, ThenFacts
<1>5. Carries(p)'
    BY <1>2, <1>4 DEF Carries
<1>. QED BY <1>2, <1>3, <1>4, <1>5, ViewFrame DEF ViewInv

\* unrecord_view carries the metadata of the parent, whose state it has verified.
LEMMA UnrecordStep ==
    ASSUME ViewInv, NEW p \in Operators, NEW v \in Views, StartUnrecord(p, v)
    PROVE  ViewInv'
<1>1. PICK c : c = parent[branch[v]]
    OBVIOUS
<1>2. /\ branch[v] # 0 /\ c # 0 /\ VerifiedState(c)
      /\ UNCHANGED <<parent, states, branch, metadata, given, head>>
    BY <1>1 DEF StartUnrecord, viewRefs, metadataRefs, checkout
<1>3. c \in 1..Len(parent)
    <2>1. branch[v] \in 0..Len(parent) /\ Len(parent) \in Nat
        BY CommitNames DEF ViewInv
    <2>2. c \in 0..(branch[v] - 1)
        BY <1>1, <1>2, <2>1 DEF ViewInv, History
    <2>. QED BY <1>2, <2>1, <2>2
<1>4. PICK m \in metadata[v] :
          Then(p, "checkout",
               [view |-> v, target |-> c,
                next |-> [m EXCEPT !.base = c, !.visible = Operations(c)]])
    BY <1>1 DEF StartUnrecord, Begin
<1>5. PICK n : n = [m EXCEPT !.base = c, !.visible = Operations(c)]
    OBVIOUS
<1>6. Shows(n, parent, states)
    <2>1. Shape(m)
        BY DEF ViewInv
    <2>. QED BY <1>2, <1>3, <1>5, <2>1, Prepared
<1>7. /\ doing'[p] = "checkout" /\ Others(p) /\ serial' = serial
      /\ task'[p] = [view |-> v, target |-> c, next |-> n]
    BY <1>4, <1>5, ThenFacts
<1>8. task'[p].view = v /\ task'[p].target = c /\ task'[p].next = n
    BY <1>7
<1>9. Carries(p)'
    BY <1>2, <1>3, <1>6, <1>7, <1>8 DEF Carries
<1>. QED BY <1>2, <1>7, <1>9, ViewQuiet DEF ViewInv

\* A filter shows operations of the state of the branch's tip.
LEMMA FilterStep ==
    ASSUME ViewInv, NEW p \in Operators, NEW v \in Views, StartFilter(p, v)
    PROVE  ViewInv'
<1>1. PICK b : b = branch[v]
    OBVIOUS
<1>2. /\ b # 0 /\ VerifiedState(b)
      /\ UNCHANGED <<parent, states, branch, metadata, given, head>>
    BY <1>1 DEF StartFilter, viewRefs, metadataRefs, checkout
<1>3. PICK m \in metadata[v], visible \in Filters :
          /\ m.base = b /\ visible \subseteq Operations(b)
          /\ Then(p, "write", [view |-> v, next |-> [m EXCEPT !.visible = visible]])
    BY <1>1 DEF StartFilter, Begin
<1>4. PICK n : n = [m EXCEPT !.visible = visible]
    OBVIOUS
<1>5. Shape(m) /\ b \in 1..Len(parent)
    <2>1. b \in 0..Len(parent) /\ Len(parent) \in Nat
        BY <1>1, CommitNames DEF ViewInv
    <2>. QED BY <1>2, <2>1 DEF ViewInv
<1>6. n = [base |-> b, scope |-> m.scope, visible |-> visible]
    BY <1>3, <1>4, <1>5 DEF Shape
<1>7. Shows(n, parent, states)
    <2>1. Operations(b) = Above(parent, b)
        BY AncestryIsAbove DEF Operations
    <2>2. n.visible \subseteq Above(parent, b)
        BY <1>3, <1>6, <2>1
    <2>. QED BY <1>2, <1>3, <1>5, <1>6, <2>2 DEF Shows, Shape, VerifiedState
<1>8. /\ doing'[p] = "write" /\ Others(p) /\ serial' = serial
      /\ task'[p] = [view |-> v, next |-> n]
    BY <1>3, <1>4, ThenFacts
<1>9. task'[p].view = v /\ task'[p].next = n
    BY <1>8
<1>10. Carries(p)'
    BY <1>2, <1>7, <1>8, <1>9 DEF Carries
<1>. QED BY <1>2, <1>8, <1>10, ViewQuiet DEF ViewInv

\* Metadata of a filter or an unrecorded commit is written as it was carried.
LEMMA WriteStep ==
    ASSUME ViewInv, NEW p \in Operators, WriteMetadata(p)
    PROVE  ViewInv'
<1>1. /\ doing'[p] = "nothing" /\ Others(p) /\ serial' = serial
      /\ UNCHANGED <<parent, states, branch, head>>
    BY ThenFacts DEF WriteMetadata, Done, checkout
<1>2. Carries(p)'
    BY <1>1 DEF Carries
<1>3. task[p].view \in Views /\ Shows(task[p].next, parent, states)
    BY DEF WriteMetadata, ViewInv, Carries
<1>. QED BY <1>1, <1>2, <1>3, ViewWrites DEF WriteMetadata

\* delete_view takes the metadata away and writes none.
LEMMA UnnameStep ==
    ASSUME ViewInv, NEW p \in Operators, DeleteMetadata(p)
    PROVE  ViewInv'
<1>1. /\ doing'[p] = "nothing" /\ Others(p) /\ serial' = serial
      /\ UNCHANGED <<parent, states, branch, head>>
      /\ metadata' = [metadata EXCEPT ![task[p].view] = {}]
      /\ given' = given \ {task[p].view} /\ task[p].view \in Views
    BY ThenFacts DEF DeleteMetadata, Done, checkout, ViewInv, Carries
<1>2. Carries(p)'
    BY <1>1 DEF Carries
<1>3. DOMAIN metadata' = Views
      /\ \A v \in Views : \A m \in metadata'[v] : m \in metadata[v] /\ (v \in given => v \in given')
    BY <1>1 DEF ViewInv
<1>4. Preserved
    BY <1>1, NoCommit DEF ViewInv
<1>. QED BY <1>1, <1>2, <1>3, <1>4, ViewFrame DEF ViewInv

\* Refusals and deaths.
LEMMA StopStep ==
    ASSUME ViewInv, NEW p \in Operators, RefuseView(p) \/ DieViewing(p)
    PROVE  ViewInv' /\ doing'[p] = "nothing" /\ UNCHANGED branch
<1>1. /\ doing'[p] = "nothing" /\ Others(p) /\ serial' = serial
    <2>1. CASE RefuseView(p)
        BY <2>1, ThenFacts DEF RefuseView, Done
    <2>2. CASE DieViewing(p)
        BY <2>2 DEF DieViewing, ViewInv, Others
    <2>. QED BY <2>1, <2>2
<1>2. UNCHANGED <<parent, states, branch, metadata, given, head>>
    BY DEF RefuseView, DieViewing, viewRefs, metadataRefs, checkout
<1>3. Carries(p)'
    BY <1>1 DEF Carries
<1>. QED BY <1>1, <1>2, <1>3, ViewQuiet DEF ViewInv

\* The worktree, plain Git and what is found of states and views.
LEMMA OutsideStep ==
    ASSUME ViewInv, NEW p \in Operators,
           \/ WorktreeStep(p) \/ GitCommit(p) \/ \E c \in Commits : FindState(p, c)
           \/ \E v \in Views : FetchView(p, v)
    PROVE  /\ ViewInv' /\ MayBegin(p) /\ UNCHANGED <<doing, task, serial>>
           /\ \A v \in Views : branch[v] = 0 \/ branch'[v] = branch[v]
                  \/ branch[v] \in Above(parent', branch'[v])
<1>1. MayBegin(p) /\ UNCHANGED <<doing, task, serial>>
    BY DEF WorktreeStep, GitCommit, FindState, FetchView
<1>2. Others(p) /\ Carries(p)
    BY <1>1 DEF ViewInv, Others
<1>3. CASE WorktreeStep(p)
    <2>1. UNCHANGED <<parent, states, branch, metadata, given>> /\ head' \in Views \cup {NoView}
        BY <1>3 DEF WorktreeStep, SwitchView, StashView, EditFiles, viewRefs, metadataRefs, ViewInv
    <2>2. Preserved
        BY <2>1, NoCommit DEF ViewInv
    <2>3. Carries(p)'
        BY <1>1, <2>2, CarriesStays
    <2>. QED BY <1>1, <1>2, <2>1, <2>3, ViewQuiet DEF ViewInv
<1>4. CASE GitCommit(p)
    <2>1. PICK v, onto : v = head /\ onto = branch[v]
        OBVIOUS
    <2>2. /\ NewCommit(onto) /\ branch' = [branch EXCEPT ![v] = Len(parent) + 1]
          /\ v \in Views /\ onto # 0 /\ UNCHANGED <<metadata, given, head>>
        BY <1>4, <2>1 DEF GitCommit, MoveBranch, metadataRefs, ViewInv
    <2>3. onto \in 1..Len(parent)
        <3>1. branch[v] \in 0..Len(parent) /\ Len(parent) \in Nat
            BY <2>2, CommitNames DEF ViewInv
        <3>. QED BY <2>1, <2>2, <3>1
    <2>4. /\ Preserved
          /\ Len(parent) \in Nat /\ Len(parent') = Len(parent) + 1
          /\ onto \in Above(parent', Len(parent) + 1)
        BY <2>2, <2>3, CommitFacts DEF ViewInv
    <2>5. /\ branch'[v] = Len(parent) + 1 /\ \A w \in Views \ {v} : branch'[w] = branch[w]
          /\ branch' \in [Views -> 0..Len(parent')]
        <3>1. /\ 0..Len(parent) \subseteq 0..Len(parent')
              /\ Len(parent) + 1 \in 0..Len(parent')
            BY <2>4
        <3>. QED BY <2>2, <3>1 DEF ViewInv
    <2>6. Carries(p)'
        BY <1>1, <2>4, CarriesStays
    <2>7. ViewInv'
        BY <1>1, <1>2, <2>2, <2>4, <2>5, <2>6, ViewFrame DEF ViewInv
    <2>. QED BY <1>1, <2>1, <2>4, <2>5, <2>7
<1>5. ASSUME NEW c \in Commits, FindState(p, c) PROVE ViewInv' /\ UNCHANGED branch
    <2>1. PICK s \in {"verified", "unsigned"} :
              /\ s = "unsigned" => states[c] = "none"
              /\ states' = [states EXCEPT ![c] = s]
        BY <1>5 DEF FindState
    <2>2. UNCHANGED <<parent, branch, metadata, given, head>>
        BY <1>5 DEF FindState, viewRefs, metadataRefs, checkout
    <2>3. Preserved
        <3>1. /\ states \in Seq({"none", "verified", "unsigned"}) /\ Len(states) = Len(parent)
              /\ Len(parent) \in Nat /\ c \in 1..Len(parent)
            BY CommitNames DEF ViewInv, History
        <3>2. /\ states' \in Seq({"none", "verified", "unsigned"}) /\ Len(states') = Len(parent)
              /\ \A d \in 1..Len(parent) : states[d] = "verified" => states'[d] = "verified"
            BY <2>1, <3>1
        <3>. QED BY <2>2, <3>1, <3>2 DEF Preserved, ViewInv, History
    <2>4. Carries(p)'
        BY <1>1, <2>3, CarriesStays
    <2>. QED BY <1>1, <1>2, <2>2, <2>3, <2>4, ViewFrame DEF ViewInv
<1>6. ASSUME NEW v \in Views, FetchView(p, v) PROVE ViewInv' /\ UNCHANGED branch
    <2>1. PICK m \in Elsewhere : GiveMetadata(v, m)
        BY <1>6 DEF FetchView
    <2>2. UNCHANGED <<parent, states, branch, head>>
        BY <1>6 DEF FetchView, checkout
    <2>3. Shape(m)
        BY ViewAssumption DEF Shape
    <2>4. Preserved
        BY <2>2, NoCommit DEF ViewInv
    <2>5. Carries(p)'
        BY <1>1, <2>4, CarriesStays
    <2>. QED BY <1>1, <1>2, <2>1, <2>2, <2>3, <2>5, ViewGives
<1>. QED BY <1>1, <1>3, <1>4, <1>5, <1>6

-----------------------------------------------------------------------------
\* Every step preserves what metadata shows.
LEMMA ViewSteps ==
    ASSUME ViewInv, [ViewNext]_viewVars
    PROVE  ViewInv'
<1>1. ASSUME NEW p \in Crew[serial], NEW v \in Views, NEW c \in Commits, NEW s \in Scopes,
             \/ CreateView(p, v, c, s)
             \/ \E of \in Views : CreateChildView(p, v, of, c, s)
      PROVE  ViewInv'
    <2>1. p \in Operators /\ CreateView(p, v, c, s)
        BY <1>1, ViewAssumption DEF CreateChildView, ViewInv
    <2>. QED BY <2>1, CreateStep
<1>2. ASSUME NEW p \in Crew[serial], NEW v \in Views,
             \/ \E c \in Commits : StartAdvance(p, v, c)
             \/ StartRecord(p, v) \/ StartRevise(p, v) \/ StartUnrecord(p, v)
             \/ StartFilter(p, v) \/ StartDelete(p, v)
      PROVE  ViewInv'
    <2>1. p \in Operators
        BY ViewAssumption DEF ViewInv
    <2>. QED BY <1>2, <2>1, StartAdvanceStep, StartStep, UnrecordStep, FilterStep
<1>3. ASSUME NEW p \in Crew[serial], ContinueView(p) PROVE ViewInv'
    <2>1. p \in Operators
        BY ViewAssumption DEF ViewInv
    <2>. QED BY <1>3, <2>1, BindStep, ValidateStep, AdvanceMetadataStep, MoveStep, CommitStep,
                MaterializeStep, WriteStep, UnnameStep, StopStep DEF ContinueView
<1>4. ASSUME NEW p \in Crew[serial],
             \/ WorktreeStep(p) \/ GitCommit(p) \/ (\E c \in Commits : FindState(p, c))
             \/ (\E v \in Views : FetchView(p, v))
             \/ DieViewing(p)
      PROVE  ViewInv'
    <2>1. p \in Operators
        BY ViewAssumption DEF ViewInv
    <2>. QED BY <1>4, <2>1, OutsideStep, StopStep
<1>5. CASE UNCHANGED viewVars
    <2>1. UNCHANGED <<parent, states, branch, metadata, given, head, doing, task, serial>>
        BY <1>5 DEF viewVars, viewRefs, metadataRefs, checkout
    <2>2. Preserved
        BY <2>1, NoCommit DEF ViewInv
    <2>. QED BY <2>1, <2>2, CarriesStays, ShowsStays DEF ViewInv, Preserved
<1>. QED BY <1>1, <1>2, <1>3, <1>4, <1>5 DEF ViewNext

\* Whatever dies, races, is given, is fetched or is committed with plain Git, for any
\* number of operators and views: from the first advance, filter or unrecord_view on, the
\* operations a view makes visible are those of a verified state.
THEOREM ViewAlwaysShowsVerified == ViewSpec => []ViewShowsVerified
<1>1. ViewInv => ViewShowsVerified
    <2>. SUFFICES ASSUME ViewInv, NEW v \in Views \ given, NEW m \in metadata[v], m.visible # {}
                  PROVE  states[m.base] = "verified" /\ m.visible \subseteq Operations(m.base)
        BY DEF ViewShowsVerified
    <2>1. Shows(m, parent, states)
        BY DEF ViewInv
    <2>2. Operations(m.base) = Above(parent, m.base)
        BY AncestryIsAbove DEF Operations
    <2>. QED BY <2>1, <2>2 DEF Shows
<1>2. ViewInit => ViewInv
    BY ViewInitially DEF AdvanceInv
<1>3. ViewInv /\ [ViewNext]_viewVars => ViewInv'
    BY ViewSteps
<1>. QED BY <1>1, <1>2, <1>3, PTL DEF ViewSpec

-----------------------------------------------------------------------------
(* One command at a time. *)

\* A process that moves was the only one at work, or starts when nobody is.
Alone(p) == (doing[p] # "nothing" \/ MayBegin(p)) /\ Others(p) /\ serial' = serial

\* One command at a time stays one command at a time.
LEMMA StaysAlone ==
    ASSUME AdvanceInv, NEW p \in Operators, Alone(p)
    PROVE  OneCommand' /\ \A q \in Operators \ {p} : Passed(q)'
<1>1. ASSUME serial, NEW q \in Operators \ {p} PROVE doing'[q] = "nothing"
    BY <1>1 DEF AdvanceInv, OneCommand, Alone, MayBegin, Others
<1>2. OneCommand'
    BY <1>1 DEF OneCommand, Alone
<1>3. \A q \in Operators \ {p} : Passed(q)'
    BY <1>1 DEF Passed, Alone
<1>. QED BY <1>2, <1>3

\* A branch that neither is created or deleted nor loses its tip.
Keeps(v) == branch[v] = 0 \/ branch'[v] = 0 \/ branch[v] \in Above(parent', branch'[v])

\* A branch that does not move keeps its tip.
LEMMA KeepsTip ==
    ASSUME ViewInv, Preserved, NEW v \in Views, branch'[v] = branch[v]
    PROVE  Keeps(v)
<1>1. branch[v] \in 0..Len(parent) /\ Rooted(parent, branch[v])
    BY HistoryRooted DEF ViewInv
<1>2. branch[v] # 0 => branch[v] \in Above(parent, branch[v])
    BY <1>1, AboveFacts
<1>3. Above(parent', branch[v]) = Above(parent, branch[v])
    BY <1>1, AncestryStays DEF ViewInv
<1>. QED BY <1>2, <1>3 DEF Keeps

\* Every step of a process keeps the invariant, and unless commits are taken back
\* on purpose no branch loses its tip.
Safe(p) ==
    /\ Passed(p)'
    /\ serial => \A v \in Views : Keeps(v) \/ doing[p] \in {"revise", "rewind"}

\* The first step of a command drops no commit, and carries no accepted target yet.
LEMMA SafeStart ==
    ASSUME AdvanceInv, NEW p \in Operators, NEW v \in Views,
           \/ \E c \in Commits, s \in Scopes : CreateView(p, v, c, s)
           \/ \E c \in Commits : StartAdvance(p, v, c)
           \/ StartRecord(p, v) \/ StartRevise(p, v) \/ StartUnrecord(p, v)
           \/ StartFilter(p, v) \/ StartDelete(p, v)
    PROVE  Alone(p) /\ Safe(p)
<1>. DEFINE Starts == doing'[p] \notin {"metadata", "branch"} /\ Others(p) /\ serial' = serial
<1>0. ASSUME NEW s \in {"bind", "validate", "record", "revise", "checkout", "write", "delete"},
             NEW t, Then(p, s, t)
      PROVE  Starts
    BY <1>0, ThenFacts DEF AdvanceInv
<1>. HIDE DEF Starts
<1>1. Starts
    <2>1. ASSUME NEW c \in Commits, NEW s \in Scopes, CreateView(p, v, c, s)
          PROVE  Starts
        <3>1. PICK visible \in Filters :
                  Then(p, "bind", [view |-> v,
                                   next |-> [base |-> c, scope |-> s, visible |-> visible]])
            BY <2>1 DEF CreateView, Begin
        <3>. QED BY <3>1, <1>0
    <2>2. ASSUME NEW c \in Commits, StartAdvance(p, v, c)
          PROVE  Starts
        <3>1. PICK publishes \in BOOLEAN :
                  Then(p, "validate", [view |-> v, target |-> c, publishes |-> publishes])
            BY <2>2 DEF StartAdvance
        <3>. QED BY <3>1, <1>0
    <2>3. CASE StartRecord(p, v)
        <3>1. Then(p, "record", [view |-> v])
            BY <2>3 DEF StartRecord, Begin
        <3>. QED BY <3>1, <1>0
    <2>4. CASE StartRevise(p, v)
        <3>1. Then(p, "revise", [view |-> v, onto |-> parent[branch[v]]])
            BY <2>4 DEF StartRevise, Begin
        <3>. QED BY <3>1, <1>0
    <2>5. CASE StartUnrecord(p, v)
        <3>. DEFINE to == parent[branch[v]]
        <3>1. PICK m \in metadata[v] :
                  Then(p, "checkout",
                       [view |-> v, target |-> to,
                        next |-> [m EXCEPT !.base = to, !.visible = Operations(to)]])
            BY <2>5 DEF StartUnrecord, Begin
        <3>. QED BY <3>1, <1>0
    <2>6. CASE StartFilter(p, v)
        <3>1. PICK m \in metadata[v], visible \in Filters :
                  Then(p, "write", [view |-> v, next |-> [m EXCEPT !.visible = visible]])
            BY <2>6 DEF StartFilter, Begin
        <3>. QED BY <3>1, <1>0
    <2>7. CASE StartDelete(p, v)
        <3>1. PICK m \in metadata[v] :
                  Then(p, "delete", [view |-> v, tip |-> branch[v], was |-> m])
            BY <2>7 DEF StartDelete, Begin
        <3>. QED BY <3>1, <1>0
    <2>. QED BY <2>1, <2>2, <2>3, <2>4, <2>5, <2>6, <2>7
<1>2. MayBegin(p)
    BY DEF CreateView, StartAdvance, StartRecord, StartRevise, StartUnrecord, StartFilter,
           StartDelete, Begin
<1>3. Alone(p) /\ Passed(p)'
    BY <1>1, <1>2 DEF Starts, Alone, Passed
<1>4. UNCHANGED <<parent, states>>
    BY DEF CreateView, StartAdvance, StartRecord, StartRevise, StartUnrecord, StartFilter,
           StartDelete
<1>5. Preserved /\ ViewInv
    BY <1>4, NoCommit DEF AdvanceInv, ViewInv
<1>6. CASE \E c \in Commits, s \in Scopes : CreateView(p, v, c, s)
    <2>1. PICK c : branch' = [branch EXCEPT ![v] = c] /\ branch[v] = 0
        BY <1>6 DEF CreateView, MoveBranch
    <2>2. \A w \in Views : w # v => branch'[w] = branch[w]
        BY <1>5, <2>1 DEF ViewInv
    <2>3. \A w \in Views : Keeps(w)
        BY <1>5, <2>1, <2>2, KeepsTip DEF Keeps
    <2>. QED BY <1>3, <2>3 DEF Safe
<1>7. CASE ~\E c \in Commits, s \in Scopes : CreateView(p, v, c, s)
    <2>1. UNCHANGED branch
        BY <1>7 DEF StartAdvance, StartRecord, StartRevise, StartUnrecord, StartFilter,
                    StartDelete, viewRefs, metadataRefs
    <2>. QED BY <1>3, <1>5, <2>1, KeepsTip DEF Safe
<1>. QED BY <1>6, <1>7

\* A later step drops a commit only where a command is meant to (revise, rewind).
LEMMA SafeContinue ==
    ASSUME AdvanceInv, NEW p \in Operators, ContinueView(p) \/ DieViewing(p)
    PROVE  Alone(p) /\ Safe(p)
<1>. ViewInv
    BY DEF AdvanceInv
<1>1. doing[p] # "nothing"
    BY DEF ContinueView, DieViewing, BindView, ValidateAdvance, AdvanceMetadata, AdvanceBranch,
           CommitRecord, CommitRevise, MaterializeRecord, CheckoutParent, RewindBranch,
           WriteMetadata, DeleteBranch, DeleteMetadata, RefuseView
<1>2. Others(p) /\ serial' = serial
    <2>1. CASE DieViewing(p)
        BY <2>1 DEF DieViewing, ViewInv, Others
    <2>2. CASE ContinueView(p)
        <3>1. \E s, t : Then(p, s, t)
            BY <2>2 DEF ContinueView, BindView, ValidateAdvance, AdvanceMetadata, AdvanceBranch,
               CommitRecord, CommitRevise, MaterializeRecord, CheckoutParent, RewindBranch,
               WriteMetadata, DeleteBranch, DeleteMetadata, RefuseView, Done
        <3>. QED BY <3>1, ThenFacts
    <2>. QED BY <2>1, <2>2
<1>3. Alone(p)
    BY <1>1, <1>2 DEF Alone
<1>4. CASE ValidateAdvance(p)
    <2>1. Passed(p)'
        BY <1>4, ValidateStep DEF Passed
    <2>2. UNCHANGED <<parent, states, branch>>
        BY <1>4 DEF ValidateAdvance, viewRefs, metadataRefs
    <2>3. Preserved
        BY <2>2, NoCommit DEF ViewInv
    <2>. QED BY <1>3, <2>1, <2>2, <2>3, KeepsTip DEF Safe
<1>5. CASE AdvanceMetadata(p)
    <2>1. /\ doing[p] = "metadata" /\ task'[p] = task[p]
          /\ UNCHANGED <<parent, states, branch, serial>>
        BY <1>5, AdvanceMetadataStep DEF AdvanceMetadata
    <2>2. Passed(p)'
        BY <2>1 DEF Passed, AdvanceInv
    <2>3. Preserved
        BY <2>1, NoCommit DEF ViewInv
    <2>. QED BY <1>3, <2>1, <2>2, <2>3, KeepsTip DEF Safe
<1>6. CASE AdvanceBranch(p)
    <2>1. PICK v, c : v = task[p].view /\ c = task[p].target
        OBVIOUS
    <2>2. /\ doing[p] = "branch" /\ doing'[p] = "nothing"
          /\ branch' = [branch EXCEPT ![v] = c] /\ UNCHANGED <<parent, states>>
          /\ v \in Views
        BY <1>6, <2>1, ThenFacts DEF AdvanceBranch, Done, MoveBranch, ViewInv, Carries
    <2>3. serial => branch[v] \in Above(parent, c)
        BY <2>1, <2>2 DEF AdvanceInv, Passed
    <2>4. branch'[v] = c /\ \A w \in Views \ {v} : branch'[w] = branch[w]
        BY <2>2 DEF ViewInv
    <2>5. Preserved
        BY <2>2, NoCommit DEF ViewInv
    <2>6. serial => \A w \in Views : Keeps(w)
        BY <2>2, <2>3, <2>4, <2>5, KeepsTip DEF Keeps
    <2>7. Passed(p)'
        BY <2>2 DEF Passed
    <2>. QED BY <1>3, <2>6, <2>7 DEF Safe
<1>7. CASE CommitRecord(p) \/ CommitRevise(p)
    <2>1. doing'[p] = "materialize" /\ (CommitRevise(p) => doing[p] = "revise")
        BY <1>7, ThenFacts DEF CommitRecord, CommitRevise
    <2>2. Passed(p)'
        BY <2>1 DEF Passed
    <2>3. CASE CommitRecord(p)
        <3>1. PICK v, onto : v = task[p].view /\ onto = branch[v]
            OBVIOUS
        <3>2. NewCommit(onto) /\ onto \in 1..Len(parent)
            <4>1. NewCommit(onto) /\ onto # 0 /\ v \in Views
                BY <2>3, <3>1 DEF CommitRecord, ViewInv, Carries
            <4>2. branch[v] \in 0..Len(parent) /\ Len(parent) \in Nat
                BY <4>1, CommitNames DEF ViewInv
            <4>. QED BY <3>1, <4>1, <4>2
        <3>3. Preserved
            BY <3>2, CommitFacts DEF ViewInv
        <3>4. \A w \in Views : Keeps(w)
            BY <2>3, <3>3, CommitStep, KeepsTip DEF Keeps
        <3>. QED BY <1>3, <2>2, <3>4 DEF Safe
    <2>. QED BY <1>3, <1>7, <2>1, <2>2, <2>3 DEF Safe
<1>8. CASE DeleteBranch(p)
    <2>1. /\ branch' = [branch EXCEPT ![task[p].view] = 0] /\ doing'[p] = "unname"
          /\ UNCHANGED <<parent, states>>
        BY <1>8, ThenFacts DEF DeleteBranch, MoveBranch
    <2>2. Preserved
        BY <2>1, NoCommit DEF ViewInv
    <2>3. \A w \in Views : branch'[w] = 0 \/ branch'[w] = branch[w]
        BY <2>1 DEF ViewInv
    <2>4. \A w \in Views : Keeps(w)
        BY <2>2, <2>3, KeepsTip DEF Keeps
    <2>. QED BY <1>3, <2>1, <2>4 DEF Safe, Passed
<1>9. CASE RewindBranch(p)
    <2>1. doing[p] = "rewind" /\ doing'[p] = "write"
        BY <1>9, ThenFacts DEF RewindBranch
    <2>. QED BY <1>3, <2>1 DEF Safe, Passed
<1>10. CASE \/ BindView(p) \/ MaterializeRecord(p) \/ CheckoutParent(p) \/ WriteMetadata(p)
            \/ DeleteMetadata(p) \/ RefuseView(p) \/ DieViewing(p)
    <2>1. doing'[p] \notin {"metadata", "branch"}
        <3>1. CASE DieViewing(p) \/ RefuseView(p)
            BY <3>1, StopStep
        <3>2. CASE BindView(p) \/ WriteMetadata(p) \/ DeleteMetadata(p)
            BY <3>2, ThenFacts DEF BindView, WriteMetadata, DeleteMetadata, Done
        <3>3. CASE MaterializeRecord(p)
            BY <3>3, ThenFacts DEF MaterializeRecord
        <3>4. CASE CheckoutParent(p)
            BY <3>4, ThenFacts DEF CheckoutParent
        <3>. QED BY <1>10, <3>1, <3>2, <3>3, <3>4
    <2>2. UNCHANGED <<parent, branch>>
        BY <1>10 DEF BindView, MaterializeRecord, CheckoutParent, WriteMetadata, DeleteMetadata,
                     RefuseView, DieViewing, viewRefs, metadataRefs
    <2>3. \A w \in Views : Keeps(w)
        <3>1. ASSUME NEW w \in Views, branch[w] # 0 PROVE branch[w] \in Above(parent, branch[w])
            <4>1. branch[w] \in 0..Len(parent) /\ Rooted(parent, branch[w])
                BY HistoryRooted DEF ViewInv
            <4>. QED BY <3>1, <4>1, AboveFacts
        <3>. QED BY <2>2, <3>1 DEF Keeps
    <2>. QED BY <1>3, <2>1, <2>3 DEF Safe, Passed
<1>. QED BY <1>4, <1>5, <1>6, <1>7, <1>8, <1>9, <1>10 DEF ContinueView

\* What a step does, if it is no stuttering step.
LEMMA AdvanceSteps ==
    ASSUME AdvanceInv, ViewNext
    PROVE  /\ AdvanceInv'
           /\ serial => \A v \in Views :
                  Keeps(v) \/ \E p \in Operators : doing[p] \in {"revise", "rewind"}
<1>0. ViewInv /\ ViewInv' /\ Crew[serial] \subseteq Operators
    BY ViewSteps, ViewAssumption DEF AdvanceInv, ViewInv
<1>1. ASSUME NEW p \in Operators, Alone(p), Safe(p)
      PROVE  /\ AdvanceInv'
             /\ serial => \A v \in Views :
                    Keeps(v) \/ \E q \in Operators : doing[q] \in {"revise", "rewind"}
    BY <1>0, <1>1, StaysAlone DEF AdvanceInv, Safe
<1>2. ASSUME NEW p \in Crew[serial], NEW v \in Views,
             \/ \E c \in Commits, s \in Scopes : CreateView(p, v, c, s)
             \/ \E c \in Commits : StartAdvance(p, v, c)
             \/ StartRecord(p, v) \/ StartRevise(p, v) \/ StartUnrecord(p, v)
             \/ StartFilter(p, v) \/ StartDelete(p, v)
      PROVE  Alone(p) /\ Safe(p) /\ p \in Operators
    BY <1>0, <1>2, SafeStart
<1>3. ASSUME NEW p \in Crew[serial], ContinueView(p) \/ DieViewing(p)
      PROVE  Alone(p) /\ Safe(p) /\ p \in Operators
    BY <1>0, <1>3, SafeContinue
<1>4. ASSUME NEW p \in Crew[serial],
             \/ WorktreeStep(p) \/ GitCommit(p) \/ \E c \in Commits : FindState(p, c)
             \/ \E v \in Views : FetchView(p, v)
      PROVE  Alone(p) /\ Safe(p) /\ p \in Operators
    <2>1. /\ p \in Operators /\ MayBegin(p) /\ UNCHANGED <<doing, task, serial>>
          /\ \A v \in Views : branch[v] = 0 \/ branch'[v] = branch[v]
                  \/ branch[v] \in Above(parent', branch'[v])
        BY <1>0, <1>4, OutsideStep
    <2>2. Preserved
        <3>1. CASE GitCommit(p)
            <4>1. NewCommit(branch[head]) /\ head \in Views /\ branch[head] # 0
                BY <1>0, <3>1 DEF GitCommit, ViewInv
            <4>2. branch[head] \in 1..Len(parent)
                <5>1. branch[head] \in 0..Len(parent) /\ Len(parent) \in Nat
                    BY <1>0, <4>1, CommitNames DEF ViewInv
                <5>. QED BY <4>1, <5>1
            <4>. QED BY <1>0, <4>1, <4>2, CommitFacts DEF ViewInv
        <3>2. CASE WorktreeStep(p)
            BY <1>0, <3>2, NoCommit DEF WorktreeStep, ViewInv
        <3>3. ASSUME NEW c \in Commits, FindState(p, c) PROVE Preserved
            <4>1. \A d \in 1..Len(parent) : states[d] = "verified" => states'[d] = "verified"
                <5>1. PICK s \in {"verified", "unsigned"} :
                          /\ s = "unsigned" => states[c] = "none"
                          /\ states' = [states EXCEPT ![c] = s]
                    BY <3>3 DEF FindState
                <5>2. \A d \in 1..Len(parent) : d \in DOMAIN states
                    BY <1>0 DEF ViewInv, History
                <5>. QED BY <5>1, <5>2
            <4>2. parent' = parent /\ History' /\ Len(parent) \in Nat
                BY <1>0, <3>3, CommitNames DEF FindState, ViewInv
            <4>. QED BY <4>1, <4>2 DEF Preserved
        <3>4. ASSUME NEW v \in Views, FetchView(p, v) PROVE Preserved
            BY <1>0, <3>4, NoCommit DEF FetchView, ViewInv
        <3>. QED BY <1>4, <3>1, <3>2, <3>3, <3>4
    <2>3. \A v \in Views : Keeps(v)
        BY <1>0, <2>1, <2>2, KeepsTip DEF Keeps
    <2>4. Alone(p)
        BY <1>0, <2>1 DEF Alone, Others, ViewInv
    <2>5. Passed(p)'
        BY <2>1 DEF MayBegin, Passed
    <2>. QED BY <2>1, <2>3, <2>4, <2>5 DEF Safe
<1>. QED BY <1>1, <1>2, <1>3, <1>4 DEF ViewNext, CreateChildView

\* One command at a time, no branch loses a commit, for any number of operators,
\* views and commits: an advance checks first and moves the branch two steps later,
\* with nobody in between, and what plain Git commits stays below.
THEOREM AdvanceAlwaysKeepsCommits == ViewSpec => AdvanceKeepsCommits
<1> DEFINE Kept == serial =>
        \A v \in Views :
            branch[v] # 0 /\ branch'[v] # 0 =>
                \/ branch[v] \in Ancestry(branch[v])'
                \/ \E p \in Operators : doing[p] \in {"revise", "rewind"}
<1>1. AdvanceInv /\ ViewNext => Kept
    <2>1. \A v : Ancestry(branch[v])' = Above(parent', branch'[v])
        BY DEF Ancestry, Above, Climb, Climbs
    <2>. QED BY <2>1, AdvanceSteps DEF Keeps
<1>2. AdvanceInv /\ UNCHANGED viewVars => AdvanceInv'
    <2>. SUFFICES ASSUME AdvanceInv, UNCHANGED viewVars PROVE AdvanceInv'
        OBVIOUS
    <2>1. UNCHANGED <<parent, branch, doing, task, serial>>
        BY DEF viewVars, viewRefs, metadataRefs
    <2>2. ViewInv'
        BY ViewSteps DEF AdvanceInv
    <2>. QED BY <2>1, <2>2 DEF AdvanceInv, OneCommand, Passed
<1>3. AdvanceInv /\ [ViewNext]_viewVars => AdvanceInv'
    BY <1>2, AdvanceSteps
<1>4. AdvanceInv /\ [ViewNext]_viewVars => [Kept]_viewVars
    BY <1>1
<1>. QED BY <1>3, <1>4, ViewInitially, PTL DEF ViewSpec, AdvanceKeepsCommits

-----------------------------------------------------------------------------
(* The server.                                                              *)
(* What makes the promise inductive.  The requests that hold the mutex have *)
(* it alone, and what is in the retry set is in the ledger already, unless  *)
(* the one request that holds the mutex has just put it there.              *)

Entered == {"locked", "append", "failed"}
Inside == Entered \cup {"answer"}

WebhookTypeOK ==
    /\ events \in Seq(Deliveries)
    /\ deliveries \subseteq Deliveries
    /\ step \in [Requests -> {"free", "received"} \cup Inside]
    /\ delivery \in [Requests -> SUBSET Deliveries]

OneDelivery == \A r \in Requests : step[r] # "free" => \E d \in Deliveries : delivery[r] = {d}

Exclusive == \A r \in Requests : step[r] \in Inside => mutex = {r}

Remembered ==
    \A d \in deliveries :
        d \in Recorded \/ \E r \in Requests : step[r] \in Entered /\ d \in delivery[r]

Underway ==
    \A r \in Requests :
        /\ step[r] = "append" => \A d \in delivery[r] : d \notin Recorded
        /\ step[r] = "answer" => delivery[r] \subseteq Recorded

WebhookInv == WebhookTypeOK /\ OneDelivery /\ Exclusive /\ Remembered /\ Underway

-----------------------------------------------------------------------------
\* Appending records the delivery and keeps what was recorded.
LEMMA AppendRecords ==
    ASSUME events \in Seq(Deliveries), NEW d \in Deliveries, events' = Append(events, d)
    PROVE  events' \in Seq(Deliveries) /\ Recorded' = Recorded \cup {d}
<1>1. /\ events' \in Seq(Deliveries)
      /\ DOMAIN events' = DOMAIN events \cup {Len(events) + 1}
      /\ \A i \in DOMAIN events : events'[i] = events[i]
      /\ events'[Len(events) + 1] = d
    OBVIOUS
<1> QED
    BY <1>1 DEF Recorded

\* The invariant holds of an empty ledger.
LEMMA InitInv == WebhookInit => WebhookInv
<1> SUFFICES ASSUME WebhookInit PROVE WebhookInv
    OBVIOUS
<1>1. events \in Seq(Deliveries)
    BY DEF WebhookInit, OnceInit
<1> QED
    BY <1>1 DEF WebhookInit, OnceInit, WebhookInv, WebhookTypeOK, OneDelivery, Exclusive,
        Remembered, Underway, Inside, Entered

\* A step that leaves the ledger, the mutex and all other requests alone.
LEMMA ReceiveInv ==
    ASSUME WebhookInv, NEW r \in Requests, NEW d \in Deliveries, Receive(r, d)
    PROVE  WebhookInv'
<1> USE DEF WebhookInv, Receive, To, onceVars
<1>1. Recorded' = Recorded
    BY DEF Recorded
<1>2. WebhookTypeOK'
    BY DEF WebhookTypeOK
<1>3. OneDelivery'
    BY DEF OneDelivery, WebhookTypeOK
<1>4. Exclusive'
    BY DEF Exclusive, WebhookTypeOK, Inside, Entered
<1>5. Remembered'
    BY <1>1 DEF Remembered, WebhookTypeOK, Entered
<1>6. Underway'
    BY <1>1 DEF Underway, WebhookTypeOK
<1> QED
    BY <1>2, <1>3, <1>4, <1>5, <1>6

\* Nobody is inside, so what is in the retry set is in the ledger.
LEMMA LockInv ==
    ASSUME WebhookInv, NEW r \in Requests, LockDeliveries(r)
    PROVE  WebhookInv'
<1> USE DEF WebhookInv, LockDeliveries, To, onceVars
<1>1. Recorded' = Recorded
    BY DEF Recorded
<1>2. \A q \in Requests : step[q] \notin Inside
    BY DEF Exclusive
<1>3. deliveries \subseteq Recorded
    BY <1>2 DEF Remembered, Inside
<1>4. WebhookTypeOK'
    BY DEF WebhookTypeOK, Inside, Entered
<1>5. OneDelivery'
    BY DEF OneDelivery, WebhookTypeOK
<1>6. Exclusive'
    BY <1>2 DEF Exclusive, WebhookTypeOK
<1>7. Remembered'
    BY <1>1, <1>3 DEF Remembered, WebhookTypeOK, Entered
<1>8. Underway'
    BY <1>1, <1>2, <1>3 DEF Underway, WebhookTypeOK, Inside, Entered
<1> QED
    BY <1>4, <1>5, <1>6, <1>7, <1>8

\* Looking the delivery up in the ledger, with the mutex held.
LEMMA ReadInv ==
    ASSUME WebhookInv, NEW r \in Requests, ReadLedger(r)
    PROVE  WebhookInv'
<1> USE DEF WebhookInv, ReadLedger, To, onceVars
<1>1. Recorded' = Recorded
    BY DEF Recorded
<1>2. WebhookTypeOK'
    BY DEF WebhookTypeOK, Inside, Entered
<1>3. OneDelivery'
    BY DEF OneDelivery, WebhookTypeOK
<1>4. Exclusive'
    BY DEF Exclusive, WebhookTypeOK, Inside, Entered
<1>5. Remembered'
    BY <1>1 DEF Remembered, WebhookTypeOK, Entered
<1>6. Underway'
    BY <1>1 DEF Underway, OneDelivery, WebhookTypeOK
<1> QED
    BY <1>2, <1>3, <1>4, <1>5, <1>6

\* Writing the delivery to the ledger.
LEMMA AppendInv ==
    ASSUME WebhookInv, NEW r \in Requests, AppendWebhook(r)
    PROVE  WebhookInv' /\ \E d \in Deliveries : RecordOnce(d)
<1> USE DEF WebhookInv, AppendWebhook, To
<1>1. PICK d \in Deliveries : delivery[r] = {d}
    BY DEF OneDelivery
<1>2. events' = Append(events, d)
    BY <1>1
<1>3. events' \in Seq(Deliveries) /\ Recorded' = Recorded \cup {d}
    BY <1>2, AppendRecords DEF WebhookTypeOK
<1>4. \A q \in Requests \ {r} : step[q] \notin Inside
    BY DEF Exclusive, Inside, Entered
<1>5. WebhookTypeOK'
    BY <1>3 DEF WebhookTypeOK, Inside, Entered
<1>6. OneDelivery'
    BY DEF OneDelivery, WebhookTypeOK
<1>7. Exclusive'
    BY DEF Exclusive, WebhookTypeOK, Inside, Entered
<1>8. Remembered'
    BY <1>1, <1>3, <1>4 DEF Remembered, WebhookTypeOK, Inside
<1>9. Underway'
    BY <1>1, <1>3, <1>4 DEF Underway, WebhookTypeOK, Inside, Entered
<1>10. RecordOnce(d)
    BY <1>1, <1>2 DEF RecordOnce, Underway
<1> QED
    BY <1>5, <1>6, <1>7, <1>8, <1>9, <1>10

\* A request that fails while it holds the mutex.
LEMMA FailInv ==
    ASSUME WebhookInv, NEW r \in Requests, FailRequest(r)
    PROVE  WebhookInv'
<1> USE DEF WebhookInv, FailRequest, To, onceVars
<1>1. Recorded' = Recorded
    BY DEF Recorded
<1>2. WebhookTypeOK'
    BY DEF WebhookTypeOK, Inside, Entered
<1>3. OneDelivery'
    BY DEF OneDelivery, WebhookTypeOK
<1>4. Exclusive'
    BY DEF Exclusive, WebhookTypeOK, Inside, Entered
<1>5. Remembered'
    BY <1>1 DEF Remembered, WebhookTypeOK, Entered
<1>6. Underway'
    BY <1>1 DEF Underway, WebhookTypeOK
<1> QED
    BY <1>2, <1>3, <1>4, <1>5, <1>6

\* The delivery is taken out; nobody else had just entered one.
LEMMA RefuseInv ==
    ASSUME WebhookInv, NEW r \in Requests, Refuse(r)
    PROVE  WebhookInv'
<1> USE DEF WebhookInv, Refuse, Finish, To, onceVars
<1>1. Recorded' = Recorded
    BY DEF Recorded
<1>2. \A q \in Requests \ {r} : step[q] \notin Inside
    BY DEF Exclusive, Inside, Entered
<1>3. WebhookTypeOK'
    BY DEF WebhookTypeOK
<1>4. OneDelivery'
    BY DEF OneDelivery, WebhookTypeOK
<1>5. Exclusive'
    BY <1>2 DEF Exclusive, WebhookTypeOK, Inside, Entered
<1>6. Remembered'
    BY <1>1, <1>2 DEF Remembered, WebhookTypeOK, Inside
<1>7. Underway'
    BY <1>1 DEF Underway, WebhookTypeOK
<1> QED
    BY <1>3, <1>4, <1>5, <1>6, <1>7

\* Answering and giving the mutex back.
LEMMA AnswerInv ==
    ASSUME WebhookInv, NEW r \in Requests, Answer(r)
    PROVE  WebhookInv' /\ \E d \in Deliveries : Acknowledge(d)
<1> USE DEF WebhookInv, Answer, Finish, To
<1>1. Recorded' = Recorded
    BY DEF Recorded
<1>2. PICK d \in Deliveries : delivery[r] = {d}
    BY DEF OneDelivery
<1>3. \A q \in Requests \ {r} : step[q] \notin Inside
    BY DEF Exclusive, Inside, Entered
<1>4. WebhookTypeOK'
    BY DEF WebhookTypeOK
<1>5. OneDelivery'
    BY DEF OneDelivery, WebhookTypeOK
<1>6. Exclusive'
    BY <1>3 DEF Exclusive, WebhookTypeOK, Inside, Entered
<1>7. Remembered'
    BY <1>1, <1>3 DEF Remembered, WebhookTypeOK, Inside, Entered
<1>8. Underway'
    BY <1>1 DEF Underway, WebhookTypeOK
<1>9. Acknowledge(d)
    BY <1>2 DEF Acknowledge, Underway
<1> QED
    BY <1>4, <1>5, <1>6, <1>7, <1>8, <1>9

\* A restart forgets everything but the ledger.
LEMMA RestartInv ==
    ASSUME WebhookInv, Restart
    PROVE  WebhookInv'
<1>1. Recorded' = Recorded
    BY DEF Restart, onceVars, Recorded
<1> QED
    BY <1>1 DEF WebhookInv, Restart, onceVars, WebhookTypeOK, OneDelivery, Exclusive,
        Remembered, Underway, Inside, Entered

\* Every step keeps the invariant and is a step of the log or leaves it alone.
LEMMA StepInv ==
    ASSUME WebhookInv, [WebhookNext]_webhookVars
    PROVE  WebhookInv' /\ [OnceNext]_onceVars
<1>1. CASE UNCHANGED webhookVars
    <2>1. Recorded' = Recorded
        BY <1>1 DEF webhookVars, onceVars, Recorded
    <2> QED
        BY <1>1, <2>1 DEF webhookVars, onceVars, served, WebhookInv, WebhookTypeOK, OneDelivery,
            Exclusive, Remembered, Underway
<1>2. ASSUME NEW r \in Requests, NEW d \in Deliveries, Receive(r, d)
      PROVE  WebhookInv' /\ [OnceNext]_onceVars
    BY <1>2, ReceiveInv DEF Receive
<1>3. ASSUME NEW r \in Requests, LockDeliveries(r)
      PROVE  WebhookInv' /\ [OnceNext]_onceVars
    BY <1>3, LockInv DEF LockDeliveries
<1>4. ASSUME NEW r \in Requests, ReadLedger(r)
      PROVE  WebhookInv' /\ [OnceNext]_onceVars
    BY <1>4, ReadInv DEF ReadLedger
<1>5. ASSUME NEW r \in Requests, AppendWebhook(r)
      PROVE  WebhookInv' /\ [OnceNext]_onceVars
    BY <1>5, AppendInv DEF OnceNext
<1>6. ASSUME NEW r \in Requests, FailRequest(r)
      PROVE  WebhookInv' /\ [OnceNext]_onceVars
    BY <1>6, FailInv DEF FailRequest
<1>7. ASSUME NEW r \in Requests, Refuse(r)
      PROVE  WebhookInv' /\ [OnceNext]_onceVars
    BY <1>7, RefuseInv DEF Refuse
<1>8. ASSUME NEW r \in Requests, Answer(r)
      PROVE  WebhookInv' /\ [OnceNext]_onceVars
    BY <1>8, AnswerInv DEF OnceNext
<1>9. CASE Restart
    BY <1>9, RestartInv DEF Restart
<1> QED
    BY <1>1, <1>2, <1>3, <1>4, <1>5, <1>6, <1>7, <1>8, <1>9 DEF WebhookNext

\* The invariant of the webhook.
LEMMA AlwaysInv == WebhookSpec => []WebhookInv
<1>1. WebhookInit => WebhookInv
    BY InitInv
<1>2. WebhookInv /\ [WebhookNext]_webhookVars => WebhookInv'
    BY StepInv
<1> QED
    BY <1>1, <1>2, PTL DEF WebhookSpec

\* The endpoint implements the log (github_webhook, record_webhook): it records a
\* delivery at most once and acknowledges only what it recorded, however requests
\* race for the mutex, fail, and are cut off by the end of the process.
THEOREM WebhookRecordsOnce == WebhookSpec => RecordsOnce
<1>1. WebhookInit => OnceInit
    BY DEF WebhookInit
<1>2. WebhookInv /\ [WebhookNext]_webhookVars => [OnceNext]_onceVars
    BY StepInv
<1> QED
    BY <1>1, <1>2, AlwaysInv, PTL DEF WebhookSpec, RecordsOnce, OnceSpec

-----------------------------------------------------------------------------
(* The status API.  What the handler has read so far it keeps, with what it     *)
(* found out about it; what it found out stays true: grants that ended stay     *)
(* ended, projections stay published, and what was seen was seen.               *)

Asked == {"role", "root", "closure", "publications", "stacks", "answered"}

AccessTypeOK ==
    /\ documents \in [Repositories -> SUBSET Documents]
    /\ signatures \in [Repositories -> SUBSET Signatures]
    /\ policies \in [Repositories -> [issuers : SUBSET Trusted, revoked : SUBSET Kind("grant")]]
    /\ day \in Nat

Content(g) ==
    [status : {"active", "integrated"}, dependsOn : SUBSET Groups, selects : [g -> Nat]]

Query ==
    /\ query = [actor |-> query.actor, presented |-> query.presented, group |-> query.group,
                root |-> query.root, closure |-> query.closure, checked |-> query.checked,
                ready |-> query.ready, ended |-> query.ended, seen |-> query.seen]
    /\ query.group \in Groups

StatusTypeOK ==
    /\ AccessTypeOK
    /\ DOMAIN changeset = Groups /\ \A g \in Groups : changeset[g] \in Content(g)
    /\ revision \in [Stacks -> Nat]
    /\ at \in {"idle"} \cup Asked
    /\ at = "idle" => query = NoQuery
    /\ at \in Asked => Query

\* The question knows the present state of the changesets, and of the grants it
\* knows those that had ended when it was asked.
Witness ==
    at \in Asked =>
        /\ \A g \in Groups : <<g, changeset[g]>> \in query.seen
        /\ \A r \in Repositories : query.ended[r] \subseteq Ended(r)

\* A grant that had not ended in the repository when the question was asked.
Granted(r) == token \/ query.presented \ query.ended[r] # {}

\* What holds of the changeset asked about, once it was read ...
RootRead ==
    at \in Asked \ {"role"} =>
        /\ Granted(Coordinator)
        /\ at # "root" =>
              /\ query.root \in Content(query.group)
              /\ <<query.group, query.root>> \in query.seen

\* ... of the closure ...
ClosureRead ==
    at \in Asked =>
        /\ DOMAIN query.closure \subseteq Groups
        /\ \A d \in DOMAIN query.closure :
              /\ query.closure[d] \in Content(d)
              /\ <<d, query.closure[d]>> \in query.seen
              /\ query.closure[d].status = "integrated"
        /\ at \in {"publications", "stacks", "answered"} =>
              /\ query.root.dependsOn \subseteq DOMAIN query.closure
              /\ \A d \in DOMAIN query.closure :
                    query.closure[d].dependsOn \subseteq DOMAIN query.closure

\* ... and of what was checked.
Verified ==
    /\ at \in {"role", "root", "closure"} => query.checked = {} /\ query.ready = TRUE
    /\ at = "publications" =>
          \A d \in query.checked \cap DOMAIN query.closure : IsPublished(query.closure[d])
    /\ at \in {"stacks", "answered"} =>
          /\ \A d \in DOMAIN query.closure : IsPublished(query.closure[d])
          /\ \A s \in query.checked :
                Granted(Home[s]) /\ (query.ready => <<s, query.root.selects[s]>> \in shown)
    /\ at = "answered" => query.checked = DOMAIN query.root.selects

StatusInv == StatusTypeOK /\ Witness /\ RootRead /\ ClosureRead /\ Verified

-----------------------------------------------------------------------------
\* What ended stays ended, in whatever order documents, signatures and revisions
\* of the policy arrive.
LEMMA EndedStays ==
    ASSUME AccessTypeOK, AccessStep
    PROVE  AccessTypeOK' /\ \A r \in Repositories : Ended(r) \subseteq Ended(r)'
<1>1. CASE \E r \in Repositories, d \in Documents : FetchDocument(r, d)
    <2>1. PICK r \in Repositories, d \in Documents : FetchDocument(r, d)
        BY <1>1
    <2>2. /\ UNCHANGED <<signatures, policies, day>>
          /\ documents' \in [Repositories -> SUBSET Documents]
          /\ \A x \in Repositories : documents[x] \subseteq documents'[x]
        BY <2>1 DEF FetchDocument, AccessTypeOK
    <2>. QED BY <2>2 DEF AccessTypeOK, Ended
<1>2. CASE \E r \in Repositories, s \in Signatures : FetchSignature(r, s)
    <2>1. PICK r \in Repositories, s \in Signatures : FetchSignature(r, s)
        BY <1>2
    <2>2. /\ UNCHANGED <<documents, policies, day>>
          /\ signatures' \in [Repositories -> SUBSET Signatures]
          /\ \A x \in Repositories : signatures[x] \subseteq signatures'[x]
        BY <2>1 DEF FetchSignature, AccessTypeOK
    <2>. QED BY <2>2 DEF AccessTypeOK, Ended
<1>3. CASE \E r \in Repositories : EditPolicy(r)
    <2>1. PICK r \in Repositories : EditPolicy(r)
        BY <1>3
    <2>2. /\ UNCHANGED <<documents, signatures, day>>
          /\ policies' \in
                [Repositories -> [issuers : SUBSET Trusted, revoked : SUBSET Kind("grant")]]
          /\ \A x \in Repositories : /\ policies'[x].issuers \subseteq policies[x].issuers
                                     /\ policies[x].revoked \subseteq policies'[x].revoked
        <3>1. policies \in
                [Repositories -> [issuers : SUBSET Trusted, revoked : SUBSET Kind("grant")]]
            BY DEF AccessTypeOK
        <3>2. CASE \E i \in policies[r].issuers :
                      policies' = [policies EXCEPT ![r].issuers = @ \ {i}]
            <4>1. PICK i : policies' = [policies EXCEPT ![r].issuers = @ \ {i}]
                BY <3>2
            <4>. QED BY <2>1, <3>1, <4>1 DEF EditPolicy
        <3>3. CASE \E grant \in Kind("grant") \ policies[r].revoked :
                      policies' = [policies EXCEPT ![r].revoked = @ \cup {grant}]
            <4>1. PICK grant \in Kind("grant") :
                      policies' = [policies EXCEPT ![r].revoked = @ \cup {grant}]
                BY <3>3
            <4>. QED BY <2>1, <3>1, <4>1 DEF EditPolicy
        <3>. QED BY <2>1, <3>2, <3>3 DEF EditPolicy
    <2>. QED BY <2>2 DEF AccessTypeOK, Ended
<1>4. CASE NextDay
    <2>1. UNCHANGED <<documents, signatures, policies>> /\ day' = day + 1 /\ day \in Nat
        BY <1>4 DEF NextDay, AccessTypeOK
    <2>2. \A grant \in Kind("grant") : day >= grant.expires => day' >= grant.expires
        BY <2>1, AccessAssumption
    <2>3. AccessTypeOK'
        BY <2>1 DEF AccessTypeOK
    <2>4. \A r \in Repositories : Ended(r) \subseteq Ended(r)'
        BY <2>1, <2>2 DEF Ended
    <2>. QED BY <2>3, <2>4
<1>. QED BY <1>1, <1>2, <1>3, <1>4 DEF AccessStep

\* A role that is granted now was not lost when the question was asked.
LEMMA AllowedIsGranted ==
    ASSUME StatusInv, at \in Asked, NEW r \in Repositories, Allowed(r)
    PROVE  Granted(r)
<1>. SUFFICES ASSUME ~token PROVE query.presented \ query.ended[r] # {}
    BY DEF Granted
<1>1. PICK grant \in query.presented : GrantVerified(r, grant)
    BY DEF Allowed, HasRole
<1>2. grant \notin Ended(r)
    <2>1. /\ grant \notin policies[r].revoked /\ grant.issuer \in policies[r].issuers
          /\ day < grant.expires /\ day \in Nat
        BY <1>1 DEF GrantVerified, IssuerVerified, StatusInv, StatusTypeOK, AccessTypeOK
    <2>2. grant \in Kind("grant") => ~(day >= grant.expires)
        BY <2>1, AccessAssumption
    <2>3. ASSUME NEW v \in documents[r], v.kind = "revocation", v.grant = grant,
                 v.issuer = grant.issuer, <<grant.issuer, v>> \in signatures[r]
          PROVE  FALSE
        <3>1. v \in Revocations(r, grant)
            BY <2>3 DEF Revocations
        <3>2. v.issuer \in Signers(r, v)
            BY <2>3 DEF Signers
        <3>3. IssuerSigned(r, v)
            BY <2>3, <3>2 DEF IssuerSigned
        <3>. QED BY <1>1, <3>1, <3>3 DEF GrantVerified, Revoked
    <2>. QED BY <2>1, <2>2, <2>3 DEF Ended
<1>. QED BY <1>2 DEF StatusInv, Witness

-----------------------------------------------------------------------------
\* Nothing was asked yet.
LEMMA StatusInitially == StatusInit => StatusInv
<1>. SUFFICES ASSUME StatusInit PROVE StatusInv
    OBVIOUS
<1>1. AccessTypeOK
    BY AccessAssumption DEF StatusInit, AccessInit, AccessTypeOK
<1>2. \A g \in Groups : changeset[g] \in Content(g)
    BY StatusAssumption DEF StatusInit, Content
<1>3. StatusTypeOK
    BY <1>1, <1>2, StatusAssumption DEF StatusInit, StatusTypeOK, Asked
<1>. QED BY <1>3 DEF StatusInit, StatusInv, Witness, RootRead, ClosureRead, Verified, Asked

\* The handler refuses.
LEMMA StatusRefused ==
    ASSUME StatusInv, at' = "idle", query' = NoQuery, UNCHANGED <<accessVars, world, token>>
    PROVE  StatusInv'
<1>1. StatusTypeOK'
    BY DEF StatusInv, StatusTypeOK, AccessTypeOK, accessVars, world, Asked
<1>. QED BY <1>1 DEF StatusInv, Witness, RootRead, ClosureRead, Verified, Asked

\* What is asked and what was seen when it was stays as it is.
LEMMA StatusReads ==
    ASSUME StatusInv, UNCHANGED <<accessVars, world, token>>, at \in Asked, at' \in Asked,
           Query', query'.presented = query.presented, query'.ended = query.ended,
           query'.seen = query.seen
    PROVE  /\ StatusTypeOK' /\ Witness'
           /\ \A r : Granted(r)' <=> Granted(r)
           /\ \A c : IsPublished(c)' <=> IsPublished(c)
           /\ changeset' = changeset /\ shown' = shown
<1>1. StatusTypeOK'
    BY DEF StatusInv, StatusTypeOK, AccessTypeOK, accessVars, world, Asked
<1>2. Witness'
    BY DEF StatusInv, Witness, Ended, accessVars, world
<1>. QED BY <1>1, <1>2 DEF Granted, IsPublished, world

\* One read that is not refused goes on from here to the next.
LEMMA ReadOn ==
    ASSUME StatusInv, NEW here \in Asked, NEW good, NEW next, NEW q, Read(here, good, next, q),
           (at = here /\ good /\ at' = next /\ query' = q) => StatusInv'
    PROVE  StatusInv'
BY StatusRefused DEF Read

\* The role in the coordinator's repository.
LEMMA ReadRole ==
    ASSUME StatusInv, CheckRole
    PROVE  StatusInv'
<1>. SUFFICES ASSUME at = "role", Allowed(Coordinator), at' = "root", query' = query
              PROVE  StatusInv'
    BY ReadOn DEF CheckRole, Asked
<1>1. UNCHANGED <<accessVars, world, token>>
    BY DEF CheckRole, Read
<1>2. Query'
    BY DEF StatusInv, StatusTypeOK, Query, Asked
<1>3. /\ StatusTypeOK' /\ Witness' /\ \A r : Granted(r)' <=> Granted(r)
    BY <1>1, <1>2, StatusReads DEF Asked
<1>4. Granted(Coordinator)
    BY AllowedIsGranted, StatusAssumption DEF Asked
<1>. QED BY <1>3, <1>4 DEF StatusInv, RootRead, ClosureRead, Verified, Asked

\* The changeset itself, as it is now.
LEMMA ReadRoot ==
    ASSUME StatusInv, ReadGroup
    PROVE  StatusInv'
<1> DEFINE c == changeset[query.group]
<1>. SUFFICES ASSUME at = "root", at' = "closure", query' = [query EXCEPT !.root = c]
              PROVE  StatusInv'
    BY ReadOn DEF ReadGroup, Asked
<1>1. UNCHANGED <<accessVars, world, token>>
    BY DEF ReadGroup, Read
<1>2. Query /\ query.group \in Groups
    BY DEF StatusInv, StatusTypeOK, Query, Asked
<1>3. /\ query'.presented = query.presented /\ query'.ended = query.ended
      /\ query'.seen = query.seen /\ query'.group = query.group /\ query'.root = c
      /\ query'.closure = query.closure /\ query'.checked = query.checked
      /\ query'.ready = query.ready /\ Query'
    BY <1>2 DEF Query
<1>4. /\ StatusTypeOK' /\ Witness' /\ \A r : Granted(r)' <=> Granted(r)
    BY <1>1, <1>3, StatusReads DEF Asked
<1>5. c \in Content(query.group) /\ <<query.group, c>> \in query.seen
    BY <1>2 DEF StatusInv, StatusTypeOK, Witness, Asked
<1>. QED BY <1>3, <1>4, <1>5 DEF StatusInv, RootRead, ClosureRead, Verified, Asked, Content

\* One more dependency, integrated as it is read.
LEMMA ReadClosure ==
    ASSUME StatusInv, at = "closure", ReadAwaited
    PROVE  StatusInv'
<1>0. PICK d \in Awaited :
          Read("closure", changeset[d].status = "integrated", "closure",
               [query EXCEPT !.closure = Adding(@, d, changeset[d])])
    BY DEF ReadAwaited
<1> DEFINE m == Adding(query.closure, d, changeset[d])
<1>. SUFFICES ASSUME changeset[d].status = "integrated", at' = "closure",
                     query' = [query EXCEPT !.closure = m]
              PROVE  StatusInv'
    BY <1>0, ReadOn DEF Asked
<1>1. UNCHANGED <<accessVars, world, token>>
    BY <1>0 DEF Read
<1>2. Query /\ query.group \in Groups
    BY DEF StatusInv, StatusTypeOK, Query, Asked
<1>3. /\ query'.presented = query.presented /\ query'.ended = query.ended
      /\ query'.seen = query.seen /\ query'.group = query.group /\ query'.root = query.root
      /\ query'.closure = m /\ query'.checked = query.checked
      /\ query'.ready = query.ready /\ Query'
    BY <1>2 DEF Query
<1>4. /\ StatusTypeOK' /\ Witness' /\ \A r : Granted(r)' <=> Granted(r)
    BY <1>1, <1>3, StatusReads DEF Asked
<1>5. d \in Groups /\ d \notin DOMAIN query.closure
    <2>1. query.root.dependsOn \subseteq Groups
        BY DEF StatusInv, RootRead, Asked, Content
    <2>2. \A e \in DOMAIN query.closure : query.closure[e].dependsOn \subseteq Groups
        BY DEF StatusInv, ClosureRead, Asked, Content
    <2>. QED BY <2>1, <2>2 DEF Awaited
<1>6. changeset[d] \in Content(d) /\ <<d, changeset[d]>> \in query.seen
    BY <1>5 DEF StatusInv, StatusTypeOK, Witness, Asked
<1>7. /\ DOMAIN m = DOMAIN query.closure \cup {d} /\ m[d] = changeset[d]
      /\ \A e \in DOMAIN query.closure : m[e] = query.closure[e]
    BY <1>5 DEF Adding
<1> HIDE DEF m
<1>8. ClosureRead'
    BY <1>3, <1>5, <1>6, <1>7 DEF StatusInv, ClosureRead, Asked
<1>. QED BY <1>3, <1>4, <1>8 DEF StatusInv, RootRead, Verified, Asked

\* The closure is complete: nothing is awaited any more.
LEMMA ReadOrder ==
    ASSUME StatusInv, at = "closure", OrderGroups
    PROVE  StatusInv'
<1>. SUFFICES ASSUME at' = "publications", query' = query
              PROVE  StatusInv'
    BY ReadOn DEF OrderGroups, Asked
<1>1. UNCHANGED <<accessVars, world, token>> /\ Awaited = {}
    BY DEF OrderGroups, Read
<1>2. Query'
    BY DEF StatusInv, StatusTypeOK, Query, Asked
<1>3. /\ StatusTypeOK' /\ Witness' /\ \A r : Granted(r)' <=> Granted(r)
    BY <1>1, <1>2, StatusReads DEF Asked
<1>4. /\ query.root.dependsOn \subseteq DOMAIN query.closure
      /\ \A d \in DOMAIN query.closure : query.closure[d].dependsOn \subseteq DOMAIN query.closure
    BY <1>1 DEF Awaited
<1>. QED BY <1>3, <1>4 DEF StatusInv, RootRead, ClosureRead, Verified, Asked

\* One changeset of the closure, found to be published.
LEMMA ReadPublication ==
    ASSUME StatusInv, at = "publications", CheckPublication
    PROVE  StatusInv'
<1>0. PICK d \in DOMAIN query.closure \ query.checked :
          Read("publications", IsPublished(query.closure[d]), "publications",
               [query EXCEPT !.checked = @ \cup {d}])
    BY DEF CheckPublication
<1>. SUFFICES ASSUME IsPublished(query.closure[d]), at' = "publications",
                     query' = [query EXCEPT !.checked = @ \cup {d}]
              PROVE  StatusInv'
    BY <1>0, ReadOn DEF Asked
<1>1. UNCHANGED <<accessVars, world, token>>
    BY <1>0 DEF Read
<1>2. Query /\ query.group \in Groups
    BY DEF StatusInv, StatusTypeOK, Query, Asked
<1>3. /\ query'.presented = query.presented /\ query'.ended = query.ended
      /\ query'.seen = query.seen /\ query'.group = query.group /\ query'.root = query.root
      /\ query'.closure = query.closure /\ query'.checked = query.checked \cup {d}
      /\ query'.ready = query.ready /\ Query'
    BY <1>2 DEF Query
<1>4. /\ StatusTypeOK' /\ Witness' /\ \A r : Granted(r)' <=> Granted(r)
      /\ \A c : IsPublished(c)' <=> IsPublished(c)
      /\ shown' = shown
    BY <1>1, <1>3, StatusReads DEF Asked
<1>5. \A e \in query'.checked \cap DOMAIN query'.closure : IsPublished(query.closure[e])
    BY <1>3 DEF StatusInv, Verified
<1>6. Verified'
    BY <1>3, <1>4, <1>5 DEF Verified, IsPublished
<1>. QED BY <1>3, <1>4, <1>6 DEF StatusInv, RootRead, ClosureRead, Asked

\* Every changeset of the closure was found to be published.
LEMMA ReadToStacks ==
    ASSUME StatusInv, at = "publications", ToStacks
    PROVE  StatusInv'
<1>. SUFFICES ASSUME at' = "stacks", query' = [query EXCEPT !.checked = {}]
              PROVE  StatusInv'
    BY ReadOn DEF ToStacks, Asked
<1>1. UNCHANGED <<accessVars, world, token>> /\ query.checked = DOMAIN query.closure
    BY DEF ToStacks, Read
<1>2. Query /\ query.group \in Groups
    BY DEF StatusInv, StatusTypeOK, Query, Asked
<1>3. /\ query'.presented = query.presented /\ query'.ended = query.ended
      /\ query'.seen = query.seen /\ query'.group = query.group /\ query'.root = query.root
      /\ query'.closure = query.closure /\ query'.checked = {}
      /\ query'.ready = query.ready /\ Query'
    BY <1>2 DEF Query
<1>4. /\ StatusTypeOK' /\ Witness' /\ \A r : Granted(r)' <=> Granted(r)
      /\ shown' = shown
    BY <1>1, <1>3, StatusReads DEF Asked
<1>5. \A e \in DOMAIN query.closure : IsPublished(query.closure[e])
    BY <1>1 DEF StatusInv, Verified
<1>6. Verified'
    BY <1>3, <1>4, <1>5 DEF Verified, IsPublished
<1>. QED BY <1>3, <1>4, <1>6 DEF StatusInv, RootRead, ClosureRead, Asked

\* The role in the repository of a stack, and whether it is published.
LEMMA ReadStack ==
    ASSUME StatusInv, at = "stacks", CheckStack
    PROVE  StatusInv'
<1>0. PICK s \in DOMAIN query.root.selects \ query.checked :
          Read("stacks", Allowed(Home[s]), "stacks",
               [query EXCEPT !.checked = @ \cup {s},
                             !.ready = @ /\ <<s, query.root.selects[s]>> \in shown])
    BY DEF CheckStack
<1> DEFINE u == query.ready /\ <<s, query.root.selects[s]>> \in shown
<1>. SUFFICES ASSUME Allowed(Home[s]), at' = "stacks",
                     query' = [query EXCEPT !.checked = @ \cup {s}, !.ready = u]
              PROVE  StatusInv'
    BY <1>0, ReadOn DEF Asked
<1>1. UNCHANGED <<accessVars, world, token>>
    BY <1>0 DEF Read
<1>2. Query /\ query.group \in Groups
    BY DEF StatusInv, StatusTypeOK, Query, Asked
<1>a. u => query.ready /\ <<s, query.root.selects[s]>> \in shown
    OBVIOUS
<1> HIDE DEF u
<1>3. /\ query'.presented = query.presented /\ query'.ended = query.ended
      /\ query'.seen = query.seen /\ query'.group = query.group /\ query'.root = query.root
      /\ query'.closure = query.closure /\ query'.checked = query.checked \cup {s}
      /\ query'.ready = u /\ Query'
    BY <1>2 DEF Query
<1>4. /\ StatusTypeOK' /\ Witness' /\ \A r : Granted(r)' <=> Granted(r)
      /\ shown' = shown
    BY <1>1, <1>3, StatusReads DEF Asked
<1>5. Granted(Home[s])
    <2>1. Home[s] \in Repositories
        BY <1>2, StatusAssumption DEF StatusInv, RootRead, Asked, Content
    <2>. QED BY <2>1, AllowedIsGranted DEF Asked
<1>6. \A t \in query'.checked :
          Granted(Home[t]) /\ (u => <<t, query.root.selects[t]>> \in shown)
    BY <1>a, <1>3, <1>5 DEF StatusInv, Verified
<1>7. \A e \in DOMAIN query.closure : IsPublished(query.closure[e])
    BY DEF StatusInv, Verified
<1>8. Verified'
    <2>1. \A t \in query'.checked :
              Granted(Home[t])' /\ (query'.ready => <<t, query'.root.selects[t]>> \in shown')
        BY <1>3, <1>4, <1>6
    <2>2. \A e \in DOMAIN query'.closure : IsPublished(query.closure[e])'
        BY <1>3, <1>4, <1>7 DEF IsPublished
    <2>. QED BY <2>1, <2>2 DEF Verified
<1>. QED BY <1>3, <1>4, <1>8 DEF StatusInv, RootRead, ClosureRead, Asked

\* Every stack was looked at.
LEMMA ReadAnswer ==
    ASSUME StatusInv, at = "stacks", AnswerStatus
    PROVE  StatusInv'
<1>. SUFFICES ASSUME at' = "answered", query' = query
              PROVE  StatusInv'
    BY ReadOn DEF AnswerStatus, Asked
<1>1. UNCHANGED <<accessVars, world, token>> /\ query.checked = DOMAIN query.root.selects
    BY DEF AnswerStatus, Read
<1>2. Query'
    BY DEF StatusInv, StatusTypeOK, Query, Asked
<1>3. /\ StatusTypeOK' /\ Witness' /\ \A r : Granted(r)' <=> Granted(r)
      /\ shown' = shown
    BY <1>1, <1>2, StatusReads DEF Asked
<1>4. Verified'
    BY <1>1, <1>3 DEF StatusInv, Verified, IsPublished
<1>. QED BY <1>3, <1>4 DEF StatusInv, RootRead, ClosureRead, Asked

-----------------------------------------------------------------------------
\* A command while the handler is between two reads: what was seen grows, and
\* projections are only added.
LEMMA CommandMoves ==
    ASSUME StatusInv, NEW c, NEW r, NEW p, Move(c, r, p),
           DOMAIN c = Groups, \A g \in Groups : c[g] \in Content(g), r \in [Stacks -> Nat],
           shown \subseteq p
    PROVE  StatusInv'
<1>1. /\ token /\ UNCHANGED <<accessVars, at, token>>
      /\ changeset' = c /\ revision' = r /\ shown' = p
    BY DEF Move
<1>2. CASE at = "idle"
    <2>1. query' = NoQuery
        BY <1>2 DEF Move, StatusInv, StatusTypeOK
    <2>2. StatusTypeOK'
        BY <1>1, <1>2, <2>1 DEF StatusInv, StatusTypeOK, AccessTypeOK, accessVars, Asked
    <2>. QED BY <1>1, <1>2, <2>2 DEF StatusInv, Witness, RootRead, ClosureRead, Verified, Asked
<1>3. CASE at # "idle"
    <2>1. at \in Asked /\ Query /\ query.group \in Groups
        BY <1>3 DEF StatusInv, StatusTypeOK, Query
    <2>2. query # NoQuery
        <3>1. DOMAIN query # {}
            BY <2>1 DEF Query
        <3>. QED BY <3>1 DEF NoQuery
    <2> DEFINE more == {<<g, c[g]>> : g \in Groups}
    <2>3. query' = [query EXCEPT !.seen = @ \cup more]
        BY <2>2 DEF Move
    <2>4. \A g \in Groups : <<g, c[g]>> \in more
        OBVIOUS
    <2> HIDE DEF more
    <2>5. /\ query'.presented = query.presented /\ query'.ended = query.ended
          /\ query'.seen = query.seen \cup more /\ query'.group = query.group
          /\ query'.root = query.root /\ query'.closure = query.closure
          /\ query'.checked = query.checked /\ query'.ready = query.ready /\ Query'
        BY <2>1, <2>3 DEF Query
    <2>6. StatusTypeOK'
        BY <1>1, <2>1, <2>5 DEF StatusInv, StatusTypeOK, AccessTypeOK, accessVars, Asked
    <2>7. Witness'
        BY <1>1, <2>4, <2>5 DEF StatusInv, Witness, Ended, accessVars
    <2>8. RootRead' /\ ClosureRead'
        BY <1>1, <2>5 DEF StatusInv, RootRead, ClosureRead, Granted
    <2>9. Verified'
        <3>1. \A d : IsPublished(d) => IsPublished(d)'
            BY <1>1 DEF IsPublished
        <3>2. at = "publications" =>
                  \A d \in query.checked \cap DOMAIN query.closure : IsPublished(query.closure[d])
            BY DEF StatusInv, Verified
        <3>3. at \in {"stacks", "answered"} =>
                  \A d \in DOMAIN query.closure : IsPublished(query.closure[d])
            BY DEF StatusInv, Verified
        <3>4. at \in {"stacks", "answered"} =>
                  \A s \in query.checked : query.ready => <<s, query.root.selects[s]>> \in shown
            BY DEF StatusInv, Verified
        <3>5. at' = "publications" =>
                  \A d \in query'.checked \cap DOMAIN query'.closure :
                      IsPublished(query.closure[d])'
            BY <1>1, <2>5, <3>1, <3>2 DEF IsPublished
        <3>6. at' \in {"stacks", "answered"} =>
                  \A d \in DOMAIN query'.closure : IsPublished(query.closure[d])'
            BY <1>1, <2>5, <3>1, <3>3 DEF IsPublished
        <3>7. at' \in {"stacks", "answered"} =>
                  \A s \in query'.checked :
                      query'.ready => <<s, query'.root.selects[s]>> \in shown'
            BY <1>1, <2>5, <3>4
        <3>8. /\ at' \in {"role", "root", "closure"} => query'.checked = {} /\ query'.ready = TRUE
              /\ at' = "answered" => query'.checked = DOMAIN query'.root.selects
            BY <1>1, <2>5 DEF StatusInv, Verified
        <3>9. \A s : Granted(Home[s])'
            BY <1>1 DEF Granted
        <3>. QED BY <3>5, <3>6, <3>7, <3>8, <3>9 DEF Verified
    <2>. QED BY <2>6, <2>7, <2>8, <2>9 DEF StatusInv
<1>. QED BY <1>2, <1>3

\* Each command stores changesets that are well-formed.
LEMMA CommandStep ==
    ASSUME StatusInv,
           \/ \E s \in Stacks : ReviseStack(s) \/ PublishStack(s)
           \/ \E g \in Groups : CreateGroup(g) \/ IntegrateGroup(g)
    PROVE  StatusInv'
<1>1. /\ DOMAIN changeset = Groups /\ \A g \in Groups : changeset[g] \in Content(g)
      /\ revision \in [Stacks -> Nat]
    BY DEF StatusInv, StatusTypeOK
<1>2. ASSUME NEW s \in Stacks, ReviseStack(s) PROVE StatusInv'
    <2>1. [revision EXCEPT ![s] = @ + 1] \in [Stacks -> Nat]
        BY <1>1
    <2>. QED BY <1>1, <1>2, <2>1, CommandMoves DEF ReviseStack
<1>3. ASSUME NEW s \in Stacks, PublishStack(s) PROVE StatusInv'
    BY <1>1, <1>3, CommandMoves DEF PublishStack
<1>4. ASSUME NEW g \in Groups, CreateGroup(g) PROVE StatusInv'
    <2>1. PICK D \in SUBSET {d \in Groups \ {g} : changeset[d].status = "integrated"} :
              LET c == [status |-> "active", dependsOn |-> D,
                        selects |-> [s \in g |-> revision[s]]] IN
              Move([changeset EXCEPT ![g] = c], revision, shown)
        BY <1>4 DEF CreateGroup
    <2>2. PICK c : c = [status |-> "active", dependsOn |-> D,
                        selects |-> [s \in g |-> revision[s]]]
        OBVIOUS
    <2>3. c \in Content(g)
        <3>1. g \subseteq Stacks
            BY StatusAssumption DEF Stacks
        <3>. QED BY <1>1, <2>2, <3>1 DEF Content
    <2>4. PICK n : n = [changeset EXCEPT ![g] = c]
        OBVIOUS
    <2>5. DOMAIN n = Groups /\ \A h \in Groups : n[h] \in Content(h)
        BY <1>1, <2>3, <2>4
    <2>6. Move(n, revision, shown)
        BY <2>1, <2>2, <2>4
    <2>. QED BY <1>1, <2>5, <2>6, CommandMoves
<1>5. ASSUME NEW g \in Groups, IntegrateGroup(g) PROVE StatusInv'
    <2>1. PICK n : n = [changeset EXCEPT ![g].status = "integrated"]
        OBVIOUS
    <2>2. DOMAIN n = Groups /\ \A h \in Groups : n[h] \in Content(h)
        BY <1>1, <2>1 DEF Content
    <2>3. Move(n, revision, shown)
        BY <1>5, <2>1 DEF IntegrateGroup
    <2>. QED BY <1>1, <2>2, <2>3, CommandMoves
<1>. QED BY <1>2, <1>3, <1>4, <1>5

\* Word of a grant that ended leaves what the handler read alone.
LEMMA LearnStep ==
    ASSUME StatusInv, Learn
    PROVE  StatusInv'
<1>1. UNCHANGED <<world, at, query, token>> /\ AccessStep
    BY DEF Learn
<1>2. AccessTypeOK' /\ \A r \in Repositories : Ended(r) \subseteq Ended(r)'
    BY <1>1, EndedStays DEF StatusInv, StatusTypeOK
<1>3. StatusTypeOK'
    BY <1>1, <1>2 DEF StatusInv, StatusTypeOK, Query, world
<1>4. Witness'
    BY <1>1, <1>2 DEF StatusInv, Witness, world
<1>5. RootRead' /\ ClosureRead' /\ Verified'
    BY <1>1 DEF StatusInv, RootRead, ClosureRead, Verified, Granted, IsPublished, world
<1>. QED BY <1>3, <1>4, <1>5 DEF StatusInv

\* A question takes down what has ended and what the changesets are.
LEMMA AskStep ==
    ASSUME StatusInv, NEW a, NEW p, NEW g \in Groups, Ask(a, p, g)
    PROVE  StatusInv'
<1>1. /\ UNCHANGED <<accessVars, world, token>> /\ at' = "role"
      /\ query' = [actor |-> a, presented |-> p, group |-> g,
                   root |-> <<>>, closure |-> <<>>, checked |-> {}, ready |-> TRUE,
                   ended |-> [r \in Repositories |-> Ended(r)],
                   seen |-> {<<h, changeset[h]>> : h \in Groups}]
    BY DEF Ask
<1>2. /\ Query'
      /\ query'.closure = <<>> /\ query'.checked = {} /\ query'.ready = TRUE
      /\ query'.ended = [r \in Repositories |-> Ended(r)]
      /\ query'.seen = {<<h, changeset[h]>> : h \in Groups}
    BY <1>1 DEF Query
<1>3. StatusTypeOK'
    BY <1>1, <1>2 DEF StatusInv, StatusTypeOK, AccessTypeOK, accessVars, world, Asked
<1>4. Witness'
    BY <1>1, <1>2 DEF Witness, Ended, accessVars, world
<1>. QED BY <1>1, <1>2, <1>3, <1>4 DEF StatusInv, RootRead, ClosureRead, Verified, Asked

\* Every step keeps the invariant.
LEMMA StatusInductive == StatusInv /\ [StatusNext]_statusVars => StatusInv'
<1>. SUFFICES ASSUME StatusInv, [StatusNext]_statusVars PROVE StatusInv'
    OBVIOUS
<1>1. CASE \/ \E s \in Stacks : ReviseStack(s) \/ PublishStack(s)
           \/ \E g \in Groups : CreateGroup(g) \/ IntegrateGroup(g)
    BY <1>1, CommandStep
<1>2. CASE Learn
    BY <1>2, LearnStep
<1>3. CASE \E a \in Reviewers, p \in Presented, g \in Groups : Ask(a, p, g)
    BY <1>3, AskStep
<1>4. CASE CheckRole
    BY <1>4, ReadRole
<1>5. CASE ReadGroup
    BY <1>5, ReadRoot
<1>6. CASE at = "closure" /\ (ReadAwaited \/ OrderGroups)
    BY <1>6, ReadClosure, ReadOrder
<1>7. CASE at = "publications" /\ (CheckPublication \/ ToStacks)
    BY <1>7, ReadPublication, ReadToStacks
<1>8. CASE at = "stacks" /\ (CheckStack \/ AnswerStatus)
    BY <1>8, ReadStack, ReadAnswer
<1>9. CASE UNCHANGED statusVars
    <2>1. UNCHANGED <<documents, signatures, policies, day, changeset, revision, shown, at,
                      query, token>>
        BY <1>9 DEF statusVars, accessVars, world
    <2>2. StatusTypeOK' /\ Witness'
        BY <2>1 DEF StatusInv, StatusTypeOK, AccessTypeOK, Query, Witness, Ended
    <2>. QED BY <2>1, <2>2 DEF StatusInv, RootRead, ClosureRead, Verified, Granted, IsPublished
<1>. QED BY <1>1, <1>2, <1>3, <1>4, <1>5, <1>6, <1>7, <1>8, <1>9 DEF StatusNext

\* An answer rests on grants that had not ended when the question was asked, in
\* whatever order word of a revocation arrives, and "ready" on the whole closure
\* of dependencies, whatever commands revise while it is read; for any changesets
\* over any repositories, any documents and any grants presented.
THEOREM StatusAlwaysSound == StatusSpec => []StatusSound
<1>1. StatusInv => StatusSound
    <2>. SUFFICES ASSUME StatusInv, at = "answered" PROVE StatusSound
        BY DEF StatusSound, AnswersAuthorised, ReadyJustified
    <2>1. AnswersAuthorised
        <3>1. Granted(Coordinator) /\ \A s \in DOMAIN query.root.selects : Granted(Home[s])
            BY DEF StatusInv, RootRead, Verified, Asked
        <3>. QED BY <3>1 DEF AnswersAuthorised, Granted
    <2>2. ReadyJustified
        <3>1. query.ready => IsPublished(query.root)
            BY DEF StatusInv, Verified, IsPublished
        <3>. QED BY <3>1 DEF ReadyJustified, StatusInv, RootRead, ClosureRead, Verified, Asked
    <2>. QED BY <2>1, <2>2 DEF StatusSound
<1>2. StatusSpec => []StatusInv
    BY StatusInitially, StatusInductive, PTL DEF StatusSpec
<1>. QED BY <1>1, <1>2, PTL
=============================================================================
