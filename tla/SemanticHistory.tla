--------------------------- MODULE SemanticHistory --------------------------
(***************************************************************************)
(* The semantic overlay of a Git history: for a commit, the state lists    *)
(* the files, a Trunk for each text file it has or ever had, and the       *)
(* operations that led there.  A clone computes states on its own, so one  *)
(* clone is modelled: import_semantic_history goes through a history       *)
(* parent before child and may be interrupted; review and view commands    *)
(* materialise a commit whether or not its parents have states; a semantic *)
(* merge does so for the commit it makes.                                  *)
(*                                                                         *)
(* A commit is its place in `history`, which grows; a root is a first      *)
(* commit, an orphan branch, or an amended first commit.  A Trunk is named *)
(* after a root of the commit, the path and the blob it was first seen     *)
(* with; of its Branches and their Leaves it has the symbols that are      *)
(* alive and those that are gone.  Two paths are a rename for Git when     *)
(* they hold the same blob.  A state a clone has is one it signed itself   *)
(* (see SignedRevisions for quorums and Views for states that were         *)
(* fetched).                                                               *)
(***************************************************************************)
EXTENDS Naturals, Sequences, FiniteSets, FiniteSetsExt, Functions

CONSTANTS
    Trees,          \* trees of commits: each a function from paths, which are numbers, to blobs
    Texts,          \* the blobs that are UTF-8
    Symbols,        \* text blob -> the symbols it defines
    MaxHistory,     \* importing -> bound on commits
    MaxRoots,       \* bound on roots
    MaxResolutions  \* bound on merge resolutions

ASSUME HistoryAssumption ==
    /\ Trees # {} /\ \A t \in Trees : t = [q \in DOMAIN t |-> t[q]]
    /\ \A t \in Trees : DOMAIN t \subseteq Nat /\ IsFiniteSet(DOMAIN t)
    /\ Symbols \in [Texts -> SUBSET UNION {Symbols[b] : b \in Texts}]
    /\ MaxHistory \in [BOOLEAN -> Nat \ {0}] /\ MaxRoots \in Nat /\ MaxResolutions \in Nat

VARIABLES
    history,        \* commits: [parents, tree]
    active,         \* commit -> its active state, as a set
    resolutions,    \* merge resolutions
    merging,        \* the merge in progress, as a set
    importing       \* the clone only imports and merges, chosen in Init

historyVars == <<history, active, resolutions, merging, importing>>

Commits == DOMAIN history
Parents(c) == Range(history[c].parents)

\* Commits a commit descends from, itself included.
Upto(c) ==
    LET back[d \in 0..c] ==
            IF d = 0 THEN {} ELSE {d} \cup UNION {back[e] : e \in Parents(d)} IN back[c]

Roots == {c \in Commits : history[c].parents = <<>>}

\* repository_anchor: of the roots a commit descends from the one with the smallest
\* hash; which one that is, is arbitrary.
Anchor(c) == LET roots == Upto(c) \cap Roots IN CHOOSE d \in roots : TRUE

-----------------------------------------------------------------------------
(* Trunks and operations.                                                   *)

Nodes(trunk) == trunk.alive \cup trunk.gone

\* extract_trunk: the previous Trunk goes on with the symbols of the blob.
ExtractTrunk(prior, path, blob) ==
    [state |-> "Alive",
     paths |-> {path} \cup UNION {t.paths : t \in prior},
     alive |-> Symbols[blob],
     gone |-> (UNION {Nodes(t) : t \in prior}) \ Symbols[blob]]

\* delete_trunk.
DeleteTrunk(trunk, state) ==
    [trunk EXCEPT !.state = state, !.alive = {}, !.gone = Nodes(trunk)]

\* renamed_paths: the path of the first parent that Git pairs with a new one, if any.
RenamedFrom(old, new, path) ==
    LET from == {o \in DOMAIN old \ DOMAIN new : old[o] = new[path]}
        to == {q \in DOMAIN new \ DOMAIN old : new[q] = new[path]} IN
    {o \in from : path \in to
        /\ Cardinality({p \in from : p < o}) = Cardinality({q \in to : q < path})}

\* The rename source of a commit's path.
Source(c, path) ==
    IF history[c].parents = <<>> THEN {}
    ELSE RenamedFrom(history[Head(history[c].parents)].tree, history[c].tree, path)

\* The path and its rename source; renames count only with a previous state.
NamesOf(c, previous, path) == {path} \cup IF previous = {} THEN {} ELSE Source(c, path)

TrunksOf(states) == UNION {DOMAIN s.trunks : s \in states}
TrunkIn(states, t) == {s.trunks[t] : s \in {u \in states : t \in DOMAIN u.trunks}}
OperationsIn(states) == UNION {s.operations : s \in states}

\* The Trunk of the previous state that a file continues, alive or not, or its own.
TrunkOf(c, previous, path) ==
    LET prior == {t \in TrunksOf(previous) : \E u \in TrunkIn(previous, t) :
                    NamesOf(c, previous, path) \cap u.paths # {}} IN
    IF prior = {} THEN <<Anchor(c), path, history[c].tree[path]>> ELSE CHOOSE t \in prior : TRUE

\* extract_semantic_state.  When two files continue one Trunk the later one has it.
ExtractTrunks(c, previous) ==
    LET tree == history[c].tree
        texts == {q \in DOMAIN tree : tree[q] \in Texts}
        present == {TrunkOf(c, previous, q) : q \in texts}
        file(t) == Max({q \in texts : TrunkOf(c, previous, q) = t}) IN
    [t \in present \cup TrunksOf(previous) |->
        IF t \in present THEN ExtractTrunk(TrunkIn(previous, t), file(t), tree[file(t)])
        ELSE DeleteTrunk(CHOOSE u \in TrunkIn(previous, t) : TRUE, "Deleted")]

\* trunk_blob: the file at the last of a Trunk's paths that the state has.
TrunkBlob(files, trunk) == files[Max(trunk.paths \cap DOMAIN files)]

\* transition_operations.
Transition(c, previous, trunks) ==
    LET files == history[c].tree
        wasAlive(t) == \E u \in TrunkIn(previous, t) : u.state = "Alive"
        isAlive(t) == trunks[t].state = "Alive"
        change(t) == [base |-> IF previous = {} THEN c ELSE (CHOOSE s \in previous : TRUE).commit,
                      target |-> t,
                      action |-> IF ~isAlive(t) THEN "Delete"
                                 ELSE IF wasAlive(t) THEN "Replace" ELSE "Insert",
                      content |-> IF isAlive(t) THEN {TrunkBlob(files, trunks[t])} ELSE {}]
        same(t) == \E s \in previous :
                      /\ s.trunks[t].paths \cap DOMAIN s.files # {}
                      /\ TrunkBlob(s.files, s.trunks[t]) = TrunkBlob(files, trunks[t]) IN
    {change(t) : t \in {u \in DOMAIN trunks :
        \/ isAlive(u) /\ ~wasAlive(u)
        \/ ~isAlive(u) /\ wasAlive(u)
        \/ isAlive(u) /\ wasAlive(u) /\ ~same(u)}}

-----------------------------------------------------------------------------
(* States.                                                                  *)

\* semantic_state_with_same_tree: the one whose commit has the smallest hash.
SameTree(known, c) ==
    UNION {known[d] : d \in {e \in Commits \ {c} : history[e].tree = history[c].tree}}

\* The first parent's state; without it, any state of the same tree.
PreviousSameTreeFirst(known, c) ==
    IF SameTree(known, c) # {} THEN {{s} : s \in SameTree(known, c)}
    ELSE IF history[c].parents = <<>> THEN {{}} ELSE {known[Head(history[c].parents)]}

\* The first parent's state; without it, one of the same tree.
Previous(known, c) ==
    IF history[c].parents # <<>> /\ known[Head(history[c].parents)] # {}
    THEN {known[Head(history[c].parents)]}
    ELSE IF SameTree(known, c) = {} THEN {{}} ELSE {{s} : s \in SameTree(known, c)}

\* The parents' states that are known.
ParentStates(known, c) == UNION {known[d] : d \in Parents(c)}

\* materialize_semantic_state that looks at the first parent only.
MaterializedFirstParent(known, c, previous) ==
    LET trunks == ExtractTrunks(c, previous) IN
    [commit |-> c, files |-> history[c].tree, trunks |-> trunks,
     operations |-> OperationsIn(previous) \cup Transition(c, previous, trunks)]

\* materialize_semantic_state: Trunks of the other parents that the commit does not
\* continue are Zombies, and what these parents inserted is not inserted again.
Materialized(known, c, previous) ==
    LET others == ParentStates(known, c)
        extracted == ExtractTrunks(c, previous)
        zombies == [t \in TrunksOf(others) \ DOMAIN extracted |->
                        DeleteTrunk(CHOOSE u \in TrunkIn(others, t) : TRUE, "Zombie")]
        trunks == [t \in DOMAIN extracted \cup DOMAIN zombies |->
                        IF t \in DOMAIN extracted THEN extracted[t] ELSE zombies[t]]
        inherited == TrunksOf(others) \ TrunksOf(previous)
        new == {o \in Transition(c, previous, trunks) : o.target \notin inherited} IN
    [commit |-> c, files |-> history[c].tree, trunks |-> trunks,
     operations |-> OperationsIn(previous \cup others) \cup new]

-----------------------------------------------------------------------------
HistoryInit ==
    /\ history \in {<<[parents |-> <<>>, tree |-> t]>> : t \in Trees}
    /\ importing \in BOOLEAN
    /\ active = [c \in 1..MaxHistory[importing] |-> {}]
    /\ resolutions = {}
    /\ merging = {}

Commit(parents, tree) ==
    /\ Len(history) < MaxHistory[importing]
    /\ history' = Append(history, [parents |-> parents, tree |-> tree])

\* A commit made with Git: another root, the next of a commit, or a merge, also one that
\* resolves a conflict by hand or joins histories that have no commit in common.
GitHistory ==
    /\ \E t \in Trees :
        \/ Cardinality(Roots) < MaxRoots /\ Commit(<<>>, t)
        \/ \E c \in Commits : Commit(<<c>>, t)
        \/ \E l, r \in Commits : l \notin Upto(r) /\ r \notin Upto(l) /\ Commit(<<l, r>>, t)
    /\ UNCHANGED <<active, resolutions, merging, importing>>

Activate(c, state) == active' = [active EXCEPT ![c] = {state}]

\* Of a commit whose parents may have no state; the active state is replaced.
Materialize(c) ==
    /\ ~importing
    /\ \E previous \in Previous(active, c) : Activate(c, Materialized(active, c, previous))
    /\ UNCHANGED <<history, resolutions, merging, importing>>

\* import_semantic_history, one commit at a time: what it descends from is done,
\* what has a state keeps it.
ImportCommit(c) ==
    /\ active[c] = {}
    /\ \A d \in Upto(c) \ {c} : active[d] # {}
    /\ \E previous \in Previous(active, c) : Activate(c, Materialized(active, c, previous))
    /\ UNCHANGED <<history, resolutions, merging, importing>>

\* A best common ancestor.
MergeBases(l, r) ==
    LET common == Upto(l) \cap Upto(r) IN
    {b \in common : \A d \in common : b \in Upto(d) => d = b}

File(c, q) == IF q \in DOMAIN history[c].tree THEN {history[c].tree[q]} ELSE {}

\* Git's three-way merge.  Where one path was changed on both sides the tree may be
\* anything (renames, the token merge), or nothing.
MergedTrees(b, l, r) ==
    LET paths == DOMAIN history[l].tree \cup DOMAIN history[r].tree
        merged(q) == IF File(r, q) # File(b, q) THEN File(r, q) ELSE File(l, q)
        clean == [q \in {p \in paths : merged(p) # {}} |-> CHOOSE f \in merged(q) : TRUE] IN
    IF \E q \in DOMAIN history[b].tree \cup paths :
          File(l, q) # File(b, q) /\ File(r, q) # File(b, q) /\ File(l, q) # File(r, q)
    THEN {{}} \cup {{t} : t \in Trees}
    ELSE {{clean}}

Resolve(b, l, r, result, operations, supersedes) ==
    /\ Cardinality(resolutions) < MaxResolutions
    /\ resolutions' = resolutions \cup
          {[base |-> b, left |-> l, right |-> r, result |-> result,
            operations |-> operations, supersedes |-> supersedes]}

\* semantic_merge: every participant needs a state; then the merge's commit, or a
\* Conflict.
SemanticMerge(l, r) ==
    /\ merging = {}
    /\ \E b \in MergeBases(l, r) :
        /\ \A c \in {b, l, r} : active[c] # {}
        /\ LET operations == OperationsIn(UNION {active[c] : c \in {b, l, r}}) IN
           \E tree \in MergedTrees(b, l, r) :
              \/ /\ tree = {}
                 /\ Resolve(b, l, r, 0, operations, {})
                 /\ UNCHANGED <<history, merging>>
              \/ /\ \E t \in tree : Commit(<<l, r>>, t)
                 /\ merging' =
                        {[base |-> b, result |-> Len(history) + 1, operations |-> operations]}
                 /\ UNCHANGED resolutions
    /\ UNCHANGED <<active, importing>>

\* The merge's state and its resolution.
RecordMerge ==
    /\ \E m \in merging :
        /\ LET p == history[m.result].parents IN
           Resolve(m.base, p[1], p[2], m.result, m.operations, {})
        /\ \E previous \in Previous(active, m.result) :
              Activate(m.result, Materialized(active, m.result, previous))
    /\ merging' = {}
    /\ UNCHANGED <<history, importing>>

\* It dies after the commit; after the state, it leaves what ImportCommit leaves.
DieMerging ==
    /\ merging # {}
    /\ merging' = {}
    /\ UNCHANGED <<history, active, resolutions, importing>>

\* finalize_merge_resolution, of a conflict that was resolved by hand.
FinalizeMerge(conflict, c) ==
    /\ conflict.result = 0
    /\ Parents(c) = {conflict.left, conflict.right}
    /\ active[c] # {}
    /\ Resolve(conflict.base, conflict.left, conflict.right, c, conflict.operations,
               {<<conflict.left, conflict.right>>})
    /\ UNCHANGED <<history, active, merging, importing>>

HistoryNext ==
    \/ GitHistory
    \/ \E c \in Commits : Materialize(c) \/ ImportCommit(c)
    \/ \E l, r \in Commits : SemanticMerge(l, r)
    \/ RecordMerge \/ DieMerging
    \/ \E m \in resolutions, c \in Commits : FinalizeMerge(m, c)

HistorySpec == HistoryInit /\ [][HistoryNext]_historyVars

-----------------------------------------------------------------------------
(* The queries. *)

\* semantic_blame: the Trunks a path is in, and what was done to them.
Blame(s, path) ==
    LET trunks == {t \in DOMAIN s.trunks : path \in s.trunks[t].paths} IN
    [trunks |-> trunks, operations |-> {o \in s.operations : o.target \in trunks}]

\* semantic_diff, without the paths, which are Git's.
Diff(base, target) ==
    LET old == DOMAIN base.trunks
        new == DOMAIN target.trunks IN
    [addedTrunks |-> new \ old, removedTrunks |-> old \ new,
     changedTrunks |-> {t \in old \cap new : base.trunks[t] # target.trunks[t]},
     addedOperations |-> target.operations \ base.operations,
     removedOperations |-> base.operations \ target.operations]

\* semantic_log: the commits and the states they have.
Log(c) == {[commit |-> d, state |-> active[d]] : d \in Upto(c)}

-----------------------------------------------------------------------------
TextFiles(s) == {q \in DOMAIN s.files : s.files[q] \in Texts}

\* What a state says of a Trunk that a file is in: it is alive and was inserted.
Accounted(s, t) ==
    /\ s.trunks[t].state = "Alive"
    /\ \E o \in s.operations : o.action = "Insert" /\ o.target = t

\* The manifest of a committed tree is complete and a Trunk goes on at the path its
\* file was renamed to: blame finds every text file.
ManifestComplete ==
    \A c \in Commits : \A s \in active[c] : \A q \in TextFiles(s) :
        \E t \in Blame(s, q).trunks : Accounted(s, t)

\* A file that blame does not find was renamed, and a later file has its Trunk.
Accountable(c, s) ==
    \A q \in TextFiles(s) : \E t \in DOMAIN s.trunks :
        /\ Accounted(s, t)
        /\ \/ q \in s.trunks[t].paths
           \/ /\ Source(c, q) \cap s.trunks[t].paths # {}
              /\ \E p \in TextFiles(s) \cap s.trunks[t].paths : q < p

\* What a state in the log of a commit has, the commit's state s has: every operation
\* and Trunk and, from a first parent, every Branch, be it alive or gone.
LogKept(c, s) ==
    \A entry \in Log(c) : \A u \in entry.state :
        /\ Diff(u, s).removedOperations = {}
        /\ Diff(u, s).removedTrunks = {}
        /\ history[c].parents # <<>> /\ u.commit = Head(history[c].parents) =>
              \A t \in Diff(u, s).changedTrunks : Nodes(u.trunks[t]) \subseteq Nodes(s.trunks[t])

\* No identity is forgotten and none appears from nowhere: every text file continues a
\* Trunk whose insertion is known and, with
\* states computed parent before child, a state keeps what its log has, and what a merge
\* resolution, recorded at once or after a conflict, says its participants did.
HistoryKept ==
    /\ \A c \in Commits : \A s \in active[c] :
          Accountable(c, s) /\ (importing => LogKept(c, s))
    /\ importing => \A m \in resolutions : m.result # 0 =>
          \A s \in active[m.result] : m.operations \subseteq s.operations

\* The states of an uninterrupted import of a whole history into an empty clone.
WholeImport ==
    LET back[n \in 0..Len(history)] ==
            IF n = 0 THEN [c \in 1..MaxHistory[importing] |-> {}]
            ELSE LET known == back[n - 1] IN
                 [known EXCEPT ![n] =
                    {Materialized(known, n, CHOOSE p \in Previous(known, n) : TRUE)}] IN
    back[Len(history)]

\* Clones that only import and merge agree on the state of a commit: it is that of
\* one import of the whole history, in whatever order they learn of commits and
\* merge and wherever their imports are interrupted.
StatesAreDeterministic ==
    importing => LET whole == WholeImport IN \A c \in Commits : active[c] \subseteq whole[c]

\* A root's tree is found in commits that descend from it only, so that a root has no
\* other commit's state to go on from.
RootsAreDistinct ==
    \A c \in Roots, d \in Commits : history[d].tree = history[c].tree => c \in Upto(d)

\* Clones agree as long as no root repeats the tree of another line of history.
ImportIsDeterministic == RootsAreDistinct => StatesAreDeterministic
=============================================================================
