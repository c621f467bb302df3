-------------------------------- MODULE Patches -----------------------------
(***************************************************************************)
(* Text: which lines of a file a change touches (changed_line_ranges), the *)
(* patches that carry the atoms of a pull request from the old file to the *)
(* new one (bind_patches), their application to another content of the     *)
(* file (apply_patches), and the token merge of two sides of a conflict    *)
(* (merge_token_text).                                                     *)
(*                                                                         *)
(* Each is a pure function; the actions compute them from inputs chosen in *)
(* Init.  A line is the sequence of its characters, the newline included.  *)
(* Files are compared line by line, and patches are cut along lines; they  *)
(* are searched for and applied character by character, so that a line is  *)
(* also found at the end of a longer one.                                  *)
(***************************************************************************)
EXTENDS Naturals, Sequences, FiniteSets, SequencesExt

CONSTANTS
    Newline,        \* the character that ends a line
    Sources,        \* contents of a file, as their lines
    Covers,         \* what a stack covers: sequences of sets of lines, one set for
                    \* the atoms of a pull request
    TokenTexts      \* texts, as tokens, for the merge

\* What split_inclusive makes of a content: lines that are not empty and end in their
\* only newline, but for the last one, which may have none.
SplitLines(t) ==
    \A k \in 1..Len(t) :
        LET line == t[k] IN
        /\ line \in Seq(Range(line)) /\ line # <<>>
        /\ \A i \in 1..Len(line) : line[i] = Newline => i = Len(line)
        /\ k < Len(t) => Last(line) = Newline

ASSUME TextAssumption ==
    /\ \A t \in Sources \cup TokenTexts : t \in Seq(Range(t))
    /\ \A t \in Sources : SplitLines(t)
    /\ \A c \in Covers : c \in Seq(SUBSET Nat)

VARIABLES
    job,            \* what is computed, chosen in Init
    touched,        \* changed_line_ranges
    patches,        \* the patches of each pull request
    text,           \* the projected or merged content: {} or {content}, a projected
                    \* one as its characters
    applied         \* pull requests applied; the length of the stack and 1 at the end

patchVars == <<job, touched, patches, text, applied>>

Piece(t, first, last) == SubSeq(t, first, last)

\* The characters of lines.
Bytes(t) == FlattenSeq(t)

\* How many lines of s and of t have been passed.
Places(s, t) == (0..Len(s)) \X (0..Len(t))

\* Length of a longest common subsequence of what follows a place.
Common(s, t) ==
    LET lcs[p \in Places(s, t)] ==
            LET i == p[1]  j == p[2] IN
            IF i = Len(s) \/ j = Len(t) THEN 0
            ELSE IF s[i + 1] = t[j + 1] THEN lcs[<<i + 1, j + 1>>] + 1
            ELSE Max({lcs[<<i + 1, j>>], lcs[<<i, j + 1>>]}) IN lcs

-----------------------------------------------------------------------------
(* Alignment.                                                               *)

\* align_lines, and the walk of token_edits: pairs of equal lines, in order.  On a
\* tie the old line is passed first.
Aligned(old, new) ==
    LET lcs == Common(old, new)
        walk[p \in Places(old, new)] ==
            LET i == p[1]  j == p[2] IN
            IF i = Len(old) \/ j = Len(new) THEN {}
            ELSE IF old[i + 1] = new[j + 1] THEN {<<i + 1, j + 1>>} \cup walk[<<i + 1, j + 1>>]
            ELSE walk[IF lcs[<<i + 1, j>>] >= lcs[<<i, j + 1>>] THEN <<i + 1, j>> ELSE <<i, j + 1>>] IN
    walk[<<0, 0>>]

\* Where the walk of changed_line_ranges is after the lines that differ at a place.  On
\* a tie the new line is passed first.
Passed(old, new) ==
    LET lcs == Common(old, new)
        pass[p \in Places(old, new)] ==
            LET i == p[1]  j == p[2] IN
            IF i = Len(old) \/ j = Len(new) THEN <<Len(old), Len(new)>>
            ELSE IF old[i + 1] = new[j + 1] THEN p
            ELSE pass[IF lcs[<<i + 1, j>>] > lcs[<<i, j + 1>>] THEN <<i + 1, j>> ELSE <<i, j + 1>>] IN
    pass

\* changed_line_ranges, as the lines they contain: what was deleted between two lines
\* stands at the line that follows.
ChangedLines(old, new) ==
    LET pass == Passed(old, new)
        lines[p \in Places(old, new)] ==
            LET j == p[2]
                to == pass[p] IN
            IF p = <<Len(old), Len(new)>> THEN {}
            ELSE IF to = p THEN lines[<<p[1] + 1, j + 1>>]
            ELSE (IF to[2] > j THEN j + 1..to[2] ELSE {Min({j + 1, Len(new)})}) \cup lines[to] IN
    IF old # <<>> /\ new = <<>> THEN {1} ELSE lines[<<0, 0>>]

-----------------------------------------------------------------------------
(* Patches.                                                                 *)

\* Ranges that touch are one patch: the runs of lines.
Runs(S) == {r \in S \X S : r[1] <= r[2] /\ r[1]..r[2] \subseteq S /\ {r[1] - 1, r[2] + 1} \cap S = {}}

\* fragment_for_range: what the lines replace, from the nearest aligned line before
\* them to the nearest after, and these two lines as context.
Fragment(old, new, run) ==
    LET left == {p[1] : p \in {q \in Aligned(old, new) : q[2] < run[1]}}
        right == {p[1] : p \in {q \in Aligned(old, new) : q[2] > run[2]}}
        from == IF left = {} THEN 1 ELSE Max(left) + 1
        to == IF right = {} THEN Len(old) ELSE Min(right) - 1 IN
    [before |-> Bytes(Piece(old, from, to)), after |-> Bytes(Piece(new, run[1], run[2])),
     above |-> IF left = {} THEN <<>> ELSE old[from - 1],
     below |-> IF right = {} THEN <<>> ELSE old[to + 1]]

\* bind_patches, for one pull request.
BindPatches(old, new, S) ==
    [i \in 1..Cardinality(Runs(S)) |->
        Fragment(old, new, CHOOSE r \in Runs(S) :
            Cardinality({q \in Runs(S) : q[1] < r[1]}) = i - 1)]

\* Where a piece occurs, each search going on after the last match.
Occurrences(t, piece) ==
    LET matches(i) == Piece(t, i + 1, i + Len(piece)) = piece
        next[i \in 0..Len(t)] ==
            IF i + Len(piece) > Len(t) THEN {}
            ELSE IF matches(i) THEN {i} \cup next[i + Len(piece)] ELSE next[i + 1] IN
    next[0]

\* apply_patch that does not look at the lines around.
FitsAnywhere(t, p) ==
    IF p.before = <<>> THEN 0..Len(t) ELSE Occurrences(t, p.before)

\* apply_patch and insertion_positions: after how many characters the patch would fit.
Fits(t, p) ==
    LET fits(i) == /\ IsSuffix(p.above, Piece(t, 1, i))
                   /\ IsPrefix(p.below, Piece(t, i + Len(p.before) + 1, Len(t))) IN
    IF p.before # <<>> THEN {i \in Occurrences(t, p.before) : fits(i)}
    ELSE IF p.above = <<>> /\ p.below = <<>> THEN {0}
    ELSE {i \in 0..Len(t) : fits(i)}

\* A patch that fits in one place; otherwise a conflict.
ApplyPatch(t, p) ==
    LET places == Fits(t, p) IN
    {Piece(t, 1, i) \o p.after \o Piece(t, i + Len(p.before) + 1, Len(t)) :
        i \in IF Cardinality(places) = 1 THEN places ELSE {}}

ApplyPatches(t, ps) ==
    LET after[n \in 0..Len(ps)] ==
            IF n = 0 THEN {t} ELSE UNION {ApplyPatch(u, ps[n]) : u \in after[n - 1]} IN
    after[Len(ps)]

-----------------------------------------------------------------------------
(* The token merge.                                                         *)

\* token_edits: what stands between aligned tokens and differs; positions count the
\* base tokens before them.
TokenEdits(base, side) ==
    LET pairs == Aligned(base, side) \cup {<<0, 0>>, <<Len(base) + 1, Len(side) + 1>>}
        next(p) == CHOOSE q \in pairs : q[1] > p[1] /\ \A r \in pairs : r[1] > p[1] => q[1] <= r[1]
        gaps == {p \in pairs : p[1] <= Len(base) /\ next(p) # <<p[1] + 1, p[2] + 1>>} IN
    {[start |-> p[1], end |-> next(p)[1] - 1,
      replacement |-> Piece(side, p[2] + 1, next(p)[2] - 1)] : p \in gaps}

\* merge_token_edits gives up: different edits start at one place, or one starts in
\* another.
Clash(l, r) ==
    \/ l.start = r.start /\ l # r
    \/ l.start < r.start /\ r.start < l.end
    \/ r.start < l.start /\ l.start < r.end

\* merge_token_edits: the base with the edits of both sides.
MergeTokenEdits(base, edits) ==
    LET kept(i) == IF i < Len(base) THEN <<base[i + 1]>> ELSE <<>>
        build[i \in 0..Len(base) + 1] ==
            IF i > Len(base) THEN <<>>
            ELSE IF \E e \in edits : e.start = i
            THEN LET e == CHOOSE d \in edits : d.start = i IN
                 e.replacement \o IF e.end > i THEN build[e.end] ELSE kept(i) \o build[i + 1]
            ELSE kept(i) \o build[i + 1] IN
    build[0]

\* merge_token_text.
MergeTokenText(base, left, right) ==
    LET l == TokenEdits(base, left)
        r == TokenEdits(base, right) IN
    IF left = right \/ right = base THEN {left}
    ELSE IF left = base THEN {right}
    ELSE IF \E d \in l, e \in r : Clash(d, e) THEN {}
    ELSE {MergeTokenEdits(base, l \cup r)}

\* resolve_token_conflicts: all conflicts of a merge or none; a file that one side
\* deleted has no third text.
ResolveTokenConflicts(c) ==
    IF c.deleted THEN {} ELSE MergeTokenText(c.base, c.left, c.right)

-----------------------------------------------------------------------------
PatchesInit ==
    /\ \/ job \in [old : Sources, new : Sources, cover : Covers]
          /\ UNION Range(job.cover) \subseteq 1..Len(job.new)
          /\ text = {Bytes(job.old)}
       \/ job \in [base : TokenTexts, left : TokenTexts, right : TokenTexts, deleted : BOOLEAN]
          /\ text = {}
    /\ touched = {} /\ patches = <<>> /\ applied = 0

Merging == "base" \in DOMAIN job

\* The atoms are those that lines of the change touch; each gets its patches.
Bind ==
    /\ ~Merging /\ patches = <<>>
    /\ touched' = ChangedLines(job.old, job.new)
    /\ \A i \in DOMAIN job.cover : job.cover[i] \cap touched' # {}
    /\ patches' = [i \in DOMAIN job.cover |-> BindPatches(job.old, job.new, job.cover[i])]
    /\ UNCHANGED <<job, text, applied>>

\* project_stack_pull_request, on the commit of the one before.
Project ==
    /\ applied < Len(patches) /\ text # {}
    /\ text' = UNION {ApplyPatches(t, patches[applied + 1]) : t \in text}
    /\ applied' = applied + 1
    /\ UNCHANGED <<job, touched, patches>>

MergeSides ==
    /\ Merging /\ applied = 0
    /\ text' = ResolveTokenConflicts(job)
    /\ applied' = 1
    /\ UNCHANGED <<job, touched, patches>>

PatchesNext == Bind \/ Project \/ MergeSides

PatchesSpec == PatchesInit /\ [][PatchesNext]_patchVars

-----------------------------------------------------------------------------
Unaligned == (1..Len(job.new)) \ {p[2] : p \in Aligned(job.old, job.new)}

\* The whole stack is projected, and its atoms hold every line that either of the two
\* line diffs, the one that finds atoms and the one that cuts patches, calls changed.
StackProjected ==
    /\ ~Merging /\ patches # <<>> /\ applied = Len(patches)
    /\ touched \cup Unaligned \subseteq UNION Range(job.cover)

\* No line of a pull request is in another one or next to one of its lines.
Apart ==
    \A i, j \in DOMAIN job.cover : \A k \in job.cover[i], l \in job.cover[j] :
        i # j => k # l /\ k + 1 # l

\* Every line ends in a newline, none occurs twice in a file, and none of either file is
\* the end of another one.
Distinct ==
    LET lines == Range(job.old) \cup Range(job.new) IN
    /\ IsInjective(job.old) /\ IsInjective(job.new)
    /\ \A k \in lines : Last(k) = Newline
    /\ \A k, l \in lines : IsSuffix(k, l) => k = l

\* When lines are distinct and unchanged lines keep pull requests apart, projecting a
\* stack in any order never conflicts and rebuilds the reviewed file exactly.
ProjectionRebuilds == StackProjected /\ Apart /\ Distinct => text = {Bytes(job.new)}

\* A merge does not depend on which side is called left, and what it holds is what
\* both sides added to and took from the base, token by token.
MergeSound ==
    Merging /\ applied = 1 /\ ~job.deleted =>
        /\ text = MergeTokenText(job.base, job.right, job.left)
        /\ job.left # job.right => \A t \in text : \A x \in UNION {Range(u) : u \in TokenTexts} :
              LET count(u) == Cardinality({i \in DOMAIN u : u[i] = x}) IN
              TokenEdits(job.base, job.left) \cap TokenEdits(job.base, job.right) = {} =>
                  count(t) + count(job.base) = count(job.left) + count(job.right)

\* What is made of a text is what was reviewed, or what both sides made of it.
TextSound == ProjectionRebuilds /\ MergeSound

\* "La sortie est un commit dont le diff est exactement celui des atomes
\* sélectionnés": a stack that covers every changed line and is projected without a
\* conflict gives the reviewed file.
DiffIsSelection == StackProjected => text \subseteq {Bytes(job.new)}
=============================================================================
