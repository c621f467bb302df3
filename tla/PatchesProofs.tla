----------------------------- MODULE PatchesProofs ---------------------------
(***************************************************************************)
(* Proofs about text.  For files, stacks and tokens of every length:       *)
(* the merge of two sides does not depend on which is called left and      *)
(* holds what both added and took, because the edits of a side rebuild it; *)
(* and a stack that covers every changed line, with unchanged lines        *)
(* between its pull requests, of lines that each end in a newline and of   *)
(* which none occurs twice or is the end of another one, is projected to   *)
(* exactly the reviewed file.                                              *)
(*                                                                         *)
(* The projection: the lines of the new file that no pull request holds    *)
(* stand in the old file too, in the same order and neighbours where they  *)
(* are neighbours in the new one (Framed).  Every text on the way has      *)
(* them, and between two of them what the old or what the new file has     *)
(* there (Staged).  A patch is what stands in one such gap, fits only      *)
(* there, and exchanges the old lines for the new.                         *)
(***************************************************************************)
EXTENDS Patches, WellFoundedInduction, FiniteSetTheorems, SequenceTheorems, TLAPS

\* A set of numbers that is not empty has a smallest one.
LEMMA Smallest ==
    ASSUME NEW D \in SUBSET Nat, D # {}
    PROVE  \E n \in D : \A k \in D : n <= k
<1>1. PICK n \in D : \A k \in D : <<k, n>> \notin OpToRel(<, Nat)
    BY NatLessThanWellFounded, WFMin, Zenon
<1>2. \A k \in D : ~(k < n)
    BY <1>1, Zenon DEF OpToRel
<1>. QED BY <1>2

\* Induction, for a set of numbers.
LEMMA Reaches ==
    ASSUME NEW n \in Nat, NEW S, 0 \in S,
           \A i \in 0..(n - 1) : i \in S => i + 1 \in S
    PROVE  \A i \in 0..n : i \in S
<1>. SUFFICES ASSUME NEW i \in 0..n, i \notin S PROVE FALSE
    OBVIOUS
<1> DEFINE D == {j \in 0..n : j \notin S}
<1>1. PICK j \in D : \A k \in D : j <= k
    <2>1. D \in SUBSET Nat /\ D # {}
        OBVIOUS
    <2>. QED BY <2>1, Smallest
<1>2. j # 0 /\ j - 1 \in 0..(n - 1)
    BY <1>1
<1>3. j - 1 \in S
    BY <1>1, <1>2
<1>. QED BY <1>1, <1>2, <1>3

-----------------------------------------------------------------------------
(* Recursion on a measure.  Alignment, ranges, occurrences and the merge    *)
(* are recursive functions whose value at a place depends on the value at a *)
(* place nearer to the end.                                                 *)

\* Induction on the measure w.
LEMMA Descends ==
    ASSUME NEW P, NEW w, \A p \in P : w[p] \in Nat, NEW S,
           \A p \in P : (\A q \in P : w[q] < w[p] => q \in S) => p \in S
    PROVE  P \subseteq S
<1>. SUFFICES ASSUME NEW p \in P, p \notin S PROVE FALSE
    OBVIOUS
<1> DEFINE D == {w[q] : q \in {r \in P : r \notin S}}
<1>1. D \in SUBSET Nat /\ D # {}
    OBVIOUS
<1>2. PICK n \in D : \A k \in D : n <= k
    <2>. HIDE DEF D
    <2>. QED BY <1>1, Smallest
<1>3. PICK q \in P : q \notin S /\ w[q] = n
    OBVIOUS
<1>4. \A r \in P : w[r] < w[q] => r \in S
    BY <1>2, <1>3
<1>. QED BY <1>3, <1>4

\* f gives a place of Stop its base, and any other what comb makes of the value at the
\* next place.
Recurs(f, P, next, Stop, base, comb) ==
    f = [p \in P |-> IF p \in Stop THEN base[p] ELSE comb[<<p, f[next[p]]>>]]

\* Such a function exists.
LEMMA RecursionExists ==
    ASSUME NEW P, NEW w, \A p \in P : w[p] \in Nat, NEW K \in Nat, \A p \in P : w[p] <= K,
           NEW next, NEW Stop, \A p \in P \ Stop : next[p] \in P /\ w[next[p]] < w[p],
           NEW base, NEW comb
    PROVE  \E f : Recurs(f, P, next, Stop, base, comb)
<1> DEFINE Q(k) == {p \in P : w[p] < k}
           S == {k \in 0..(K + 1) : \E f : Recurs(f, Q(k), next, Stop, base, comb)}
<1>1. 0 \in S
    <2>1. Q(0) = {}
        OBVIOUS
    <2>2. Recurs([p \in {} |-> 0], {}, next, Stop, base, comb)
        BY DEF Recurs
    <2>3. \E f : Recurs(f, Q(0), next, Stop, base, comb)
        <3>. HIDE DEF Q
        <3>. QED BY <2>1, <2>2
    <2>. QED BY <2>3
<1>2. ASSUME NEW k \in 0..K, k \in S
      PROVE  k + 1 \in S
    <2>1. PICK f : Recurs(f, Q(k), next, Stop, base, comb)
        BY <1>2
    <2> DEFINE g == [p \in Q(k + 1) |-> IF p \in Stop THEN base[p] ELSE comb[<<p, f[next[p]]>>]]
    <2>2. \A p \in Q(k + 1) : p \notin Stop => next[p] \in Q(k)
        OBVIOUS
    <2>3. \A p \in Q(k) : g[p] = f[p]
        BY <2>1 DEF Recurs
    <2>4. \A p \in Q(k + 1) : g[p] = IF p \in Stop THEN base[p] ELSE comb[<<p, g[next[p]]>>]
        BY <2>2, <2>3
    <2>5. g = [p \in Q(k + 1) |-> IF p \in Stop THEN base[p] ELSE comb[<<p, g[next[p]]>>]]
        BY <2>4
    <2>6. Recurs(g, Q(k + 1), next, Stop, base, comb)
        BY <2>5 DEF Recurs
    <2>7. k + 1 \in 0..(K + 1)
        OBVIOUS
    <2>. HIDE DEF Q, g
    <2>. QED BY <2>6, <2>7
<1>3. \A k \in 0..(K + 1) : k \in S
    <2>. HIDE DEF S
    <2>1. \A k \in 0..((K + 1) - 1) : k \in S => k + 1 \in S
        BY <1>2
    <2>. QED BY <1>1, <2>1, Reaches
<1>4. Q(K + 1) = P
    OBVIOUS
<1>5. \E f : Recurs(f, Q(K + 1), next, Stop, base, comb)
    <2>1. K + 1 \in 0..(K + 1)
        OBVIOUS
    <2>. HIDE DEF Q
    <2>. QED BY <1>3, <2>1
<1>. HIDE DEF Q
<1>. QED BY <1>4, <1>5

\* A measure w that the next place lowers; values in V when the base is and comb stays
\* in it.
Grounded(P, w, K, next, Stop, base, comb, V) ==
    /\ K \in Nat
    /\ \A p \in P : w[p] \in Nat /\ w[p] <= K
    /\ \A p \in P \ Stop : next[p] \in P /\ w[next[p]] < w[p]
    /\ \A p \in P \cap Stop : base[p] \in V
    /\ \A p \in P \ Stop : \A v \in V : comb[<<p, v>>] \in V

Computes(f, P, next, Stop, base, comb, V) ==
    /\ f = [p \in P |-> f[p]]
    /\ \A p \in P : f[p] \in V
    /\ \A p \in P \cap Stop : f[p] = base[p]
    /\ \A p \in P \ Stop : f[p] = comb[<<p, f[next[p]]>>] /\ f[next[p]] \in V

LEMMA RecursionFacts ==
    ASSUME NEW P, NEW w, NEW K, NEW next, NEW Stop, NEW base, NEW comb, NEW V,
           Grounded(P, w, K, next, Stop, base, comb, V)
    PROVE  \E f : Computes(f, P, next, Stop, base, comb, V)
<1>. USE DEF Grounded
<1>1. PICK f : Recurs(f, P, next, Stop, base, comb)
    BY RecursionExists
<1>2. \A p \in P : f[p] = IF p \in Stop THEN base[p] ELSE comb[<<p, f[next[p]]>>]
    BY <1>1 DEF Recurs
<1>3. f = [p \in P |-> f[p]]
    <2>1. f = [p \in P |-> IF p \in Stop THEN base[p] ELSE comb[<<p, f[next[p]]>>]]
        BY <1>1 DEF Recurs
    <2>. QED BY <2>1
<1> DEFINE S == {p \in P : f[p] \in V}
<1>4. ASSUME NEW p \in P, \A q \in P : w[q] < w[p] => q \in S
      PROVE  p \in S
    <2>1. CASE p \in Stop
        BY <1>2, <2>1
    <2>2. CASE p \notin Stop
        <3>1. f[next[p]] \in V
            BY <1>4, <2>2
        <3>. QED BY <1>2, <2>2, <3>1
    <2>. QED BY <2>1, <2>2
<1>5. P \subseteq S
    <2>. HIDE DEF S
    <2>. QED BY <1>4, Descends
<1>. QED BY <1>2, <1>3, <1>5 DEF Computes

-----------------------------------------------------------------------------
(* Alignment.                                                               *)

\* X pairs equal lines of what follows place p, in order.
Pairing(X, p, old, new) ==
    /\ \A q \in X : /\ q \in (1..Len(old)) \X (1..Len(new))
                    /\ p[1] < q[1] /\ p[2] < q[2]
                    /\ old[q[1]] = new[q[2]]
    /\ \A q, r \in X : q = r \/ (q[1] < r[1] /\ q[2] < r[2]) \/ (r[1] < q[1] /\ r[2] < q[2])

\* How far a place is from the end.
Distance(old, new) == [p \in Places(old, new) |-> (Len(old) - p[1]) + (Len(new) - p[2])]

LEMMA PlaceFacts ==
    ASSUME NEW old, Len(old) \in Nat, NEW new, Len(new) \in Nat,
           NEW P, P = Places(old, new), NEW w, w = Distance(old, new)
    PROVE  /\ \A p \in P : /\ p[1] \in 0..Len(old) /\ p[2] \in 0..Len(new) /\ p = <<p[1], p[2]>>
                           /\ w[p] \in Nat /\ w[p] <= Len(old) + Len(new)
           /\ \A p, q \in P : p[1] <= q[1] /\ p[2] <= q[2] /\ p # q => w[q] < w[p]
           /\ \A i \in 0..Len(old), j \in 0..Len(new) : <<i, j>> \in P
           /\ \A p \in P : p[1] < Len(old) => <<p[1] + 1, p[2]>> \in P
           /\ \A p \in P : p[2] < Len(new) => <<p[1], p[2] + 1>> \in P
           /\ \A p \in P : p[1] < Len(old) /\ p[2] < Len(new) => <<p[1] + 1, p[2] + 1>> \in P
<1>1. \A p \in P : p[1] \in 0..Len(old) /\ p[2] \in 0..Len(new) /\ p = <<p[1], p[2]>>
    BY DEF Places
<1>2. \A p \in P : w[p] = (Len(old) - p[1]) + (Len(new) - p[2])
    BY DEF Distance
<1>3. \A i \in 0..Len(old), j \in 0..Len(new) : <<i, j>> \in P
    BY DEF Places
<1>4. \A p \in P : w[p] \in Nat /\ w[p] <= Len(old) + Len(new)
    BY <1>1, <1>2
<1>5. ASSUME NEW p \in P, NEW q \in P, p[1] <= q[1], p[2] <= q[2], p # q
      PROVE  w[q] < w[p]
    <2>1. p[1] # q[1] \/ p[2] # q[2]
        BY <1>1, <1>5
    <2>. QED BY <1>1, <1>2, <1>5, <2>1
<1>6. ASSUME NEW p \in P
      PROVE  /\ p[1] < Len(old) => p[1] + 1 \in 0..Len(old)
             /\ p[2] < Len(new) => p[2] + 1 \in 0..Len(new)
    BY <1>1
<1>. QED BY <1>1, <1>3, <1>4, <1>5, <1>6

\* The next place of the walk.
Onward(p, old, new) ==
    IF old[p[1] + 1] = new[p[2] + 1] THEN <<p[1] + 1, p[2] + 1>>
    ELSE IF Common(old, new)[<<p[1] + 1, p[2]>>] >= Common(old, new)[<<p[1], p[2] + 1>>]
    THEN <<p[1] + 1, p[2]>> ELSE <<p[1], p[2] + 1>>

\* The walk collects a pair where the lines are equal.
Collects(walk, p, old, new) ==
    walk[p] = IF p[1] = Len(old) \/ p[2] = Len(new) THEN {}
              ELSE IF old[p[1] + 1] = new[p[2] + 1]
              THEN {<<p[1] + 1, p[2] + 1>>} \cup walk[Onward(p, old, new)]
              ELSE walk[Onward(p, old, new)]

LEMMA AlignedWalks ==
    ASSUME NEW old, Len(old) \in Nat, NEW new, Len(new) \in Nat
    PROVE  \E walk : /\ Aligned(old, new) = walk[<<0, 0>>]
                     /\ \A p \in Places(old, new) : Collects(walk, p, old, new)
<1> DEFINE P == Places(old, new)
           w == Distance(old, new)
           lcs == Common(old, new)
           Stop == {p \in P : p[1] = Len(old) \/ p[2] = Len(new)}
           next == [p \in P |-> Onward(p, old, new)]
           base == [p \in P |-> {}]
           V == SUBSET P
           comb == [x \in P \X V |-> IF old[x[1][1] + 1] = new[x[1][2] + 1]
                                     THEN {<<x[1][1] + 1, x[1][2] + 1>>} \cup x[2] ELSE x[2]]
           Rec(f) == f = [p \in Places(old, new) |->
                             LET i == p[1]  j == p[2] IN
                             IF i = Len(old) \/ j = Len(new) THEN {}
                             ELSE IF old[i + 1] = new[j + 1]
                             THEN {<<i + 1, j + 1>>} \cup f[<<i + 1, j + 1>>]
                             ELSE f[IF lcs[<<i + 1, j>>] >= lcs[<<i, j + 1>>]
                                    THEN <<i + 1, j>> ELSE <<i, j + 1>>]]
           Value(f, p) == IF p[1] = Len(old) \/ p[2] = Len(new) THEN {}
                          ELSE IF old[p[1] + 1] = new[p[2] + 1]
                          THEN {<<p[1] + 1, p[2] + 1>>} \cup f[Onward(p, old, new)]
                          ELSE f[Onward(p, old, new)]
<1>1. /\ \A p \in P : /\ p[1] \in 0..Len(old) /\ p[2] \in 0..Len(new) /\ p = <<p[1], p[2]>>
                      /\ w[p] \in Nat /\ w[p] <= Len(old) + Len(new)
      /\ \A p, q \in P : p[1] <= q[1] /\ p[2] <= q[2] /\ p # q => w[q] < w[p]
      /\ \A p \in P : p[1] < Len(old) => <<p[1] + 1, p[2]>> \in P
      /\ \A p \in P : p[2] < Len(new) => <<p[1], p[2] + 1>> \in P
      /\ \A p \in P : p[1] < Len(old) /\ p[2] < Len(new) => <<p[1] + 1, p[2] + 1>> \in P
    BY PlaceFacts
<1>2. \A f : Rec(f) <=> f = [p \in P |-> Value(f, p)]
    BY DEF Onward
<1>3. \A p \in P : p \notin Stop => p[1] < Len(old) /\ p[2] < Len(new)
    BY <1>1
<1>4. \A p \in P : p \notin Stop => Onward(p, old, new) \in P /\ w[Onward(p, old, new)] < w[p]
    <2>1. ASSUME NEW p \in P, NEW q \in P, q \in {<<p[1] + 1, p[2]>>, <<p[1], p[2] + 1>>, <<p[1] + 1, p[2] + 1>>}
          PROVE  w[q] < w[p]
        <3>1. p[1] <= q[1] /\ p[2] <= q[2] /\ p # q
            BY <1>1, <2>1
        <3>. QED BY <1>1, <3>1
    <2>. HIDE DEF P, w, Stop
    <2>. QED BY <1>1, <1>3, <2>1 DEF Onward
<1>5. PICK f : /\ f = [p \in P |-> f[p]]
               /\ \A p \in P : f[p] \in V
               /\ \A p \in P \cap Stop : f[p] = base[p]
               /\ \A p \in P \ Stop : f[p] = comb[<<p, f[next[p]]>>] /\ f[next[p]] \in V
    <2>1. \A p \in P \ Stop : next[p] \in P /\ w[next[p]] < w[p]
        BY <1>4
    <2>2. \A p \in P \cap Stop : base[p] \in V
        OBVIOUS
    <2>3. \A p \in P \ Stop : \A v \in V : comb[<<p, v>>] \in V
        <3>. HIDE DEF P
        <3>. QED BY <1>1, <1>3
    <2>4. \A p \in P : w[p] \in Nat /\ w[p] <= Len(old) + Len(new)
        BY <1>1
    <2>5. Len(old) + Len(new) \in Nat
        OBVIOUS
    <2>6. PICK K : K = Len(old) + Len(new)
        OBVIOUS
    <2>7. K \in Nat /\ \A p \in P : w[p] \in Nat /\ w[p] <= K
        BY <2>4, <2>5, <2>6
    <2>. HIDE DEF P, w, Stop, next, base, comb, V
    <2>8. Grounded(P, w, K, next, Stop, base, comb, V)
        BY <2>1, <2>2, <2>3, <2>7 DEF Grounded
    <2>9. \E f : Computes(f, P, next, Stop, base, comb, V)
        BY <2>8, RecursionFacts
    <2>. QED BY <2>9 DEF Computes
<1>6. \A p \in P : f[p] = Value(f, p)
    <2>1. ASSUME NEW p \in P, p \in Stop
          PROVE  f[p] = Value(f, p)
        BY <1>5, <2>1
    <2>2. ASSUME NEW p \in P, p \notin Stop
          PROVE  f[p] = Value(f, p)
        <3>1. f[p] = comb[<<p, f[Onward(p, old, new)]>>] /\ f[Onward(p, old, new)] \in V
            BY <1>5, <2>2
        <3>2. \A v \in V : comb[<<p, v>>] = IF old[p[1] + 1] = new[p[2] + 1]
                                           THEN {<<p[1] + 1, p[2] + 1>>} \cup v ELSE v
            <4>. HIDE DEF P, V
            <4>. QED OBVIOUS
        <3>. HIDE DEF comb, P, V
        <3>. QED BY <2>2, <3>1, <3>2
    <2>. QED BY <2>1, <2>2
<1>7. Rec(f)
    <2>1. f = [p \in P |-> Value(f, p)]
        <3>1. f = [p \in P |-> f[p]]
            BY <1>5
        <3>. HIDE DEF Value, P
        <3>. QED BY <1>6, <3>1
    <2>. HIDE DEF Rec, Value
    <2>. QED BY <1>2, <2>1
<1>. HIDE DEF Rec
<1>8. PICK walk : walk = (CHOOSE h : Rec(h)) /\ Rec(walk)
    BY <1>7
<1>9. Aligned(old, new) = walk[<<0, 0>>]
    BY <1>8 DEF Aligned, Rec
<1>10. walk = [p \in P |-> Value(walk, p)]
    BY <1>2, <1>8
<1>11. \A p \in P : walk[p] = Value(walk, p)
    <2>. HIDE DEF Value, P
    <2>. QED BY <1>10
<1>12. \A p \in P : Collects(walk, p, old, new)
    BY <1>11 DEF Collects
<1>. HIDE DEF P
<1>. QED BY <1>9, <1>12 DEF P

\* The aligned pairs are pairs of equal lines, in order.
LEMMA AlignedFacts ==
    ASSUME NEW old, Len(old) \in Nat, NEW new, Len(new) \in Nat
    PROVE  Pairing(Aligned(old, new), <<0, 0>>, old, new)
<1> DEFINE P == Places(old, new)
           w == Distance(old, new)
<1>0. PICK walk : /\ Aligned(old, new) = walk[<<0, 0>>]
                  /\ \A p \in Places(old, new) : Collects(walk, p, old, new)
    BY AlignedWalks
<1>1. /\ Aligned(old, new) = walk[<<0, 0>>]
      /\ \A p \in P :
            walk[p] = IF p[1] = Len(old) \/ p[2] = Len(new) THEN {}
                      ELSE IF old[p[1] + 1] = new[p[2] + 1]
                      THEN {<<p[1] + 1, p[2] + 1>>} \cup walk[Onward(p, old, new)]
                      ELSE walk[Onward(p, old, new)]
    BY <1>0 DEF Collects
<1>2. /\ \A p \in P : /\ p[1] \in 0..Len(old) /\ p[2] \in 0..Len(new) /\ p = <<p[1], p[2]>>
                      /\ w[p] \in Nat /\ w[p] <= Len(old) + Len(new)
      /\ \A p, q \in P : p[1] <= q[1] /\ p[2] <= q[2] /\ p # q => w[q] < w[p]
      /\ \A p \in P : p[1] < Len(old) => <<p[1] + 1, p[2]>> \in P
      /\ \A p \in P : p[2] < Len(new) => <<p[1], p[2] + 1>> \in P
      /\ \A p \in P : p[1] < Len(old) /\ p[2] < Len(new) => <<p[1] + 1, p[2] + 1>> \in P
    BY PlaceFacts
<1> DEFINE S == {p \in P : Pairing(walk[p], p, old, new)}
<1>3. ASSUME NEW p \in P, \A q \in P : w[q] < w[p] => q \in S
      PROVE  p \in S
    <2>1. CASE p[1] = Len(old) \/ p[2] = Len(new)
        <3>1. walk[p] = {}
            BY <1>1, <2>1
        <3>. QED BY <3>1 DEF Pairing
    <2>2. CASE ~(p[1] = Len(old) \/ p[2] = Len(new))
        <3>1. PICK i \in 0..Len(old) : i = p[1]
            BY <1>2
        <3>2. PICK j \in 0..Len(new) : j = p[2]
            BY <1>2
        <3>3. i < Len(old) /\ j < Len(new)
            BY <2>2, <3>1, <3>2
        <3>4. PICK q \in P : q = Onward(p, old, new)
            BY <1>2, <3>1, <3>2, <3>3 DEF Onward
        <3>5. q \in {<<i + 1, j>>, <<i, j + 1>>, <<i + 1, j + 1>>}
            BY <3>1, <3>2, <3>4 DEF Onward
        <3>6. i <= q[1] /\ j <= q[2] /\ p # q
            BY <3>1, <3>2, <3>5
        <3>7. Pairing(walk[q], q, old, new)
            BY <1>2, <1>3, <3>1, <3>2, <3>6
        <3>8. CASE old[i + 1] = new[j + 1]
            <4>1. walk[p] = {<<i + 1, j + 1>>} \cup walk[q] /\ q = <<i + 1, j + 1>>
                BY <1>1, <2>2, <3>1, <3>2, <3>4, <3>8 DEF Onward
            <4>2. <<i + 1, j + 1>> \in (1..Len(old)) \X (1..Len(new))
                BY <3>3
            <4>3. \A r \in walk[q] : /\ r \in (1..Len(old)) \X (1..Len(new))
                                     /\ i + 1 < r[1] /\ j + 1 < r[2]
                                     /\ old[r[1]] = new[r[2]]
                BY <3>7, <4>1 DEF Pairing
            <4>4. \A r \in walk[p] : /\ r \in (1..Len(old)) \X (1..Len(new))
                                     /\ i < r[1] /\ j < r[2]
                                     /\ old[r[1]] = new[r[2]]
                BY <3>8, <4>1, <4>2, <4>3
            <4>5. \A r, s \in walk[p] : r = s \/ (r[1] < s[1] /\ r[2] < s[2])
                                             \/ (s[1] < r[1] /\ s[2] < r[2])
                BY <3>7, <4>1, <4>3 DEF Pairing
            <4>. HIDE DEF P, w
            <4>. QED BY <3>1, <3>2, <4>4, <4>5 DEF Pairing
        <3>9. CASE old[i + 1] # new[j + 1]
            <4>1. walk[p] = walk[q]
                BY <1>1, <2>2, <3>1, <3>2, <3>4, <3>9
            <4>2. \A r \in (1..Len(old)) \X (1..Len(new)) :
                     q[1] < r[1] /\ q[2] < r[2] => i < r[1] /\ j < r[2]
                BY <3>5
            <4>. HIDE DEF P, w
            <4>. QED BY <3>1, <3>2, <3>7, <4>1, <4>2 DEF Pairing
        <3>. QED BY <3>8, <3>9
    <2>. QED BY <2>1, <2>2
<1>4. P \subseteq S
    <2>. HIDE DEF S, P, w
    <2>. QED BY <1>2, <1>3, Descends
<1>5. <<0, 0>> \in P
    BY DEF Places
<1>. QED BY <1>1, <1>4, <1>5

-----------------------------------------------------------------------------
(* The edits of a side.                                                     *)

\* The aligned pairs of base and side between the start and the end.
Pairs(base, side) == Aligned(base, side) \cup {<<0, 0>>, <<Len(base) + 1, Len(side) + 1>>}

NextPair(base, side, p) ==
    CHOOSE q \in Pairs(base, side) :
        q[1] > p[1] /\ \A r \in Pairs(base, side) : r[1] > p[1] => q[1] <= r[1]

LEMMA PairFacts ==
    ASSUME NEW base, Len(base) \in Nat, NEW side, Len(side) \in Nat,
           NEW X, X = Pairs(base, side), NEW n, n = Len(base), NEW m, m = Len(side)
    PROVE  /\ \A p \in X : /\ p[1] \in 0..(n + 1) /\ p[2] \in 0..(m + 1) /\ p = <<p[1], p[2]>>
                           /\ p[1] = n + 1 => p[2] = m + 1
                           /\ p[1] = 0 => p[2] = 0
                           /\ p[1] \in 1..n => p[2] \in 1..m /\ base[p[1]] = side[p[2]]
           /\ \A p, q \in X : p[1] < q[1] => p[2] < q[2]
           /\ \A p, q \in X : p[1] = q[1] => p = q
<1>1. Pairing(Aligned(base, side), <<0, 0>>, base, side)
    BY AlignedFacts
<1>2. \A p \in Aligned(base, side) : /\ p[1] \in 1..n /\ p[2] \in 1..m /\ p = <<p[1], p[2]>>
                                     /\ base[p[1]] = side[p[2]]
    BY <1>1 DEF Pairing
<1>3. \A p, q \in Aligned(base, side) :
         p = q \/ (p[1] < q[1] /\ p[2] < q[2]) \/ (q[1] < p[1] /\ q[2] < p[2])
    BY <1>1 DEF Pairing
<1>4. \A p \in X : \/ p \in Aligned(base, side)
                   \/ p[1] = 0 /\ p[2] = 0 /\ p = <<0, 0>>
                   \/ p[1] = n + 1 /\ p[2] = m + 1 /\ p = <<n + 1, m + 1>>
    BY DEF Pairs
<1>5. \A p \in X : /\ p[1] \in 0..(n + 1) /\ p[2] \in 0..(m + 1) /\ p = <<p[1], p[2]>>
                   /\ p[1] = n + 1 => p[2] = m + 1
                   /\ p[1] = 0 => p[2] = 0
                   /\ p[1] \in 1..n => p[2] \in 1..m /\ base[p[1]] = side[p[2]]
    BY <1>2, <1>4
<1>6. ASSUME NEW p \in X, NEW q \in X, p[1] < q[1]
      PROVE  p[2] < q[2]
    <2>1. CASE p \in Aligned(base, side) /\ q \in Aligned(base, side)
        BY <1>2, <1>3, <1>6, <2>1
    <2>2. CASE p[1] = 0 /\ p[2] = 0
        BY <1>2, <1>4, <1>6, <2>2
    <2>3. CASE q[1] = n + 1 /\ q[2] = m + 1
        BY <1>2, <1>4, <1>6, <2>3
    <2>4. CASE p[1] = n + 1 \/ q[1] = 0
        BY <1>5, <1>6, <2>4
    <2>. QED BY <1>4, <2>1, <2>2, <2>3, <2>4
<1>7. ASSUME NEW p \in X, NEW q \in X, p[1] = q[1]
      PROVE  p = q
    <2>1. CASE p \in Aligned(base, side) /\ q \in Aligned(base, side)
        BY <1>2, <1>3, <1>7, <2>1
    <2>2. CASE ~(p \in Aligned(base, side) /\ q \in Aligned(base, side))
        BY <1>2, <1>4, <1>7, <2>2
    <2>. QED BY <2>1, <2>2
<1>. QED BY <1>5, <1>6, <1>7

\* The next pair is the nearest one.
LEMMA NextPairFacts ==
    ASSUME NEW base, Len(base) \in Nat, NEW side, Len(side) \in Nat,
           NEW p \in Pairs(base, side), p[1] <= Len(base)
    PROVE  /\ NextPair(base, side, p) \in Pairs(base, side)
           /\ p[1] < NextPair(base, side, p)[1]
           /\ \A r \in Pairs(base, side) : r[1] > p[1] => NextPair(base, side, p)[1] <= r[1]
<1> DEFINE X == Pairs(base, side)
           D == {r[1] : r \in {s \in X : s[1] > p[1]}}
<1>1. \A r \in X : r[1] \in 0..(Len(base) + 1)
    BY PairFacts
<1>2. Len(base) + 1 \in D
    <2>1. <<Len(base) + 1, Len(side) + 1>> \in X
        BY DEF Pairs
    <2>2. Len(base) + 1 > p[1]
        BY <1>1
    <2>3. <<Len(base) + 1, Len(side) + 1>>[1] = Len(base) + 1
        OBVIOUS
    <2>4. <<Len(base) + 1, Len(side) + 1>> \in {s \in X : s[1] > p[1]}
        BY <2>1, <2>2, <2>3
    <2>. HIDE DEF X
    <2>. QED BY <2>3, <2>4
<1>3. D \in SUBSET Nat
    <2>. HIDE DEF X
    <2>. QED BY <1>1
<1>4. PICK k \in D : \A l \in D : k <= l
    <2>. HIDE DEF D
    <2>. QED BY <1>2, <1>3, Smallest
<1>5. PICK q \in X : q[1] = k /\ q[1] > p[1]
    <2>. HIDE DEF X
    <2>. QED BY <1>4
<1>6. \A r \in X : r[1] > p[1] => q[1] <= r[1]
    <2>. HIDE DEF X
    <2>. QED BY <1>4, <1>5
<1>7. \E r \in X : r[1] > p[1] /\ \A s \in X : s[1] > p[1] => r[1] <= s[1]
    BY <1>5, <1>6
<1>8. PICK r : r = NextPair(base, side, p)
    OBVIOUS
<1>9. r \in X /\ r[1] > p[1] /\ \A s \in X : s[1] > p[1] => r[1] <= s[1]
    <2>. HIDE DEF X
    <2>1. NextPair(base, side, p) = CHOOSE t \in X : t[1] > p[1] /\ \A s \in X : s[1] > p[1] => t[1] <= s[1]
        BY DEF NextPair, X
    <2>. QED BY <1>7, <1>8, <2>1
<1>. QED BY <1>1, <1>8, <1>9

Edit(base, side, p) ==
    [start |-> p[1], end |-> NextPair(base, side, p)[1] - 1,
     replacement |-> SubSeq(side, p[2] + 1, NextPair(base, side, p)[2] - 1)]

Gaps(base, side) ==
    {p \in Pairs(base, side) : p[1] <= Len(base) /\ NextPair(base, side, p) # <<p[1] + 1, p[2] + 1>>}

LEMMA EditsOfGaps ==
    ASSUME NEW base, NEW side
    PROVE  TokenEdits(base, side) = {Edit(base, side, p) : p \in Gaps(base, side)}
BY DEF TokenEdits, Edit, Gaps, NextPair, Pairs, Piece

\* Edits of a text of n tokens that follow one another.
Cut(edits, n, T) ==
    /\ \A e \in edits : /\ e \in [start : 0..n, end : 0..n, replacement : Seq(T)]
                        /\ e.start <= e.end
    /\ \A d, e \in edits : \/ d = e
                           \/ d.start < e.start /\ d.end <= e.start
                           \/ e.start < d.start /\ e.end <= d.start

LEMMA EditsCut ==
    ASSUME NEW T, NEW base \in Seq(T), NEW side \in Seq(T)
    PROVE  Cut(TokenEdits(base, side), Len(base), T)
<1> DEFINE X == Pairs(base, side)
           n == Len(base)
           m == Len(side)
           next(p) == NextPair(base, side, p)
           G == Gaps(base, side)
<1>1. n \in Nat /\ m \in Nat
    OBVIOUS
<1>2. /\ \A p \in X : /\ p[1] \in 0..(n + 1) /\ p[2] \in 0..(m + 1)
                      /\ p[1] = n + 1 => p[2] = m + 1
                      /\ p[1] = 0 => p[2] = 0
                      /\ p[1] \in 1..n => p[2] \in 1..m /\ base[p[1]] = side[p[2]]
      /\ \A p, q \in X : p[1] < q[1] => p[2] < q[2]
      /\ \A p, q \in X : p[1] = q[1] => p = q
    BY <1>1, PairFacts
<1>3. \A p \in X : p[1] <= n => /\ next(p) \in X /\ p[1] < next(p)[1]
                                /\ \A r \in X : r[1] > p[1] => next(p)[1] <= r[1]
    BY <1>1, NextPairFacts
<1>4. \A p \in G : p \in X /\ p[1] <= n
    BY DEF Gaps
<1>5. ASSUME NEW p \in G
      PROVE  /\ Edit(base, side, p) \in [start : 0..n, end : 0..n, replacement : Seq(T)]
             /\ Edit(base, side, p).start = p[1] /\ Edit(base, side, p).end = next(p)[1] - 1
             /\ Edit(base, side, p).start <= Edit(base, side, p).end
    <2>1. PICK q \in X : q = next(p)
        BY <1>3, <1>4
    <2>2. /\ p[1] \in 0..n /\ q[1] \in 0..(n + 1) /\ p[1] < q[1]
          /\ p[2] \in 0..(m + 1) /\ q[2] \in 0..(m + 1) /\ p[2] < q[2]
        <3>. HIDE DEF X
        <3>. QED BY <1>1, <1>2, <1>3, <1>4, <2>1
    <2>3. q[1] - 1 \in 0..n /\ p[1] <= q[1] - 1
        BY <1>1, <2>2
    <2>4. SubSeq(side, p[2] + 1, q[2] - 1) \in Seq(T)
        <3>1. \A i \in (p[2] + 1)..(q[2] - 1) : side[i] \in T
            BY <1>1, <2>2
        <3>. QED BY <2>2, <3>1
    <2>. QED BY <2>1, <2>2, <2>3, <2>4 DEF Edit
<1>6. ASSUME NEW p \in G, NEW q \in G, p[1] < q[1]
      PROVE  Edit(base, side, p).start < Edit(base, side, q).start
             /\ Edit(base, side, p).end <= Edit(base, side, q).start
    <2>1. next(p)[1] <= q[1] /\ next(p) \in X
        BY <1>3, <1>4, <1>6
    <2>. HIDE DEF X, G, next
    <2>. QED BY <1>2, <1>4, <1>5, <1>6, <2>1
<1>7. \A p, q \in G : p[1] = q[1] \/ p[1] < q[1] \/ q[1] < p[1]
    BY <1>1, <1>2, <1>4
<1>8. \A p, q \in G : p[1] = q[1] => p = q
    BY <1>2, <1>4
<1>. HIDE DEF G, X, next
<1>. QED BY <1>5, <1>6, <1>7, <1>8, EditsOfGaps DEF Cut, G

-----------------------------------------------------------------------------
(* Building a text from the base and edits.                                 *)

Kept(base, i) == IF i < Len(base) THEN <<base[i + 1]>> ELSE <<>>

EditAt(edits, i) == CHOOSE d \in edits : d.start = i

\* What the build adds at a place, and where it goes on.
Added(base, edits, i) ==
    IF \E e \in edits : e.start = i
    THEN EditAt(edits, i).replacement \o
         IF EditAt(edits, i).end > i THEN <<>> ELSE Kept(base, i)
    ELSE Kept(base, i)

After(edits, i) ==
    IF (\E e \in edits : e.start = i) /\ EditAt(edits, i).end > i THEN EditAt(edits, i).end ELSE i + 1

Builds(build, base, edits, T) ==
    /\ build \in [0..Len(base) + 1 -> Seq(T)]
    /\ build[Len(base) + 1] = <<>>
    /\ \A i \in 0..Len(base) : build[i] = Added(base, edits, i) \o build[After(edits, i)]

LEMMA EditAtFacts ==
    ASSUME NEW edits, NEW n \in Nat, NEW T, Cut(edits, n, T), NEW e \in edits
    PROVE  /\ EditAt(edits, e.start) = e
           /\ After(edits, e.start) = IF e.end > e.start THEN e.end ELSE e.start + 1
<1>1. EditAt(edits, e.start) \in edits /\ EditAt(edits, e.start).start = e.start
    BY DEF EditAt
<1>2. EditAt(edits, e.start) = e
    BY <1>1 DEF Cut
<1>. QED BY <1>2 DEF After

LEMMA AddedFacts ==
    ASSUME NEW T, NEW base \in Seq(T), NEW edits, Cut(edits, Len(base), T), NEW i \in 0..Len(base)
    PROVE  /\ Kept(base, i) \in Seq(T)
           /\ Added(base, edits, i) \in Seq(T)
           /\ After(edits, i) \in (i + 1)..(Len(base) + 1)
<1>1. Kept(base, i) \in Seq(T)
    BY DEF Kept
<1>2. CASE \E e \in edits : e.start = i
    <2>1. PICK e \in edits : e.start = i
        BY <1>2
    <2>2. EditAt(edits, i) = e
        BY <2>1, EditAtFacts
    <2>3. e.replacement \in Seq(T) /\ e.end \in 0..Len(base)
        BY DEF Cut
    <2>4. Added(base, edits, i) = e.replacement \o (IF e.end > i THEN <<>> ELSE Kept(base, i))
        BY <2>1, <2>2 DEF Added
    <2>5. (IF e.end > i THEN <<>> ELSE Kept(base, i)) \in Seq(T)
        BY <1>1
    <2>6. Added(base, edits, i) \in Seq(T)
        BY <2>3, <2>4, <2>5
    <2>. QED BY <1>1, <2>2, <2>3, <2>6 DEF After
<1>3. CASE ~\E e \in edits : e.start = i
    BY <1>1, <1>3 DEF Added, After
<1>. QED BY <1>2, <1>3

\* The build is a recursive function of the place.
LEMMA BuildExists ==
    ASSUME NEW T, NEW base \in Seq(T), NEW edits, Cut(edits, Len(base), T)
    PROVE  \E build : MergeTokenEdits(base, edits) = build[0] /\ Builds(build, base, edits, T)
<1> DEFINE n == Len(base)
           P == 0..n + 1
           w == [i \in P |-> n + 1 - i]
           Stop == {n + 1}
           next == [i \in P |-> After(edits, i)]
           start == [i \in P |-> <<>>]
           V == Seq(T)
           comb == [x \in P \X V |-> Added(base, edits, x[1]) \o x[2]]
           kept(i) == IF i < Len(base) THEN <<base[i + 1]>> ELSE <<>>
           Value(f, i) == IF i > Len(base) THEN <<>>
                          ELSE IF \E e \in edits : e.start = i
                          THEN LET e == CHOOSE d \in edits : d.start = i IN
                               e.replacement \o IF e.end > i THEN f[e.end] ELSE kept(i) \o f[i + 1]
                          ELSE kept(i) \o f[i + 1]
           Rec(f) == f = [i \in 0..Len(base) + 1 |-> Value(f, i)]
<1>1. n \in Nat
    OBVIOUS
<1>2. \A i \in 0..n : /\ Kept(base, i) \in Seq(T)
                      /\ Added(base, edits, i) \in Seq(T)
                      /\ After(edits, i) \in (i + 1)..(n + 1)
    BY AddedFacts
<1>3. PICK f : Computes(f, P, next, Stop, start, comb, V)
    <2>1. PICK K : K = n + 1
        OBVIOUS
    <2>2. K \in Nat /\ \A i \in P : w[i] \in Nat /\ w[i] <= K
        BY <1>1, <2>1
    <2>3. \A i \in P \ Stop : next[i] \in P /\ w[next[i]] < w[i]
        BY <1>1, <1>2
    <2>4. \A i \in P \cap Stop : start[i] \in V
        OBVIOUS
    <2>5. \A i \in P \ Stop : \A v \in V : comb[<<i, v>>] \in V
        <3>1. \A i \in P \ Stop : \A v \in V : comb[<<i, v>>] = Added(base, edits, i) \o v
            <4>. HIDE DEF V
            <4>. QED OBVIOUS
        <3>2. ASSUME NEW i \in P \ Stop, NEW v \in V
              PROVE  Added(base, edits, i) \o v \in V
            <4>1. i \in 0..n
                BY <1>1
            <4>2. Added(base, edits, i) \in Seq(T) /\ v \in Seq(T)
                BY <1>2, <4>1
            <4>. QED BY <4>2, ConcatProperties
        <3>. HIDE DEF comb
        <3>. QED BY <3>1, <3>2
    <2>. HIDE DEF P, w, Stop, next, start, comb, V
    <2>6. Grounded(P, w, K, next, Stop, start, comb, V)
        BY <2>2, <2>3, <2>4, <2>5 DEF Grounded
    <2>. QED BY <2>6, RecursionFacts
<1>4. f = [i \in P |-> f[i]] /\ \A i \in P : f[i] \in Seq(T)
    BY <1>3 DEF Computes
<1>5. f[n + 1] = <<>>
    <2>1. n + 1 \in P \cap Stop
        BY <1>1
    <2>. HIDE DEF P, Stop
    <2>2. f[n + 1] = start[n + 1]
        BY <1>3, <2>1 DEF Computes
    <2>. QED BY <2>1, <2>2
<1>6. ASSUME NEW i \in 0..n
      PROVE  f[i] = Added(base, edits, i) \o f[After(edits, i)] /\ f[After(edits, i)] \in Seq(T)
    <2>1. i \in P \ Stop /\ After(edits, i) \in P
        BY <1>1, <1>2
    <2>2. f[i] = comb[<<i, f[next[i]]>>] /\ f[next[i]] \in V
        <3>. HIDE DEF P, w, Stop, next, start, comb, V
        <3>. QED BY <1>3, <2>1 DEF Computes
    <2>3. next[i] = After(edits, i)
        BY <2>1
    <2>4. \A v \in V : comb[<<i, v>>] = Added(base, edits, i) \o v
        <3>. HIDE DEF V
        <3>. QED BY <2>1
    <2>. HIDE DEF comb, next
    <2>. QED BY <2>2, <2>3, <2>4
<1>7. Builds(f, base, edits, T)
    <2>1. f \in [P -> Seq(T)]
        <3>. HIDE DEF P
        <3>. QED BY <1>4
    <2>. QED BY <1>5, <1>6, <2>1 DEF Builds
<1>8. ASSUME NEW i \in P
      PROVE  f[i] = Value(f, i)
    <2>1. CASE i = n + 1
        BY <1>1, <1>5, <2>1
    <2>2. CASE i # n + 1
        <3>0. i \in 0..n
            BY <1>1, <2>2
        <3>1. CASE \E e \in edits : e.start = i
            <4>1. PICK e \in edits : e.start = i
                BY <3>1
            <4>2. EditAt(edits, i) = e
                BY <1>1, <4>1, EditAtFacts
            <4>3. e.replacement \in Seq(T) /\ e.end \in 0..n
                BY DEF Cut
            <4>4. Value(f, i) = e.replacement \o IF e.end > i THEN f[e.end] ELSE Kept(base, i) \o f[i + 1]
                <5>1. Value(f, i) = IF i > n THEN <<>> ELSE
                          e.replacement \o IF e.end > i THEN f[e.end] ELSE Kept(base, i) \o f[i + 1]
                    BY <3>1, <4>2 DEF EditAt, Kept
                <5>2. ~(i > n)
                    BY <1>1, <3>0
                <5>. HIDE DEF Value
                <5>. QED BY <5>1, <5>2
            <4>5. CASE e.end > i
                <5>1. Added(base, edits, i) = e.replacement \o <<>> /\ After(edits, i) = e.end
                    BY <3>1, <4>2, <4>5 DEF Added, After
                <5>2. Added(base, edits, i) = e.replacement
                    BY <4>3, <5>1, ConcatEmptySeq
                <5>. HIDE DEF Value
                <5>. QED BY <1>6, <3>0, <4>4, <4>5, <5>1, <5>2
            <4>6. CASE ~(e.end > i)
                <5>1. Added(base, edits, i) = e.replacement \o Kept(base, i) /\ After(edits, i) = i + 1
                    BY <3>1, <4>2, <4>6 DEF Added, After
                <5>2. (e.replacement \o Kept(base, i)) \o f[i + 1] = e.replacement \o (Kept(base, i) \o f[i + 1])
                    <6>1. f[i + 1] \in Seq(T) /\ Kept(base, i) \in Seq(T)
                        BY <1>2, <1>6, <3>0, <5>1
                    <6>2. \A s, t, u \in Seq(T) : (s \o t) \o u = s \o (t \o u)
                        BY ConcatAssociative
                    <6>. QED BY <4>3, <6>1, <6>2
                <5>. HIDE DEF Value
                <5>. QED BY <1>6, <3>0, <4>4, <4>6, <5>1, <5>2
            <4>. QED BY <4>5, <4>6
        <3>2. CASE ~\E e \in edits : e.start = i
            <4>1. Added(base, edits, i) = Kept(base, i) /\ After(edits, i) = i + 1
                BY <3>2 DEF Added, After
            <4>2. Value(f, i) = Kept(base, i) \o f[i + 1]
                <5>1. Value(f, i) = IF i > n THEN <<>> ELSE Kept(base, i) \o f[i + 1]
                    BY <3>2 DEF Kept
                <5>2. ~(i > n)
                    BY <1>1, <3>0
                <5>. HIDE DEF Value
                <5>. QED BY <5>1, <5>2
            <4>. QED BY <1>6, <3>0, <4>1, <4>2
        <3>. QED BY <3>1, <3>2
    <2>. QED BY <2>1, <2>2
<1>9. Rec(f)
    <2>. HIDE DEF Value
    <2>. QED BY <1>4, <1>8
<1>. HIDE DEF Rec
<1>10. PICK build : build = (CHOOSE h : Rec(h)) /\ Rec(build)
    BY <1>9
<1>11. \A i \in P : build[i] = Value(build, i)
    <2>1. build = [i \in P |-> Value(build, i)]
        BY <1>10 DEF Rec
    <2>. HIDE DEF Value, P
    <2>. QED BY <2>1
<1> DEFINE S == {i \in P : build[i] = f[i]}
<1>12. ASSUME NEW i \in P, \A j \in P : w[j] < w[i] => j \in S
       PROVE  i \in S
    <2>1. \A j \in P : j > i => build[j] = f[j]
        <3>1. \A j \in P : j > i => w[j] < w[i]
            BY <1>1
        <3>. HIDE DEF w, P
        <3>. QED BY <1>12, <3>1
    <2>2. i > n \/ i + 1 \in P
        BY <1>1
    <2>3. CASE \E e \in edits : e.start = i
        <3>1. PICK e \in edits : e.start = i
            BY <2>3
        <3>2. EditAt(edits, i) = e
            BY <1>1, <3>1, EditAtFacts
        <3>3. e.end \in P
            BY DEF Cut
        <3>4. \A h : Value(h, i) = IF i > n THEN <<>> ELSE
                        e.replacement \o IF e.end > i THEN h[e.end] ELSE Kept(base, i) \o h[i + 1]
            BY <2>3, <3>2 DEF EditAt, Kept
        <3>5. i \in P
            BY <1>12
        <3>6. i + 1 > i
            OBVIOUS
        <3>7. e.end > i => build[e.end] = f[e.end]
            BY <2>1, <3>3
        <3>8. ~(i > n) => build[i + 1] = f[i + 1]
            BY <2>1, <2>2, <3>6
        <3>. HIDE DEF Value, P
        <3>9. Value(build, i) = Value(f, i)
            BY <3>4, <3>7, <3>8
        <3>. QED BY <1>8, <1>11, <3>5, <3>9
    <2>4. CASE ~\E e \in edits : e.start = i
        <3>1. \A h : Value(h, i) = IF i > n THEN <<>> ELSE Kept(base, i) \o h[i + 1]
            BY <2>4 DEF Kept
        <3>2. ~(i > n) => build[i + 1] = f[i + 1]
            BY <2>1, <2>2
        <3>3. i \in P
            BY <1>12
        <3>. HIDE DEF Value, P
        <3>9. Value(build, i) = Value(f, i)
            BY <3>1, <3>2
        <3>. QED BY <1>8, <1>11, <3>3, <3>9
    <2>. QED BY <2>3, <2>4
<1>13. P \subseteq S
    <2>1. \A i \in P : w[i] \in Nat
        BY <1>1
    <2>. HIDE DEF P, S, w
    <2>. QED BY <1>12, <2>1, Descends
<1>14. build[0] = f[0]
    BY <1>1, <1>13
<1>15. MergeTokenEdits(base, edits) = build[0]
    BY <1>10 DEF MergeTokenEdits, Rec
<1>. HIDE DEF Value
<1>. QED BY <1>7, <1>14, <1>15

-----------------------------------------------------------------------------
(* The edits of a side rebuild it.                                          *)

\* What stands from a pair to the next one: what is between them, then the token of
\* the next one.
FromPair(build, base, side, p, q, T) ==
    /\ SubSeq(side, p[2] + 1, q[2] - 1) \in Seq(T)
    /\ q[1] - 1 \in 0..Len(base)
    /\ build[p[1]] = SubSeq(side, p[2] + 1, q[2] - 1) \o (Kept(base, q[1] - 1) \o build[q[1]])

LEMMA BuildFromPair ==
    ASSUME NEW T, NEW base \in Seq(T), NEW side \in Seq(T), NEW build,
           Builds(build, base, TokenEdits(base, side), T),
           NEW p \in Pairs(base, side), p[1] <= Len(base),
           NEW q \in Pairs(base, side), q = NextPair(base, side, p)
    PROVE  FromPair(build, base, side, p, q, T)
<1>. USE DEF FromPair
<1> DEFINE X == Pairs(base, side)
           n == Len(base)
           m == Len(side)
           E == TokenEdits(base, side)
           G == Gaps(base, side)
           piece == SubSeq(side, p[2] + 1, q[2] - 1)
<1>1. n \in Nat /\ m \in Nat /\ Cut(E, n, T)
    BY EditsCut
<1>2. /\ \A r \in X : r[1] \in 0..(n + 1) /\ r[2] \in 0..(m + 1) /\ r = <<r[1], r[2]>>
      /\ \A r, s \in X : r[1] < s[1] => r[2] < s[2]
      /\ \A r, s \in X : r[1] = s[1] => r = s
    BY <1>1, PairFacts
<1>3. p[1] < q[1] /\ \A r \in X : r[1] > p[1] => q[1] <= r[1]
    BY <1>1, NextPairFacts
<1>4. p[2] < q[2] /\ p[1] \in 0..n /\ p[2] \in 0..(m + 1) /\ q[1] \in 1..(n + 1) /\ q[2] \in 0..(m + 1)
    BY <1>1, <1>2, <1>3
<1>5. piece \in Seq(T)
    <2>1. \A i \in (p[2] + 1)..(q[2] - 1) : side[i] \in T
        BY <1>1, <1>4
    <2>. QED BY <1>4, <2>1, SubSeqProperties
<1>6. \A i \in 0..n : /\ Kept(base, i) \in Seq(T)
                      /\ build[i] = Added(base, E, i) \o build[After(E, i)]
    BY AddedFacts, <1>1 DEF Builds
<1>7. \A i \in 0..n + 1 : build[i] \in Seq(T)
    BY DEF Builds
<1>8. \A e \in E : \E r \in G : e = Edit(base, side, r) /\ e.start = r[1] /\ r \in X
    BY EditsOfGaps DEF Edit, Gaps
<1>9. q[1] - 1 \in 0..n
    BY <1>4
<1>10. \A i \in 0..n : (\A e \in E : e.start # i) => build[i] = Kept(base, i) \o build[i + 1]
    BY <1>6 DEF Added, After
<1>11. CASE p \in G
    <2>1. PICK e \in E : e = Edit(base, side, p)
        BY <1>11, EditsOfGaps
    <2>2. e.start = p[1] /\ e.end = q[1] - 1 /\ e.replacement = piece
        BY <2>1 DEF Edit
    <2>3. EditAt(E, p[1]) = e /\ \E d \in E : d.start = p[1]
        BY <1>1, <2>2, EditAtFacts
    <2>4. CASE q[1] = p[1] + 1
        <3>0. ~(e.end > p[1]) /\ q[1] - 1 = p[1]
            BY <1>4, <2>2, <2>4
        <3>1. Added(base, E, p[1]) = piece \o Kept(base, p[1]) /\ After(E, p[1]) = p[1] + 1
            <4>. HIDE DEF piece, E
            <4>. QED BY <2>2, <2>3, <3>0 DEF Added, After
        <3>2. build[p[1]] = (piece \o Kept(base, p[1])) \o build[q[1]]
            <4>. HIDE DEF piece, E
            <4>. QED BY <1>4, <1>6, <2>4, <3>1
        <3>3. Kept(base, p[1]) \in Seq(T) /\ build[q[1]] \in Seq(T) /\ q[1] - 1 = p[1]
            <4>1. p[1] \in 0..n /\ q[1] \in 0..n + 1
                BY <1>1, <1>4
            <4>. HIDE DEF n, E, X
            <4>. QED BY <1>6, <1>7, <3>0, <4>1
        <3>4. \A s, t, u \in Seq(T) : (s \o t) \o u = s \o (t \o u)
            BY ConcatAssociative
        <3>5. build[p[1]] = piece \o (Kept(base, q[1] - 1) \o build[q[1]])
            <4>. HIDE DEF piece
            <4>1. (piece \o Kept(base, p[1])) \o build[q[1]] = piece \o (Kept(base, p[1]) \o build[q[1]])
                BY <1>5, <3>3, <3>4, Zenon
            <4>2. q[1] - 1 = p[1]
                BY <3>3
            <4>. QED BY <3>2, <4>1, <4>2, Zenon
        <3>. QED BY <1>5, <1>9, <3>5
    <2>5. CASE q[1] # p[1] + 1
        <3>1. q[1] - 1 > p[1]
            BY <1>3, <1>4, <2>5
        <3>2. Added(base, E, p[1]) = piece \o <<>> /\ After(E, p[1]) = q[1] - 1
            BY <2>2, <2>3, <3>1 DEF Added, After
        <3>3. build[p[1]] = piece \o build[q[1] - 1]
            <4>1. piece \o <<>> = piece
                BY <1>5, ConcatEmptySeq
            <4>. QED BY <1>4, <1>6, <3>2, <4>1
        <3>4. ASSUME NEW d \in E, d.start = q[1] - 1
              PROVE  FALSE
            <4>1. PICK r \in X : r[1] = q[1] - 1
                BY <1>8, <3>4
            <4>. QED BY <1>3, <1>4, <3>1, <4>1
        <3>5. build[q[1] - 1] = Kept(base, q[1] - 1) \o build[q[1]]
            <4>1. (q[1] - 1) + 1 = q[1]
                BY <1>4
            <4>. QED BY <1>9, <1>10, <3>4, <4>1
        <3>. QED BY <1>5, <1>9, <3>3, <3>5
    <2>. QED BY <2>4, <2>5
<1>12. CASE p \notin G
    <2>1. q[1] = p[1] + 1 /\ q[2] = p[2] + 1
        BY <1>12 DEF Gaps
    <2>2. ASSUME NEW d \in E, d.start = p[1]
          PROVE  FALSE
        <3>1. PICK r \in G : r[1] = p[1] /\ r \in X
            BY <1>8, <2>2
        <3>. QED BY <1>2, <1>12, <3>1
    <2>3. build[p[1]] = Kept(base, p[1]) \o build[p[1] + 1]
        BY <1>4, <1>10, <2>2
    <2>4. piece = <<>>
        BY <1>4, <2>1, SubSeqEmpty
    <2>5. q[1] - 1 = p[1] /\ build[q[1]] \in Seq(T) /\ Kept(base, p[1]) \in Seq(T)
        BY <1>4, <1>6, <1>7, <2>1
    <2>6. Kept(base, p[1]) \o build[q[1]] \in Seq(T)
        BY <2>5, ConcatProperties
    <2>7. piece \o (Kept(base, p[1]) \o build[q[1]]) = Kept(base, p[1]) \o build[q[1]]
        BY <2>4, <2>6, ConcatEmptySeq
    <2>. QED BY <1>5, <1>9, <2>1, <2>3, <2>5, <2>7
<1>. QED BY <1>11, <1>12

\* A text is what precedes one of its tokens, the token, and what follows.
LEMMA SplitAt ==
    ASSUME NEW T, NEW s \in Seq(T), NEW i \in 1..Len(s), NEW k \in i..Len(s)
    PROVE  SubSeq(s, i, Len(s)) = SubSeq(s, i, k - 1) \o (<<s[k]>> \o SubSeq(s, k + 1, Len(s)))
<1>1. i \in 1..Len(s) + 1 /\ k - 1 \in (i - 1)..Len(s) /\ Len(s) \in (k - 1)..Len(s)
    OBVIOUS
<1>2. SubSeq(s, i, k - 1) \o SubSeq(s, (k - 1) + 1, Len(s)) = SubSeq(s, i, Len(s))
    BY <1>1, ConcatAdjacentSubSeq
<1>3. k \in 1..Len(s) /\ Len(s) \in k..Len(s) /\ (k - 1) + 1 = k
    OBVIOUS
<1>4. SubSeq(s, k, Len(s)) = <<s[k]>> \o SubSeq(s, k + 1, Len(s))
    BY <1>3, SubSeqRecursiveFirst
<1>. QED BY <1>2, <1>3, <1>4

LEMMA EditsRebuild ==
    ASSUME NEW T, NEW base \in Seq(T), NEW side \in Seq(T)
    PROVE  MergeTokenEdits(base, TokenEdits(base, side)) = side
<1> DEFINE X == Pairs(base, side)
           n == Len(base)
           m == Len(side)
           E == TokenEdits(base, side)
           next(p) == NextPair(base, side, p)
<1>1. n \in Nat /\ m \in Nat /\ Cut(E, n, T)
    BY EditsCut
<1>2. PICK build : MergeTokenEdits(base, E) = build[0] /\ Builds(build, base, E, T)
    BY <1>1, BuildExists
<1>3. /\ \A p \in X : /\ p[1] \in 0..(n + 1) /\ p[2] \in 0..(m + 1)
                      /\ p[1] = n + 1 => p[2] = m + 1
                      /\ p[1] = 0 => p[2] = 0
                      /\ p[1] \in 1..n => p[2] \in 1..m /\ base[p[1]] = side[p[2]]
      /\ \A p, q \in X : p[1] < q[1] => p[2] < q[2]
    BY <1>1, PairFacts
<1> DEFINE w == [p \in X |-> n + 1 - p[1]]
           S == {p \in X : p[1] <= n => build[p[1]] = SubSeq(side, p[2] + 1, m)}
<1>4. \A p \in X : w[p] \in Nat /\ w[p] = n + 1 - p[1]
    <2>. HIDE DEF X
    <2>. QED BY <1>1, <1>3
<1>5. ASSUME NEW p \in X, \A q \in X : w[q] < w[p] => q \in S, p[1] <= n
      PROVE  build[p[1]] = SubSeq(side, p[2] + 1, m)
    <2>1. PICK q \in X : q = next(p) /\ p[1] < q[1]
        BY <1>1, <1>5, NextPairFacts
    <2>2. /\ SubSeq(side, p[2] + 1, q[2] - 1) \in Seq(T)
          /\ q[1] - 1 \in 0..n
          /\ build[p[1]] = SubSeq(side, p[2] + 1, q[2] - 1) \o (Kept(base, q[1] - 1) \o build[q[1]])
        <3>1. p[1] <= Len(base) /\ q = NextPair(base, side, p)
            BY <1>5, <2>1
        <3>2. Builds(build, base, TokenEdits(base, side), T)
            BY <1>2
        <3>3. FromPair(build, base, side, p, q, T)
            BY <3>1, <3>2, BuildFromPair
        <3>. QED BY <3>3 DEF FromPair
    <2>3. /\ p[1] \in 0..n /\ q[1] \in 1..(n + 1) /\ p[2] < q[2]
          /\ p[2] \in 0..(m + 1) /\ q[2] \in 0..(m + 1)
        <3>. HIDE DEF X
        <3>. QED BY <1>1, <1>3, <1>5, <2>1
    <2>4. CASE q[1] = n + 1
        <3>1. q[2] = m + 1
            <4>. HIDE DEF X
            <4>. QED BY <1>3, <2>4
        <3>2. Kept(base, q[1] - 1) = <<>> /\ build[q[1]] = <<>>
            BY <1>1, <1>2, <2>4 DEF Kept, Builds
        <3>3. q[2] - 1 = m
            BY <1>1, <3>1
        <3>4. build[p[1]] = SubSeq(side, p[2] + 1, m) \o (<<>> \o <<>>) /\ SubSeq(side, p[2] + 1, m) \in Seq(T)
            BY <2>2, <3>2, <3>3
        <3>5. \A s \in Seq(T) : s \o (<<>> \o <<>>) = s
            <4>1. <<>> \in Seq(T) /\ <<>> \o <<>> = <<>>
                OBVIOUS
            <4>. QED BY <4>1, ConcatEmptySeq
        <3>. QED BY <3>4, <3>5
    <2>5. CASE q[1] # n + 1
        <3>1. q[1] \in 1..n
            BY <1>1, <2>3, <2>5
        <3>2. q[2] \in 1..m /\ base[q[1]] = side[q[2]]
            <4>. HIDE DEF X
            <4>. QED BY <1>3, <3>1
        <3>3. build[q[1]] = SubSeq(side, q[2] + 1, m)
            <4>1. w[q] < w[p]
                <5>. HIDE DEF X, w
                <5>. QED BY <1>1, <1>4, <2>1, <2>3
            <4>2. q \in S
                <5>. HIDE DEF X, w, S
                <5>. QED BY <1>5, <4>1
            <4>. QED BY <1>1, <3>1, <4>2
        <3>4. Kept(base, q[1] - 1) = <<side[q[2]]>>
            <4>1. q[1] - 1 < n /\ (q[1] - 1) + 1 = q[1]
                BY <1>1, <3>1
            <4>. QED BY <3>2, <4>1 DEF Kept
        <3>5. p[2] + 1 \in 1..m /\ q[2] \in (p[2] + 1)..m
            BY <1>1, <2>3, <3>2
        <3>6. SubSeq(side, p[2] + 1, m)
                = SubSeq(side, p[2] + 1, q[2] - 1) \o (<<side[q[2]]>> \o SubSeq(side, q[2] + 1, m))
            BY <3>5, SplitAt
        <3>. QED BY <2>2, <3>3, <3>4, <3>6
    <2>. QED BY <2>4, <2>5
<1>6. X \subseteq S
    <2>1. ASSUME NEW p \in X, \A q \in X : w[q] < w[p] => q \in S
          PROVE  p \in S
        <3>. HIDE DEF X, w
        <3>. QED BY <1>5, <2>1
    <2>. HIDE DEF X, S, w
    <2>. QED BY <1>4, <2>1, Descends
<1>7. <<0, 0>> \in X /\ 0 <= n
    BY <1>1 DEF Pairs
<1>8. build[0] = SubSeq(side, 1, m)
    <2>1. PICK z \in X : z = <<0, 0>>
        BY <1>7
    <2>2. z \in S
        BY <1>6
    <2>3. build[z[1]] = SubSeq(side, z[2] + 1, m)
        <3>1. z[1] <= n
            BY <1>7, <2>1
        <3>. QED BY <2>2, <3>1
    <2>4. z[1] = 0 /\ z[2] + 1 = 1
        BY <2>1
    <2>. QED BY <2>3, <2>4
<1>. QED BY <1>2, <1>8, SubSeqFull

-----------------------------------------------------------------------------
(* Counting tokens.                                                         *)

Count(u, x) == Cardinality({i \in DOMAIN u : u[i] = x})

LEMMA CountOfConcat ==
    ASSUME NEW T, NEW s \in Seq(T), NEW t \in Seq(T), NEW x
    PROVE  /\ Count(s, x) \in Nat /\ Count(t, x) \in Nat
           /\ Count(s \o t, x) = Count(s, x) + Count(t, x)
<1> DEFINE A == {i \in 1..Len(s) : s[i] = x}
           B == {i \in 1..Len(t) : t[i] = x}
           D == {i \in (Len(s) + 1)..(Len(s) + Len(t)) : t[i - Len(s)] = x}
           C == {i \in 1..(Len(s) + Len(t)) : (s \o t)[i] = x}
<1>0. Len(s) \in Nat /\ Len(t) \in Nat
    OBVIOUS
<1>1. A \subseteq 1..Len(s) /\ B \subseteq 1..Len(t)
    OBVIOUS
<1>2. IsFiniteSet(A) /\ IsFiniteSet(B)
    <2>1. IsFiniteSet(1..Len(s)) /\ IsFiniteSet(1..Len(t))
        BY <1>0, FS_Interval
    <2>. HIDE DEF A, B
    <2>. QED BY <1>1, <2>1, FS_Subset
<1>3. IsFiniteSet(D) /\ Cardinality(D) = Cardinality(B)
    <2> DEFINE shift == [i \in B |-> i + Len(s)]
    <2>1. \A i \in B : shift[i] \in D
        BY <1>0
    <2>2. shift \in [B -> D]
        <3>. HIDE DEF D, B
        <3>. QED BY <2>1
    <2>3. \A a, b \in B : shift[a] = shift[b] => a = b
        BY <1>0
    <2>4. ASSUME NEW j \in D
          PROVE  \E i \in B : shift[i] = j
        <3>1. j - Len(s) \in B /\ shift[j - Len(s)] = j
            BY <1>0
        <3>. HIDE DEF B, shift
        <3>. QED BY <3>1
    <2>5. shift \in Bijection(B, D)
        <3>. HIDE DEF B, D, shift
        <3>. QED BY <2>2, <2>3, <2>4 DEF Bijection, Injection, Surjection, IsInjective
    <2>. HIDE DEF B, D, shift
    <2>6. ExistsBijection(B, D)
        BY <2>5 DEF ExistsBijection
    <2>. QED BY <1>2, <2>6, FS_Bijection
<1>4. C = A \cup D
    <2>1. \A i \in 1..(Len(s) + Len(t)) : (s \o t)[i] = IF i <= Len(s) THEN s[i] ELSE t[i - Len(s)]
        BY ConcatProperties
    <2>. QED BY <1>0, <2>1
<1>5. A \cap D = {}
    BY <1>0
<1>6. DOMAIN (s \o t) = 1..(Len(s) + Len(t)) /\ DOMAIN s = 1..Len(s) /\ DOMAIN t = 1..Len(t)
    OBVIOUS
<1>7. Count(s \o t, x) = Cardinality(C) /\ Count(s, x) = Cardinality(A) /\ Count(t, x) = Cardinality(B)
    BY <1>6 DEF Count
<1>. HIDE DEF A, B, C, D
<1>8. Cardinality(A) \in Nat /\ Cardinality(D) \in Nat
    BY <1>2, <1>3, FS_CardinalityType
<1>9. Cardinality(A \cup D) = Cardinality(A) + Cardinality(D) - Cardinality(A \cap D)
    BY <1>2, <1>3, FS_Union
<1>10. Cardinality(A \cap D) = 0
    BY <1>5, FS_EmptySet
<1>. QED BY <1>3, <1>4, <1>7, <1>8, <1>9, <1>10

\* Sums.
LEMMA Carried ==
    ASSUME NEW a \in Nat, NEW b \in Nat, NEW d \in Nat, NEW e \in Nat, NEW m \in Nat,
           NEW u, u = m + b, NEW v, v = m + e, a + v = u + d
    PROVE  a + e = b + d
OBVIOUS

\* No edit starts from i to before k.
Untouched(edits, i, k) == \A e \in edits : ~(i <= e.start /\ e.start < k)

\* The builds f and o add the same tokens from i to k.
SameSoFar(f, o, i, k, x) == Count(f[i], x) + Count(o[k], x) = Count(f[k], x) + Count(o[i], x)

\* Where no edit starts two builds add the same.
LEMMA CountWithoutEdits ==
    ASSUME NEW T, NEW base \in Seq(T), NEW x,
           NEW edits, Cut(edits, Len(base), T), NEW f, Builds(f, base, edits, T),
           NEW others, Cut(others, Len(base), T), NEW o, Builds(o, base, others, T),
           NEW i \in 0..Len(base) + 1, NEW k \in i..Len(base) + 1,
           Untouched(edits, i, k), Untouched(others, i, k)
    PROVE  SameSoFar(f, o, i, k, x)
<1>. USE DEF Untouched
<1> DEFINE n == Len(base)
           S == {j \in 0..(k - i) : Count(f[i], x) + Count(o[i + j], x) = Count(f[i + j], x) + Count(o[i], x)}
<1>1. n \in Nat /\ i \in Nat /\ k \in Nat /\ k - i \in Nat /\ i <= k /\ k <= n + 1
    OBVIOUS
<1>2. \A j \in 0..n + 1 : f[j] \in Seq(T) /\ o[j] \in Seq(T) /\ Count(f[j], x) \in Nat /\ Count(o[j], x) \in Nat
    <2>1. \A j \in 0..n + 1 : f[j] \in Seq(T) /\ o[j] \in Seq(T)
        BY DEF Builds
    <2>2. \A u \in Seq(T) : Count(u, x) \in Nat
        BY CountOfConcat
    <2>. QED BY <2>1, <2>2
<1>3. 0 \in S
    <2>1. i + 0 = i /\ 0 \in 0..(k - i) /\ i \in 0..n + 1
        BY <1>1
    <2>. QED BY <1>2, <2>1
<1>4. ASSUME NEW j \in 0..(k - i) - 1, j \in S
      PROVE  j + 1 \in S
    <2>1. i + j \in 0..n /\ i + (j + 1) = (i + j) + 1 /\ (i + j) + 1 \in 0..n + 1 /\ j + 1 \in 0..(k - i)
          /\ i <= i + j /\ i + j < k
        BY <1>1
    <2>2. PICK l \in 0..n : l = i + j
        BY <2>1
    <2>3. \A e \in edits \cup others : e.start # l
        BY <2>1, <2>2
    <2>4. f[l] = Kept(base, l) \o f[l + 1] /\ o[l] = Kept(base, l) \o o[l + 1] /\ Kept(base, l) \in Seq(T)
        <3>1. Added(base, edits, l) = Kept(base, l) /\ After(edits, l) = l + 1
            BY <2>3 DEF Added, After
        <3>2. Added(base, others, l) = Kept(base, l) /\ After(others, l) = l + 1
            BY <2>3 DEF Added, After
        <3>. QED BY <3>1, <3>2, AddedFacts DEF Builds
    <2>5. Count(f[l], x) = Count(Kept(base, l), x) + Count(f[l + 1], x) /\ Count(o[l], x) = Count(Kept(base, l), x) + Count(o[l + 1], x)
          /\ Count(Kept(base, l), x) \in Nat
        <3>1. f[l + 1] \in Seq(T) /\ o[l + 1] \in Seq(T)
            BY <1>2, <2>1, <2>2
        <3>2. \A s, t \in Seq(T) : Count(s \o t, x) = Count(s, x) + Count(t, x) /\ Count(s, x) \in Nat
            BY CountOfConcat
        <3>. QED BY <2>4, <3>1, <3>2
    <2>6. Count(f[i], x) + Count(o[l], x) = Count(f[l], x) + Count(o[i], x)
        BY <1>4, <2>2
    <2>7. /\ Count(f[i], x) \in Nat /\ Count(o[i], x) \in Nat /\ Count(f[l + 1], x) \in Nat /\ Count(o[l + 1], x) \in Nat
        <3>1. i \in 0..n + 1
            OBVIOUS
        <3>2. l + 1 \in 0..n + 1
            BY <1>1, <2>1, <2>2
        <3>. HIDE DEF n
        <3>. QED BY <1>2, <3>1, <3>2, Zenon
    <2>8. Count(f[i], x) + Count(o[l + 1], x) = Count(f[l + 1], x) + Count(o[i], x)
        <3>1. PICK a \in Nat : a = Count(f[i], x)
            BY <2>7, Zenon
        <3>2. PICK b \in Nat : b = Count(f[l + 1], x)
            BY <2>7, Zenon
        <3>3. PICK d \in Nat : d = Count(o[i], x)
            BY <2>7, Zenon
        <3>4. PICK e \in Nat : e = Count(o[l + 1], x)
            BY <2>7, Zenon
        <3>5. PICK m \in Nat : m = Count(Kept(base, l), x)
            BY <2>5, Zenon
        <3>6. PICK u : u = Count(f[l], x)
            OBVIOUS
        <3>7. PICK v : v = Count(o[l], x)
            OBVIOUS
        <3>8. u = m + b /\ v = m + e /\ a + v = u + d
            BY <2>5, <2>6, <3>1, <3>2, <3>3, <3>4, <3>5, <3>6, <3>7, Zenon
        <3>9. a + e = b + d
            BY <3>8, Carried
        <3>. QED BY <3>1, <3>2, <3>3, <3>4, <3>9, Zenon
    <2>9. i + (j + 1) = l + 1
        BY <2>1, <2>2
    <2>. QED BY <2>1, <2>8, <2>9
<1>5. k - i \in S
    <2>1. \A j \in 0..(k - i) : j \in S
        <3>. HIDE DEF S
        <3>. QED BY <1>1, <1>3, <1>4, Reaches
    <2>. QED BY <1>1, <2>1
<1>6. i + (k - i) = k
    BY <1>1
<1>. QED BY <1>5, <1>6 DEF SameSoFar

\* The edits of two sides of a merge, no two of which meet, and the builds of both, of
\* each and of none.
Sides(base, T, L, R, f, g, h, o) ==
    /\ Cut(L, Len(base), T) /\ Cut(R, Len(base), T) /\ Cut(L \cup R, Len(base), T) /\ L \cap R = {}
    /\ Builds(f, base, L \cup R, T)
    /\ Builds(g, base, L, T)
    /\ Builds(h, base, R, T)
    /\ Builds(o, base, {}, T)

\* Both builds together hold what each side alone does.
Even(f, g, h, o, i, x) == Count(f[i], x) + Count(o[i], x) = Count(g[i], x) + Count(h[i], x)

LEMMA EvenBefore ==
    ASSUME NEW f, NEW g, NEW h, NEW o, NEW i, NEW k, NEW x,
           \A u \in {f[i], g[i], h[i], o[i], f[k], g[k], h[k], o[k]} : Count(u, x) \in Nat,
           SameSoFar(f, g, i, k, x), SameSoFar(h, o, i, k, x), Even(f, g, h, o, k, x)
    PROVE  Even(f, g, h, o, i, x)
<1>1. PICK a \in Nat : a = Count(f[i], x)
    OBVIOUS
<1>2. PICK b \in Nat : b = Count(g[i], x)
    OBVIOUS
<1>3. PICK d \in Nat : d = Count(h[i], x)
    OBVIOUS
<1>4. PICK e \in Nat : e = Count(o[i], x)
    OBVIOUS
<1>5. PICK s \in Nat : s = Count(f[k], x)
    OBVIOUS
<1>6. PICK t \in Nat : t = Count(g[k], x)
    OBVIOUS
<1>7. PICK u \in Nat : u = Count(h[k], x)
    OBVIOUS
<1>8. PICK v \in Nat : v = Count(o[k], x)
    OBVIOUS
<1>9. a + t = s + b /\ d + v = u + e /\ s + v = t + u
    BY <1>1, <1>2, <1>3, <1>4, <1>5, <1>6, <1>7, <1>8, Zenon DEF SameSoFar, Even
<1>10. a + e = b + d
    BY <1>9
<1>. QED BY <1>1, <1>2, <1>3, <1>4, <1>10, Zenon DEF Even

\* A place that is not inside an edit.
Free(edits, i) == \A e \in edits : ~(e.start < i /\ i < e.end)

\* Where an edit of the first side starts.
LEMMA EvenAtEdit ==
    ASSUME NEW T, NEW base \in Seq(T), NEW L, NEW R, NEW f, NEW g, NEW h, NEW o, NEW x,
           Sides(base, T, L, R, f, g, h, o), NEW e \in L,
           \A k \in 0..Len(base) + 1 :
               k > e.start /\ Free(L \cup R, k) => Even(f, g, h, o, k, x)
    PROVE  Even(f, g, h, o, e.start, x)
<1> DEFINE n == Len(base)
           i == e.start
           k == After(L \cup R, i)
           added == Added(base, L \cup R, i)
<1>. USE DEF Sides
<1>1. n \in Nat /\ i \in 0..n /\ e.end \in i..n
    BY DEF Cut
<1>2. EditAt(L \cup R, i) = e /\ EditAt(L, i) = e
    BY <1>1, EditAtFacts
<1>3. (\E d \in L \cup R : d.start = i) /\ (\E d \in L : d.start = i)
    OBVIOUS
<1>4. Added(base, L, i) = added /\ After(L, i) = k
    BY <1>2, <1>3 DEF Added, After
<1>5. k = IF e.end > i THEN e.end ELSE i + 1
    BY <1>2, <1>3 DEF After
<1>6. added \in Seq(T) /\ k \in (i + 1)..(n + 1)
    BY <1>1, AddedFacts
<1>. HIDE DEF added, k
<1>7. f[i] = added \o f[k] /\ g[i] = added \o g[k]
    <2>1. f[i] = Added(base, L \cup R, i) \o f[After(L \cup R, i)]
        BY <1>1 DEF Builds
    <2>2. g[i] = Added(base, L, i) \o g[After(L, i)]
        BY <1>1 DEF Builds
    <2>. QED BY <1>4, <2>1, <2>2 DEF added, k
<1>8. \A j \in 0..n + 1 : f[j] \in Seq(T) /\ g[j] \in Seq(T) /\ h[j] \in Seq(T) /\ o[j] \in Seq(T)
    BY DEF Builds
<1>9. \A s, t \in Seq(T) : Count(s \o t, x) = Count(s, x) + Count(t, x) /\ Count(s, x) \in Nat
    BY CountOfConcat
<1>10. i \in 0..n + 1 /\ k \in 0..n + 1 /\ k > i
    BY <1>1, <1>6
<1>11. \A d \in L \cup R : \/ d = e
                           \/ d.start < i /\ d.end <= i
                           \/ i < d.start /\ e.end <= d.start
    BY DEF Cut
<1>12. \A d \in L \cup R : d.start \in 0..n /\ d.end \in 0..n /\ d.start <= d.end
    BY DEF Cut
<1>13. Even(f, g, h, o, k, x)
    <2>1. Free(L \cup R, k)
        <3>1. ASSUME NEW d \in L \cup R, d.start < k, k < d.end
              PROVE  FALSE
            <4>1. d # e
                BY <1>1, <1>5, <1>6, <3>1
            <4>2. CASE d.start < i /\ d.end <= i
                BY <1>1, <1>10, <1>12, <3>1, <4>2
            <4>3. CASE i < d.start /\ e.end <= d.start
                BY <1>1, <1>5, <1>12, <3>1, <4>3
            <4>. QED BY <1>11, <4>1, <4>2, <4>3
        <3>. QED BY <3>1 DEF Free
    <2>. QED BY <1>10, <2>1
<1>14. SameSoFar(h, o, i, k, x)
    <2>1. ASSUME NEW d \in R, i <= d.start, d.start < k
          PROVE  FALSE
        <3>1. d # e
            OBVIOUS
        <3>2. i < d.start /\ e.end <= d.start
            BY <1>1, <1>11, <1>12, <2>1, <3>1
        <3>. QED BY <1>1, <1>5, <1>12, <2>1, <3>2
    <2>2. k \in i..n + 1
        BY <1>1, <1>10
    <2>3. Untouched(R, i, k)
        BY <2>1 DEF Untouched
    <2>4. Cut({}, Len(base), T) /\ Untouched({}, i, k)
        BY DEF Cut, Untouched
    <2>. QED BY <1>10, <2>2, <2>3, <2>4, CountWithoutEdits
<1>15. \A u \in Seq(T) : Count(u, x) \in Nat
    BY CountOfConcat
<1>16. /\ f[i] \in Seq(T) /\ g[i] \in Seq(T) /\ h[i] \in Seq(T) /\ o[i] \in Seq(T)
       /\ f[k] \in Seq(T) /\ g[k] \in Seq(T) /\ h[k] \in Seq(T) /\ o[k] \in Seq(T)
    BY <1>8, <1>10, Zenon
<1>17. SameSoFar(f, g, i, k, x)
    <2>1. Count(f[i], x) = Count(added, x) + Count(f[k], x) /\ Count(g[i], x) = Count(added, x) + Count(g[k], x)
        BY <1>6, <1>7, <1>9, <1>16
    <2>2. PICK m \in Nat : m = Count(added, x)
        BY <1>6, <1>15
    <2>3. PICK a \in Nat : a = Count(f[k], x)
        BY <1>15, <1>16
    <2>4. PICK b \in Nat : b = Count(g[k], x)
        BY <1>15, <1>16
    <2>5. (m + a) + b = a + (m + b)
        OBVIOUS
    <2>. QED BY <2>1, <2>2, <2>3, <2>4, <2>5, Zenon DEF SameSoFar
<1>18. \A u \in {f[i], g[i], h[i], o[i], f[k], g[k], h[k], o[k]} : Count(u, x) \in Nat
    BY <1>15, <1>16
<1>. QED BY <1>13, <1>14, <1>17, <1>18, EvenBefore

\* What both sides added to and took from the base is in the build of both.
LEMMA CountsAdd ==
    ASSUME NEW T, NEW base \in Seq(T), NEW L, NEW R, NEW f, NEW g, NEW h, NEW o, NEW x,
           Sides(base, T, L, R, f, g, h, o)
    PROVE  Even(f, g, h, o, 0, x)
<1> DEFINE n == Len(base)
           P == 0..n + 1
           w == [i \in P |-> n + 1 - i]
           S == {i \in P : Free(L \cup R, i) => Even(f, g, h, o, i, x)}
<1>1. n \in Nat /\ \A i \in P : w[i] \in Nat
    OBVIOUS
<1>2. Sides(base, T, R, L, f, h, g, o)
    <2>1. R \cup L = L \cup R /\ R \cap L = L \cap R
        OBVIOUS
    <2>. QED BY <2>1 DEF Sides
<1>3. \A d \in L \cup R : d.start \in 0..n /\ d.end \in 0..n /\ d.start <= d.end
    BY DEF Cut, Sides
<1>4. \A j \in P : f[j] \in Seq(T) /\ g[j] \in Seq(T) /\ h[j] \in Seq(T) /\ o[j] \in Seq(T)
    BY DEF Builds, Sides
<1>5. \A s \in Seq(T) : Count(s, x) \in Nat
    BY CountOfConcat
<1>6. \A j \in P : Count(f[j], x) \in Nat /\ Count(g[j], x) \in Nat /\ Count(h[j], x) \in Nat /\ Count(o[j], x) \in Nat
    <2>. HIDE DEF P
    <2>. QED BY <1>4, <1>5
<1>7. ASSUME NEW i \in P, \A j \in P : w[j] < w[i] => j \in S, Free(L \cup R, i)
      PROVE  Even(f, g, h, o, i, x)
    <2>1. \A j \in P : j > i /\ Free(L \cup R, j) => Even(f, g, h, o, j, x)
        <3>1. \A j \in P : j > i => w[j] < w[i]
            BY <1>1
        <3>. HIDE DEF w, P
        <3>. QED BY <1>7, <3>1
    <2>2. CASE \E e \in L : e.start = i
        <3>1. PICK e \in L : e.start = i
            BY <2>2
        <3>. QED BY <2>1, <3>1, EvenAtEdit
    <2>3. CASE \E e \in R : e.start = i
        <3>1. PICK e \in R : e.start = i
            BY <2>3
        <3>2. R \cup L = L \cup R
            OBVIOUS
        <3>3. \A j \in P : j > e.start /\ Free(R \cup L, j) => Even(f, h, g, o, j, x)
            <4>1. \A j \in P : Even(f, g, h, o, j, x) => Even(f, h, g, o, j, x)
                <5>. HIDE DEF P
                <5>. QED BY <1>6 DEF Even
            <4>. HIDE DEF P
            <4>. QED BY <2>1, <3>1, <3>2, <4>1
        <3>4. Even(f, h, g, o, e.start, x)
            BY <1>2, <3>3, EvenAtEdit
        <3>5. Count(f[i], x) + Count(o[i], x) = Count(h[i], x) + Count(g[i], x)
            BY <3>1, <3>4 DEF Even
        <3>6. Count(f[i], x) + Count(o[i], x) = Count(g[i], x) + Count(h[i], x)
            <4>. HIDE DEF P
            <4>. QED BY <1>6, <3>5
        <3>. QED BY <3>6 DEF Even
    <2>4. CASE ~(\E e \in L : e.start = i) /\ ~(\E e \in R : e.start = i)
        <3>1. CASE i = n + 1
            <4>1. f[i] = <<>> /\ g[i] = <<>> /\ h[i] = <<>> /\ o[i] = <<>>
                BY <3>1 DEF Builds, Sides
            <4>. QED BY <4>1 DEF Even
        <3>2. CASE i # n + 1
            <4>1. i \in 0..n + 1 /\ i + 1 \in i..n + 1 /\ i + 1 > i /\ i + 1 \in P
                BY <1>1, <3>2
            <4>2. \A d \in L \cup R : ~(i <= d.start /\ d.start < i + 1)
                BY <1>1, <1>3, <2>4
            <4>3. Free(L \cup R, i + 1)
                <5>1. ASSUME NEW d \in L \cup R, d.start < i + 1, i + 1 < d.end
                      PROVE  FALSE
                    <6>1. d.start < i /\ i < d.end
                        BY <1>1, <1>3, <4>2, <5>1
                    <6>. QED BY <1>7, <6>1 DEF Free
                <5>. QED BY <5>1 DEF Free
            <4>4. Even(f, g, h, o, i + 1, x)
                <5>. HIDE DEF P
                <5>. QED BY <2>1, <4>1, <4>3
            <4>5. /\ Untouched(L \cup R, i, i + 1) /\ Untouched(L, i, i + 1) /\ Untouched(R, i, i + 1)
                  /\ Untouched({}, i, i + 1) /\ Cut({}, Len(base), T)
                BY <4>2 DEF Untouched, Cut
            <4>6. SameSoFar(f, g, i, i + 1, x)
                BY <4>1, <4>5, CountWithoutEdits DEF Sides
            <4>7. SameSoFar(h, o, i, i + 1, x)
                BY <4>1, <4>5, CountWithoutEdits DEF Sides
            <4>8. \A u \in {f[i], g[i], h[i], o[i], f[i + 1], g[i + 1], h[i + 1], o[i + 1]} : Count(u, x) \in Nat
                <5>. HIDE DEF P
                <5>. QED BY <1>6, <4>1
            <4>. QED BY <4>4, <4>6, <4>7, <4>8, EvenBefore
        <3>. QED BY <3>1, <3>2
    <2>. QED BY <2>2, <2>3, <2>4
<1>8. P \subseteq S
    <2>1. ASSUME NEW i \in P, \A j \in P : w[j] < w[i] => j \in S
          PROVE  i \in S
        <3>. HIDE DEF w, P
        <3>. QED BY <1>7, <2>1
    <2>. HIDE DEF P, S, w
    <2>. QED BY <1>1, <2>1, Descends
<1>9. 0 \in P /\ Free(L \cup R, 0)
    BY <1>1, <1>3 DEF Free
<1>. QED BY <1>8, <1>9

-----------------------------------------------------------------------------
(* The merge.                                                               *)

LEMMA NoEditsRebuild ==
    ASSUME NEW T, NEW base \in Seq(T), NEW o, Builds(o, base, {}, T)
    PROVE  o[0] = base
<1> DEFINE n == Len(base)
           P == 0..n
           w == [i \in P |-> n - i]
           S == {i \in P : o[i] = SubSeq(base, i + 1, n)}
<1>1. n \in Nat /\ \A i \in P : w[i] \in Nat
    OBVIOUS
<1>2. Cut({}, n, T)
    BY DEF Cut
<1>3. \A i \in P : o[i] = Kept(base, i) \o o[i + 1]
    BY DEF Builds, Added, After
<1>4. ASSUME NEW i \in P, \A j \in P : w[j] < w[i] => j \in S
      PROVE  i \in S
    <2>1. CASE i = n
        <3>1. Kept(base, i) = <<>> /\ o[i + 1] = <<>>
            BY <1>1, <2>1 DEF Kept, Builds
        <3>2. o[i] = <<>>
            BY <1>3, <3>1
        <3>3. SubSeq(base, i + 1, n) = <<>>
            BY <1>1, <2>1, SubSeqEmpty
        <3>. QED BY <3>2, <3>3
    <2>2. CASE i # n
        <3>1. i + 1 \in P /\ i + 1 \in 1..n /\ n \in (i + 1)..n /\ w[i + 1] < w[i] /\ i < n
            BY <1>1, <2>2
        <3>2. o[i + 1] = SubSeq(base, (i + 1) + 1, n)
            <4>1. i + 1 \in S
                <5>. HIDE DEF P, w, S
                <5>. QED BY <1>4, <3>1
            <4>. QED BY <4>1
        <3>3. Kept(base, i) = <<base[i + 1]>>
            BY <3>1 DEF Kept
        <3>4. SubSeq(base, i + 1, n) = <<base[i + 1]>> \o SubSeq(base, (i + 1) + 1, n)
            BY <3>1, SubSeqRecursiveFirst
        <3>. QED BY <1>3, <3>2, <3>3, <3>4
    <2>. QED BY <2>1, <2>2
<1>5. P \subseteq S
    <2>. HIDE DEF P, S, w
    <2>. QED BY <1>1, <1>4, Descends
<1>6. o[0] = SubSeq(base, 1, n)
    <2>1. 0 \in P
        BY <1>1
    <2>2. 0 \in S
        BY <1>5, <2>1
    <2>. QED BY <2>2
<1>. QED BY <1>6, SubSeqFull

\* Edits that are all different and do not clash follow one another.
LEMMA NoClashCut ==
    ASSUME NEW n \in Nat, NEW T, NEW L, NEW R, Cut(L, n, T), Cut(R, n, T), L \cap R = {},
           ~\E d \in L, e \in R : Clash(d, e)
    PROVE  Cut(L \cup R, n, T)
<1>1. \A e \in L \cup R : /\ e \in [start : 0..n, end : 0..n, replacement : Seq(T)]
                          /\ e.start <= e.end /\ e.start \in 0..n /\ e.end \in 0..n
    BY DEF Cut
<1>2. ASSUME NEW d \in L, NEW e \in R
      PROVE  \/ d.start < e.start /\ d.end <= e.start
             \/ e.start < d.start /\ e.end <= d.start
    <2>1. d # e /\ ~Clash(d, e)
        OBVIOUS
    <2>2. d.start # e.start /\ ~(d.start < e.start /\ e.start < d.end) /\ ~(e.start < d.start /\ d.start < e.end)
        BY <2>1 DEF Clash
    <2>. QED BY <1>1, <2>2
<1>3. ASSUME NEW d \in L \cup R, NEW e \in L \cup R
      PROVE  \/ d = e
             \/ d.start < e.start /\ d.end <= e.start
             \/ e.start < d.start /\ e.end <= d.start
    <2>1. CASE d \in L /\ e \in L
        BY <2>1 DEF Cut
    <2>2. CASE d \in R /\ e \in R
        BY <2>2 DEF Cut
    <2>3. CASE (d \in L /\ e \in R) \/ (d \in R /\ e \in L)
        BY <1>2, <2>3
    <2>. QED BY <2>1, <2>2, <2>3
<1>. QED BY <1>1, <1>3 DEF Cut

LEMMA MergeCounts ==
    ASSUME NEW T, NEW base \in Seq(T), NEW left \in Seq(T), NEW right \in Seq(T), NEW x,
           NEW L, L = TokenEdits(base, left), NEW R, R = TokenEdits(base, right), L \cap R = {},
           ~\E d \in L, e \in R : Clash(d, e)
    PROVE  Count(MergeTokenEdits(base, L \cup R), x) + Count(base, x) = Count(left, x) + Count(right, x)
<1>1. Len(base) \in Nat
    OBVIOUS
<1>2. Cut(L, Len(base), T) /\ Cut(R, Len(base), T) /\ Cut({}, Len(base), T)
    BY EditsCut DEF Cut
<1>3. Cut(L \cup R, Len(base), T)
    BY <1>1, <1>2, NoClashCut
<1>4. PICK f : MergeTokenEdits(base, L \cup R) = f[0] /\ Builds(f, base, L \cup R, T)
    BY <1>3, BuildExists
<1>5. PICK g : MergeTokenEdits(base, L) = g[0] /\ Builds(g, base, L, T)
    BY <1>2, BuildExists
<1>6. PICK h : MergeTokenEdits(base, R) = h[0] /\ Builds(h, base, R, T)
    BY <1>2, BuildExists
<1>7. PICK o : MergeTokenEdits(base, {}) = o[0] /\ Builds(o, base, {}, T)
    BY <1>2, BuildExists
<1>8. g[0] = left /\ h[0] = right /\ o[0] = base
    BY <1>5, <1>6, <1>7, EditsRebuild, NoEditsRebuild
<1>9. Sides(base, T, L, R, f, g, h, o)
    BY <1>2, <1>3, <1>4, <1>5, <1>6, <1>7 DEF Sides
<1>10. Even(f, g, h, o, 0, x)
    BY <1>9, CountsAdd
<1>. QED BY <1>4, <1>8, <1>10 DEF Even

\* Left and right can be exchanged.
LEMMA MergeCommutes ==
    ASSUME NEW base, NEW left, NEW right
    PROVE  MergeTokenText(base, left, right) = MergeTokenText(base, right, left)
<1> DEFINE L == TokenEdits(base, left)
           R == TokenEdits(base, right)
<1>1. \A d, e : Clash(d, e) <=> Clash(e, d)
    BY DEF Clash
<1>2. (\E d \in L, e \in R : Clash(d, e)) <=> (\E d \in R, e \in L : Clash(d, e))
    BY <1>1, Zenon
<1>3. L \cup R = R \cup L
    OBVIOUS
<1>4. CASE left = right
    BY <1>4
<1>5. CASE left # right /\ (right = base \/ left = base)
    <2>1. CASE right = base
        BY <1>5, <2>1 DEF MergeTokenText
    <2>2. CASE left = base
        BY <1>5, <2>2 DEF MergeTokenText
    <2>. QED BY <1>5, <2>1, <2>2
<1>6. CASE left # right /\ right # base /\ left # base
    <2>1. MergeTokenText(base, left, right)
            = IF \E d \in L, e \in R : Clash(d, e) THEN {} ELSE {MergeTokenEdits(base, L \cup R)}
        BY <1>6 DEF MergeTokenText
    <2>2. MergeTokenText(base, right, left)
            = IF \E d \in R, e \in L : Clash(d, e) THEN {} ELSE {MergeTokenEdits(base, R \cup L)}
        BY <1>6 DEF MergeTokenText
    <2>. HIDE DEF L, R
    <2>. QED BY <1>2, <1>3, <2>1, <2>2
<1>. QED BY <1>4, <1>5, <1>6

\* A merge is computed from the texts it was given.
MergeInv ==
    Merging =>
        /\ job \in [base : TokenTexts, left : TokenTexts, right : TokenTexts, deleted : BOOLEAN]
        /\ patches = <<>> /\ applied \in {0, 1}
        /\ applied = 1 => text = ResolveTokenConflicts(job)

\* A merge does not depend on which side is called left, and when the two sides share no
\* edit it holds, token by token, what both added to and took from the base, for texts of
\* every length.
THEOREM MergeIsSound == PatchesSpec => []MergeSound
<1>1. PatchesInit => MergeInv
    <2>. SUFFICES ASSUME PatchesInit, Merging PROVE MergeInv
        BY DEF MergeInv
    <2>1. job \notin [old : Sources, new : Sources, cover : Covers]
        BY DEF Merging
    <2>. QED BY <2>1 DEF PatchesInit, MergeInv
<1>2. MergeInv /\ [PatchesNext]_patchVars => MergeInv'
    <2>. SUFFICES ASSUME MergeInv, [PatchesNext]_patchVars, Merging' PROVE MergeInv'
        BY DEF MergeInv
    <2>. USE DEF MergeInv
    <2>1. CASE Bind
        BY <2>1 DEF Bind, Merging
    <2>2. CASE Project
        <3>1. job' = job /\ Merging
            BY <2>2 DEF Project, Merging
        <3>2. patches = <<>> /\ applied \in {0, 1}
            BY <3>1
        <3>. QED BY <2>2, <3>2 DEF Project
    <2>3. CASE MergeSides
        BY <2>3 DEF MergeSides, Merging
    <2>4. CASE UNCHANGED patchVars
        BY <2>4 DEF patchVars, Merging
    <2>. QED BY <2>1, <2>2, <2>3, <2>4 DEF PatchesNext
<1>3. MergeInv => MergeSound
    <2>. SUFFICES ASSUME MergeInv, Merging, applied = 1, ~job.deleted PROVE MergeSound
        BY DEF MergeSound
    <2> DEFINE base == job.base
               left == job.left
               right == job.right
               L == TokenEdits(base, left)
               R == TokenEdits(base, right)
               T == UNION {Range(t) : t \in TokenTexts}
    <2>1. base \in TokenTexts /\ left \in TokenTexts /\ right \in TokenTexts
        BY DEF MergeInv
    <2>2. text = MergeTokenText(base, left, right)
        BY DEF MergeInv, ResolveTokenConflicts
    <2>3. text = MergeTokenText(base, right, left)
        BY <2>2, MergeCommutes
    <2>4. base \in Seq(T) /\ left \in Seq(T) /\ right \in Seq(T)
        <3>1. \A t \in TokenTexts : t \in Seq(Range(t)) /\ Range(t) \subseteq T
            BY TextAssumption
        <3>. HIDE DEF base, left, right, T
        <3>. QED BY <2>1, <3>1, SeqMonotonic
    <2>5. ASSUME left # right, NEW t \in text, NEW x, L \cap R = {}
          PROVE  Count(t, x) + Count(base, x) = Count(left, x) + Count(right, x)
        <3>1. /\ Count(left, x) \in Nat /\ Count(right, x) \in Nat /\ Count(base, x) \in Nat
            BY <2>4, CountOfConcat
        <3>2. CASE right = base
            <4>1. t = left
                BY <2>2, <2>5, <3>2 DEF MergeTokenText
            <4>. QED BY <3>2, <4>1
        <3>3. CASE right # base /\ left = base
            <4>1. t = right
                BY <2>2, <2>5, <3>3 DEF MergeTokenText
            <4>2. Count(right, x) + Count(base, x) = Count(base, x) + Count(right, x)
                <5>1. \A a, b \in Nat : a + b = b + a
                    OBVIOUS
                <5>. QED BY <3>1, <5>1, Zenon
            <4>. QED BY <3>3, <4>1, <4>2, Zenon
        <3>4. CASE right # base /\ left # base
            <4>1. t = MergeTokenEdits(base, L \cup R) /\ ~\E d \in L, e \in R : Clash(d, e)
                BY <2>2, <2>5, <3>4 DEF MergeTokenText
            <4>. HIDE DEF base, left, right, T
            <4>. QED BY <2>4, <2>5, <4>1, MergeCounts
        <3>. QED BY <3>2, <3>3, <3>4
    <2>. HIDE DEF base, left, right, L, R
    <2>. QED BY <2>3, <2>5, Zenon DEF MergeSound, Count, base, left, right, L, R
<1>. QED BY <1>1, <1>2, <1>3, PTL DEF PatchesSpec

-----------------------------------------------------------------------------
(* The lines of a change.                                                   *)

\* The next place of the walk of changed_line_ranges where lines differ.
OnwardNew(p, old, new) ==
    IF Common(old, new)[<<p[1] + 1, p[2]>>] > Common(old, new)[<<p[1], p[2] + 1>>]
    THEN <<p[1] + 1, p[2]>> ELSE <<p[1], p[2] + 1>>

Passes(pass, p, old, new) ==
    /\ pass[p] \in Places(old, new)
    /\ pass[p] = IF p[1] = Len(old) \/ p[2] = Len(new) THEN <<Len(old), Len(new)>>
                 ELSE IF old[p[1] + 1] = new[p[2] + 1] THEN p ELSE pass[OnwardNew(p, old, new)]

LEMMA PassExists ==
    ASSUME NEW old, Len(old) \in Nat, NEW new, Len(new) \in Nat
    PROVE  \A p \in Places(old, new) : Passes(Passed(old, new), p, old, new)
<1> DEFINE P == Places(old, new)
           w == Distance(old, new)
           lcs == Common(old, new)
           end == <<Len(old), Len(new)>>
           Stop == {p \in P : p[1] = Len(old) \/ p[2] = Len(new) \/ old[p[1] + 1] = new[p[2] + 1]}
           next == [p \in P |-> OnwardNew(p, old, new)]
           base == [p \in P |-> IF p[1] = Len(old) \/ p[2] = Len(new) THEN end ELSE p]
           comb == [x \in P \X P |-> x[2]]
           Rec(f) == f = [p \in Places(old, new) |->
                             LET i == p[1]  j == p[2] IN
                             IF i = Len(old) \/ j = Len(new) THEN <<Len(old), Len(new)>>
                             ELSE IF old[i + 1] = new[j + 1] THEN p
                             ELSE f[IF lcs[<<i + 1, j>>] > lcs[<<i, j + 1>>]
                                    THEN <<i + 1, j>> ELSE <<i, j + 1>>]]
           Value(f, p) == IF p[1] = Len(old) \/ p[2] = Len(new) THEN end
                          ELSE IF old[p[1] + 1] = new[p[2] + 1] THEN p ELSE f[OnwardNew(p, old, new)]
<1>1. /\ \A p \in P : /\ p[1] \in 0..Len(old) /\ p[2] \in 0..Len(new) /\ p = <<p[1], p[2]>>
                      /\ w[p] \in Nat /\ w[p] <= Len(old) + Len(new)
      /\ \A p, q \in P : p[1] <= q[1] /\ p[2] <= q[2] /\ p # q => w[q] < w[p]
      /\ \A p \in P : p[1] < Len(old) => <<p[1] + 1, p[2]>> \in P
      /\ \A p \in P : p[2] < Len(new) => <<p[1], p[2] + 1>> \in P
      /\ end \in P
    BY PlaceFacts
<1>2. \A f : Rec(f) <=> f = [p \in P |-> Value(f, p)]
    BY DEF OnwardNew
<1>3. \A p \in P : p \notin Stop => p[1] < Len(old) /\ p[2] < Len(new)
    BY <1>1
<1>4. \A p \in P : p \notin Stop => OnwardNew(p, old, new) \in P /\ w[OnwardNew(p, old, new)] < w[p]
    <2>1. ASSUME NEW p \in P, NEW q \in P, q \in {<<p[1] + 1, p[2]>>, <<p[1], p[2] + 1>>}
          PROVE  w[q] < w[p]
        <3>1. p[1] <= q[1] /\ p[2] <= q[2] /\ p # q
            BY <1>1, <2>1
        <3>. QED BY <1>1, <3>1
    <2>. HIDE DEF P, w, Stop
    <2>. QED BY <1>1, <1>3, <2>1 DEF OnwardNew
<1>5. PICK f : Computes(f, P, next, Stop, base, comb, P)
    <2>1. PICK K : K = Len(old) + Len(new)
        OBVIOUS
    <2>2. K \in Nat /\ \A p \in P : w[p] \in Nat /\ w[p] <= K
        BY <1>1, <2>1
    <2>3. \A p \in P \ Stop : next[p] \in P /\ w[next[p]] < w[p]
        BY <1>4
    <2>4. \A p \in P \cap Stop : base[p] \in P
        <3>. HIDE DEF P, end
        <3>. QED BY <1>1
    <2>5. \A p \in P \ Stop : \A v \in P : comb[<<p, v>>] \in P
        <3>. HIDE DEF P
        <3>. QED OBVIOUS
    <2>. HIDE DEF P, w, Stop, next, base, comb
    <2>6. Grounded(P, w, K, next, Stop, base, comb, P)
        BY <2>2, <2>3, <2>4, <2>5 DEF Grounded
    <2>. QED BY <2>6, RecursionFacts
<1>6. /\ f = [p \in P |-> f[p]]
      /\ \A p \in P : f[p] \in P
      /\ \A p \in P \cap Stop : f[p] = base[p]
      /\ \A p \in P \ Stop : f[p] = comb[<<p, f[next[p]]>>] /\ f[next[p]] \in P
    <2>. HIDE DEF P, Stop, next, base, comb
    <2>. QED BY <1>5 DEF Computes
<1>7. \A p \in P : f[p] = Value(f, p)
    <2>1. ASSUME NEW p \in P, p \in Stop
          PROVE  f[p] = Value(f, p)
        <3>. HIDE DEF P, end
        <3>. QED BY <1>6, <2>1
    <2>2. ASSUME NEW p \in P, p \notin Stop
          PROVE  f[p] = Value(f, p)
        <3>1. f[p] = comb[<<p, f[OnwardNew(p, old, new)]>>] /\ f[OnwardNew(p, old, new)] \in P
            BY <1>6, <2>2
        <3>2. \A v \in P : comb[<<p, v>>] = v
            <4>. HIDE DEF P
            <4>. QED OBVIOUS
        <3>3. f[p] = f[OnwardNew(p, old, new)]
            <4>. HIDE DEF comb, P
            <4>. QED BY <3>1, <3>2
        <3>. QED BY <2>2, <3>3
    <2>. QED BY <2>1, <2>2
<1>8. Rec(f)
    <2>1. f = [p \in P |-> Value(f, p)]
        <3>. HIDE DEF Value, P
        <3>. QED BY <1>6, <1>7
    <2>. HIDE DEF Rec, Value
    <2>. QED BY <1>2, <2>1
<1>. HIDE DEF Rec
<1>9. PICK pass : pass = (CHOOSE h : Rec(h)) /\ Rec(pass)
    BY <1>8
<1>10. Passed(old, new) = pass
    BY <1>9 DEF Passed, Rec
<1>11. pass = [p \in P |-> Value(pass, p)]
    BY <1>2, <1>9
<1>12. \A p \in P : pass[p] = Value(pass, p)
    <2>. HIDE DEF Value, P
    <2>. QED BY <1>11
<1> DEFINE S == {p \in P : pass[p] \in P}
<1>13. ASSUME NEW p \in P, \A q \in P : w[q] < w[p] => q \in S
       PROVE  p \in S
    <2>1. CASE p \in Stop
        <3>1. Value(pass, p) \in {end, p}
            BY <2>1
        <3>. HIDE DEF P, Value, end
        <3>. QED BY <1>1, <1>12, <3>1
    <2>2. CASE p \notin Stop
        <3>1. Value(pass, p) = pass[OnwardNew(p, old, new)]
            BY <2>2
        <3>2. OnwardNew(p, old, new) \in S
            <4>. HIDE DEF P, S, w, Stop
            <4>. QED BY <1>4, <1>13, <2>2
        <3>. HIDE DEF P, Value
        <3>. QED BY <1>12, <3>1, <3>2
    <2>. QED BY <2>1, <2>2
<1>14. P \subseteq S
    <2>1. \A p \in P : w[p] \in Nat
        BY <1>1
    <2>. HIDE DEF P, S, w
    <2>. QED BY <1>13, <2>1, Descends
<1>. QED BY <1>10, <1>12, <1>14 DEF Passes

\* It goes on, or stands at lines that are equal.
LEMMA PassFacts ==
    ASSUME NEW old, Len(old) \in Nat, NEW new, Len(new) \in Nat,
           NEW P, P = Places(old, new), NEW pass, pass = Passed(old, new)
    PROVE  \A p \in P : /\ pass[p] \in P /\ p[1] <= pass[p][1] /\ p[2] <= pass[p][2]
                        /\ p[1] = Len(old) \/ p[2] = Len(new) => pass[p] = <<Len(old), Len(new)>>
                        /\ pass[p] = p => \/ p = <<Len(old), Len(new)>>
                                          \/ /\ p[1] < Len(old) /\ p[2] < Len(new)
                                             /\ old[p[1] + 1] = new[p[2] + 1]
<1> DEFINE w == Distance(old, new)
           end == <<Len(old), Len(new)>>
<1>1. /\ \A p \in P : /\ p[1] \in 0..Len(old) /\ p[2] \in 0..Len(new) /\ p = <<p[1], p[2]>>
                      /\ w[p] \in Nat /\ w[p] <= Len(old) + Len(new)
      /\ \A p, q \in P : p[1] <= q[1] /\ p[2] <= q[2] /\ p # q => w[q] < w[p]
      /\ \A p \in P : p[1] < Len(old) => <<p[1] + 1, p[2]>> \in P
      /\ \A p \in P : p[2] < Len(new) => <<p[1], p[2] + 1>> \in P
      /\ end \in P
    BY PlaceFacts
<1>2. \A p \in P : pass[p] \in P
    BY PassExists DEF Passes
<1>3. \A p \in P :
         pass[p] = IF p[1] = Len(old) \/ p[2] = Len(new) THEN end
                   ELSE IF old[p[1] + 1] = new[p[2] + 1] THEN p ELSE pass[OnwardNew(p, old, new)]
    BY PassExists DEF Passes
<1> DEFINE S == {p \in P : p[1] <= pass[p][1] /\ p[2] <= pass[p][2]
                           /\ (pass[p] = p => \/ p = end
                                              \/ /\ p[1] < Len(old) /\ p[2] < Len(new)
                                                 /\ old[p[1] + 1] = new[p[2] + 1])}
<1>4. ASSUME NEW p \in P, \A q \in P : w[q] < w[p] => q \in S
      PROVE  p \in S
    <2>1. CASE p[1] = Len(old) \/ p[2] = Len(new)
        <3>1. pass[p] = end
            BY <1>3, <2>1
        <3>. QED BY <1>1, <3>1
    <2>2. CASE ~(p[1] = Len(old) \/ p[2] = Len(new)) /\ old[p[1] + 1] = new[p[2] + 1]
        <3>1. pass[p] = p
            BY <1>3, <2>2
        <3>2. p[1] < Len(old) /\ p[2] < Len(new)
            BY <1>1, <2>2
        <3>. QED BY <1>1, <2>2, <3>1, <3>2
    <2>3. CASE ~(p[1] = Len(old) \/ p[2] = Len(new)) /\ old[p[1] + 1] # new[p[2] + 1]
        <3>1. p[1] < Len(old) /\ p[2] < Len(new)
            BY <1>1, <2>3
        <3>2. PICK q : q = OnwardNew(p, old, new)
            OBVIOUS
        <3>3. q \in P /\ p[1] <= q[1] /\ p[2] <= q[2] /\ (p[1] < q[1] \/ p[2] < q[2])
            <4>1. CASE q = <<p[1] + 1, p[2]>>
                BY <1>1, <3>1, <4>1
            <4>2. CASE q = <<p[1], p[2] + 1>>
                BY <1>1, <3>1, <4>2
            <4>. QED BY <3>2, <4>1, <4>2 DEF OnwardNew
        <3>4. pass[p] = pass[q]
            BY <1>3, <2>3, <3>2
        <3>5. w[q] < w[p]
            <4>1. p # q
                BY <1>1, <3>3
            <4>. QED BY <1>1, <3>3, <4>1
        <3>6. q \in S
            <4>. HIDE DEF S, w
            <4>. QED BY <1>4, <3>3, <3>5
        <3>7. PICK r \in P : r = pass[p]
            BY <1>2
        <3>8. p[1] <= r[1] /\ p[2] <= r[2] /\ (p[1] < r[1] \/ p[2] < r[2])
            BY <1>1, <3>3, <3>4, <3>6, <3>7
        <3>. QED BY <1>1, <3>7, <3>8
    <2>. QED BY <2>1, <2>2, <2>3
<1>5. P \subseteq S
    <2>1. \A p \in P : w[p] \in Nat
        BY <1>1
    <2>. HIDE DEF S, w
    <2>. QED BY <1>4, <2>1, Descends
<1>. QED BY <1>2, <1>3, <1>5

LEMMA SmallerOfTwo ==
    ASSUME NEW a \in Nat, NEW b \in Nat
    PROVE  Min({a, b}) = IF a <= b THEN a ELSE b
<1>1. \E c \in {a, b} : \A d \in {a, b} : c <= d
    OBVIOUS
<1>2. Min({a, b}) \in {a, b} /\ \A d \in {a, b} : Min({a, b}) <= d
    BY <1>1 DEF Min
<1>. QED BY <1>2

\* The lines reported for a step of the walk.
Differing(new, p, to) ==
    IF to[2] > p[2] THEN p[2] + 1..to[2] ELSE {IF p[2] < Len(new) THEN p[2] + 1 ELSE Len(new)}

\* The lines reported from a place on.
Reports(lines, p, old, new) ==
    LET to == Passed(old, new)[p] IN
    lines[p] = IF p = <<Len(old), Len(new)>> THEN {}
               ELSE IF to = p THEN lines[<<p[1] + 1, p[2] + 1>>]
               ELSE Differing(new, p, to) \cup lines[to]

LEMMA LinesExist ==
    ASSUME NEW old, Len(old) \in Nat, NEW new, Len(new) \in Nat, ~(old # <<>> /\ new = <<>>)
    PROVE  \E lines : /\ ChangedLines(old, new) = lines[<<0, 0>>]
                      /\ \A p \in Places(old, new) : Reports(lines, p, old, new)
<1> DEFINE P == Places(old, new)
           w == Distance(old, new)
           pass == Passed(old, new)
           end == <<Len(old), Len(new)>>
           Stop == {end}
           next == [p \in P |-> IF pass[p] = p THEN <<p[1] + 1, p[2] + 1>> ELSE pass[p]]
           base == [p \in P |-> {}]
           V == SUBSET Nat
           comb == [x \in P \X V |-> IF pass[x[1]] = x[1] THEN x[2]
                                     ELSE Differing(new, x[1], pass[x[1]]) \cup x[2]]
           Source(f, p) == LET j == p[2]
                               to == pass[p] IN
                           IF p = <<Len(old), Len(new)>> THEN {}
                           ELSE IF to = p THEN f[<<p[1] + 1, j + 1>>]
                           ELSE (IF to[2] > j THEN j + 1..to[2] ELSE {Min({j + 1, Len(new)})}) \cup f[to]
           Rec(f) == f = [p \in Places(old, new) |-> Source(f, p)]
           Value(f, p) == IF p = end THEN {}
                          ELSE IF pass[p] = p THEN f[<<p[1] + 1, p[2] + 1>>]
                          ELSE Differing(new, p, pass[p]) \cup f[pass[p]]
<1>1. /\ \A p \in P : /\ p[1] \in 0..Len(old) /\ p[2] \in 0..Len(new) /\ p = <<p[1], p[2]>>
                      /\ w[p] \in Nat /\ w[p] <= Len(old) + Len(new)
      /\ \A p, q \in P : p[1] <= q[1] /\ p[2] <= q[2] /\ p # q => w[q] < w[p]
      /\ \A p \in P : p[1] < Len(old) /\ p[2] < Len(new) => <<p[1] + 1, p[2] + 1>> \in P
      /\ end \in P
    BY PlaceFacts
<1>2. \A p \in P : /\ pass[p] \in P /\ p[1] <= pass[p][1] /\ p[2] <= pass[p][2]
                   /\ pass[p] = p => p = end \/ (p[1] < Len(old) /\ p[2] < Len(new))
    BY PassFacts
<1>3. \A f : Rec(f) <=> f = [p \in P |-> Value(f, p)]
    <2>1. ASSUME NEW p \in P
          PROVE  Min({p[2] + 1, Len(new)}) = IF p[2] < Len(new) THEN p[2] + 1 ELSE Len(new)
        <3>1. p[2] \in 0..Len(new) /\ p[2] + 1 \in Nat
            BY <1>1
        <3>2. Min({p[2] + 1, Len(new)}) = IF p[2] + 1 <= Len(new) THEN p[2] + 1 ELSE Len(new)
            BY <3>1, SmallerOfTwo
        <3>. QED BY <3>1, <3>2
    <2>2. ASSUME NEW f, NEW p \in P
          PROVE  Value(f, p) = Source(f, p)
        <3>. HIDE DEF P, pass
        <3>. QED BY <2>1 DEF Differing
    <2>3. \A f : [p \in P |-> Value(f, p)] = [p \in P |-> Source(f, p)]
        <3>. HIDE DEF Value, Source, P
        <3>. QED BY <2>2
    <2>. HIDE DEF Value, Source
    <2>. QED BY <2>3
<1>4. \A p \in P \ Stop : next[p] \in P /\ w[next[p]] < w[p]
    <2>1. ASSUME NEW p \in P, p # end
          PROVE  next[p] \in P /\ w[next[p]] < w[p]
        <3>1. CASE pass[p] = p
            <4>1. PICK q : q = <<p[1] + 1, p[2] + 1>>
                OBVIOUS
            <4>2. q \in P
                BY <1>1, <1>2, <2>1, <3>1, <4>1
            <4>3. p[1] <= q[1] /\ p[2] <= q[2] /\ p # q
                BY <1>1, <4>1
            <4>4. w[q] < w[p]
                <5>. HIDE DEF w, P
                <5>. QED BY <1>1, <4>2, <4>3
            <4>. QED BY <3>1, <4>1, <4>2, <4>4
        <3>2. CASE pass[p] # p
            <4>1. next[p] = pass[p]
                BY <3>2
            <4>. HIDE DEF next, P, pass, w
            <4>. QED BY <1>1, <1>2, <3>2, <4>1
        <3>. QED BY <3>1, <3>2
    <2>. HIDE DEF P, next, w, end
    <2>. QED BY <2>1
<1>5. PICK f : Computes(f, P, next, Stop, base, comb, V)
    <2>1. PICK K : K = Len(old) + Len(new)
        OBVIOUS
    <2>2. K \in Nat /\ \A p \in P : w[p] \in Nat /\ w[p] <= K
        BY <1>1, <2>1
    <2>4. \A p \in P \cap Stop : base[p] \in V
        <3>. HIDE DEF P, end
        <3>. QED OBVIOUS
    <2>5. \A p \in P \ Stop : \A v \in V : comb[<<p, v>>] \in V
        <3>1. ASSUME NEW p \in P
              PROVE  Differing(new, p, pass[p]) \in SUBSET Nat
            <4>1. p[2] \in 0..Len(new) /\ pass[p][2] \in 0..Len(new)
                BY <1>1, <1>2
            <4>. HIDE DEF pass
            <4>. QED BY <4>1 DEF Differing
        <3>. HIDE DEF P, pass
        <3>. QED BY <3>1
    <2>. HIDE DEF P, w, Stop, next, base, comb, V
    <2>6. Grounded(P, w, K, next, Stop, base, comb, V)
        BY <1>4, <2>2, <2>4, <2>5 DEF Grounded
    <2>. QED BY <2>6, RecursionFacts
<1>6. /\ f = [p \in P |-> f[p]]
      /\ \A p \in P \cap Stop : f[p] = base[p]
      /\ \A p \in P \ Stop : f[p] = comb[<<p, f[next[p]]>>] /\ f[next[p]] \in V
    <2>. HIDE DEF P, Stop, next, base, comb, V
    <2>. QED BY <1>5 DEF Computes
<1>7. \A p \in P : f[p] = Value(f, p)
    <2>1. ASSUME NEW p \in P, p \in Stop
          PROVE  f[p] = Value(f, p)
        <3>. HIDE DEF P
        <3>. QED BY <1>6, <2>1
    <2>2. ASSUME NEW p \in P, p \notin Stop
          PROVE  f[p] = Value(f, p)
        <3>1. PICK v \in V : v = f[next[p]] /\ f[p] = comb[<<p, v>>]
            <4>. HIDE DEF P, Stop, next, base, comb, V
            <4>. QED BY <1>6, <2>2
        <3>2. comb[<<p, v>>] = IF pass[p] = p THEN v ELSE Differing(new, p, pass[p]) \cup v
            <4>. HIDE DEF P, pass
            <4>. QED OBVIOUS
        <3>3. next[p] = IF pass[p] = p THEN <<p[1] + 1, p[2] + 1>> ELSE pass[p]
            <4>. HIDE DEF P, pass
            <4>. QED OBVIOUS
        <3>4. p # end
            BY <2>2
        <3>. HIDE DEF P, next, comb, pass, V
        <3>. QED BY <3>1, <3>2, <3>3, <3>4
    <2>. QED BY <2>1, <2>2
<1>8. Rec(f)
    <2>1. f = [p \in P |-> Value(f, p)]
        <3>. HIDE DEF Value, P
        <3>. QED BY <1>6, <1>7
    <2>. HIDE DEF Rec, Value
    <2>. QED BY <1>3, <2>1
<1>. HIDE DEF Rec
<1>9. PICK lines : lines = (CHOOSE h : Rec(h)) /\ Rec(lines)
    BY <1>8
<1>10. ChangedLines(old, new) = lines[<<0, 0>>]
    BY <1>9 DEF ChangedLines, Rec
<1>11. lines = [p \in P |-> Value(lines, p)]
    BY <1>3, <1>9
<1>12. \A p \in P : lines[p] = Value(lines, p)
    <2>. HIDE DEF Value, P
    <2>. QED BY <1>11
<1>13. \A p \in P : Reports(lines, p, old, new)
    BY <1>12 DEF Reports
<1>. HIDE DEF P
<1>. QED BY <1>10, <1>13 DEF P

\* A line that is not reported stands in the old text, next to what it stood next to.
Stays(L, p, old, new) ==
    /\ p[2] = Len(new) /\ p[1] < Len(old) => Len(new) \in L
    /\ \A b \in p[2] + 1..Len(new) : b \notin L =>
          \E a \in p[1] + 1..Len(old) :
              /\ old[a] = new[b]
              /\ b = p[2] + 1 => a = p[1] + 1
              /\ b = Len(new) => a = Len(old)
              /\ b < Len(new) /\ b + 1 \notin L => a < Len(old) /\ old[a + 1] = new[b + 1]

LEMMA UnreportedStays ==
    ASSUME NEW old, Len(old) \in Nat, NEW new, Len(new) \in Nat, ~(old # <<>> /\ new = <<>>)
    PROVE  Stays(ChangedLines(old, new), <<0, 0>>, old, new)
<1> DEFINE P == Places(old, new)
           w == Distance(old, new)
           pass == Passed(old, new)
           end == <<Len(old), Len(new)>>
           n == Len(old)
           m == Len(new)
<1>0. n \in Nat /\ m \in Nat
    OBVIOUS
<1>1. PICK lines : /\ ChangedLines(old, new) = lines[<<0, 0>>]
                   /\ \A p \in Places(old, new) : Reports(lines, p, old, new)
    BY LinesExist
<1>2. /\ \A p \in P : /\ p[1] \in 0..n /\ p[2] \in 0..m /\ p = <<p[1], p[2]>>
                      /\ w[p] \in Nat /\ w[p] <= n + m
      /\ \A p, q \in P : p[1] <= q[1] /\ p[2] <= q[2] /\ p # q => w[q] < w[p]
      /\ \A p \in P : p[1] < n /\ p[2] < m => <<p[1] + 1, p[2] + 1>> \in P
      /\ <<0, 0>> \in P
    BY PlaceFacts
<1>3. \A p \in P : /\ pass[p] \in P /\ p[1] <= pass[p][1] /\ p[2] <= pass[p][2]
                   /\ p[1] = n \/ p[2] = m => pass[p] = end
                   /\ pass[p] = p => p = end \/ (p[1] < n /\ p[2] < m /\ old[p[1] + 1] = new[p[2] + 1])
    BY PassFacts
<1>4. \A p \in P : lines[p] = IF p = end THEN {}
                              ELSE IF pass[p] = p THEN lines[<<p[1] + 1, p[2] + 1>>]
                              ELSE Differing(new, p, pass[p]) \cup lines[pass[p]]
    BY <1>1 DEF Reports
<1> DEFINE S == {p \in P : Stays(lines[p], p, old, new)}
<1>5. ASSUME NEW p \in P, \A q \in P : w[q] < w[p] => q \in S
      PROVE  p \in S
    <2>0. PICK i \in 0..n : i = p[1]
        BY <1>2
    <2>1. PICK j \in 0..m : j = p[2]
        BY <1>2
    <2>2. PICK L : L = lines[p]
        OBVIOUS
    <2>3. CASE p = end
        <3>1. i = n /\ j = m
            BY <2>0, <2>1, <2>3
        <3>2. Stays(L, p, old, new)
            <4>1. p[1] = n /\ p[2] = m
                BY <2>0, <2>1, <3>1
            <4>2. \A b \in m + 1..m : FALSE
                BY <1>0
            <4>3. ~(p[1] < n)
                BY <1>0, <4>1
            <4>4. \A b \in p[2] + 1..m : FALSE
                BY <4>1, <4>2
            <4>. HIDE DEF P, w
            <4>. QED BY <4>3, <4>4 DEF Stays
        <3>. QED BY <2>2, <3>2
    <2>4. CASE p # end /\ pass[p] = p
        <3>1. i < n /\ j < m /\ old[i + 1] = new[j + 1]
            BY <1>3, <2>0, <2>1, <2>4
        <3>2. PICK q \in P : q = <<i + 1, j + 1>>
            BY <1>2, <2>0, <2>1, <3>1
        <3>3. L = lines[q]
            BY <1>4, <2>0, <2>1, <2>2, <2>4, <3>2
        <3>4. w[q] < w[p]
            <4>1. p[1] <= q[1] /\ p[2] <= q[2] /\ p # q
                BY <2>0, <2>1, <3>2
            <4>. HIDE DEF w, P
            <4>. QED BY <1>2, <4>1
        <3>5. Stays(L, q, old, new)
            <4>1. q \in S
                <5>. HIDE DEF w, P, S
                <5>. QED BY <1>5, <3>4
            <4>. QED BY <3>3, <4>1
        <3>6. q[1] = i + 1 /\ q[2] = j + 1
            BY <3>2
        <3>7. \A b \in j + 2..m : b \notin L =>
                  \E a \in i + 2..n :
                      /\ old[a] = new[b]
                      /\ b = j + 2 => a = i + 2
                      /\ b = m => a = n
                      /\ b < m /\ b + 1 \notin L => a < n /\ old[a + 1] = new[b + 1]
            <4>1. (j + 1) + 1 = j + 2 /\ (i + 1) + 1 = i + 2
                OBVIOUS
            <4>. QED BY <3>5, <3>6, <4>1 DEF Stays
        <3>8. j + 1 = m /\ i + 1 < n => m \in L
            BY <3>5, <3>6 DEF Stays
        <3>9. ASSUME NEW b \in j + 1..m, b \notin L
              PROVE  \E a \in i + 1..n :
                        /\ old[a] = new[b]
                        /\ b = j + 1 => a = i + 1
                        /\ b = m => a = n
                        /\ b < m /\ b + 1 \notin L => a < n /\ old[a + 1] = new[b + 1]
            <4>1. CASE b = j + 1
                <5>1. i + 1 \in i + 1..n /\ old[i + 1] = new[b]
                    BY <1>0, <3>1, <4>1
                <5>2. b = m => i + 1 = n
                    BY <1>0, <3>1, <3>8, <3>9, <4>1
                <5>3. ASSUME b < m, b + 1 \notin L
                      PROVE  i + 1 < n /\ old[(i + 1) + 1] = new[b + 1]
                    <6>1. b + 1 = j + 2 /\ b + 1 \in j + 2..m
                        BY <1>0, <4>1, <5>3
                    <6>2. PICK a \in i + 2..n : old[a] = new[b + 1] /\ a = i + 2
                        BY <3>7, <5>3, <6>1
                    <6>3. (i + 1) + 1 = i + 2
                        OBVIOUS
                    <6>. QED BY <1>0, <6>2, <6>3
                <5>. QED BY <4>1, <5>1, <5>2, <5>3
            <4>2. CASE b # j + 1
                <5>1. b \in j + 2..m
                    BY <1>0, <4>2
                <5>2. PICK a \in i + 2..n : /\ old[a] = new[b]
                                            /\ b = m => a = n
                                            /\ b < m /\ b + 1 \notin L => a < n /\ old[a + 1] = new[b + 1]
                    BY <3>7, <3>9, <5>1
                <5>3. a \in i + 1..n
                    BY <1>0
                <5>. QED BY <4>2, <5>2, <5>3
            <4>. QED BY <4>1, <4>2
        <3>. QED BY <2>0, <2>1, <2>2, <3>1, <3>9 DEF Stays
    <2>5. CASE p # end /\ pass[p] # p
        <3>1. PICK q \in P : q = pass[p]
            BY <1>3
        <3>2. PICK k \in 0..n : k = q[1]
            BY <1>2
        <3>3. PICK l \in 0..m : l = q[2]
            BY <1>2
        <3>4. i <= k /\ j <= l
            BY <1>3, <2>0, <2>1, <3>1, <3>2, <3>3
        <3>5. L = Differing(new, p, q) \cup lines[q]
            BY <1>4, <2>2, <2>5, <3>1
        <3>6. w[q] < w[p]
            <4>1. p[1] <= q[1] /\ p[2] <= q[2] /\ p # q
                BY <2>0, <2>1, <2>5, <3>1, <3>2, <3>3, <3>4
            <4>. HIDE DEF w, P
            <4>. QED BY <1>2, <4>1
        <3>7. Stays(lines[q], q, old, new)
            <4>1. q \in S
                <5>. HIDE DEF w, P, S
                <5>. QED BY <1>5, <3>6
            <4>. QED BY <4>1
        <3>8. \A b \in l + 1..m : b \notin lines[q] =>
                  \E a \in k + 1..n :
                      /\ old[a] = new[b]
                      /\ b = m => a = n
                      /\ b < m /\ b + 1 \notin lines[q] => a < n /\ old[a + 1] = new[b + 1]
            BY <3>2, <3>3, <3>7 DEF Stays
        <3>9. Differing(new, p, q) = IF l > j THEN j + 1..l ELSE {IF j < m THEN j + 1 ELSE m}
            BY <2>1, <3>3 DEF Differing
        <3>10. j = m /\ i < n => m \in L
            <4>1. j = m => m \in Differing(new, p, q)
                BY <1>0, <3>4, <3>9
            <4>. QED BY <3>5, <4>1
        <3>11. ASSUME NEW b \in j + 1..m, b \notin L
               PROVE  \E a \in i + 1..n :
                         /\ old[a] = new[b]
                         /\ b = j + 1 => a = i + 1
                         /\ b = m => a = n
                         /\ b < m /\ b + 1 \notin L => a < n /\ old[a + 1] = new[b + 1]
            <4>1. b \notin Differing(new, p, q) /\ b \notin lines[q]
                BY <3>5, <3>11
            <4>2. b # j + 1 /\ b \in l + 1..m
                BY <1>0, <3>4, <3>9, <4>1
            <4>3. PICK a \in k + 1..n : /\ old[a] = new[b]
                                        /\ b = m => a = n
                                        /\ b < m /\ b + 1 \notin lines[q] => a < n /\ old[a + 1] = new[b + 1]
                BY <3>8, <4>1, <4>2
            <4>4. a \in i + 1..n
                BY <1>0, <3>4
            <4>5. b + 1 \notin L => b + 1 \notin lines[q]
                BY <3>5
            <4>. QED BY <4>2, <4>3, <4>4, <4>5
        <3>. QED BY <2>0, <2>1, <2>2, <3>10, <3>11 DEF Stays
    <2>. QED BY <2>3, <2>4, <2>5
<1>6. P \subseteq S
    <2>1. \A p \in P : w[p] \in Nat
        BY <1>2
    <2>. HIDE DEF P, S, w
    <2>. QED BY <1>5, <2>1, Descends
<1>. QED BY <1>1, <1>2, <1>6

-----------------------------------------------------------------------------
(* The lines that stay.                                                     *)

\* The lines of the new text that no pull request holds, with the places before the
\* first line and after the last.
Staying(new, U) == {b \in 0..(Len(new) + 1) : b \notin U}

\* Each of them stands at A in the old text, in order, and they are neighbours there
\* when they are in the new one.
Framed(old, new, U, A) ==
    /\ A[0] = 0 /\ A[Len(new) + 1] = Len(old) + 1
    /\ \A b \in Staying(new, U) : b \in 1..Len(new) =>
          A[b] \in 1..Len(old) /\ old[A[b]] = new[b] /\ <<A[b], b>> \in Aligned(old, new)
    /\ \A b, c \in Staying(new, U) : b < c => A[b] < A[c]
    /\ \A b \in Staying(new, U) : b + 1 \in Staying(new, U) => A[b + 1] = A[b] + 1

\* Texts without a line that occurs twice, and U that holds what either line diff calls
\* changed.
Separable(old, new, U, V) ==
    /\ old \in Seq(V) /\ new \in Seq(V) /\ U \subseteq 1..Len(new)
    /\ \A a, b \in 1..Len(old) : old[a] = old[b] => a = b
    /\ \A a, b \in 1..Len(new) : new[a] = new[b] => a = b
    /\ ChangedLines(old, new) \subseteq U
    /\ (1..Len(new)) \ {p[2] : p \in Aligned(old, new)} \subseteq U

LEMMA FrameExists ==
    ASSUME NEW V, NEW old, NEW new, NEW U, Separable(old, new, U, V)
    PROVE  \E A : Framed(old, new, U, A)
<1> DEFINE n == Len(old)
           m == Len(new)
           K == Staying(new, U)
           L == ChangedLines(old, new)
<1>0. /\ n \in Nat /\ m \in Nat
      /\ U \subseteq 1..m /\ L \subseteq U
      /\ \A a, b \in 1..n : old[a] = old[b] => a = b
      /\ \A a, b \in 1..m : new[a] = new[b] => a = b
    BY DEF Separable
<1>1. ~(old # <<>> /\ new = <<>>)
    <2>1. CASE old # <<>> /\ new = <<>>
        <3>1. L = {1} /\ m = 0
            BY <2>1 DEF ChangedLines
        <3>2. 1 \in 1..m
            BY <1>0, <3>1
        <3>. QED BY <3>1, <3>2
    <2>. QED BY <2>1
<1>2. /\ m = 0 => n = 0
      /\ \A b \in 1..m : b \notin L =>
            \E a \in 1..n : /\ old[a] = new[b]
                            /\ b = 1 => a = 1
                            /\ b = m => a = n
                            /\ b < m /\ b + 1 \notin L => a < n /\ old[a + 1] = new[b + 1]
    <2>1. Stays(L, <<0, 0>>, old, new)
        BY <1>0, <1>1, UnreportedStays
    <2>2. m = 0 /\ 0 < n => m \in L
        BY <2>1 DEF Stays
    <2>3. \A b \in 0 + 1..m : b \notin L =>
             \E a \in 0 + 1..n : /\ old[a] = new[b]
                                 /\ b = 0 + 1 => a = 0 + 1
                                 /\ b = m => a = n
                                 /\ b < m /\ b + 1 \notin L => a < n /\ old[a + 1] = new[b + 1]
        BY <2>1 DEF Stays
    <2>4. 0 + 1 = 1
        OBVIOUS
    <2>5. m = 0 => n = 0
        BY <1>0, <2>2
    <2>. HIDE DEF L
    <2>. QED BY <2>3, <2>4, <2>5
<1>3. /\ \A p \in Aligned(old, new) : /\ p[1] \in 1..n /\ p[2] \in 1..m /\ p = <<p[1], p[2]>>
                                      /\ old[p[1]] = new[p[2]]
      /\ \A p, q \in Aligned(old, new) :
            p = q \/ (p[1] < q[1] /\ p[2] < q[2]) \/ (q[1] < p[1] /\ q[2] < p[2])
    <2>1. Pairing(Aligned(old, new), <<0, 0>>, old, new)
        BY <1>0, AlignedFacts
    <2>. QED BY <2>1 DEF Pairing
<1>4. \A b \in 1..m : b \notin U => \E p \in Aligned(old, new) : p[2] = b
    BY DEF Separable
<1> DEFINE Stood(b) == CHOOSE a \in 1..n : <<a, b>> \in Aligned(old, new)
           A == [b \in 0..(m + 1) |-> IF b = 0 THEN 0 ELSE IF b = m + 1 THEN n + 1 ELSE Stood(b)]
<1>5. A[0] = 0 /\ A[m + 1] = n + 1
    BY <1>0
<1>6. \A b \in 1..m : b \notin U =>
         A[b] \in 1..n /\ old[A[b]] = new[b] /\ <<A[b], b>> \in Aligned(old, new)
    <2>1. ASSUME NEW b \in 1..m, b \notin U
          PROVE  A[b] \in 1..n /\ old[A[b]] = new[b] /\ <<A[b], b>> \in Aligned(old, new)
        <3>1. PICK p \in Aligned(old, new) : p[2] = b
            BY <1>4, <2>1
        <3>2. p[1] \in 1..n /\ <<p[1], b>> \in Aligned(old, new)
            BY <1>3, <3>1
        <3>3. A[b] = Stood(b)
            <4>. HIDE DEF Stood
            <4>. QED BY <1>0
        <3>4. A[b] \in 1..n /\ <<A[b], b>> \in Aligned(old, new)
            <4>1. Stood(b) \in 1..n /\ <<Stood(b), b>> \in Aligned(old, new)
                BY <3>2
            <4>. HIDE DEF Stood
            <4>. QED BY <3>3, <4>1
        <3>5. old[A[b]] = new[b]
            BY <1>3, <3>4
        <3>. QED BY <3>4, <3>5
    <2>. QED BY <2>1
<1>7. \A b \in K : b = 0 \/ b = m + 1 \/ (b \in 1..m /\ b \notin U)
    BY <1>0 DEF Staying
<1>. HIDE DEF A
<1>8. ASSUME NEW b \in K, NEW c \in K, b < c
      PROVE  A[b] < A[c]
    <2>1. CASE b = 0
        <3>1. (c \in 1..m /\ c \notin U) \/ c = m + 1
            <4>1. c # 0
                BY <1>8, <2>1
            <4>. QED BY <1>7, <4>1
        <3>2. CASE c = m + 1
            BY <1>0, <1>5, <2>1, <3>2
        <3>3. CASE c \in 1..m /\ c \notin U
            <4>1. A[c] \in 1..n
                BY <1>6, <3>3
            <4>. QED BY <1>0, <1>5, <2>1, <4>1
        <3>. QED BY <3>1, <3>2, <3>3
    <2>2. CASE b \in 1..m /\ b \notin U
        <3>1. CASE c = m + 1
            <4>1. A[b] \in 1..n /\ A[c] = n + 1
                BY <1>5, <1>6, <2>2, <3>1
            <4>. QED BY <1>0, <4>1
        <3>2. CASE c \in 1..m /\ c \notin U
            <4>1. PICK p \in Aligned(old, new) : p[1] = A[b] /\ p[2] = b
                BY <1>6, <2>2
            <4>2. PICK q \in Aligned(old, new) : q[1] = A[c] /\ q[2] = c
                BY <1>6, <3>2
            <4>. QED BY <1>3, <1>8, <4>1, <4>2
        <3>. QED BY <1>0, <1>7, <1>8, <2>2, <3>1, <3>2
    <2>3. b # m + 1
        BY <1>0, <1>8 DEF Staying
    <2>. QED BY <1>7, <2>1, <2>2, <2>3
<1>9. ASSUME NEW b \in K, b + 1 \in K
      PROVE  A[b + 1] = A[b] + 1
    <2>1. CASE b = 0
        <3>1. CASE m = 0
            BY <1>0, <1>2, <1>5, <2>1, <3>1
        <3>2. CASE m # 0
            <4>1. 1 \in 1..m /\ 1 \notin U
                BY <1>0, <1>9, <2>1, <3>2 DEF Staying
            <4>2. PICK a \in 1..n : old[a] = new[1] /\ a = 1
                BY <1>0, <1>2, <4>1
            <4>3. A[1] = 1
                BY <1>0, <1>6, <4>1, <4>2
            <4>. QED BY <1>5, <2>1, <4>3
        <3>. QED BY <3>1, <3>2
    <2>2. CASE b \in 1..m /\ b \notin U
        <3>1. PICK a \in 1..n : /\ old[a] = new[b]
                                /\ b = m => a = n
                                /\ b < m /\ b + 1 \notin L => a < n /\ old[a + 1] = new[b + 1]
            BY <1>0, <1>2, <2>2
        <3>2. A[b] = a
            BY <1>0, <1>6, <2>2, <3>1
        <3>3. CASE b = m
            BY <1>0, <1>5, <3>1, <3>2, <3>3
        <3>4. CASE b # m
            <4>1. b < m /\ b + 1 \in 1..m /\ b + 1 \notin U
                BY <1>0, <1>9, <2>2, <3>4 DEF Staying
            <4>2. a + 1 \in 1..n /\ old[a + 1] = new[b + 1]
                BY <1>0, <3>1, <4>1
            <4>3. A[b + 1] \in 1..n /\ old[A[b + 1]] = new[b + 1]
                BY <1>6, <4>1
            <4>. QED BY <1>0, <3>2, <4>2, <4>3
        <3>. QED BY <3>3, <3>4
    <2>3. b # m + 1
        BY <1>0, <1>9 DEF Staying
    <2>. QED BY <1>7, <2>1, <2>2, <2>3
<1>. HIDE DEF L
<1>10. \A b \in K : b \in 1..m =>
          A[b] \in 1..n /\ old[A[b]] = new[b] /\ <<A[b], b>> \in Aligned(old, new)
    BY <1>6 DEF Staying
<1>. QED BY <1>5, <1>8, <1>9, <1>10 DEF Framed

\* No line between b and c stays.
Gap(new, U, b, c) ==
    /\ b \in Staying(new, U) /\ c \in Staying(new, U) /\ b < c
    /\ \A k \in b + 1..c - 1 : k \in U

LEMMA Largest ==
    ASSUME NEW m \in Nat, NEW D \in SUBSET (0..m), D # {}
    PROVE  \E n \in D : \A k \in D : k <= n
<1> DEFINE E == {e \in 0..m : m - e \in D}
<1>1. E \in SUBSET Nat /\ E # {}
    <2>1. PICK k \in D : TRUE
        OBVIOUS
    <2>2. PICK e \in 0..m : m - e = k
        <3>1. m - k \in 0..m /\ m - (m - k) = k
            OBVIOUS
        <3>. QED BY <3>1
    <2>3. e \in E
        BY <2>2
    <2>4. \A d \in E : d \in Nat
        OBVIOUS
    <2>. HIDE DEF E
    <2>. QED BY <2>3, <2>4
<1>2. PICK e \in E : \A k \in E : e <= k
    <2>. HIDE DEF E
    <2>. QED BY <1>1, Smallest
<1>3. ASSUME NEW k \in D
      PROVE  k <= m - e
    <2>1. k \in 0..m /\ m - k \in 0..m /\ m - (m - k) = k
        OBVIOUS
    <2>2. m - k \in E
        BY <2>1
    <2>. QED BY <1>2, <2>1, <2>2
<1>. QED BY <1>2, <1>3

LEMMA GapAfter ==
    ASSUME NEW new, Len(new) \in Nat, NEW U \in SUBSET (1..Len(new)),
           NEW b \in Staying(new, U), b # Len(new) + 1
    PROVE  \E c : Gap(new, U, b, c)
<1> DEFINE m == Len(new)
           D == {k \in Staying(new, U) : b < k}
<1>1. m \in Nat /\ b \in 0..m
    BY DEF Staying
<1>2. D \in SUBSET Nat /\ m + 1 \in D
    BY <1>1 DEF Staying
<1>3. PICK c \in D : \A k \in D : c <= k
    <2>. HIDE DEF D
    <2>. QED BY <1>2, Smallest
<1>4. ASSUME NEW k \in b + 1..c - 1
      PROVE  k \in U
    <2>1. c \in 0..(m + 1)
        BY <1>1, <1>3 DEF Staying
    <2>2. k \in 0..(m + 1) /\ b < k /\ ~(c <= k)
        BY <1>1, <1>3, <1>4, <2>1
    <2>. QED BY <1>3, <2>2 DEF Staying
<1>. QED BY <1>3, <1>4 DEF Gap

LEMMA GapAround ==
    ASSUME NEW new, Len(new) \in Nat, NEW U \in SUBSET (1..Len(new)), NEW u \in U
    PROVE  \E b, c : Gap(new, U, b, c) /\ b < u /\ u < c
<1> DEFINE m == Len(new)
           D == {k \in Staying(new, U) : k < u}
<1>1. m \in Nat /\ u \in 1..m
    OBVIOUS
<1>2. D \in SUBSET (0..m) /\ 0 \in D
    BY <1>1 DEF Staying
<1>3. PICK b \in D : \A k \in D : k <= b
    <2>. HIDE DEF D
    <2>. QED BY <1>1, <1>2, Largest
<1>4. b \in Staying(new, U) /\ b < u /\ b \in 0..m
    BY <1>2, <1>3
<1>5. PICK c : Gap(new, U, b, c)
    BY <1>1, <1>4, GapAfter
<1>6. c \in Staying(new, U) /\ b < c /\ c \in 0..(m + 1)
    BY <1>5 DEF Gap, Staying
<1>7. u < c
    <2>1. u # c
        BY <1>6 DEF Staying
    <2>2. CASE c < u
        <3>1. c \in D
            BY <1>6, <2>2
        <3>. QED BY <1>3, <1>4, <1>6, <3>1
    <2>. QED BY <1>1, <1>6, <2>1, <2>2
<1>. QED BY <1>4, <1>5, <1>7

LEMMA FrameRange ==
    ASSUME NEW old, Len(old) \in Nat, NEW new, Len(new) \in Nat, NEW U, NEW A, Framed(old, new, U, A),
           NEW b \in Staying(new, U)
    PROVE  A[b] \in 0..(Len(old) + 1)
<1>1. b = 0 \/ b = Len(new) + 1 \/ b \in 1..Len(new)
    BY DEF Staying
<1>2. b \in 1..Len(new) => A[b] \in 1..Len(old)
    BY DEF Framed
<1>3. A[0] = 0 /\ A[Len(new) + 1] = Len(old) + 1
    BY DEF Framed
<1>. QED BY <1>1, <1>2, <1>3

-----------------------------------------------------------------------------
(* The text on the way.                                                     *)

\* What stands in T between x and y is what stands in t between a and c.
Holds(T, x, y, t, a, c) ==
    /\ y - x = c - a
    /\ \A q \in 1..(c - a - 1) : T[x + q] = t[a + q]

\* Each line that stays has a position; between two of them stands the new text when the
\* lines there, those of D, have been carried, and the old text otherwise.
Staged(old, new, U, A, D, T, pos) ==
    /\ pos[0] = 0 /\ pos[Len(new) + 1] = Len(T) + 1
    /\ \A b \in Staying(new, U) : pos[b] \in Nat
    /\ \A b \in Staying(new, U) : b \in 1..Len(new) => T[pos[b]] = new[b]
    /\ \A b, c \in Staying(new, U) : b < c => pos[b] < pos[c]
    /\ \A b, c : Gap(new, U, b, c) =>
          IF b + 1 \in D THEN Holds(T, pos[b], pos[c], new, b, c)
                         ELSE Holds(T, pos[b], pos[c], old, A[b], A[c])

\* v occurs at x only.
Occurs(T, v, x) == \A t \in 1..Len(T) : T[t] = v => t = x

\* A line that stays occurs once in the text.
LEMMA OnlyThere ==
    ASSUME NEW V, NEW old, NEW new, NEW U, Separable(old, new, U, V), NEW A, Framed(old, new, U, A),
           NEW D, NEW T, Len(T) \in Nat, NEW pos, Staged(old, new, U, A, D, T, pos),
           NEW b \in Staying(new, U), b \in 1..Len(new)
    PROVE  Occurs(T, new[b], pos[b])
<1>. SUFFICES ASSUME NEW t \in 1..Len(T), T[t] = new[b]
              PROVE  t = pos[b]
    BY DEF Occurs
<1> DEFINE n == Len(old)
           m == Len(new)
           K == Staying(new, U)
<1>0. /\ n \in Nat /\ m \in Nat /\ U \in SUBSET (1..m)
      /\ \A x, y \in 1..n : old[x] = old[y] => x = y
      /\ \A x, y \in 1..m : new[x] = new[y] => x = y
    BY DEF Separable
<1>1. /\ \A k \in K : k \in 0..(m + 1) /\ k \notin U
      /\ 0 \in K
    BY <1>0 DEF Staying
<1> DEFINE E == {k \in K : k # m + 1 /\ pos[k] <= t}
<1>2. E \in SUBSET (0..m) /\ 0 \in E
    <2>1. pos[0] = 0 /\ 0 # m + 1
        BY <1>0 DEF Staged
    <2>2. 0 \in E
        BY <1>1, <2>1
    <2>3. \A k \in E : k \in 0..m
        BY <1>0, <1>1
    <2>. HIDE DEF E
    <2>. QED BY <2>2, <2>3
<1>3. PICK k \in E : \A j \in E : j <= k
    <2>. HIDE DEF E
    <2>. QED BY <1>0, <1>2, Largest
<1>4. k \in K /\ k \in 0..m /\ pos[k] <= t /\ pos[k] \in Nat
    BY <1>2, <1>3 DEF Staged
<1>5. PICK c : Gap(new, U, k, c)
    BY <1>0, <1>4, GapAfter
<1>6. /\ c \in K /\ c \in 1..(m + 1) /\ k < c
      /\ \A i \in k + 1..c - 1 : i \in U
      /\ pos[c] \in Nat
    BY <1>0, <1>1, <1>4, <1>5 DEF Gap, Staged
<1>7. t < pos[c]
    <2>1. CASE c = m + 1
        BY <2>1 DEF Staged
    <2>2. CASE c # m + 1
        <3>1. c \notin E
            BY <1>3, <1>4, <1>6
        <3>. QED BY <1>6, <2>2, <3>1
    <2>. QED BY <2>1, <2>2
<1>8. CASE pos[k] = t
    <2>1. k # 0
        BY <1>8 DEF Staged
    <2>2. T[t] = new[k] /\ k \in 1..m
        BY <1>0, <1>4, <1>8, <2>1 DEF Staged
    <2>. QED BY <1>0, <1>8, <2>2
<1>9. CASE pos[k] # t
    <2>1. PICK q \in Nat : q = t - pos[k] /\ q # 0
        BY <1>4, <1>9
    <2>2. t = pos[k] + q
        BY <1>4, <2>1
    <2>3. CASE k + 1 \in D
        <3>1. /\ pos[c] - pos[k] = c - k
              /\ \A i \in 1..(c - k - 1) : T[pos[k] + i] = new[k + i]
            BY <1>5, <2>3 DEF Staged, Holds
        <3>2. q \in 1..(c - k - 1) /\ k + q \in k + 1..c - 1 /\ k + q \in 1..m
            <4>1. PICK x \in Nat, y \in Nat : x = pos[k] /\ y = pos[c]
                BY <1>4, <1>6
            <4>2. y - x = c - k /\ x + q < y
                BY <1>7, <2>2, <3>1, <4>1
            <4>4. k \in 0..m /\ c \in 1..(m + 1)
                BY <1>4, <1>6
            <4>5. k \in Nat /\ c \in Nat
                BY <1>0, <4>4
            <4>6. 0 < q
                BY <2>1
            <4>3. q < c - k /\ 0 < q /\ q \in Nat
                BY <4>2, <4>5, <4>6
            <4>. QED BY <1>0, <4>3, <4>4
        <3>3. T[t] = new[k + q]
            BY <2>2, <3>1, <3>2
        <3>4. k + q = b
            BY <1>0, <3>2, <3>3
        <3>. QED BY <1>1, <1>6, <3>2, <3>4
    <2>4. CASE k + 1 \notin D
        <3>1. /\ pos[c] - pos[k] = A[c] - A[k]
              /\ \A i \in 1..(A[c] - A[k] - 1) : T[pos[k] + i] = old[A[k] + i]
            BY <1>5, <2>4 DEF Staged, Holds
        <3>2. A[c] \in 0..(n + 1) /\ A[k] \in 0..(n + 1) /\ A[b] \in 1..n /\ old[A[b]] = new[b]
            BY <1>0, <1>4, <1>6, FrameRange DEF Framed
        <3>3. q \in 1..(A[c] - A[k] - 1) /\ A[k] + q \in 1..n
            <4>1. PICK x \in Nat, y \in Nat : x = pos[k] /\ y = pos[c]
                BY <1>4, <1>6
            <4>2. PICK d \in Nat, e \in Nat : d = A[k] /\ e = A[c]
                BY <1>0, <3>2
            <4>3. y - x = e - d /\ x + q < y
                BY <1>7, <2>2, <3>1, <4>1, <4>2
            <4>4. d + q < e
                BY <4>3
            <4>5. 1 <= q
                BY <2>1
            <4>6. PICK h \in Nat : h = n
                BY <1>0
            <4>7. e <= h + 1
                BY <3>2, <4>2, <4>6
            <4>8. q \in 1..(e - d - 1) /\ d + q \in 1..h
                BY <4>4, <4>5, <4>7
            <4>. QED BY <4>2, <4>6, <4>8
        <3>4. T[t] = old[A[k] + q]
            BY <2>2, <3>1, <3>3
        <3>5. A[k] + q = A[b]
            BY <1>0, <3>2, <3>3, <3>4
        <3>6. A[k] < A[b] /\ A[b] < A[c]
            <4>1. PICK d \in Nat, e \in Nat : d = A[k] /\ e = A[c]
                BY <1>0, <3>2
            <4>2. PICK h \in Nat : h = A[b] /\ d + q = h
                BY <1>0, <3>2, <3>5, <4>1
            <4>3. 1 <= q /\ q <= e - d - 1
                BY <3>3, <4>1
            <4>4. d < h /\ h < e
                BY <4>2, <4>3
            <4>. QED BY <4>1, <4>2, <4>4
        <3>7. b <= k \/ c <= b
            BY <1>0, <1>1, <1>4, <1>6
        <3>8. A[b] <= A[k] \/ A[c] <= A[b]
            <4>1. \A x, y \in K : x < y => A[x] < A[y]
                BY DEF Framed
            <4>2. b = k \/ b < k \/ c = b \/ c < b
                BY <1>1, <1>4, <1>6, <3>7
            <4>. QED BY <1>4, <1>6, <3>2, <4>1, <4>2
        <3>. QED BY <3>2, <3>6, <3>8
    <2>. QED BY <2>3, <2>4
<1>. QED BY <1>8, <1>9

LEMMA GapSplits ==
    ASSUME NEW new, Len(new) \in Nat, NEW U \in SUBSET (1..Len(new)),
           NEW b, NEW c, Gap(new, U, b, c), NEW k \in Staying(new, U)
    PROVE  /\ b \in 0..Len(new) /\ c \in 1..(Len(new) + 1) /\ b < c
           /\ k \in 0..(Len(new) + 1)
           /\ k <= b \/ c <= k
<1>1. /\ b \in 0..(Len(new) + 1) /\ c \in 0..(Len(new) + 1) /\ b < c
      /\ k \in 0..(Len(new) + 1) /\ k \notin U
    BY DEF Gap, Staying
<1>2. \A i \in b + 1..c - 1 : i \in U
    BY DEF Gap
<1>3. k \notin b + 1..c - 1
    BY <1>1, <1>2
<1>. QED BY <1>1, <1>3

\* At first it is the old text.
LEMMA StagedFirst ==
    ASSUME NEW V, NEW old, NEW new, NEW U, Separable(old, new, U, V), NEW A, Framed(old, new, U, A)
    PROVE  Staged(old, new, U, A, {}, old, A)
<1> DEFINE K == Staying(new, U)
<1>0. Len(old) \in Nat /\ Len(new) \in Nat /\ U \in SUBSET (1..Len(new))
    BY DEF Separable
<1>1. \A b \in K : A[b] \in Nat
    BY <1>0, FrameRange
<1>2. \A b, c \in K : b < c => A[b] < A[c]
    BY DEF Framed
<1>3. ASSUME NEW b, NEW c, Gap(new, U, b, c)
      PROVE  Holds(old, A[b], A[c], old, A[b], A[c])
    BY DEF Holds
<1>. QED BY <1>1, <1>2, <1>3 DEF Staged, Framed

\* At last, when every line that does not stay has been carried, it is the new text.
LEMMA StagedLast ==
    ASSUME NEW V, NEW old, NEW new, NEW U, Separable(old, new, U, V), NEW A, Framed(old, new, U, A),
           NEW T \in Seq(V), NEW pos, Staged(old, new, U, A, U, T, pos)
    PROVE  T = new
<1> DEFINE n == Len(old)
           m == Len(new)
           K == Staying(new, U)
<1>0. n \in Nat /\ m \in Nat /\ U \in SUBSET (1..m) /\ Len(T) \in Nat /\ new \in Seq(V)
    BY DEF Separable
<1>1. \A b \in K : b \in 0..(m + 1) /\ b \notin U /\ pos[b] \in Nat
    BY DEF Staying, Staged
<1> DEFINE E == {b \in K : pos[b] # b}
<1>2. ASSUME NEW b \in E, \A k \in E : b <= k
      PROVE  FALSE
    <2>1. b \in K /\ b \in 0..(m + 1) /\ pos[b] # b
        BY <1>1, <1>2
    <2>2. b # 0
        BY <2>1 DEF Staged
    <2>3. CASE b - 1 \in K
        <3>1. b - 1 \notin E /\ b - 1 \in 0..m /\ (b - 1) + 1 = b
            BY <1>0, <1>2, <2>1, <2>2
        <3>2. pos[b - 1] = b - 1
            BY <2>3, <3>1
        <3>3. Gap(new, U, b - 1, b)
            BY <1>0, <2>1, <2>3, <3>1 DEF Gap
        <3>4. b \notin U
            BY <1>1, <2>1
        <3>5. Holds(T, pos[b - 1], pos[b], old, A[b - 1], A[b])
            BY <3>1, <3>3, <3>4 DEF Staged
        <3>6. A[b] = A[b - 1] + 1
            BY <2>1, <2>3, <3>1 DEF Framed
        <3>7. A[b - 1] \in Nat
            BY <1>0, <2>3, FrameRange
        <3>8. pos[b] - (b - 1) = 1
            BY <3>2, <3>5, <3>6, <3>7 DEF Holds
        <3>. QED BY <1>1, <2>1, <3>8
    <2>4. CASE b - 1 \notin K
        <3>1. b - 1 \in U
            BY <1>0, <2>1, <2>2, <2>4 DEF Staying
        <3>2. PICK x, y : Gap(new, U, x, y) /\ x < b - 1 /\ b - 1 < y
            BY <1>0, <3>1, GapAround
        <3>3. /\ x \in 0..m /\ y \in 1..(m + 1)
              /\ b <= x \/ y <= b
            BY <1>0, <2>1, <3>2, GapSplits
        <3>4. y = b
            BY <1>0, <2>1, <3>2, <3>3
        <3>5. x \in K /\ x < b /\ x + 1 \in U
            <4>1. x + 1 \in x + 1..b - 1
                BY <1>0, <2>1, <3>2, <3>3
            <4>. QED BY <3>2, <3>4, <4>1 DEF Gap
        <3>6. pos[x] = x
            BY <1>1, <1>2, <2>1, <3>5
        <3>7. Holds(T, pos[x], pos[b], new, x, b)
            BY <3>2, <3>4, <3>5 DEF Staged
        <3>8. pos[b] - x = b - x
            BY <3>6, <3>7 DEF Holds
        <3>. QED BY <1>1, <2>1, <3>5, <3>8
    <2>. QED BY <2>3, <2>4
<1>3. \A b \in K : pos[b] = b
    <2>1. E \in SUBSET Nat
        BY <1>0, <1>1
    <2>2. E = {}
        <3>. HIDE DEF E
        <3>. QED BY <1>2, <2>1, Smallest
    <2>. QED BY <2>2
<1>4. m + 1 \in K
    BY <1>0 DEF Staying
<1>5. Len(T) = m
    BY <1>0, <1>3, <1>4 DEF Staged
<1>6. ASSUME NEW t \in 1..m
      PROVE  T[t] = new[t]
    <2>1. CASE t \in U
        <3>1. PICK x, y : Gap(new, U, x, y) /\ x < t /\ t < y
            BY <1>0, <2>1, GapAround
        <3>2. x \in K /\ x \in 0..m /\ y \in 1..(m + 1) /\ y \in K
            BY <1>0, <1>4, <3>1, GapSplits DEF Gap
        <3>3. x + 1 \in U
            <4>1. x + 1 \in x + 1..y - 1
                BY <1>0, <3>1, <3>2
            <4>. QED BY <3>1, <4>1 DEF Gap
        <3>4. Holds(T, x, y, new, x, y)
            BY <1>3, <3>1, <3>2, <3>3 DEF Staged
        <3>5. t - x \in 1..(y - x - 1) /\ x + (t - x) = t
            BY <1>0, <3>1, <3>2
        <3>. QED BY <3>4, <3>5 DEF Holds
    <2>2. CASE t \notin U
        <3>1. t \in K
            BY <1>0, <2>2 DEF Staying
        <3>. QED BY <1>3, <3>1 DEF Staged
    <2>. QED BY <2>1, <2>2
<1>. QED BY <1>0, <1>5, <1>6

\* T with what stands between x and y replaced by what stands in t between b and c.
Replaced(T, x, y, t, b, c, R) ==
    /\ Len(R) = Len(T) + (c - b) - (y - x)
    /\ \A k \in 1..x : R[k] = T[k]
    /\ \A q \in 1..(c - b - 1) : R[x + q] = t[b + q]
    /\ \A k \in y..Len(T) : R[k + (c - b) - (y - x)] = T[k]

\* When the lines of a gap are carried, what follows them moves.
LEMMA StagedNext ==
    ASSUME NEW V, NEW old, NEW new, NEW U, Separable(old, new, U, V), NEW A, Framed(old, new, U, A),
           NEW D, NEW T \in Seq(V), NEW pos, Staged(old, new, U, A, D, T, pos),
           NEW b0, NEW c0, Gap(new, U, b0, c0), b0 + 1 # c0, b0 + 1 \notin D,
           NEW R, Replaced(T, pos[b0], pos[c0], new, b0, c0, R)
    PROVE  \E new_pos : Staged(old, new, U, A, D \cup (b0 + 1..c0 - 1), R, new_pos)
<1> DEFINE n == Len(old)
           m == Len(new)
           K == Staying(new, U)
           d == (c0 - b0) - (pos[c0] - pos[b0])
           moved == [b \in K |-> IF b <= b0 THEN pos[b] ELSE pos[b] + d]
           D2 == D \cup (b0 + 1..c0 - 1)
<1>0. n \in Nat /\ m \in Nat /\ U \in SUBSET (1..m) /\ Len(T) \in Nat
    BY DEF Separable
<1>1. /\ b0 \in K /\ c0 \in K /\ b0 \in 0..m /\ c0 \in 1..(m + 1) /\ b0 < c0
      /\ \A b \in K : b \in 0..(m + 1) /\ (b <= b0 \/ c0 <= b)
    <2>1. b0 \in K /\ c0 \in K
        BY DEF Gap
    <2>. QED BY <1>0, <2>1, GapSplits
<1>2. PICK x \in Nat : x = pos[b0]
    BY <1>1 DEF Staged
<1>3. PICK y \in Nat : y = pos[c0]
    BY <1>1 DEF Staged
<1>4. /\ \A b \in K : pos[b] \in Nat
      /\ \A b \in K : b \in 1..m => T[pos[b]] = new[b]
      /\ \A b, c \in K : b < c => pos[b] < pos[c]
      /\ \A b, c : Gap(new, U, b, c) =>
            IF b + 1 \in D THEN Holds(T, pos[b], pos[c], new, b, c)
                           ELSE Holds(T, pos[b], pos[c], old, A[b], A[c])
    BY DEF Staged
<1>5. PICK e \in Int : e = d /\ e = (c0 - b0) - (y - x)
    BY <1>0, <1>1, <1>2, <1>3
<1>6. /\ Len(R) = Len(T) + e
      /\ \A k \in 1..x : R[k] = T[k]
      /\ \A q \in 1..(c0 - b0 - 1) : R[x + q] = new[b0 + q]
      /\ \A k \in y..Len(T) : R[k + e] = T[k]
    <2>1. PICK z \in Nat : z = c0 - b0
        BY <1>0, <1>1
    <2>2. /\ Len(R) = Len(T) + z - (y - x)
          /\ \A k \in 1..x : R[k] = T[k]
          /\ \A q \in 1..(z - 1) : R[x + q] = new[b0 + q]
          /\ \A k \in y..Len(T) : R[k + z - (y - x)] = T[k]
        BY <1>2, <1>3, <2>1 DEF Replaced
    <2>3. \A k \in Int : k + z - (y - x) = k + e
        BY <1>5, <2>1
    <2>4. Len(R) = Len(T) + e
        BY <1>0, <2>2, <2>3
    <2>5. \A k \in y..Len(T) : R[k + e] = T[k]
        <3>1. ASSUME NEW k \in y..Len(T)
              PROVE  R[k + e] = T[k]
            <4>1. k \in Int /\ R[k + z - (y - x)] = T[k]
                BY <1>0, <2>2
            <4>2. k + z - (y - x) = k + e
                BY <2>3, <4>1
            <4>. QED BY <4>1, <4>2
        <3>. QED BY <3>1
    <2>6. \A q \in 1..(c0 - b0 - 1) : R[x + q] = new[b0 + q]
        BY <2>1, <2>2
    <2>. QED BY <2>2, <2>4, <2>5, <2>6
<1>7. \A b \in K : moved[b] = IF b <= b0 THEN pos[b] ELSE pos[b] + e
    <2>. HIDE DEF d
    <2>. QED BY <1>5
<1>. HIDE DEF d, moved, D2, K
<1>8. \A b \in K : IF b <= b0 THEN moved[b] = pos[b] /\ pos[b] <= x
                   ELSE c0 <= b /\ moved[b] = pos[b] + e /\ y <= pos[b] /\ pos[b] + e >= x + (c0 - b0)
    <2>1. ASSUME NEW b \in K, b <= b0
          PROVE  pos[b] <= x
        <3>1. b = b0 \/ b < b0
            BY <1>0, <1>1, <2>1
        <3>. QED BY <1>1, <1>2, <1>4, <3>1
    <2>2. ASSUME NEW b \in K, ~(b <= b0)
          PROVE  c0 <= b /\ y <= pos[b] /\ pos[b] + e >= x + (c0 - b0)
        <3>1. c0 <= b
            BY <1>1, <2>2
        <3>2. c0 = b \/ c0 < b
            BY <1>0, <1>1, <3>1
        <3>3. y <= pos[b] /\ pos[b] \in Nat
            BY <1>1, <1>3, <1>4, <3>2
        <3>4. PICK z \in Nat : z = c0 - b0
            BY <1>0, <1>1
        <3>5. e = z - (y - x)
            BY <1>5, <3>4
        <3>. QED BY <3>1, <3>3, <3>4, <3>5
    <2>. QED BY <1>7, <2>1, <2>2
<1>9. moved[0] = 0 /\ moved[m + 1] = Len(R) + 1
    <2>1. 0 \in K /\ m + 1 \in K
        BY <1>0 DEF K, Staying
    <2>2. 0 <= b0 /\ ~(m + 1 <= b0)
        BY <1>0, <1>1
    <2>3. pos[0] = 0 /\ pos[m + 1] = Len(T) + 1
        BY DEF Staged
    <2>4. moved[0] = 0 /\ moved[m + 1] = (Len(T) + 1) + e
        BY <1>8, <2>1, <2>2, <2>3
    <2>. QED BY <1>0, <1>6, <2>4
<1>10. \A b \in K : moved[b] \in Nat
    <2>1. ASSUME NEW b \in K
          PROVE  moved[b] \in Nat
        <3>1. PICK p \in Nat : p = pos[b]
            BY <1>4
        <3>2. PICK z \in Nat : z = c0 - b0
            BY <1>0, <1>1
        <3>3. IF b <= b0 THEN moved[b] = p ELSE moved[b] = p + e /\ p + e >= x + z
            BY <1>8, <3>1, <3>2
        <3>. QED BY <3>3
    <2>. QED BY <2>1
<1>11. ASSUME NEW b \in K, b \in 1..m
       PROVE  R[moved[b]] = new[b]
    <2>1. PICK p \in Nat : p = pos[b] /\ 0 < p /\ p <= Len(T) /\ T[p] = new[b]
        <3>1. 0 \in K /\ m + 1 \in K /\ 0 < b /\ b < m + 1
            BY <1>0, <1>11 DEF K, Staying
        <3>2. pos[0] = 0 /\ pos[m + 1] = Len(T) + 1
            BY DEF Staged
        <3>3. 0 < pos[b] /\ pos[b] < Len(T) + 1 /\ pos[b] \in Nat
            BY <1>4, <3>1, <3>2
        <3>. QED BY <1>0, <1>4, <1>11, <3>3
    <2>2. CASE b <= b0
        <3>1. p \in 1..x /\ moved[b] = p
            BY <1>8, <2>1, <2>2
        <3>. QED BY <1>6, <2>1, <3>1
    <2>3. CASE ~(b <= b0)
        <3>1. p \in y..Len(T) /\ moved[b] = p + e
            BY <1>0, <1>8, <2>1, <2>3
        <3>. QED BY <1>6, <2>1, <3>1
    <2>. QED BY <2>2, <2>3
<1>12. ASSUME NEW b \in K, NEW c \in K, b < c
       PROVE  moved[b] < moved[c]
    <2>1. PICK p \in Nat : p = pos[b]
        BY <1>4
    <2>2. PICK r \in Nat : r = pos[c] /\ p < r
        BY <1>4, <1>12, <2>1
    <2>3. b \in 0..(m + 1) /\ c \in 0..(m + 1)
        BY <1>1
    <2>4. PICK z \in Nat : z = c0 - b0 /\ 0 < z
        BY <1>0, <1>1
    <2>5. /\ IF b <= b0 THEN moved[b] = p /\ p <= x ELSE moved[b] = p + e
          /\ IF c <= b0 THEN moved[c] = r ELSE moved[c] = r + e /\ r + e >= x + z
        BY <1>8, <2>1, <2>2, <2>4
    <2>6. c <= b0 => b <= b0
        BY <1>0, <1>1, <1>12, <2>3
    <2>. QED BY <2>2, <2>4, <2>5, <2>6
<1>13. ASSUME NEW b, NEW c, Gap(new, U, b, c)
       PROVE  IF b + 1 \in D2 THEN Holds(R, moved[b], moved[c], new, b, c)
                              ELSE Holds(R, moved[b], moved[c], old, A[b], A[c])
    <2>1. /\ b \in K /\ c \in K /\ b \in 0..m /\ c \in 1..(m + 1) /\ b < c
          /\ b0 <= b \/ c <= b0
          /\ c0 <= b \/ c <= c0
        <3>1. b \in K /\ c \in K
            BY <1>13 DEF Gap, K
        <3>2. /\ b \in 0..m /\ c \in 1..(m + 1) /\ b < c
              /\ b0 <= b \/ c <= b0
            BY <1>0, <1>1, <1>13, GapSplits DEF K
        <3>3. c0 <= b \/ c <= c0
            BY <1>0, <1>1, <1>13, GapSplits DEF K
        <3>. QED BY <3>1, <3>2, <3>3
    <2>2. PICK p \in Nat : p = pos[b]
        BY <1>4, <2>1
    <2>3. PICK r \in Nat : r = pos[c]
        BY <1>4, <2>1
    <2>4. CASE b = b0
        <3>1. c = c0
            BY <1>0, <1>1, <2>1, <2>4
        <3>2. b + 1 \in D2
            BY <1>0, <1>1, <2>4 DEF D2
        <3>3. moved[b] = x /\ moved[c] = y + e
            BY <1>0, <1>1, <1>2, <1>3, <1>8, <2>4, <3>1
        <3>4. (y + e) - x = c0 - b0
            <4>1. PICK z \in Nat : z = c0 - b0
                BY <1>0, <1>1
            <4>2. e = z - (y - x)
                BY <1>5, <4>1
            <4>. QED BY <4>1, <4>2
        <3>. QED BY <1>6, <2>4, <3>1, <3>2, <3>3, <3>4 DEF Holds
    <2>5. CASE b < b0
        <3>1. c <= b0 /\ b <= b0
            BY <1>0, <1>1, <2>1, <2>5
        <3>2. moved[b] = p /\ moved[c] = r /\ r <= x
            BY <1>8, <2>1, <2>2, <2>3, <3>1
        <3>3. b + 1 \in D2 <=> b + 1 \in D
            BY <1>0, <1>1, <2>1, <2>5 DEF D2
        <3>4. \A q \in Nat : 0 < q /\ p + q < r => R[p + q] = T[p + q]
            BY <1>6, <3>2
        <3>5. ASSUME NEW t, NEW f \in Int, NEW g \in Int, Holds(T, p, r, t, f, g)
              PROVE  Holds(R, p, r, t, f, g)
            <4>1. r - p = g - f /\ \A q \in 1..(g - f - 1) : T[p + q] = t[f + q]
                BY <3>5 DEF Holds
            <4>2. \A q \in 1..(g - f - 1) : q \in Nat /\ 0 < q /\ p + q < r
                BY <4>1
            <4>. QED BY <3>4, <4>1, <4>2 DEF Holds
        <3>6. IF b + 1 \in D THEN Holds(T, p, r, new, b, c) ELSE Holds(T, p, r, old, A[b], A[c])
            BY <1>4, <1>13, <2>2, <2>3
        <3>7. b \in Int /\ c \in Int /\ A[b] \in Int /\ A[c] \in Int
            <4>1. A[b] \in 0..(n + 1) /\ A[c] \in 0..(n + 1)
                BY <1>0, <2>1, FrameRange DEF K
            <4>. QED BY <1>0, <2>1, <4>1
        <3>. QED BY <3>2, <3>3, <3>5, <3>6, <3>7
    <2>6. CASE b0 < b
        <3>1. c0 <= b /\ ~(b <= b0) /\ ~(c <= b0)
            BY <1>0, <1>1, <2>1, <2>6
        <3>2. moved[b] = p + e /\ moved[c] = r + e /\ y <= p /\ p + e \in Nat
            BY <1>8, <1>10, <2>1, <2>2, <2>3, <3>1
        <3>3. b + 1 \in D2 <=> b + 1 \in D
            BY <1>0, <1>1, <2>1, <3>1 DEF D2
        <3>4. r <= Len(T) + 1
            <4>1. m + 1 \in K /\ pos[m + 1] = Len(T) + 1
                BY <1>0 DEF K, Staying, Staged
            <4>2. c = m + 1 \/ c < m + 1
                BY <1>0, <2>1
            <4>. QED BY <1>4, <2>1, <2>3, <4>1, <4>2
        <3>5. \A q \in Nat : 0 < q /\ p + q < r => R[(p + e) + q] = T[p + q]
            <4>1. ASSUME NEW q \in Nat, 0 < q, p + q < r
                  PROVE  R[(p + e) + q] = T[p + q]
                <5>1. p + q \in y..Len(T) /\ (p + e) + q = (p + q) + e
                    BY <1>0, <3>2, <3>4, <4>1
                <5>. QED BY <1>6, <5>1
            <4>. QED BY <4>1
        <3>6. ASSUME NEW t, NEW f \in Int, NEW g \in Int, Holds(T, p, r, t, f, g)
              PROVE  Holds(R, p + e, r + e, t, f, g)
            <4>1. r - p = g - f /\ \A q \in 1..(g - f - 1) : T[p + q] = t[f + q]
                BY <3>6 DEF Holds
            <4>2. \A q \in 1..(g - f - 1) : q \in Nat /\ 0 < q /\ p + q < r
                BY <4>1
            <4>3. (r + e) - (p + e) = g - f
                BY <4>1
            <4>. QED BY <3>5, <4>1, <4>2, <4>3 DEF Holds
        <3>7. IF b + 1 \in D THEN Holds(T, p, r, new, b, c) ELSE Holds(T, p, r, old, A[b], A[c])
            BY <1>4, <1>13, <2>2, <2>3
        <3>8. b \in Int /\ c \in Int /\ A[b] \in Int /\ A[c] \in Int
            <4>1. A[b] \in 0..(n + 1) /\ A[c] \in 0..(n + 1)
                BY <1>0, <2>1, FrameRange DEF K
            <4>. QED BY <1>0, <2>1, <4>1
        <3>. QED BY <3>2, <3>3, <3>6, <3>7, <3>8
    <2>. QED BY <1>0, <1>1, <2>1, <2>4, <2>5, <2>6
<1>14. Staged(old, new, U, A, D2, R, moved)
    <2>. USE DEF K
    <2>. QED BY <1>9, <1>10, <1>11, <1>12, <1>13 DEF Staged
<1>. QED BY <1>14 DEF D2

-----------------------------------------------------------------------------
(* Where a patch fits.                                                      *)

Matches(t, piece, i) == Piece(t, i + 1, i + Len(piece)) = piece

LEMMA MatchesMeans ==
    ASSUME NEW V, NEW t \in Seq(V), NEW piece \in Seq(V),
           NEW i \in Nat, i + Len(piece) <= Len(t)
    PROVE  Matches(t, piece, i) <=> \A q \in 1..Len(piece) : t[i + q] = piece[q]
<1> DEFINE L == Len(piece)
           s == Piece(t, i + 1, i + L)
<1>0. L \in Nat /\ Len(t) \in Nat
    OBVIOUS
<1>1. s \in Seq(V) /\ Len(s) = L /\ \A q \in 1..L : s[q] = t[i + q]
    <2>1. \A k \in i + 1..i + L : t[k] \in V
        BY <1>0
    <2>2. /\ s \in Seq(V)
          /\ Len(s) = IF i + 1 <= i + L THEN (i + L) - (i + 1) + 1 ELSE 0
          /\ \A q \in 1..((i + L) - (i + 1) + 1) : s[q] = t[(i + 1) + q - 1]
        BY <1>0, <2>1, SubSeqProperties DEF Piece
    <2>3. (i + L) - (i + 1) + 1 = L /\ (i + 1 <= i + L <=> L # 0)
        BY <1>0
    <2>4. \A q \in 1..L : (i + 1) + q - 1 = i + q
        BY <1>0
    <2>. HIDE DEF s
    <2>. QED BY <2>2, <2>3, <2>4
<1>2. s = piece <=> \A q \in 1..L : s[q] = piece[q]
    <2>. HIDE DEF s
    <2>1. ASSUME \A q \in 1..L : s[q] = piece[q]
          PROVE  s = piece
        <3>1. s \in Seq(V) /\ piece \in Seq(V) /\ Len(s) = Len(piece)
            BY <1>1
        <3>. QED BY <2>1, <3>1
    <2>. QED BY <2>1
<1>. HIDE DEF s
<1>3. s = piece <=> \A q \in 1..L : t[i + q] = piece[q]
    BY <1>1, <1>2
<1>. QED BY <1>3 DEF Matches, s

\* What the search finds from a place on.
Search(found, i, t, piece) ==
    found[i] = IF i + Len(piece) > Len(t) THEN {}
               ELSE IF Matches(t, piece, i) THEN {i} \cup found[i + Len(piece)] ELSE found[i + 1]

LEMMA SearchExists ==
    ASSUME NEW t, Len(t) \in Nat, NEW piece, Len(piece) \in Nat \ {0}
    PROVE  \E found : /\ Occurrences(t, piece) = found[0]
                      /\ \A i \in 0..Len(t) : Search(found, i, t, piece)
<1> DEFINE n == Len(t)
           L == Len(piece)
           P == 0..n
           w == [i \in P |-> n - i]
           Stop == {i \in P : i + L > n}
           hit(i) == Piece(t, i + 1, i + Len(piece)) = piece
           next == [i \in P |-> IF hit(i) THEN i + L ELSE i + 1]
           base == [i \in P |-> {}]
           V == SUBSET P
           comb == [x \in P \X V |-> IF hit(x[1]) THEN {x[1]} \cup x[2] ELSE x[2]]
           Rec(f) == f = [i \in 0..Len(t) |->
                             IF i + Len(piece) > Len(t) THEN {}
                             ELSE IF hit(i) THEN {i} \cup f[i + Len(piece)] ELSE f[i + 1]]
           Value(f, i) == IF i + L > n THEN {} ELSE IF hit(i) THEN {i} \cup f[i + L] ELSE f[i + 1]
<1>1. n \in Nat /\ L \in Nat /\ 0 < L
    OBVIOUS
<1>2. \A f : Rec(f) <=> f = [i \in P |-> Value(f, i)]
    OBVIOUS
<1>3. \A i \in P : w[i] \in Nat /\ w[i] <= n
    BY <1>1
<1>4. \A i \in P \ Stop : next[i] \in P /\ w[next[i]] < w[i]
    <2>1. ASSUME NEW i \in P \ Stop, NEW j \in {i + L, i + 1}
          PROVE  j \in P /\ w[j] < w[i]
        <3>1. i \in P /\ i + L <= n
            BY <1>1, <2>1
        <3>2. j \in P /\ i < j
            BY <1>1, <2>1, <3>1
        <3>. QED BY <1>1, <3>1, <3>2
    <2>2. \A i \in P : next[i] \in {i + L, i + 1}
        <3>. HIDE DEF P, hit
        <3>. QED OBVIOUS
    <2>. HIDE DEF P, w, Stop, next
    <2>. QED BY <2>1, <2>2 DEF Stop
<1>5. PICK f : Computes(f, P, next, Stop, base, comb, V)
    <2>1. \A i \in P \cap Stop : base[i] \in V
        <3>. HIDE DEF P
        <3>. QED OBVIOUS
    <2>2. \A i \in P \ Stop : \A v \in V : comb[<<i, v>>] \in V
        <3>. HIDE DEF P, hit
        <3>. QED OBVIOUS
    <2>. HIDE DEF P, w, Stop, next, base, comb, V
    <2>3. Grounded(P, w, n, next, Stop, base, comb, V)
        BY <1>1, <1>3, <1>4, <2>1, <2>2 DEF Grounded
    <2>. QED BY <2>3, RecursionFacts
<1>6. /\ f = [i \in P |-> f[i]]
      /\ \A i \in P \cap Stop : f[i] = base[i]
      /\ \A i \in P \ Stop : f[i] = comb[<<i, f[next[i]]>>] /\ f[next[i]] \in V
    <2>. HIDE DEF P, Stop, next, base, comb, V
    <2>. QED BY <1>5 DEF Computes
<1>7. \A i \in P : f[i] = Value(f, i)
    <2>1. ASSUME NEW i \in P, i \in Stop
          PROVE  f[i] = Value(f, i)
        <3>1. i + L > n
            BY <2>1
        <3>2. f[i] = {}
            <4>1. base[i] = {}
                BY <2>1
            <4>. HIDE DEF P, base, Stop
            <4>. QED BY <1>6, <2>1, <4>1
        <3>. QED BY <3>1, <3>2
    <2>2. ASSUME NEW i \in P, i \notin Stop
          PROVE  f[i] = Value(f, i)
        <3>1. PICK v \in V : v = f[next[i]] /\ f[i] = comb[<<i, v>>]
            <4>. HIDE DEF P, Stop, next, base, comb, V
            <4>. QED BY <1>6, <2>2
        <3>2. comb[<<i, v>>] = IF hit(i) THEN {i} \cup v ELSE v
            <4>. HIDE DEF P, hit
            <4>. QED OBVIOUS
        <3>3. next[i] = IF hit(i) THEN i + L ELSE i + 1
            <4>. HIDE DEF P, hit
            <4>. QED OBVIOUS
        <3>4. ~(i + L > n)
            BY <2>2
        <3>. HIDE DEF P, next, comb, hit, V
        <3>. QED BY <3>1, <3>2, <3>3, <3>4
    <2>. QED BY <2>1, <2>2
<1>8. Rec(f)
    <2>1. f = [i \in P |-> Value(f, i)]
        <3>. HIDE DEF Value, P
        <3>. QED BY <1>6, <1>7
    <2>. HIDE DEF Rec, Value
    <2>. QED BY <1>2, <2>1
<1>. HIDE DEF Rec
<1>9. PICK found : found = (CHOOSE h : Rec(h)) /\ Rec(found)
    BY <1>8
<1>10. Occurrences(t, piece) = found[0]
    BY <1>9 DEF Occurrences, Rec
<1>11. found = [i \in P |-> Value(found, i)]
    BY <1>2, <1>9
<1>12. \A i \in P : found[i] = Value(found, i)
    <2>. HIDE DEF Value, P
    <2>. QED BY <1>11
<1>13. \A i \in P : Search(found, i, t, piece)
    BY <1>12 DEF Search, Matches
<1>. HIDE DEF P
<1>. QED BY <1>10, <1>13 DEF P

\* The search passes over no place where a piece without repeated lines stands.
LEMMA OccurrenceFacts ==
    ASSUME NEW V, NEW t \in Seq(V), NEW piece \in Seq(V), piece # <<>>,
           \A i, k \in 0..Len(t) : i < k /\ Matches(t, piece, i) /\ Matches(t, piece, k) /\ k + Len(piece) <= Len(t) =>
              i + Len(piece) <= k
    PROVE  \A i : i \in Occurrences(t, piece) <=>
               i \in 0..Len(t) /\ i + Len(piece) <= Len(t) /\ Matches(t, piece, i)
<1> DEFINE n == Len(t)
           L == Len(piece)
           P == 0..n
           w == [i \in P |-> n - i]
           There(i) == {k \in i..n : k + L <= n /\ Matches(t, piece, k)}
<1>1. n \in Nat /\ L \in Nat \ {0}
    OBVIOUS
<1>2. PICK found : /\ Occurrences(t, piece) = found[0]
                   /\ \A i \in P : Search(found, i, t, piece)
    BY <1>1, SearchExists
<1>3. \A i \in P : w[i] \in Nat
    BY <1>1
<1> DEFINE S == {i \in P : found[i] = There(i)}
<1>4. ASSUME NEW i \in P, \A j \in P : w[j] < w[i] => j \in S
      PROVE  i \in S
    <2>0. i \in Nat
        OBVIOUS
    <2>1. CASE i + L > n
        <3>1. found[i] = {}
            BY <1>2, <2>1 DEF Search
        <3>2. There(i) = {}
            BY <1>1, <2>0, <2>1
        <3>. QED BY <3>1, <3>2
    <2>2. CASE ~(i + L > n)
        <3>1. i + L <= n /\ i + L \in P /\ i + 1 \in P /\ w[i + L] < w[i] /\ w[i + 1] < w[i]
            BY <1>1, <2>0, <2>2
        <3>2. found[i + L] = There(i + L) /\ found[i + 1] = There(i + 1)
            <4>. HIDE DEF P, w, There
            <4>. QED BY <1>4, <3>1
        <3>3. CASE Matches(t, piece, i)
            <4>1. found[i] = {i} \cup There(i + L)
                BY <1>2, <2>2, <3>2, <3>3 DEF Search
            <4>3. ASSUME NEW k \in i + 1..i + L - 1, k + L <= n
                  PROVE  ~Matches(t, piece, k)
                <5>1. k \in 0..n /\ i < k /\ ~(i + L <= k)
                    BY <1>1, <2>0, <4>3
                <5>. QED BY <3>3, <4>3, <5>1
            <4>4. ASSUME NEW k \in There(i)
                  PROVE  k = i \/ k \in There(i + L)
                <5>1. k \in i..n /\ k + L <= n /\ Matches(t, piece, k)
                    OBVIOUS
                <5>2. k \notin i + 1..i + L - 1
                    BY <4>3, <5>1
                <5>3. k = i \/ k \in i + L..n
                    BY <1>1, <2>0, <5>1, <5>2
                <5>. QED BY <5>1, <5>3
            <4>5. i \in There(i) /\ There(i + L) \subseteq There(i)
                BY <1>1, <2>0, <3>1, <3>3
            <4>. HIDE DEF There, P
            <4>. QED BY <4>1, <4>4, <4>5
        <3>4. CASE ~Matches(t, piece, i)
            <4>1. found[i] = There(i + 1)
                BY <1>2, <2>2, <3>2, <3>4 DEF Search
            <4>2. There(i) = There(i + 1)
                BY <1>1, <2>0, <3>4
            <4>. HIDE DEF There, P
            <4>. QED BY <4>1, <4>2
        <3>. QED BY <3>3, <3>4
    <2>. QED BY <2>1, <2>2
<1>5. P \subseteq S
    <2>. HIDE DEF S, P, w
    <2>. QED BY <1>3, <1>4, Descends
<1>6. 0 \in P
    BY <1>1
<1>7. found[0] = There(0)
    <2>. HIDE DEF There, P
    <2>. QED BY <1>5, <1>6
<1>. QED BY <1>2, <1>7

\* The lines of t from a to b.
Taken(s, V, t, a, b) ==
    /\ s \in Seq(V) /\ Len(s) = b + 1 - a
    /\ \A q \in 1..(b + 1 - a) : s[q] = t[a + q - 1]

LEMMA PieceFacts ==
    ASSUME NEW V, NEW t \in Seq(V), NEW a \in Nat, 1 <= a, NEW b \in Nat, a <= b + 1, b <= Len(t)
    PROVE  Taken(Piece(t, a, b), V, t, a, b)
<1>1. \A k \in a..b : t[k] \in V
    OBVIOUS
<1>2. /\ SubSeq(t, a, b) \in Seq(V)
      /\ Len(SubSeq(t, a, b)) = IF a <= b THEN b - a + 1 ELSE 0
      /\ \A q \in 1..(b - a + 1) : SubSeq(t, a, b)[q] = t[a + q - 1]
    BY <1>1, SubSeqProperties
<1>3. b - a + 1 = b + 1 - a /\ (~(a <= b) => b + 1 - a = 0)
    OBVIOUS
<1>. QED BY <1>2, <1>3 DEF Piece, Taken

-----------------------------------------------------------------------------
(* Lines and their characters.                                              *)

\* The characters of the first i lines of T.
Spelled(f, T) == f[0] = <<>> /\ \A i \in 1..Len(T) : f[i] = f[i - 1] \o T[i]

LEMMA BytesAreSpelled ==
    ASSUME NEW C, NEW T \in Seq(Seq(C))
    PROVE  \E f : Bytes(T) = f[Len(T)] /\ Spelled(f, T)
<1> DEFINE N == Len(T)
           Rec(f) == f = [i \in 1..Len(T) |-> IF i = 1 THEN T[i] ELSE f[i - 1] \o T[i]]
           Value(f, i) == IF i = 1 THEN T[i] ELSE f[i - 1] \o T[i]
           Until(f, k) == f = [i \in 1..k |-> Value(f, i)]
           S == {k \in 0..N : \E f : Until(f, k)}
<1>0. N \in Nat
    OBVIOUS
<1>1. CASE N = 0
    <2>1. Bytes(T) = T /\ T = <<>>
        BY <1>1 DEF Bytes, FlattenSeq
    <2>2. PICK f : f = [i \in {0} |-> <<>>]
        OBVIOUS
    <2>3. Bytes(T) = f[Len(T)] /\ Spelled(f, T)
        BY <1>1, <2>1, <2>2 DEF Spelled
    <2>. QED BY <2>3
<1>2. CASE N # 0
    <2>1. 0 \in S
        <3>1. PICK f : f = [i \in {} |-> 0]
            OBVIOUS
        <3>2. Until(f, 0)
            <4>1. 1..0 = {}
                OBVIOUS
            <4>. HIDE DEF Value
            <4>. QED BY <3>1, <4>1
        <3>. HIDE DEF Until
        <3>. QED BY <1>0, <3>2
    <2>2. ASSUME NEW k \in 0..(N - 1), k \in S
          PROVE  k + 1 \in S
        <3>1. PICK f : Until(f, k)
            BY <2>2
        <3> DEFINE g == [i \in 1..(k + 1) |-> Value(f, i)]
        <3>2. \A i \in 1..k : f[i] = Value(f, i)
            <4>. HIDE DEF Value
            <4>. QED BY <3>1
        <3>3. \A i \in 1..k : g[i] = f[i]
            <4>1. \A i \in 1..k : i \in 1..(k + 1)
                OBVIOUS
            <4>2. \A i \in 1..k : g[i] = Value(f, i)
                <5>. HIDE DEF Value
                <5>. QED BY <4>1
            <4>. HIDE DEF g, Value
            <4>. QED BY <3>2, <4>2
        <3>4. \A i \in 1..(k + 1) : i # 1 => i - 1 \in 1..k
            OBVIOUS
        <3>5. \A i \in 1..(k + 1) : g[i] = Value(g, i)
            <4>1. \A i \in 1..(k + 1) : g[i] = Value(f, i)
                <5>. HIDE DEF Value
                <5>. QED OBVIOUS
            <4>. HIDE DEF g
            <4>. QED BY <3>3, <3>4, <4>1
        <3>6. Until(g, k + 1)
            <4>1. g = [i \in 1..(k + 1) |-> g[i]]
                OBVIOUS
            <4>. HIDE DEF g, Value
            <4>. QED BY <3>5, <4>1
        <3>7. k + 1 \in 0..N
            BY <1>0
        <3>. HIDE DEF Until
        <3>. QED BY <3>6, <3>7
    <2>3. \E f : Until(f, N)
        <3>1. \A k \in 0..N : k \in S
            <4>. HIDE DEF S, N
            <4>. QED BY <1>0, <2>1, <2>2, Reaches
        <3>2. N \in 0..N
            BY <1>0
        <3>. HIDE DEF Until, N
        <3>. QED BY <3>1, <3>2
    <2>4. \A f : Rec(f) <=> Until(f, N)
        OBVIOUS
    <2>5. PICK g : g = (CHOOSE f : Rec(f)) /\ Rec(g)
        <3>. HIDE DEF Rec, Until
        <3>. QED BY <2>3, <2>4
    <2>6. Bytes(T) = g[N]
        BY <1>2, <2>5 DEF Bytes, FlattenSeq
    <2>7. \A i \in 1..N : g[i] = Value(g, i)
        <3>1. Until(g, N)
            <4>. HIDE DEF Rec, Until
            <4>. QED BY <2>4, <2>5
        <3>. HIDE DEF Value
        <3>. QED BY <3>1
    <2>8. PICK f : f = [i \in 0..N |-> IF i = 0 THEN <<>> ELSE g[i]]
        OBVIOUS
    <2>9. f[0] = <<>> /\ f[N] = g[N] /\ \A i \in 1..N : f[i] = g[i]
        BY <1>0, <1>2, <2>8
    <2>10. ASSUME NEW i \in 1..N
           PROVE  f[i] = f[i - 1] \o T[i]
        <3>1. CASE i = 1
            <4>1. g[i] = T[i]
                BY <2>7, <3>1
            <4>2. T[i] \in Seq(C)
                OBVIOUS
            <4>3. <<>> \o T[i] = T[i]
                BY <4>2, ConcatEmptySeq
            <4>4. i - 1 = 0
                BY <3>1
            <4>. QED BY <2>9, <4>1, <4>3, <4>4
        <3>2. CASE i # 1
            <4>1. i - 1 \in 1..N
                BY <1>0, <3>2
            <4>2. g[i] = g[i - 1] \o T[i]
                BY <2>7, <3>2
            <4>. QED BY <2>9, <4>1, <4>2
        <3>. QED BY <3>1, <3>2
    <2>11. Bytes(T) = f[Len(T)] /\ Spelled(f, T)
        BY <2>6, <2>9, <2>10 DEF Spelled
    <2>. QED BY <2>11
<1>. QED BY <1>1, <1>2

\* What is spelled are characters, and as much of it as the lines say.
LEMMA SpelledType ==
    ASSUME NEW C, NEW T \in Seq(Seq(C)), NEW f, Spelled(f, T)
    PROVE  \A i \in 0..Len(T) : f[i] \in Seq(C)
<1> DEFINE S == {i \in 0..Len(T) : f[i] \in Seq(C)}
<1>0. Len(T) \in Nat
    OBVIOUS
<1>1. 0 \in S
    <2>1. f[0] \in Seq(C)
        <3>1. f[0] = <<>>
            BY DEF Spelled
        <3>. QED BY <3>1, EmptySeq
    <2>2. 0 \in 0..Len(T)
        BY <1>0
    <2>. QED BY <2>1, <2>2
<1>2. ASSUME NEW i \in 0..(Len(T) - 1), i \in S
      PROVE  i + 1 \in S
    <2>1. i + 1 \in 1..Len(T) /\ i + 1 \in 0..Len(T) /\ (i + 1) - 1 = i
        BY <1>0
    <2>2. f[i + 1] = f[i] \o T[i + 1]
        BY <2>1 DEF Spelled
    <2>3. T[i + 1] \in Seq(C) /\ f[i] \in Seq(C)
        BY <1>2, <2>1
    <2>. QED BY <2>1, <2>2, <2>3, ConcatProperties
<1>3. \A i \in 0..Len(T) : i \in S
    <2>. HIDE DEF S
    <2>. QED BY <1>0, <1>1, <1>2, Reaches
<1>. QED BY <1>3

LEMMA BytesType ==
    ASSUME NEW C, NEW T \in Seq(Seq(C))
    PROVE  Bytes(T) \in Seq(C)
<1>1. PICK f : Bytes(T) = f[Len(T)] /\ Spelled(f, T)
    BY BytesAreSpelled
<1>2. Len(T) \in 0..Len(T)
    OBVIOUS
<1>. QED BY <1>1, <1>2, SpelledType

LEMMA BytesOfNone == Bytes(<<>>) = <<>>
BY DEF Bytes, FlattenSeq

LEMMA BytesOfOne ==
    ASSUME NEW C, NEW v \in Seq(C)
    PROVE  Bytes(<<v>>) = v
<1>1. PICK T : T = <<v>>
    OBVIOUS
<1>2. T \in Seq(Seq(C)) /\ Len(T) = 1 /\ T[1] = v
    BY <1>1
<1>3. PICK f : Bytes(T) = f[Len(T)] /\ Spelled(f, T)
    BY <1>2, BytesAreSpelled
<1>4. f[1] = f[0] \o T[1] /\ f[0] = <<>>
    <2>1. 1 \in 1..Len(T) /\ 1 - 1 = 0
        BY <1>2
    <2>. QED BY <1>3, <2>1 DEF Spelled
<1>5. <<>> \o v = v
    BY ConcatEmptySeq
<1>. QED BY <1>1, <1>2, <1>3, <1>4, <1>5

LEMMA BytesOfConcat ==
    ASSUME NEW C, NEW S \in Seq(Seq(C)), NEW T \in Seq(Seq(C))
    PROVE  Bytes(S \o T) = Bytes(S) \o Bytes(T)
<1>0. PICK R : R = S \o T
    OBVIOUS
<1>1. /\ R \in Seq(Seq(C)) /\ Len(R) = Len(S) + Len(T)
      /\ \A i \in 1..Len(S) + Len(T) : R[i] = IF i <= Len(S) THEN S[i] ELSE T[i - Len(S)]
    BY <1>0, ConcatProperties
<1>2. PICK f : Bytes(R) = f[Len(R)] /\ Spelled(f, R)
    BY <1>1, BytesAreSpelled
<1>3. PICK g : Bytes(S) = g[Len(S)] /\ Spelled(g, S)
    BY BytesAreSpelled
<1>4. PICK h : Bytes(T) = h[Len(T)] /\ Spelled(h, T)
    BY BytesAreSpelled
<1>5. PICK n \in Nat, m \in Nat : n = Len(S) /\ m = Len(T)
    OBVIOUS
<1>6. f[n] = g[n]
    <2> DEFINE E == {i \in 0..n : f[i] = g[i]}
    <2>1. 0 \in E
        BY <1>2, <1>3 DEF Spelled
    <2>2. ASSUME NEW i \in 0..(n - 1), i \in E
          PROVE  i + 1 \in E
        <3>1. i + 1 \in 1..Len(S) /\ i + 1 \in 1..Len(R) /\ (i + 1) - 1 = i /\ i + 1 <= Len(S)
            BY <1>1, <1>5
        <3>2. f[i + 1] = f[i] \o R[i + 1] /\ g[i + 1] = g[i] \o S[i + 1]
            BY <1>2, <1>3, <3>1 DEF Spelled
        <3>3. R[i + 1] = S[i + 1]
            BY <1>1, <3>1
        <3>4. f[i] = g[i]
            BY <2>2
        <3>5. f[i + 1] = g[i + 1]
            BY <3>2, <3>3, <3>4
        <3>6. i + 1 \in 0..n
            BY <1>5
        <3>. QED BY <3>5, <3>6
    <2>3. \A i \in 0..n : i \in E
        <3>. HIDE DEF E
        <3>. QED BY <2>1, <2>2, Reaches
    <2>. QED BY <2>3
<1>7. f[n + m] = g[n] \o h[m]
    <2> DEFINE Agrees(j) == f[n + j] = g[n] \o h[j]
           E == {j \in 0..m : Agrees(j)}
    <2>0. g[n] \in Seq(C) /\ \A j \in 0..m : h[j] \in Seq(C)
        BY <1>3, <1>4, <1>5, SpelledType
    <2>1. 0 \in E
        <3>1. h[0] = <<>> /\ n + 0 = n
            BY <1>4 DEF Spelled
        <3>2. g[n] \o <<>> = g[n]
            BY <2>0, ConcatEmptySeq
        <3>3. Agrees(0)
            BY <1>6, <3>1, <3>2
        <3>. HIDE DEF Agrees
        <3>. QED BY <3>3
    <2>2. ASSUME NEW j \in 0..(m - 1), j \in E
          PROVE  j + 1 \in E
        <3>1. PICK k \in Nat : k = n + (j + 1)
            OBVIOUS
        <3>2. /\ k \in 1..Len(R) /\ ~(k <= Len(S)) /\ k - Len(S) = j + 1 /\ k - 1 = n + j
              /\ j + 1 \in 1..Len(T) /\ (j + 1) - 1 = j /\ j \in 0..m /\ j + 1 \in 0..m
            BY <1>1, <1>5, <3>1
        <3>3. f[k] = f[n + j] \o R[k] /\ h[j + 1] = h[j] \o T[j + 1]
            <4>1. f[k] = f[k - 1] \o R[k]
                BY <1>2, <3>2 DEF Spelled
            <4>2. h[j + 1] = h[(j + 1) - 1] \o T[j + 1]
                BY <1>4, <3>2 DEF Spelled
            <4>. QED BY <3>2, <4>1, <4>2
        <3>4. R[k] = T[j + 1]
            BY <1>1, <3>2
        <3>5. T[j + 1] \in Seq(C) /\ h[j] \in Seq(C)
            BY <2>0, <3>2
        <3>6. (g[n] \o h[j]) \o T[j + 1] = g[n] \o (h[j] \o T[j + 1])
            <4>1. PICK a \in Seq(C), b \in Seq(C), c \in Seq(C) :
                     a = g[n] /\ b = h[j] /\ c = T[j + 1]
                BY <2>0, <3>5
            <4>2. (a \o b) \o c = a \o (b \o c)
                BY ConcatAssociative
            <4>. QED BY <4>1, <4>2
        <3>7. f[n + j] = g[n] \o h[j]
            BY <2>2
        <3>8. Agrees(j + 1)
            BY <3>1, <3>3, <3>4, <3>6, <3>7
        <3>. HIDE DEF Agrees
        <3>. QED BY <3>2, <3>8
    <2>3. \A j \in 0..m : j \in E
        <3>. HIDE DEF E
        <3>. QED BY <2>1, <2>2, Reaches
    <2>4. Agrees(m)
        <3>. HIDE DEF Agrees
        <3>. QED BY <2>3
    <2>. QED BY <2>4
<1>. QED BY <1>0, <1>1, <1>2, <1>3, <1>4, <1>5, <1>7

\* s stands in t after k characters.
Stands(t, s, k) == k + Len(s) <= Len(t) /\ \A q \in 1..Len(s) : t[k + q] = s[q]

\* Lines that end in their only newline, none of which is the end of another one.
Clean(V, C) ==
    /\ V \subseteq Seq(C)
    /\ \A v \in V : /\ v # <<>> /\ v[Len(v)] = Newline
                    /\ \A q \in 1..Len(v) : v[q] = Newline => q = Len(v)
    /\ \A u, v \in V : Len(u) <= Len(v) /\ Stands(v, u, Len(v) - Len(u)) => u = v

\* A line that stands in P followed by a line stands in P or is that line.
LEMMA LastLine ==
    ASSUME NEW C, NEW V, Clean(V, C), NEW P \in Seq(C), NEW u \in V, NEW v \in V,
           NEW k \in Nat, Stands(P \o v, u, k)
    PROVE  Stands(P, u, k) \/ (u = v /\ k = Len(P))
<1>1. u \in Seq(C) /\ v \in Seq(C)
    BY DEF Clean
<1>2. PICK t : t = P \o v
    OBVIOUS
<1>3. PICK p \in Nat, l \in Nat, m \in Nat : p = Len(P) /\ l = Len(u) /\ m = Len(v)
    BY <1>1
<1>4. /\ t \in Seq(C) /\ Len(t) = p + m
      /\ \A i \in 1..p + m : t[i] = IF i <= p THEN P[i] ELSE v[i - p]
    BY <1>1, <1>2, <1>3, ConcatProperties
<1>5. k + l <= p + m /\ \A q \in 1..l : t[k + q] = u[q]
    BY <1>2, <1>3, <1>4 DEF Stands
<1>6. l # 0 /\ m # 0 /\ u[l] = Newline /\ \A q \in 1..m : v[q] = Newline => q = m
    <2>1. u # <<>> /\ v # <<>>
        BY DEF Clean
    <2>. QED BY <1>1, <1>3, <2>1 DEF Clean
<1>7. CASE k + l <= p
    <2>1. \A q \in 1..l : P[k + q] = u[q]
        <3>1. ASSUME NEW q \in 1..l
              PROVE  P[k + q] = u[q]
            <4>1. k + q \in 1..p + m /\ k + q <= p
                BY <1>7
            <4>. QED BY <1>4, <1>5, <4>1
        <3>. QED BY <3>1
    <2>. QED BY <1>3, <1>7, <2>1 DEF Stands
<1>8. CASE k + l > p
    <2>1. k + l = p + m
        <3>1. PICK e \in 1..m : e = k + l - p
            BY <1>5, <1>8
        <3>2. k + l \in 1..p + m /\ ~(k + l <= p) /\ l \in 1..l
            BY <1>5, <1>6, <1>8
        <3>3. t[k + l] = v[e] /\ t[k + l] = u[l]
            BY <1>4, <1>5, <3>1, <3>2
        <3>4. e = m
            BY <1>6, <3>1, <3>3
        <3>. QED BY <3>1, <3>4
    <2>2. CASE l <= m
        <3>1. ASSUME NEW q \in 1..l
              PROVE  v[(m - l) + q] = u[q]
            <4>1. k + q \in 1..p + m /\ ~(k + q <= p) /\ k + q - p = (m - l) + q
                BY <2>1, <2>2
            <4>. QED BY <1>4, <1>5, <4>1
        <3>2. (m - l) + l = m
            OBVIOUS
        <3>3. Len(u) <= Len(v) /\ Stands(v, u, Len(v) - Len(u))
            BY <1>3, <2>2, <3>1, <3>2 DEF Stands
        <3>4. u = v
            BY <3>3 DEF Clean
        <3>. QED BY <1>3, <2>1, <3>4
    <2>3. CASE l > m
        <3>1. ASSUME NEW q \in 1..m
              PROVE  u[(l - m) + q] = v[q]
            <4>1. PICK i \in 1..l : i = (l - m) + q
                BY <2>3
            <4>2. k + i \in 1..p + m /\ ~(k + i <= p) /\ k + i - p = q
                BY <2>1, <2>3, <4>1
            <4>3. PICK e \in 1..p + m : e = k + i
                BY <4>2
            <4>4. t[e] = v[q]
                <5>1. ~(e <= p) /\ e - p = q
                    BY <4>2, <4>3
                <5>. QED BY <1>4, <4>3, <5>1
            <4>5. t[e] = u[i]
                BY <1>5, <4>3
            <4>. QED BY <4>1, <4>4, <4>5
        <3>2. (l - m) + m = l /\ m <= l
            BY <2>3
        <3>3. Len(v) <= Len(u) /\ Stands(u, v, Len(u) - Len(v))
            BY <1>3, <2>3, <3>1, <3>2 DEF Stands
        <3>4. u = v
            BY <3>3 DEF Clean
        <3>. QED BY <1>3, <2>3, <3>4
    <2>. QED BY <2>2, <2>3
<1>. QED BY <1>3, <1>7, <1>8

\* The first i lines of T, and one more.
LEMMA FirstLines ==
    ASSUME NEW V, NEW T \in Seq(V)
    PROVE  /\ Piece(T, 1, 0) = <<>> /\ Piece(T, 1, Len(T)) = T
           /\ \A i \in 0..Len(T) : Piece(T, 1, i) \in Seq(V)
           /\ \A i \in 0..(Len(T) - 1) : Piece(T, 1, i + 1) = Piece(T, 1, i) \o <<T[i + 1]>>
<1>0. Len(T) \in Nat
    OBVIOUS
<1>1. Piece(T, 1, 0) = <<>> /\ Piece(T, 1, Len(T)) = T
    BY SubSeqEmpty, SubSeqFull DEF Piece
<1>2. ASSUME NEW i \in 0..Len(T)
      PROVE  Piece(T, 1, i) \in Seq(V)
    <2>1. \A j \in 1..i : T[j] \in V
        BY <1>0
    <2>2. i \in Int /\ 1 \in Int
        OBVIOUS
    <2>. QED BY <2>1, <2>2, SubSeqProperties DEF Piece
<1>3. ASSUME NEW i \in 0..(Len(T) - 1)
      PROVE  Piece(T, 1, i + 1) = Piece(T, 1, i) \o <<T[i + 1]>>
    <2>1. PICK n \in 1..Len(T) : n = i + 1 /\ n - 1 = i
        BY <1>0
    <2>2. 1 \in 1..Len(T) /\ n \in 1..Len(T)
        BY <1>0, <2>1
    <2>3. SubSeq(T, 1, n) = SubSeq(T, 1, n - 1) \o <<T[n]>>
        BY <2>2, SubSeqRecursiveSecond
    <2>. QED BY <2>1, <2>3 DEF Piece
<1>. QED BY <1>1, <1>2, <1>3

\* Where a line is found among characters, a line is.
LEMMA OneLine ==
    ASSUME NEW C, NEW V, Clean(V, C), NEW T \in Seq(V), NEW u \in V,
           NEW k \in Nat, Stands(Bytes(T), u, k)
    PROVE  \E j \in 1..Len(T) : T[j] = u /\ k = Len(Bytes(Piece(T, 1, j - 1)))
<1> DEFINE Upto(i) == Bytes(Piece(T, 1, i))
           Line(j, h) == T[j] = u /\ h = Len(Upto(j - 1))
           Found(i) == \A h \in Nat : Stands(Upto(i), u, h) => \E j \in 1..i : Line(j, h)
           S == {i \in 0..Len(T) : Found(i)}
<1>0. Len(T) \in Nat /\ V \subseteq Seq(C) /\ u \in Seq(C) /\ u # <<>>
    BY DEF Clean
<1>1. 0 \in S
    <2>1. Upto(0) = <<>>
        BY FirstLines, BytesOfNone
    <2>2. Len(u) # 0 /\ Len(u) \in Nat
        BY <1>0
    <2>3. ASSUME NEW h \in Nat, Stands(Upto(0), u, h)
          PROVE  FALSE
        <3>1. h + Len(u) <= Len(Upto(0)) /\ Len(Upto(0)) = 0
            BY <2>1, <2>3 DEF Stands
        <3>. QED BY <2>2, <3>1
    <2>. QED BY <1>0, <2>3
<1>2. ASSUME NEW i \in 0..(Len(T) - 1), i \in S
      PROVE  i + 1 \in S
    <2>1. i + 1 \in 1..Len(T) /\ i + 1 \in 0..Len(T) /\ i \in 0..Len(T) /\ (i + 1) - 1 = i
        BY <1>0
    <2>2. PICK v \in V : v = T[i + 1]
        BY <2>1
    <2>3. PICK A \in Seq(V) : A = Piece(T, 1, i) /\ Piece(T, 1, i + 1) = A \o <<v>>
        BY <2>1, <2>2, FirstLines
    <2>4. A \in Seq(Seq(C)) /\ v \in Seq(C)
        BY <1>0, SeqMonotonic
    <2>5. Upto(i) \in Seq(C) /\ Upto(i) = Bytes(A)
        BY <2>3, <2>4, BytesType
    <2>6. Upto(i + 1) = Upto(i) \o v
        <3>1. <<v>> \in Seq(Seq(C))
            BY <2>4
        <3>2. Bytes(A \o <<v>>) = Bytes(A) \o Bytes(<<v>>)
            BY <2>4, <3>1, BytesOfConcat
        <3>3. Bytes(<<v>>) = v
            BY <2>4, BytesOfOne
        <3>. QED BY <2>3, <2>5, <3>2, <3>3
    <2>7. ASSUME NEW h \in Nat, Stands(Upto(i + 1), u, h)
          PROVE  \E j \in 1..(i + 1) : Line(j, h)
        <3>. HIDE DEF Upto
        <3>1. Stands(Upto(i), u, h) \/ (u = v /\ h = Len(Upto(i)))
            BY <2>5, <2>6, <2>7, LastLine
        <3>2. CASE Stands(Upto(i), u, h)
            <4>1. PICK j \in 1..i : Line(j, h)
                <5>. HIDE DEF Line
                <5>. QED BY <1>2, <3>2
            <4>. QED BY <4>1
        <3>3. CASE u = v /\ h = Len(Upto(i))
            <4>1. Line(i + 1, h)
                BY <2>1, <2>2, <3>3
            <4>2. i + 1 \in 1..(i + 1)
                OBVIOUS
            <4>. HIDE DEF Line
            <4>. QED BY <4>1, <4>2
        <3>. QED BY <3>1, <3>2, <3>3
    <2>8. Found(i + 1)
        BY <2>7
    <2>. HIDE DEF Found
    <2>. QED BY <2>1, <2>8
<1>3. Found(Len(T))
    <2>1. \A i \in 0..Len(T) : i \in S
        <3>. HIDE DEF S
        <3>. QED BY <1>0, <1>1, <1>2, Reaches
    <2>. HIDE DEF Found
    <2>. QED BY <1>0, <2>1
<1>4. Upto(Len(T)) = Bytes(T)
    BY FirstLines
<1>. QED BY <1>3, <1>4

\* A match is where the piece stands.
LEMMA StandsMatches ==
    ASSUME NEW C, NEW t \in Seq(C), NEW s \in Seq(C), NEW k \in Nat, k + Len(s) <= Len(t)
    PROVE  Matches(t, s, k) <=> Stands(t, s, k)
BY MatchesMeans DEF Stands

\* What it means to begin or to end with a piece.
LEMMA BeginsWith ==
    ASSUME NEW C, NEW t \in Seq(C), NEW s \in Seq(C)
    PROVE  IsPrefix(s, t) <=> Stands(t, s, 0)
<1>1. Len(s) \in Nat /\ Len(t) \in Nat /\ Len(s) <= Len(s)
    OBVIOUS
<1>2. CASE Len(s) <= Len(t)
    <2>1. SubSeq(t, 1, Len(s)) = s <=> Stands(t, s, 0)
        <3>1. PICK k \in Nat : k = 0 /\ k + Len(s) <= Len(t) /\ k + 1 = 1 /\ k + Len(s) = Len(s)
            BY <1>1, <1>2
        <3>2. Matches(t, s, k) <=> Stands(t, s, k)
            BY <3>1, StandsMatches
        <3>3. Matches(t, s, k) <=> SubSeq(t, 1, Len(s)) = s
            BY <3>1 DEF Matches, Piece
        <3>. QED BY <3>1, <3>2, <3>3
    <2>2. SubSeq(s, 1, Len(s)) = s
        BY SubSeqFull
    <2>. QED BY <1>2, <2>1, <2>2 DEF IsPrefix
<1>3. CASE ~(Len(s) <= Len(t))
    BY <1>1, <1>3 DEF IsPrefix, Stands
<1>. QED BY <1>2, <1>3

LEMMA EndsWith ==
    ASSUME NEW C, NEW t \in Seq(C), NEW s \in Seq(C)
    PROVE  IsSuffix(s, t) <=> Len(s) <= Len(t) /\ Stands(t, s, Len(t) - Len(s))
<1>1. PICK r, e : r = Reverse(t) /\ e = Reverse(s)
    OBVIOUS
<1>2. PICK n \in Nat, m \in Nat : n = Len(t) /\ m = Len(s)
    OBVIOUS
<1>3. /\ r \in Seq(C) /\ Len(r) = n /\ \A i \in 1..n : r[i] = t[n - i + 1]
      /\ e \in Seq(C) /\ Len(e) = m /\ \A i \in 1..m : e[i] = s[m - i + 1]
    BY <1>1, <1>2 DEF Reverse
<1>4. IsSuffix(s, t) <=> Stands(r, e, 0)
    BY <1>1, <1>3, BeginsWith DEF IsSuffix
<1>5. CASE m <= n
    <2>1. ASSUME \A i \in 1..m : r[i] = e[i], NEW q \in 1..m
          PROVE  t[(n - m) + q] = s[q]
        <3>1. PICK i \in 1..m : i = m - q + 1
            OBVIOUS
        <3>2. m - i + 1 = q /\ n - i + 1 = (n - m) + q /\ i \in 1..n
            BY <1>5, <3>1
        <3>. QED BY <1>3, <2>1, <3>2
    <2>2. ASSUME \A q \in 1..m : t[(n - m) + q] = s[q], NEW i \in 1..m
          PROVE  r[i] = e[i]
        <3>1. PICK q \in 1..m : q = m - i + 1
            OBVIOUS
        <3>2. n - i + 1 = (n - m) + q /\ m - i + 1 = q /\ i \in 1..n
            BY <1>5, <3>1
        <3>3. r[i] = t[n - i + 1] /\ e[i] = s[m - i + 1]
            BY <1>3, <3>2
        <3>4. t[(n - m) + q] = s[q]
            BY <2>2
        <3>. QED BY <3>2, <3>3, <3>4
    <2>3. Stands(r, e, 0) <=> \A i \in 1..m : r[i] = e[i]
        <3>1. \A i \in 1..m : 0 + i = i
            OBVIOUS
        <3>2. 0 + m = m
            OBVIOUS
        <3>. QED BY <1>3, <1>5, <3>1, <3>2 DEF Stands
    <2>4. Stands(t, s, n - m) <=> \A q \in 1..m : t[(n - m) + q] = s[q]
        <3>1. (n - m) + m = n
            OBVIOUS
        <3>. QED BY <1>2, <3>1 DEF Stands
    <2>5. Stands(r, e, 0) <=> Stands(t, s, n - m)
        BY <2>1, <2>2, <2>3, <2>4
    <2>. QED BY <1>2, <1>4, <1>5, <2>5
<1>6. CASE ~(m <= n)
    BY <1>2, <1>3, <1>4, <1>6 DEF Stands
<1>. QED BY <1>5, <1>6

\* The text before a place ends with a where a stands before it, and the text after i
\* characters begins with b where b stands.
LEMMA AroundPlace ==
    ASSUME NEW C, NEW t \in Seq(C), NEW s \in Seq(C), NEW i \in 0..Len(t)
    PROVE  /\ IsSuffix(s, Piece(t, 1, i)) <=> Len(s) <= i /\ Stands(t, s, i - Len(s))
           /\ IsPrefix(s, Piece(t, i + 1, Len(t))) <=> Stands(t, s, i)
<1>1. PICK n \in Nat, m \in Nat : n = Len(t) /\ m = Len(s)
    OBVIOUS
<1>2. i \in Nat /\ i <= n
    BY <1>1
<1>3. PICK a : a = Piece(t, 1, i)
    OBVIOUS
<1>4. a \in Seq(C) /\ Len(a) = i /\ \A q \in 1..i : a[q] = t[q]
    <2>1. PICK e \in Nat : e = 1 /\ 1 <= e /\ e <= i + 1 /\ i <= Len(t)
        BY <1>1, <1>2
    <2>2. Taken(a, C, t, e, i)
        BY <1>2, <1>3, <2>1, PieceFacts
    <2>3. i + 1 - 1 = i /\ \A q \in 1..i : 1 + q - 1 = q
        BY <1>2
    <2>. QED BY <2>1, <2>2, <2>3 DEF Taken
<1>5. IsSuffix(s, a) <=> Len(s) <= i /\ Stands(t, s, i - Len(s))
    <2>1. IsSuffix(s, a) <=> m <= i /\ Stands(a, s, i - m)
        BY <1>1, <1>4, EndsWith
    <2>2. ASSUME m <= i
          PROVE  Stands(a, s, i - m) <=> Stands(t, s, i - m)
        <3>1. \A q \in 1..m : (i - m) + q \in 1..i
            BY <1>2, <2>2
        <3>2. (i - m) + m <= i /\ (i - m) + m <= n
            BY <1>2
        <3>3. \A q \in 1..m : a[(i - m) + q] = t[(i - m) + q]
            BY <1>4, <3>1
        <3>. QED BY <1>1, <1>4, <3>2, <3>3 DEF Stands
    <2>. QED BY <1>1, <2>1, <2>2
<1>6. PICK b : b = Piece(t, i + 1, n)
    OBVIOUS
<1>7. b \in Seq(C) /\ Len(b) = n - i /\ \A q \in 1..(n - i) : b[q] = t[i + q]
    <2>1. PICK e \in Nat : e = i + 1 /\ 1 <= e /\ e <= n + 1 /\ n <= Len(t)
        BY <1>1, <1>2
    <2>2. Taken(b, C, t, e, n)
        BY <1>1, <1>6, <2>1, PieceFacts
    <2>3. n + 1 - e = n - i /\ \A q \in 1..(n - i) : e + q - 1 = i + q
        BY <1>2, <2>1
    <2>4. /\ b \in Seq(C) /\ Len(b) = n + 1 - e
          /\ \A q \in 1..(n + 1 - e) : b[q] = t[e + q - 1]
        BY <2>2 DEF Taken
    <2>. QED BY <2>3, <2>4
<1>8. IsPrefix(s, b) <=> Stands(t, s, i)
    <2>1. IsPrefix(s, b) <=> Stands(b, s, 0)
        BY <1>7, BeginsWith
    <2>2. 0 + m <= n - i <=> i + m <= n
        BY <1>2
    <2>3. 0 + m <= n - i => \A q \in 1..m : 0 + q = q /\ q \in 1..(n - i)
        BY <1>2
    <2>4. Stands(b, s, 0) <=> Stands(t, s, i)
        BY <1>1, <1>7, <2>2, <2>3 DEF Stands
    <2>. QED BY <2>1, <2>4
<1>. QED BY <1>1, <1>3, <1>5, <1>6, <1>8

\* What stands around s, which stands in T after x lines.
Around(T, s, x, V) ==
    LET above == Piece(T, 1, x)
        below == Piece(T, x + Len(s) + 1, Len(T)) IN
    /\ above \in Seq(V) /\ below \in Seq(V)
    /\ Bytes(T) = (Bytes(above) \o Bytes(s)) \o Bytes(below)
    /\ Stands(Bytes(T), Bytes(s), Len(Bytes(above)))
    /\ Len(Bytes(Piece(T, 1, x + Len(s)))) = Len(Bytes(above)) + Len(Bytes(s))

\* Where lines stand among lines, their characters stand among characters.
LEMMA LinesStand ==
    ASSUME NEW C, NEW V, V \subseteq Seq(C), NEW T \in Seq(V), NEW s \in Seq(V),
           NEW x \in Nat, Stands(T, s, x)
    PROVE  Around(T, s, x, V)
<1>1. PICK n \in Nat, m \in Nat, y \in Nat : n = Len(T) /\ m = Len(s) /\ y = x + m
    OBVIOUS
<1>2. y <= n /\ \A q \in 1..m : T[x + q] = s[q]
    BY <1>1 DEF Stands
<1>3. /\ 1 \in 1..(Len(T) + 1) /\ x \in (1 - 1)..Len(T) /\ y \in x..Len(T) /\ y \in (1 - 1)..Len(T)
      /\ n \in y..Len(T) /\ x + 1 \in 1..(Len(T) + 1) /\ y \in ((x + 1) - 1)..Len(T)
    BY <1>1, <1>2
<1>4. PICK a, b, c, d : /\ a = Piece(T, 1, x) /\ b = Piece(T, x + 1, y)
                        /\ c = Piece(T, y + 1, n) /\ d = Piece(T, 1, y)
    OBVIOUS
<1>5. d = a \o b
    BY <1>3, <1>4, ConcatAdjacentSubSeq DEF Piece
<1>6. T = d \o c
    <2>1. d \o c = Piece(T, 1, n)
        BY <1>3, <1>4, ConcatAdjacentSubSeq DEF Piece
    <2>. QED BY <1>1, <2>1, FirstLines
<1>7. b = s
    <2>1. Matches(T, s, x)
        BY <1>1, <1>2, MatchesMeans
    <2>. QED BY <1>1, <1>4, <2>1 DEF Matches
<1>8. a \in Seq(V) /\ c \in Seq(V)
    <2>1. a \in Seq(V)
        BY <1>3, <1>4, FirstLines
    <2>2. Taken(c, V, T, y + 1, n)
        <3>1. PICK e \in Nat : e = y + 1 /\ 1 <= e /\ e <= n + 1 /\ n <= Len(T)
            BY <1>1, <1>2
        <3>2. Taken(Piece(T, e, n), V, T, e, n)
            BY <3>1, PieceFacts
        <3>. QED BY <1>4, <3>1, <3>2
    <2>. QED BY <2>1, <2>2 DEF Taken
<1>9. a \in Seq(Seq(C)) /\ s \in Seq(Seq(C)) /\ c \in Seq(Seq(C)) /\ d \in Seq(Seq(C))
    <2>1. a \in Seq(Seq(C)) /\ s \in Seq(Seq(C)) /\ c \in Seq(Seq(C))
        BY <1>8, SeqMonotonic
    <2>. QED BY <1>5, <1>7, <2>1, ConcatProperties
<1>10. PICK A \in Seq(C), S \in Seq(C), E \in Seq(C) : A = Bytes(a) /\ S = Bytes(s) /\ E = Bytes(c)
    BY <1>9, BytesType
<1>11. Bytes(d) = A \o S
    BY <1>5, <1>7, <1>9, <1>10, BytesOfConcat
<1>12. Bytes(T) = (A \o S) \o E
    <2>1. Bytes(d \o c) = Bytes(d) \o Bytes(c)
        BY <1>9, BytesOfConcat
    <2>. QED BY <1>6, <1>10, <1>11, <2>1
<1>13. /\ A \o S \in Seq(C) /\ Len(A \o S) = Len(A) + Len(S)
       /\ \A i \in 1..Len(A) + Len(S) : (A \o S)[i] = IF i <= Len(A) THEN A[i] ELSE S[i - Len(A)]
    BY ConcatProperties
<1>14. PICK t, f : t = (A \o S) \o E /\ f = A \o S
    OBVIOUS
<1>15. /\ Len(t) = Len(f) + Len(E)
       /\ \A i \in 1..Len(f) + Len(E) : t[i] = IF i <= Len(f) THEN f[i] ELSE E[i - Len(f)]
    BY <1>13, <1>14, ConcatProperties
<1>16. Stands(t, S, Len(A))
    <2>1. PICK h \in Nat, k \in Nat, l \in Nat : h = Len(A) /\ k = Len(S) /\ l = Len(E)
        OBVIOUS
    <2>2. Len(f) = h + k /\ Len(t) = h + k + l
        BY <1>13, <1>14, <1>15, <2>1
    <2>3. ASSUME NEW q \in 1..k
          PROVE  t[h + q] = S[q]
        <3>1. PICK i \in Nat : i = h + q
            OBVIOUS
        <3>2. i \in 1..h + k /\ ~(i <= h) /\ i - h = q /\ i \in 1..(h + k) + l /\ i <= h + k
            BY <2>1, <3>1
        <3>3. f[i] = S[q]
            BY <1>13, <1>14, <2>1, <3>2
        <3>4. t[i] = f[i]
            BY <1>15, <2>1, <2>2, <3>2
        <3>. QED BY <3>1, <3>3, <3>4
    <2>4. h + k <= Len(t)
        BY <2>1, <2>2
    <2>. QED BY <2>1, <2>3, <2>4 DEF Stands
<1>17. y = x + Len(s) /\ y + 1 = x + Len(s) + 1 /\ n = Len(T)
    BY <1>1
<1>. QED BY <1>4, <1>8, <1>10, <1>11, <1>12, <1>13, <1>14, <1>16, <1>17 DEF Around

\* One line of T.
LineAt(T, j, C) ==
    LET offset == Len(Bytes(Piece(T, 1, j - 1))) IN
    /\ T[j] \in Seq(C) /\ Len(T[j]) \in Nat /\ Len(T[j]) # 0 /\ Bytes(<<T[j]>>) = T[j]
    /\ Stands(Bytes(T), T[j], offset) /\ Len(Bytes(Piece(T, 1, j))) = offset + Len(T[j])

LEMMA LineStands ==
    ASSUME NEW C, NEW V, Clean(V, C), NEW T \in Seq(V), NEW j \in 1..Len(T)
    PROVE  LineAt(T, j, C)
<1>1. PICK v \in V : v = T[j]
    OBVIOUS
<1>2. v \in Seq(C) /\ v # <<>> /\ V \subseteq Seq(C)
    BY DEF Clean
<1>3. PICK s : s = <<v>> /\ s \in Seq(V) /\ Len(s) = 1 /\ s[1] = v
    <2>1. PICK s : s = <<v>>
        OBVIOUS
    <2>2. s \in Seq(V) /\ Len(s) = 1 /\ s[1] = v
        BY <2>1
    <2>. QED BY <2>1, <2>2
<1>4. PICK x \in Nat : x = j - 1 /\ x + 1 = j /\ x + 1 <= Len(T)
    OBVIOUS
<1>5. Stands(T, s, x)
    BY <1>1, <1>3, <1>4 DEF Stands
<1>6. Bytes(s) = v
    BY <1>2, <1>3, BytesOfOne
<1>7. /\ Stands(Bytes(T), Bytes(s), Len(Bytes(Piece(T, 1, x))))
      /\ Len(Bytes(Piece(T, 1, x + Len(s)))) = Len(Bytes(Piece(T, 1, x))) + Len(Bytes(s))
    <2>1. Around(T, s, x, V)
        BY <1>2, <1>3, <1>4, <1>5, LinesStand
    <2>. QED BY <2>1 DEF Around
<1>8. Len(v) \in Nat /\ Len(v) # 0
    BY <1>2
<1>. QED BY <1>1, <1>2, <1>3, <1>4, <1>6, <1>7, <1>8 DEF LineAt

\* Lines none of which occurs twice stand in a text without overlapping themselves.
LEMMA NoOverlap ==
    ASSUME NEW C, NEW V, Clean(V, C), NEW P \in Seq(V), P # <<>>,
           \A a, b \in 1..Len(P) : P[a] = P[b] => a = b,
           NEW t \in Seq(C), NEW i \in Nat, NEW k \in Nat, i < k,
           Stands(t, Bytes(P), i), Stands(t, Bytes(P), k)
    PROVE  i + Len(Bytes(P)) <= k
<1>0. V \subseteq Seq(C)
    BY DEF Clean
<1>1. P \in Seq(Seq(C))
    BY <1>0, SeqMonotonic
<1>2. PICK B \in Seq(C) : B = Bytes(P)
    BY <1>1, BytesType
<1>3. PICK n \in Nat : n = Len(P) /\ n # 0 /\ 1 \in 1..n /\ n \in 1..n
    OBVIOUS
<1>4. PICK u \in V, l \in Nat : /\ u = P[1] /\ l = Len(u) /\ l # 0 /\ Stands(B, u, 0)
                                /\ \A q \in 1..l : u[q] = Newline => q = l
    <2>1. PICK u \in V : u = P[1]
        BY <1>3
    <2>2. Piece(P, 1, 1 - 1) = <<>>
        BY FirstLines
    <2>3. /\ Stands(B, u, Len(Bytes(Piece(P, 1, 1 - 1)))) /\ Len(u) \in Nat /\ Len(u) # 0
        <3>1. PICK j \in 1..Len(P) : j = 1
            BY <1>3
        <3>2. LineAt(P, j, C)
            BY LineStands
        <3>. QED BY <1>2, <2>1, <3>1, <3>2 DEF LineAt
    <2>4. Len(Bytes(Piece(P, 1, 1 - 1))) = 0
        BY <2>2, BytesOfNone
    <2>5. \A q \in 1..Len(u) : u[q] = Newline => q = Len(u)
        BY DEF Clean
    <2>. QED BY <2>1, <2>3, <2>4, <2>5
<1>5. PICK h \in Nat : h = Len(B) /\ B[h] = Newline /\ l <= h /\ \A q \in 1..l : B[q] = u[q]
    <2>1. PICK v \in V, m \in Nat, c \in Nat :
             /\ v = P[n] /\ m = Len(v) /\ m # 0 /\ v[m] = Newline
             /\ c = Len(Bytes(Piece(P, 1, n - 1))) /\ Stands(B, v, c)
             /\ Len(Bytes(Piece(P, 1, n))) = c + m
        <3>1. PICK v \in V : v = P[n]
            BY <1>3
        <3>2. PICK c : c = Len(Bytes(Piece(P, 1, n - 1)))
            OBVIOUS
        <3>3. c \in Nat
            <4>1. n - 1 \in 0..Len(P)
                BY <1>3
            <4>2. Piece(P, 1, n - 1) \in Seq(V)
                BY <4>1, FirstLines
            <4>3. Bytes(Piece(P, 1, n - 1)) \in Seq(C)
                BY <1>0, <4>2, BytesType, SeqMonotonic
            <4>. QED BY <3>2, <4>3
        <3>4. /\ Stands(B, v, c) /\ Len(v) \in Nat /\ Len(v) # 0
              /\ Len(Bytes(Piece(P, 1, n))) = c + Len(v)
            <4>1. PICK j \in 1..Len(P) : j = n
                BY <1>3
            <4>2. LineAt(P, j, C)
                BY LineStands
            <4>. QED BY <1>2, <3>1, <3>2, <4>1, <4>2 DEF LineAt
        <3>5. v[Len(v)] = Newline
            BY DEF Clean
        <3>. QED BY <3>1, <3>2, <3>3, <3>4, <3>5
    <2>2. Len(B) = c + m
        <3>1. Piece(P, 1, n) = P
            BY <1>3, FirstLines
        <3>. QED BY <1>2, <2>1, <3>1
    <2>3. B[c + m] = v[m]
        <3>1. m \in 1..Len(v)
            BY <2>1
        <3>. QED BY <2>1, <3>1 DEF Stands
    <2>4. l <= c + m /\ \A q \in 1..l : B[q] = u[q]
        <3>1. \A q \in 1..l : 0 + q = q
            OBVIOUS
        <3>2. 0 + l = l
            OBVIOUS
        <3>. QED BY <1>4, <2>2, <3>1, <3>2 DEF Stands
    <2>5. PICK h \in Nat : h = c + m
        OBVIOUS
    <2>. QED BY <2>1, <2>2, <2>3, <2>4, <2>5
<1>6. SUFFICES ASSUME k < i + h
               PROVE  FALSE
    BY <1>2, <1>5
<1>7. PICK d \in Nat : d = k - i /\ k = i + d /\ d # 0 /\ d < h
    BY <1>6
<1>8. /\ \A q \in 1..h : t[i + q] = B[q]
      /\ \A q \in 1..h : t[k + q] = B[q]
    BY <1>2, <1>5 DEF Stands
<1>9. \A q \in 1..l : d + q <= h => B[d + q] = u[q]
    <2>1. ASSUME NEW q \in 1..l, d + q <= h
          PROVE  B[d + q] = u[q]
        <3>1. PICK e \in 1..h : e = d + q /\ i + e = k + q
            BY <1>7, <2>1
        <3>2. q \in 1..h
            BY <1>5
        <3>3. t[i + e] = B[e] /\ t[k + q] = B[q] /\ B[q] = u[q]
            BY <1>5, <1>8, <3>2
        <3>. QED BY <3>1, <3>3
    <2>. QED BY <2>1
<1>10. CASE d + l <= h
    <2>1. Stands(B, u, d)
        <3>1. \A q \in 1..l : d + q <= h
            BY <1>10
        <3>. QED BY <1>4, <1>5, <1>9, <1>10, <3>1 DEF Stands
    <2>2. PICK j \in 1..Len(P) : P[j] = u /\ d = Len(Bytes(Piece(P, 1, j - 1)))
        BY <1>2, <2>1, OneLine
    <2>3. j = 1
        BY <1>3, <1>4, <2>2
    <2>4. Piece(P, 1, j - 1) = <<>>
        BY <2>3, FirstLines
    <2>5. d = 0
        BY <2>2, <2>4, BytesOfNone
    <2>. QED BY <1>7, <2>5
<1>11. CASE d + l > h
    <2>1. PICK e \in 1..l : e = h - d /\ e # l
        BY <1>7, <1>11
    <2>2. d + e = h
        BY <1>7, <2>1
    <2>3. u[e] = Newline
        <3>1. B[d + e] = u[e]
            BY <1>5, <1>9, <2>2
        <3>. QED BY <1>5, <2>2, <3>1
    <2>. QED BY <1>4, <2>1, <2>3
<1>. QED BY <1>10, <1>11

-----------------------------------------------------------------------------
\* s is the line of T at x, which occurs once, or T has no line there.
Bounds(s, T, x, edge) ==
    \/ s = <<>> /\ x = edge
    \/ s = <<T[x]>> /\ x # edge /\ \A k \in 1..Len(T) : T[k] = T[x] => k = x

\* The patch stands at x in T: what it replaces is there, between the lines around it,
\* which occur once, or the ends of the text.
Placed(T, p, x) ==
    /\ x \in 0..Len(T) /\ x + Len(p.before) <= Len(T)
    /\ \A q \in 1..Len(p.before) : T[x + q] = p.before[q]
    /\ Bounds(p.above, T, x, 0)
    /\ Bounds(p.below, T, x + Len(p.before) + 1, Len(T) + 1)

\* A patch of lines as it is kept, in characters.
Written(p) ==
    [before |-> Bytes(p.before), after |-> Bytes(p.after),
     above |-> Bytes(p.above), below |-> Bytes(p.below)]

\* s, what stands before or after the gap, fits after i characters only when it has to be
\* there.
LEMMA AboveFits ==
    ASSUME NEW C, NEW V, Clean(V, C), NEW T \in Seq(V), NEW x \in 0..Len(T), NEW above,
           Bounds(above, T, x, 0)
    PROVE  \A i \in 0..Len(Bytes(T)) :
              IsSuffix(Bytes(above), Piece(Bytes(T), 1, i)) <=> above = <<>> \/ i = Len(Bytes(Piece(T, 1, x)))
<1>. SUFFICES ASSUME NEW i \in 0..Len(Bytes(T)), NEW X, X = Len(Bytes(Piece(T, 1, x)))
              PROVE  IsSuffix(Bytes(above), Piece(Bytes(T), 1, i)) <=> above = <<>> \/ i = X
    OBVIOUS
<1>1. PICK t \in Seq(C) : t = Bytes(T)
    <2>1. T \in Seq(Seq(C))
        BY SeqMonotonic DEF Clean
    <2>. QED BY <2>1, BytesType
<1>2. CASE above = <<>> /\ x = 0
    <2>1. Bytes(above) = <<>> /\ <<>> \in Seq(C) /\ Len(<<>>) = 0
        BY <1>2, BytesOfNone, EmptySeq
    <2>2. i - 0 = i /\ i \in 0..Len(t) /\ i \in Nat /\ 0 <= i /\ i + 0 <= Len(t)
        BY <1>1
    <2>3. Stands(t, <<>>, i)
        BY <2>1, <2>2 DEF Stands
    <2>4. IsSuffix(<<>>, Piece(t, 1, i)) <=> Len(<<>>) <= i /\ Stands(t, <<>>, i - Len(<<>>))
        BY <2>1, <2>2, AroundPlace
    <2>. QED BY <1>1, <1>2, <2>1, <2>2, <2>3, <2>4
<1>3. CASE above = <<T[x]>> /\ x # 0 /\ \A k \in 1..Len(T) : T[k] = T[x] => k = x
    <2>1. PICK j \in 1..Len(T) : j = x
        BY <1>3
    <2>2. PICK u \in V : u = T[j]
        OBVIOUS
    <2>3. PICK c : c = Len(Bytes(Piece(T, 1, j - 1)))
        OBVIOUS
    <2>4. LineAt(T, j, C)
        BY LineStands
    <2>5. /\ u \in Seq(C) /\ Len(u) \in Nat /\ Bytes(above) = u
          /\ Stands(t, u, c) /\ X = c + Len(u)
        BY <1>1, <1>3, <2>1, <2>2, <2>3, <2>4 DEF LineAt
    <2>6. c \in Nat
        <3>1. j - 1 \in 0..Len(T)
            OBVIOUS
        <3>2. Piece(T, 1, j - 1) \in Seq(Seq(C))
            <4>1. V \subseteq Seq(C)
                BY DEF Clean
            <4>2. Piece(T, 1, j - 1) \in Seq(V)
                BY <3>1, FirstLines
            <4>. QED BY <4>1, <4>2, SeqMonotonic
        <3>3. Bytes(Piece(T, 1, j - 1)) \in Seq(C)
            BY <3>2, BytesType
        <3>. QED BY <2>3, <3>3
    <2>7. IsSuffix(u, Piece(t, 1, i)) <=> Len(u) <= i /\ Stands(t, u, i - Len(u))
        BY <1>1, <2>5, AroundPlace
    <2>8. above # <<>>
        BY <1>3
    <2>9. i = X => Len(u) <= i /\ Stands(t, u, i - Len(u))
        <3>1. X = c + Len(u) => X - Len(u) = c /\ Len(u) <= X
            BY <2>5, <2>6
        <3>. QED BY <2>5, <3>1
    <2>10. ASSUME Len(u) <= i, Stands(t, u, i - Len(u))
           PROVE  i = X
        <3>0. i \in Nat
            BY <1>1
        <3>1. PICK k \in Nat : k = i - Len(u) /\ i = k + Len(u)
            BY <2>5, <2>10, <3>0
        <3>2. Stands(Bytes(T), u, k)
            BY <1>1, <2>10, <3>1
        <3>3. PICK h \in 1..Len(T) : T[h] = u /\ k = Len(Bytes(Piece(T, 1, h - 1)))
            BY <3>2, OneLine
        <3>4. h = j
            BY <1>3, <2>1, <2>2, <3>3
        <3>. QED BY <2>3, <2>5, <3>1, <3>3, <3>4
    <2>. QED BY <1>1, <2>5, <2>7, <2>8, <2>9, <2>10
<1>. QED BY <1>2, <1>3 DEF Bounds

LEMMA BelowFits ==
    ASSUME NEW C, NEW V, Clean(V, C), NEW T \in Seq(V), NEW y \in 1..(Len(T) + 1), NEW below,
           Bounds(below, T, y, Len(T) + 1)
    PROVE  \A i \in 0..Len(Bytes(T)) :
              IsPrefix(Bytes(below), Piece(Bytes(T), i + 1, Len(Bytes(T)))) <=>
                 below = <<>> \/ i = Len(Bytes(Piece(T, 1, y - 1)))
<1>. SUFFICES ASSUME NEW i \in 0..Len(Bytes(T)), NEW Y, Y = Len(Bytes(Piece(T, 1, y - 1)))
              PROVE  IsPrefix(Bytes(below), Piece(Bytes(T), i + 1, Len(Bytes(T)))) <=> below = <<>> \/ i = Y
    OBVIOUS
<1>1. PICK t \in Seq(C) : t = Bytes(T)
    <2>1. T \in Seq(Seq(C))
        BY SeqMonotonic DEF Clean
    <2>. QED BY <2>1, BytesType
<1>2. CASE below = <<>>
    <2>1. Bytes(below) = <<>> /\ <<>> \in Seq(C) /\ Len(<<>>) = 0
        BY <1>2, BytesOfNone, EmptySeq
    <2>2. i \in 0..Len(t) /\ i + 0 <= Len(t)
        BY <1>1
    <2>3. Stands(t, <<>>, i)
        BY <2>1, <2>2 DEF Stands
    <2>4. IsPrefix(<<>>, Piece(t, i + 1, Len(t))) <=> Stands(t, <<>>, i)
        BY <2>1, <2>2, AroundPlace
    <2>. QED BY <1>1, <1>2, <2>1, <2>3, <2>4
<1>3. CASE below = <<T[y]>> /\ y # Len(T) + 1 /\ \A k \in 1..Len(T) : T[k] = T[y] => k = y
    <2>1. PICK j \in 1..Len(T) : j = y
        BY <1>3
    <2>2. PICK u \in V : u = T[j]
        OBVIOUS
    <2>3. LineAt(T, j, C)
        BY LineStands
    <2>4. u \in Seq(C) /\ Bytes(below) = u /\ Stands(t, u, Y)
        BY <1>1, <1>3, <2>1, <2>2, <2>3 DEF LineAt
    <2>5. IsPrefix(u, Piece(t, i + 1, Len(t))) <=> Stands(t, u, i)
        BY <1>1, <2>4, AroundPlace
    <2>6. below # <<>>
        BY <1>3
    <2>7. ASSUME Stands(t, u, i)
          PROVE  i = Y
        <3>1. i \in Nat /\ Stands(Bytes(T), u, i)
            BY <1>1, <2>7
        <3>2. PICK h \in 1..Len(T) : T[h] = u /\ i = Len(Bytes(Piece(T, 1, h - 1)))
            BY <3>1, OneLine
        <3>3. h = j
            BY <1>3, <2>1, <2>2, <3>2
        <3>. QED BY <2>1, <3>2, <3>3
    <2>. QED BY <1>1, <2>4, <2>5, <2>6, <2>7
<1>. QED BY <1>2, <1>3 DEF Bounds

\* It fits nowhere else.
LEMMA FitsOnce ==
    ASSUME NEW C, NEW V, Clean(V, C), NEW T \in Seq(V), NEW p, p.before \in Seq(V),
           NEW x, Placed(T, p, x),
           \A a, b \in 1..Len(p.before) : p.before[a] = p.before[b] => a = b
    PROVE  Fits(Bytes(T), Written(p)) = {Len(Bytes(Piece(T, 1, x)))}
<1>0. V \subseteq Seq(C)
    BY DEF Clean
<1>1. PICK P \in Seq(V) : P = p.before
    OBVIOUS
<1>2. PICK t \in Seq(C), B \in Seq(C) : t = Bytes(T) /\ B = Bytes(P)
    <2>1. T \in Seq(Seq(C)) /\ P \in Seq(Seq(C))
        BY <1>0, SeqMonotonic
    <2>. QED BY <2>1, BytesType
<1>3. PICK n \in Nat, L \in Nat : n = Len(t) /\ L = Len(B)
    OBVIOUS
<1>4. PICK w : w = Written(p)
    OBVIOUS
<1>5. w.before = B /\ w.above = Bytes(p.above) /\ w.below = Bytes(p.below)
    BY <1>1, <1>2, <1>4 DEF Written
<1>6. PICK y \in Nat : y = x + Len(P) + 1 /\ y \in 1..(Len(T) + 1) /\ y - 1 = x + Len(P)
    BY <1>1 DEF Placed
<1>7. PICK X \in Nat : /\ X = Len(Bytes(Piece(T, 1, x))) /\ Stands(t, B, X)
                       /\ X + L = Len(Bytes(Piece(T, 1, y - 1)))
    <2>1. x \in Nat /\ Stands(T, P, x)
        BY <1>1 DEF Placed, Stands
    <2>2. Around(T, P, x, V)
        BY <1>0, <2>1, LinesStand
    <2>3. Bytes(Piece(T, 1, x)) \in Seq(C)
        <3>1. Piece(T, 1, x) \in Seq(V)
            BY <2>2 DEF Around
        <3>2. Piece(T, 1, x) \in Seq(Seq(C))
            BY <1>0, <3>1, SeqMonotonic
        <3>. QED BY <3>2, BytesType
    <2>4. Len(Bytes(Piece(T, 1, x))) \in Nat
        BY <2>3
    <2>. QED BY <1>2, <1>3, <1>6, <2>2, <2>4 DEF Around
<1> DEFINE fits(i) == /\ IsSuffix(w.above, Piece(t, 1, i))
                      /\ IsPrefix(w.below, Piece(t, i + Len(w.before) + 1, Len(t)))
<1>8. \A i \in 0..n : i + L <= n => (fits(i) <=> (p.above = <<>> /\ p.below = <<>>) \/ i = X)
    <2>1. ASSUME NEW i \in 0..n, i + L <= n
          PROVE  fits(i) <=> (p.above = <<>> /\ p.below = <<>>) \/ i = X
        <3>1. IsSuffix(Bytes(p.above), Piece(t, 1, i)) <=> p.above = <<>> \/ i = X
            <4>0. PICK above : above = p.above
                OBVIOUS
            <4>1. PICK z \in 0..Len(T) : z = x
                BY DEF Placed
            <4>2. Bounds(above, T, z, 0)
                BY <4>0, <4>1 DEF Placed
            <4>3. i \in 0..Len(Bytes(T)) /\ X = Len(Bytes(Piece(T, 1, z)))
                BY <1>2, <1>3, <1>7, <4>1
            <4>4. \A h \in 0..Len(Bytes(T)) :
                     IsSuffix(Bytes(above), Piece(Bytes(T), 1, h)) <=> above = <<>> \/ h = Len(Bytes(Piece(T, 1, z)))
                BY <4>2, AboveFits
            <4>. QED BY <1>2, <4>0, <4>1, <4>3, <4>4
        <3>2. IsPrefix(Bytes(p.below), Piece(t, i + L + 1, n)) <=> p.below = <<>> \/ i = X
            <4>1. PICK k \in 0..Len(Bytes(T)) : k = i + L
                BY <1>2, <1>3, <2>1
            <4>0. PICK below : below = p.below
                OBVIOUS
            <4>2. PICK z \in 1..(Len(T) + 1) : z = y
                BY <1>6
            <4>3. Bounds(below, T, z, Len(T) + 1)
                BY <1>1, <1>6, <4>0, <4>2 DEF Placed
            <4>4. PICK Y : Y = Len(Bytes(Piece(T, 1, z - 1))) /\ Y = X + L
                BY <1>7, <4>2
            <4>5. \A h \in 0..Len(Bytes(T)) :
                     IsPrefix(Bytes(below), Piece(Bytes(T), h + 1, Len(Bytes(T)))) <=>
                        below = <<>> \/ h = Len(Bytes(Piece(T, 1, z - 1)))
                BY <4>3, BelowFits
            <4>6. k = Y <=> i = X
                BY <4>1, <4>4
            <4>. QED BY <1>2, <1>3, <4>0, <4>1, <4>2, <4>4, <4>5, <4>6
        <3>3. fits(i) <=> /\ IsSuffix(Bytes(p.above), Piece(t, 1, i))
                          /\ IsPrefix(Bytes(p.below), Piece(t, i + L + 1, n))
            BY <1>3, <1>5
        <3>. HIDE DEF fits
        <3>. QED BY <3>1, <3>2, <3>3
    <2>. HIDE DEF fits
    <2>. QED BY <2>1
<1>9. X \in 0..n /\ X + L <= n
    BY <1>3, <1>7 DEF Stands
<1>10. p.above = <<>> /\ p.below = <<>> => X = 0 /\ n = L
    <2>1. ASSUME p.above = <<>>, p.below = <<>>
          PROVE  X = 0 /\ n = L
        <3>1. x = 0 /\ x + Len(P) = Len(T)
            <4>1. Bounds(p.above, T, x, 0) /\ Bounds(p.below, T, y, Len(T) + 1) /\ x \in Nat
                BY <1>1, <1>6 DEF Placed
            <4>2. x = 0 /\ y = Len(T) + 1
                BY <2>1, <4>1 DEF Bounds
            <4>. QED BY <1>6, <4>2
        <3>2. Piece(T, 1, x) = <<>> /\ Piece(T, 1, y - 1) = T
            BY <1>6, <3>1, FirstLines
        <3>3. X = 0
            BY <1>7, <3>2, BytesOfNone
        <3>4. X + L = n
            BY <1>2, <1>3, <1>7, <3>2
        <3>. QED BY <3>3, <3>4
    <2>. QED BY <2>1
<1>11. P = <<>> <=> B = <<>>
    <2>1. P = <<>> => B = <<>>
        BY <1>2, BytesOfNone
    <2>2. ASSUME P # <<>>
          PROVE  B # <<>>
        <3>1. PICK j \in 1..Len(P) : j = 1
            BY <2>2
        <3>2. LineAt(P, j, C)
            BY LineStands
        <3>3. Piece(P, 1, j - 1) = <<>>
            BY <3>1, FirstLines
        <3>4. Stands(B, P[j], 0) /\ Len(P[j]) \in Nat /\ Len(P[j]) # 0
            <4>1. Len(Bytes(Piece(P, 1, j - 1))) = 0
                BY <3>3, BytesOfNone
            <4>. QED BY <1>2, <3>2, <4>1 DEF LineAt
        <3>5. 0 + Len(P[j]) <= L
            BY <1>3, <3>4 DEF Stands
        <3>6. L # 0
            BY <3>4, <3>5
        <3>. QED BY <1>3, <3>6
    <2>. QED BY <2>1, <2>2
<1>12. CASE P # <<>>
    <2>1. Fits(t, w) = {i \in Occurrences(t, B) : fits(i)}
        BY <1>5, <1>11, <1>12 DEF Fits
    <2>2. \A i \in 0..n : i + L <= n => (Matches(t, B, i) <=> Stands(t, B, i))
        BY <1>3, StandsMatches
    <2>3. ASSUME NEW i \in 0..Len(t), NEW k \in 0..Len(t), i < k,
                 Matches(t, B, i), Matches(t, B, k), k + Len(B) <= Len(t)
          PROVE  i + Len(B) <= k
        <3>1. i \in Nat /\ k \in Nat /\ i + L <= n /\ k + L <= n
            BY <1>3, <2>3
        <3>2. Stands(t, B, i) /\ Stands(t, B, k)
            BY <1>3, <2>2, <2>3, <3>1
        <3>. QED BY <1>1, <1>2, <1>12, <2>3, <3>1, <3>2, NoOverlap
    <2>4. \A i : i \in Occurrences(t, B) <=> i \in 0..n /\ i + L <= n /\ Matches(t, B, i)
        <3>1. B # <<>>
            BY <1>11, <1>12
        <3>. QED BY <1>3, <2>3, <3>1, OccurrenceFacts
    <2>5. Matches(t, B, X)
        BY <1>7, <1>9, <2>2
    <2>6. ASSUME NEW i \in 0..n, i + L <= n, fits(i)
          PROVE  i = X
        <3>1. i = X \/ (p.above = <<>> /\ p.below = <<>>)
            BY <1>8, <2>6
        <3>. QED BY <1>10, <2>6, <3>1
    <2>7. fits(X)
        BY <1>8, <1>9
    <2>. HIDE DEF fits
    <2>8. Fits(t, w) = {X}
        BY <1>9, <2>1, <2>4, <2>5, <2>6, <2>7
    <2>. QED BY <1>2, <1>4, <1>7, <2>8
<1>13. CASE P = <<>>
    <2>0. B = <<>> /\ L = 0
        BY <1>3, <1>11, <1>13
    <2>1. w.above = <<>> /\ w.below = <<>> <=> p.above = <<>> /\ p.below = <<>>
        <3>1. p.above = <<>> <=> w.above = <<>>
            <4>1. CASE p.above = <<>>
                BY <1>5, <4>1, BytesOfNone
            <4>2. CASE p.above # <<>>
                <5>1. PICK j \in 1..Len(T) : p.above = <<T[j]>>
                    BY <4>2 DEF Placed, Bounds
                <5>2. LineAt(T, j, C)
                    BY LineStands
                <5>. QED BY <1>5, <4>2, <5>1, <5>2 DEF LineAt
            <4>. QED BY <4>1, <4>2
        <3>2. p.below = <<>> <=> w.below = <<>>
            <4>1. CASE p.below = <<>>
                BY <1>5, <4>1, BytesOfNone
            <4>2. CASE p.below # <<>>
                <5>1. PICK j \in 1..Len(T) : p.below = <<T[j]>>
                    <6>1. p.below = <<T[y]>> /\ y # Len(T) + 1
                        BY <1>1, <1>6, <4>2 DEF Placed, Bounds
                    <6>2. y \in 1..Len(T)
                        BY <1>6, <6>1
                    <6>. QED BY <6>1, <6>2
                <5>2. LineAt(T, j, C)
                    BY LineStands
                <5>. QED BY <1>5, <4>2, <5>1, <5>2 DEF LineAt
            <4>. QED BY <4>1, <4>2
        <3>. QED BY <3>1, <3>2
    <2>2. CASE p.above = <<>> /\ p.below = <<>>
        <3>1. Fits(t, w) = {0}
            BY <1>5, <2>0, <2>1, <2>2 DEF Fits
        <3>. QED BY <1>2, <1>4, <1>7, <1>10, <2>2, <3>1
    <2>3. CASE ~(p.above = <<>> /\ p.below = <<>>)
        <3>1. Fits(t, w) = {i \in 0..Len(t) : fits(i)}
            BY <1>5, <2>0, <2>1, <2>3 DEF Fits
        <3>2. \A i \in 0..n : fits(i) <=> i = X
            <4>. HIDE DEF fits
            <4>1. \A i \in 0..n : i + L <= n
                BY <2>0
            <4>. QED BY <1>8, <2>3, <4>1
        <3>. HIDE DEF fits
        <3>3. Fits(t, w) = {X}
            BY <1>3, <1>9, <3>1, <3>2
        <3>. QED BY <1>2, <1>4, <1>7, <3>3
    <2>. QED BY <2>2, <2>3
<1>. QED BY <1>12, <1>13

Joined(r, V, s, t) ==
    /\ r \in Seq(V) /\ Len(r) = Len(s) + Len(t)
    /\ \A k \in 1..(Len(s) + Len(t)) : r[k] = IF k <= Len(s) THEN s[k] ELSE t[k - Len(s)]

LEMMA JoinFacts ==
    ASSUME NEW V, NEW s \in Seq(V), NEW t \in Seq(V)
    PROVE  Joined(s \o t, V, s, t)
<1>1. /\ s \o t \in Seq(V) /\ Len(s \o t) = Len(s) + Len(t)
      /\ \A k \in 1..Len(s) + Len(t) : (s \o t)[k] = IF k <= Len(s) THEN s[k] ELSE t[k - Len(s)]
    BY ConcatProperties
<1>. QED BY <1>1 DEF Joined

\* T with what the patch at x replaces replaced.

\* T with what the patch at x replaces replaced.
Spliced(R, T, p, x) ==
    /\ Len(R) = Len(T) + Len(p.after) - Len(p.before)
    /\ \A k \in 1..x : R[k] = T[k]
    /\ \A q \in 1..Len(p.after) : R[x + q] = p.after[q]
    /\ \A k \in x + Len(p.before) + 1..Len(T) : R[k + Len(p.after) - Len(p.before)] = T[k]

\* A text in three pieces.
Composed(t, A, B, E, C) ==
    A \in Seq(C) /\ B \in Seq(C) /\ E \in Seq(C) /\ t = (A \o B) \o E

LEMMA ThreePieces ==
    ASSUME NEW C, NEW A, NEW B, NEW E, NEW t, Composed(t, A, B, E, C)
    PROVE  Piece(t, 1, Len(A)) = A /\ Piece(t, Len(A) + Len(B) + 1, Len(t)) = E
<1>0. A \in Seq(C) /\ B \in Seq(C) /\ E \in Seq(C) /\ t = (A \o B) \o E
    BY DEF Composed
<1>1. PICK h \in Nat, k \in Nat, l \in Nat : h = Len(A) /\ k = Len(B) /\ l = Len(E)
    BY <1>0
<1>2. PICK f : f = A \o B
    OBVIOUS
<1>3. /\ f \in Seq(C) /\ Len(f) = h + k
      /\ \A i \in 1..h + k : f[i] = IF i <= h THEN A[i] ELSE B[i - h]
    BY <1>0, <1>1, <1>2, ConcatProperties
<1>4. /\ t \in Seq(C) /\ Len(t) = (h + k) + l
      /\ \A i \in 1..(h + k) + l : t[i] = IF i <= h + k THEN f[i] ELSE E[i - (h + k)]
    BY <1>0, <1>1, <1>2, <1>3, ConcatProperties
<1>5. Matches(t, A, 0)
    <2>1. \A q \in 1..h : 0 + q = q /\ q \in 1..h + k /\ q <= h + k /\ q \in 1..(h + k) + l /\ q <= h
        OBVIOUS
    <2>2. \A q \in 1..h : t[0 + q] = A[q]
        BY <1>3, <1>4, <2>1
    <2>3. 0 \in Nat /\ 0 + h <= (h + k) + l
        OBVIOUS
    <2>. QED BY <1>0, <1>1, <1>4, <2>2, <2>3, MatchesMeans
<1>6. PICK e \in Nat : e = h + k
    OBVIOUS
<1>7. Matches(t, E, e)
    <2>1. \A i \in 1..e + l : t[i] = IF i <= e THEN f[i] ELSE E[i - e]
        BY <1>4, <1>6
    <2>2. ASSUME NEW q \in 1..l
          PROVE  t[e + q] = E[q]
        <3>1. PICK i \in 1..e + l : i = e + q
            OBVIOUS
        <3>2. ~(i <= e) /\ i - e = q
            BY <3>1
        <3>. QED BY <2>1, <3>1, <3>2
    <2>3. e + l <= Len(t)
        BY <1>4, <1>6
    <2>. QED BY <1>0, <1>1, <1>4, <2>2, <2>3, MatchesMeans
<1>8. 0 + 1 = 1 /\ 0 + h = h /\ e + l = Len(t)
    BY <1>4, <1>6
<1>. QED BY <1>1, <1>5, <1>6, <1>7, <1>8 DEF Matches

LEMMA PatchApplies ==
    ASSUME NEW C, NEW V, Clean(V, C), NEW T \in Seq(V), NEW p, p.before \in Seq(V), p.after \in Seq(V),
           \A a, b \in 1..Len(p.before) : p.before[a] = p.before[b] => a = b,
           NEW x, Placed(T, p, x)
    PROVE  \E R \in Seq(V) : ApplyPatch(Bytes(T), Written(p)) = {Bytes(R)} /\ Spliced(R, T, p, x)
<1> DEFINE t == Bytes(T)
           w == Written(p)
           Outcome(i) == Piece(t, 1, i) \o w.after \o Piece(t, i + Len(w.before) + 1, Len(t))
<1>1. PICK n \in Nat, L \in Nat, d \in Nat : n = Len(T) /\ L = Len(p.before) /\ d = Len(p.after)
    OBVIOUS
<1>2. x \in Nat /\ x + L <= n
    BY <1>1 DEF Placed
<1>3. PICK a : a = Piece(T, 1, x)
    OBVIOUS
<1>4. a \in Seq(V) /\ Len(a) = x /\ \A q \in 1..x : a[q] = T[q]
    <2>1. PICK e \in Nat : e = 1 /\ 1 <= e /\ e <= x + 1 /\ x <= Len(T)
        BY <1>1, <1>2
    <2>2. Taken(a, V, T, e, x)
        BY <1>2, <1>3, <2>1, PieceFacts
    <2>3. x + 1 - 1 = x /\ \A q \in 1..x : 1 + q - 1 = q
        BY <1>2
    <2>. QED BY <2>1, <2>2, <2>3 DEF Taken
<1>5. PICK b : b = Piece(T, x + L + 1, n)
    OBVIOUS
<1>6. b \in Seq(V) /\ Len(b) = n - (x + L) /\ \A q \in 1..(n - (x + L)) : b[q] = T[x + L + q]
    <2>1. PICK e \in Nat : e = x + L + 1 /\ 1 <= e /\ e <= n + 1 /\ n <= Len(T)
        BY <1>1, <1>2
    <2>2. Taken(b, V, T, e, n)
        BY <1>1, <1>5, <2>1, PieceFacts
    <2>3. n + 1 - e = n - (x + L) /\ \A q \in Nat : e + q - 1 = x + L + q
        <3>1. e = x + L + 1
            BY <2>1
        <3>. QED BY <1>2, <3>1
    <2>4. /\ b \in Seq(V) /\ Len(b) = n + 1 - e
          /\ \A q \in 1..(n + 1 - e) : b[q] = T[e + q - 1]
        BY <2>2 DEF Taken
    <2>5. ASSUME NEW q \in 1..(n - (x + L))
          PROVE  b[q] = T[x + L + q]
        <3>1. q \in Nat
            OBVIOUS
        <3>2. e + q - 1 = x + L + q /\ q \in 1..(n + 1 - e)
            BY <2>3, <3>1
        <3>. QED BY <2>4, <3>2
    <2>. QED BY <2>3, <2>4, <2>5
<1>7. PICK R : R = a \o p.after \o b
    OBVIOUS
<1>8. /\ R \in Seq(V) /\ Len(R) = x + d + (n - (x + L))
      /\ \A k \in 1..x : R[k] = a[k]
      /\ \A q \in 1..d : R[x + q] = p.after[q]
      /\ \A q \in 1..(n - (x + L)) : R[x + d + q] = b[q]
    <2>1. PICK s : s = a \o p.after
        OBVIOUS
    <2>2. /\ s \in Seq(V) /\ Len(s) = x + d
          /\ \A k \in 1..(x + d) : s[k] = IF k <= x THEN a[k] ELSE p.after[k - x]
        <3>1. Joined(s, V, a, p.after)
            BY <1>4, <2>1, JoinFacts
        <3>. QED BY <1>1, <1>4, <3>1 DEF Joined
    <2>3. PICK z \in Nat : z = n - (x + L)
        BY <1>2
    <2>4. /\ R \in Seq(V) /\ Len(R) = x + d + z
          /\ \A k \in 1..(x + d + z) : R[k] = IF k <= x + d THEN s[k] ELSE b[k - (x + d)]
        <3>1. R = s \o b
            BY <1>7, <2>1
        <3>2. Len(b) = z /\ b \in Seq(V)
            BY <1>6, <2>3
        <3>3. Joined(R, V, s, b)
            BY <2>2, <3>1, <3>2, JoinFacts
        <3>. QED BY <2>2, <3>2, <3>3 DEF Joined
    <2>5. \A k \in 1..x : R[k] = a[k]
        <3>1. \A k \in 1..x : k \in 1..(x + d + z) /\ k <= x + d /\ k \in 1..(x + d) /\ k <= x
            BY <1>1, <1>2, <2>3
        <3>. QED BY <2>2, <2>4, <3>1
    <2>6. \A q \in 1..d : R[x + q] = p.after[q]
        <3>1. ASSUME NEW q \in 1..d
              PROVE  R[x + q] = p.after[q]
            <4>1. PICK k \in Nat : k = x + q
                BY <1>2
            <4>2. k \in 1..(x + d + z) /\ k <= x + d /\ k \in 1..(x + d) /\ ~(k <= x) /\ k - x = q
                BY <1>2, <4>1
            <4>. QED BY <2>2, <2>4, <4>1, <4>2
        <3>. QED BY <3>1
    <2>7. \A q \in 1..z : R[x + d + q] = b[q]
        <3>1. ASSUME NEW q \in 1..z
              PROVE  R[x + d + q] = b[q]
            <4>1. PICK k \in Nat : k = x + d + q
                BY <1>2
            <4>2. k \in 1..(x + d + z) /\ ~(k <= x + d) /\ k - (x + d) = q
                BY <1>2, <4>1
            <4>. QED BY <2>4, <4>1, <4>2
        <3>. QED BY <3>1
    <2>. QED BY <2>3, <2>4, <2>5, <2>6, <2>7
<1>9. ApplyPatch(t, w) = {Bytes(R)}
    <2>0. V \subseteq Seq(C)
        BY DEF Clean
    <2>1. PICK X : X = Len(Bytes(a))
        OBVIOUS
    <2>2. Fits(t, w) = {X}
        BY <1>3, <2>1, FitsOnce
    <2>3. Cardinality(Fits(t, w)) = 1
        BY <2>2, FS_Singleton
    <2>4. ApplyPatch(t, w) = {Outcome(i) : i \in Fits(t, w)}
        BY <2>3 DEF ApplyPatch
    <2>5. PICK A \in Seq(C), B \in Seq(C), D \in Seq(C), E \in Seq(C) :
             A = Bytes(a) /\ B = Bytes(p.before) /\ D = Bytes(p.after) /\ E = Bytes(b)
        <3>1. /\ a \in Seq(Seq(C)) /\ p.before \in Seq(Seq(C)) /\ p.after \in Seq(Seq(C))
              /\ b \in Seq(Seq(C))
            BY <1>4, <1>6, <2>0, SeqMonotonic
        <3>. QED BY <3>1, BytesType
    <2>6. t = (A \o B) \o E
        <3>1. Stands(T, p.before, x)
            BY DEF Placed, Stands
        <3>2. Around(T, p.before, x, V)
            BY <1>2, <2>0, <3>1, LinesStand
        <3>. QED BY <1>1, <1>3, <1>5, <2>5, <3>2 DEF Around
    <2>7. Piece(t, 1, Len(A)) = A /\ Piece(t, Len(A) + Len(B) + 1, Len(t)) = E
        <3>1. PICK u : u = t
            OBVIOUS
        <3>2. Composed(u, A, B, E, C)
            BY <2>5, <2>6, <3>1 DEF Composed
        <3>3. Piece(u, 1, Len(A)) = A /\ Piece(u, Len(A) + Len(B) + 1, Len(u)) = E
            BY <3>2, ThreePieces
        <3>. HIDE DEF t
        <3>. QED BY <3>1, <3>3
    <2>8. w.before = B /\ w.after = D
        BY <2>5 DEF Written
    <2>9. Outcome(X) = A \o D \o E
        <3>. HIDE DEF t, w
        <3>. QED BY <2>1, <2>5, <2>7, <2>8
    <2>10. Bytes(R) = A \o D \o E
        <3>1. a \in Seq(Seq(C)) /\ p.after \in Seq(Seq(C)) /\ b \in Seq(Seq(C))
            BY <1>4, <1>6, <2>0, SeqMonotonic
        <3>2. PICK f : f = a \o p.after
            OBVIOUS
        <3>3. f \in Seq(Seq(C)) /\ Bytes(f) = A \o D
            <4>1. f \in Seq(Seq(C))
                BY <3>1, <3>2, ConcatProperties
            <4>2. Bytes(a \o p.after) = Bytes(a) \o Bytes(p.after)
                BY <3>1, BytesOfConcat
            <4>. QED BY <2>5, <3>2, <4>1, <4>2
        <3>4. Bytes(f \o b) = Bytes(f) \o Bytes(b)
            BY <3>1, <3>3, BytesOfConcat
        <3>. QED BY <1>7, <2>5, <3>2, <3>3, <3>4
    <2>11. ApplyPatch(t, w) = {Outcome(X)}
        <3>. HIDE DEF Outcome, t, w
        <3>. QED BY <2>2, <2>4
    <2>. HIDE DEF Outcome, t, w
    <2>. QED BY <2>9, <2>10, <2>11
<1>10. Len(R) = n + d - L
    BY <1>1, <1>2, <1>8
<1>11. ASSUME NEW k \in x + L + 1..n
       PROVE  R[k + d - L] = T[k]
    <2>1. PICK q \in 1..(n - (x + L)) : k = x + L + q
        <3>1. k - (x + L) \in 1..(n - (x + L)) /\ k = x + L + (k - (x + L))
            BY <1>2
        <3>. QED BY <3>1
    <2>2. k + d - L = x + d + q
        BY <1>2, <2>1
    <2>. QED BY <1>6, <1>8, <2>1, <2>2
<1>12. \A k \in 1..x : R[k] = T[k]
    BY <1>4, <1>8
<1>13. /\ Len(R) = Len(T) + Len(p.after) - Len(p.before)
       /\ \A q \in 1..Len(p.after) : R[x + q] = p.after[q]
    BY <1>1, <1>8, <1>10
<1>14. \A k \in x + Len(p.before) + 1..Len(T) : R[k + Len(p.after) - Len(p.before)] = T[k]
    BY <1>1, <1>11
<1>15. R \in Seq(V)
    BY <1>8
<1>. QED BY <1>9, <1>12, <1>13, <1>14, <1>15 DEF Spliced

LEMMA Extremes ==
    ASSUME NEW S \in SUBSET Nat, NEW x \in S
    PROVE  /\ (\A y \in S : y <= x) => Max(S) = x
           /\ (\A y \in S : x <= y) => Min(S) = x
<1>1. ASSUME \A y \in S : y <= x
      PROVE  Max(S) = x
    <2>1. \E u \in S : \A y \in S : u >= y
        BY <1>1
    <2>2. PICK u : u = Max(S) /\ u \in S /\ \A y \in S : u >= y
        BY <2>1 DEF Max
    <2>3. u <= x /\ u >= x /\ u \in Nat /\ x \in Nat
        BY <1>1, <2>2
    <2>. QED BY <2>2, <2>3
<1>2. ASSUME \A y \in S : x <= y
      PROVE  Min(S) = x
    <2>1. \E u \in S : \A y \in S : u <= y
        BY <1>2
    <2>2. PICK u : u = Min(S) /\ u \in S /\ \A y \in S : u <= y
        BY <2>1 DEF Min
    <2>3. u <= x /\ u >= x /\ u \in Nat /\ x \in Nat
        BY <1>2, <2>2
    <2>. QED BY <2>2, <2>3
<1>. QED BY <1>1, <1>2

\* The patch for the lines of a gap, in lines.
GapPatch(old, new, A, b, c) ==
    [before |-> Piece(old, A[b] + 1, A[c] - 1), after |-> Piece(new, b + 1, c - 1),
     above |-> IF b = 0 THEN <<>> ELSE <<old[A[b]]>>,
     below |-> IF c = Len(new) + 1 THEN <<>> ELSE <<old[A[c]]>>]

LEMMA FragmentOfGap ==
    ASSUME NEW C, NEW V, V \subseteq Seq(C),
           NEW old, NEW new, NEW U, Separable(old, new, U, V), NEW A, Framed(old, new, U, A),
           NEW b, NEW c, Gap(new, U, b, c)
    PROVE  Fragment(old, new, <<b + 1, c - 1>>) = Written(GapPatch(old, new, A, b, c))
<1> DEFINE n == Len(old)
           m == Len(new)
           K == Staying(new, U)
           left == {q[1] : q \in {r \in Aligned(old, new) : r[2] < b + 1}}
           right == {q[1] : q \in {r \in Aligned(old, new) : r[2] > c - 1}}
           from == IF left = {} THEN 1 ELSE Max(left) + 1
           to == IF right = {} THEN n ELSE Min(right) - 1
<1>0. n \in Nat /\ m \in Nat /\ U \in SUBSET (1..m)
    BY DEF Separable
<1>1. b \in K /\ c \in K /\ b \in 0..m /\ c \in 1..(m + 1) /\ b < c
    <2>1. b \in K /\ c \in K
        BY DEF Gap
    <2>. QED BY <1>0, <2>1, GapSplits
<1>2. /\ \A q \in Aligned(old, new) : q[1] \in 1..n /\ q[2] \in 1..m
      /\ \A q, r \in Aligned(old, new) :
            q = r \/ (q[1] < r[1] /\ q[2] < r[2]) \/ (r[1] < q[1] /\ r[2] < q[2])
    <2>1. Pairing(Aligned(old, new), <<0, 0>>, old, new)
        BY <1>0, AlignedFacts
    <2>. QED BY <2>1 DEF Pairing
<1>3. A[b] \in 0..(n + 1) /\ A[c] \in 0..(n + 1)
    BY <1>0, <1>1, FrameRange
<1>4. from = A[b] + 1 /\ (left = {} <=> b = 0)
    <2>1. CASE b = 0
        <3>1. left = {}
            BY <1>0, <1>2, <2>1
        <3>2. A[b] = 0
            BY <2>1 DEF Framed
        <3>3. A[b] + 1 = 1
            BY <3>2
        <3>. HIDE DEF left
        <3>. QED BY <2>1, <3>1, <3>3
    <2>2. CASE b # 0
        <3>1. PICK r \in Aligned(old, new) : r[1] = A[b] /\ r[2] = b
            <4>1. <<A[b], b>> \in Aligned(old, new)
                BY <1>0, <1>1, <2>2 DEF Framed
            <4>. QED BY <4>1
        <3>2. A[b] \in left
            BY <1>0, <1>1, <3>1
        <3>3. \A y \in left : y \in Nat /\ y <= A[b]
            <4>1. ASSUME NEW q \in Aligned(old, new), q[2] < b + 1
                  PROVE  q[1] \in Nat /\ q[1] <= A[b]
                <5>1. q[1] \in 1..n /\ q[2] \in 1..m /\ r[1] \in 1..n
                    BY <1>2
                <5>2. ~(r[2] < q[2])
                    BY <1>0, <1>1, <3>1, <4>1, <5>1
                <5>3. q = r \/ q[1] < r[1]
                    BY <1>2, <5>2
                <5>. QED BY <1>0, <3>1, <5>1, <5>3
            <4>. QED BY <4>1
        <3>. HIDE DEF left
        <3>4. Max(left) = A[b]
            BY <3>2, <3>3, Extremes
        <3>. QED BY <2>2, <3>2, <3>4
    <2>. QED BY <2>1, <2>2
<1>5. to = A[c] - 1 /\ (right = {} <=> c = m + 1)
    <2>1. CASE c = m + 1
        <3>1. right = {}
            BY <1>0, <1>2, <2>1
        <3>2. A[c] = n + 1
            BY <2>1 DEF Framed
        <3>3. (n + 1) - 1 = n
            BY <1>0
        <3>. HIDE DEF right
        <3>. QED BY <2>1, <3>1, <3>2, <3>3
    <2>2. CASE c # m + 1
        <3>1. PICK r \in Aligned(old, new) : r[1] = A[c] /\ r[2] = c
            <4>1. <<A[c], c>> \in Aligned(old, new)
                BY <1>0, <1>1, <2>2 DEF Framed
            <4>. QED BY <4>1
        <3>2. A[c] \in right
            BY <1>0, <1>1, <3>1
        <3>3. \A y \in right : y \in Nat /\ A[c] <= y
            <4>1. ASSUME NEW q \in Aligned(old, new), q[2] > c - 1
                  PROVE  q[1] \in Nat /\ A[c] <= q[1]
                <5>1. q[1] \in 1..n /\ q[2] \in 1..m /\ r[1] \in 1..n
                    BY <1>2
                <5>2. ~(q[2] < r[2])
                    BY <1>0, <1>1, <3>1, <4>1, <5>1
                <5>3. q = r \/ r[1] < q[1]
                    BY <1>2, <5>2
                <5>. QED BY <1>0, <3>1, <5>1, <5>3
            <4>. QED BY <4>1
        <3>. HIDE DEF right
        <3>4. Min(right) = A[c]
            BY <3>2, <3>3, Extremes
        <3>. QED BY <2>2, <3>2, <3>4
    <2>. QED BY <2>1, <2>2
<1>6. Fragment(old, new, <<b + 1, c - 1>>) =
         [before |-> Bytes(Piece(old, from, to)), after |-> Bytes(Piece(new, b + 1, c - 1)),
          above |-> IF left = {} THEN <<>> ELSE old[from - 1],
          below |-> IF right = {} THEN <<>> ELSE old[to + 1]]
    BY DEF Fragment
<1>. HIDE DEF left, right, from, to
<1>7. from - 1 = A[b] /\ to + 1 = A[c]
    BY <1>0, <1>3, <1>4, <1>5
<1>8. PICK p : p = GapPatch(old, new, A, b, c)
    OBVIOUS
<1>9. /\ p.before = Piece(old, A[b] + 1, A[c] - 1) /\ p.after = Piece(new, b + 1, c - 1)
      /\ p.above = IF b = 0 THEN <<>> ELSE <<old[A[b]]>>
      /\ p.below = IF c = m + 1 THEN <<>> ELSE <<old[A[c]]>>
    BY <1>8 DEF GapPatch
<1>10. Bytes(p.above) = IF b = 0 THEN <<>> ELSE old[A[b]]
    <2>1. CASE b = 0
        BY <1>9, <2>1, BytesOfNone
    <2>2. CASE b # 0
        <3>4. b \in 1..m
            BY <1>0, <1>1, <2>2
        <3>5. b \in Staying(new, U)
            BY <1>1
        <3>1. A[b] \in 1..n
            BY <3>4, <3>5 DEF Framed
        <3>2. old[A[b]] \in Seq(C)
            BY <3>1 DEF Separable
        <3>3. Bytes(<<old[A[b]]>>) = old[A[b]]
            BY <3>2, BytesOfOne
        <3>. QED BY <1>9, <2>2, <3>3
    <2>. QED BY <2>1, <2>2
<1>11. Bytes(p.below) = IF c = m + 1 THEN <<>> ELSE old[A[c]]
    <2>1. CASE c = m + 1
        BY <1>9, <2>1, BytesOfNone
    <2>2. CASE c # m + 1
        <3>4. c \in 1..m
            BY <1>0, <1>1, <2>2
        <3>5. c \in Staying(new, U)
            BY <1>1
        <3>1. A[c] \in 1..n
            BY <3>4, <3>5 DEF Framed
        <3>2. old[A[c]] \in Seq(C)
            BY <3>1 DEF Separable
        <3>3. Bytes(<<old[A[c]]>>) = old[A[c]]
            BY <3>2, BytesOfOne
        <3>. QED BY <1>9, <2>2, <3>3
    <2>. QED BY <2>1, <2>2
<1>12. Fragment(old, new, <<b + 1, c - 1>>) =
          [before |-> Bytes(Piece(old, A[b] + 1, A[c] - 1)), after |-> Bytes(Piece(new, b + 1, c - 1)),
           above |-> IF b = 0 THEN <<>> ELSE old[A[b]],
           below |-> IF c = m + 1 THEN <<>> ELSE old[A[c]]]
    BY <1>4, <1>5, <1>6, <1>7
<1>. QED BY <1>8, <1>9, <1>10, <1>11, <1>12 DEF Written

\* The h lines of t that follow a.
Stretch(s, V, t, a, h) == s \in Seq(V) /\ Len(s) = h /\ \A q \in 1..h : s[q] = t[a + q]

LEMMA StretchFacts ==
    ASSUME NEW V, NEW t \in Seq(V), NEW a \in Nat, NEW h \in Nat, a + h <= Len(t)
    PROVE  Stretch(Piece(t, a + 1, a + h), V, t, a, h)
<1>1. PICK e \in Nat, f \in Nat : e = a + 1 /\ f = a + h /\ 1 <= e /\ e <= f + 1 /\ f <= Len(t)
    OBVIOUS
<1>2. Taken(Piece(t, e, f), V, t, e, f)
    BY <1>1, PieceFacts
<1>3. f + 1 - e = h /\ \A q \in 1..h : e + q - 1 = a + q
    BY <1>1
<1>4. PICK s : s = Piece(t, e, f)
    OBVIOUS
<1>5. s \in Seq(V) /\ Len(s) = h /\ \A q \in 1..h : s[q] = t[e + q - 1]
    BY <1>2, <1>3, <1>4 DEF Taken
<1>. QED BY <1>1, <1>3, <1>4, <1>5 DEF Stretch

\* R is a text on the way from old to new that holds the lines D of the new one.
OnTheWay(old, new, U, A, V, D, R) ==
    R \in Seq(V) /\ \E pos : Staged(old, new, U, A, D, R, pos)

\* The patch for the lines between b and c fits once and carries them.
Carries(old, new, U, A, V, D, T, b, c) ==
    \E R : /\ ApplyPatch(Bytes(T), Fragment(old, new, <<b + 1, c - 1>>)) = {Bytes(R)}
           /\ OnTheWay(old, new, U, A, V, D \cup (b + 1..c - 1), R)

LEMMA GapCarried ==
    ASSUME NEW C, NEW V, Clean(V, C), NEW old, NEW new, NEW U, Separable(old, new, U, V), NEW A, Framed(old, new, U, A),
           NEW D, NEW T, OnTheWay(old, new, U, A, V, D, T),
           NEW b, NEW c, Gap(new, U, b, c), b + 1 # c, b + 1 \notin D
    PROVE  Carries(old, new, U, A, V, D, T, b, c)
<1> DEFINE n == Len(old)
           m == Len(new)
           K == Staying(new, U)
<1>0. /\ n \in Nat /\ m \in Nat /\ U \in SUBSET (1..m) /\ old \in Seq(V) /\ new \in Seq(V)
      /\ \A i, j \in 1..n : old[i] = old[j] => i = j
    BY DEF Separable
<1>1. PICK pos : Staged(old, new, U, A, D, T, pos)
    BY DEF OnTheWay
<1>6. PICK p : p = GapPatch(old, new, A, b, c) /\ Fragment(old, new, <<b + 1, c - 1>>) = Written(p)
    <2>1. V \subseteq Seq(C)
        BY DEF Clean
    <2>. QED BY <2>1, FragmentOfGap
<1>2. T \in Seq(V) /\ Len(T) \in Nat
    BY DEF OnTheWay
<1>3. b \in K /\ c \in K /\ b \in 0..m /\ c \in 1..(m + 1) /\ b < c
    <2>1. b \in K /\ c \in K
        BY DEF Gap
    <2>. QED BY <1>0, <2>1, GapSplits
<1>4. PICK a \in Nat, h \in Nat, g \in Nat :
         a = A[b] /\ a + h + 1 = A[c] /\ a + h <= n /\ c = b + g + 1 /\ b + g <= m
    <2>1. PICK a \in 0..(n + 1), z \in 0..(n + 1) : a = A[b] /\ z = A[c]
        BY <1>0, <1>3, FrameRange
    <2>2. a < z
        BY <1>3, <2>1 DEF Framed
    <2>3. z - a - 1 \in Nat /\ a + (z - a - 1) + 1 = z /\ a + (z - a - 1) <= n /\ a \in Nat
        BY <1>0, <2>2
    <2>4. c - b - 1 \in Nat /\ c = b + (c - b - 1) + 1 /\ b + (c - b - 1) <= m
        BY <1>0, <1>3
    <2>. QED BY <2>1, <2>3, <2>4
<1>5. PICK x \in Nat : /\ x = pos[b] /\ x + h + 1 = pos[c]
                       /\ \A q \in 1..h : T[x + q] = old[a + q]
    <2>1. PICK x \in Nat, y \in Nat : x = pos[b] /\ y = pos[c]
        BY <1>1, <1>3 DEF Staged
    <2>2. Holds(T, x, y, old, a, a + h + 1)
        BY <1>1, <1>4, <2>1 DEF Staged
    <2>3. (a + h + 1) - a = h + 1 /\ (a + h + 1) - a - 1 = h
        OBVIOUS
    <2>4. y - x = h + 1 /\ \A q \in 1..h : T[x + q] = old[a + q]
        BY <2>2, <2>3 DEF Holds
    <2>5. x + h + 1 = y
        BY <2>4
    <2>. QED BY <2>1, <2>4, <2>5
<1>7. x + h <= Len(T)
    <2>1. m + 1 \in K
        BY <1>0 DEF Staying
    <2>2. pos[m + 1] = Len(T) + 1
        BY <1>1 DEF Staged
    <2>3. c = m + 1 \/ c < m + 1
        BY <1>0, <1>3
    <2>4. c < m + 1 => pos[c] < pos[m + 1]
        BY <1>1, <1>3, <2>1 DEF Staged
    <2>5. x + h + 1 <= Len(T) + 1
        BY <1>2, <1>5, <2>2, <2>3, <2>4
    <2>. QED BY <1>2, <2>5
<1>8. /\ p.before = Piece(old, a + 1, a + h) /\ p.after = Piece(new, b + 1, b + g)
      /\ p.above = IF b = 0 THEN <<>> ELSE <<old[a]>>
      /\ p.below = IF c = m + 1 THEN <<>> ELSE <<old[a + h + 1]>>
    <2>1. (a + h + 1) - 1 = a + h /\ (b + g + 1) - 1 = b + g
        BY <1>3
    <2>2. /\ p.before = Piece(old, A[b] + 1, A[c] - 1) /\ p.after = Piece(new, b + 1, c - 1)
          /\ p.above = IF b = 0 THEN <<>> ELSE <<old[A[b]]>>
          /\ p.below = IF c = Len(new) + 1 THEN <<>> ELSE <<old[A[c]]>>
        BY <1>6 DEF GapPatch
    <2>. QED BY <1>4, <2>1, <2>2
<1>9. PICK before \in Seq(V) : /\ before = p.before /\ Len(before) = h
                               /\ \A q \in 1..h : before[q] = old[a + q]
    <2>1. Stretch(p.before, V, old, a, h)
        BY <1>0, <1>4, <1>8, StretchFacts
    <2>. QED BY <2>1 DEF Stretch
<1>10. PICK after \in Seq(V) : /\ after = p.after /\ Len(after) = g
                               /\ \A q \in 1..g : after[q] = new[b + q]
    <2>1. b \in Nat
        BY <1>3
    <2>2. Stretch(p.after, V, new, b, g)
        BY <1>0, <1>4, <1>8, <2>1, StretchFacts
    <2>. QED BY <2>2 DEF Stretch
<1>11. \A i, j \in 1..Len(p.before) : p.before[i] = p.before[j] => i = j
    <2>1. ASSUME NEW i \in 1..h, NEW j \in 1..h, before[i] = before[j]
          PROVE  i = j
        <3>0. a + h <= n
            BY <1>4
        <3>1. a + i \in 1..n /\ a + j \in 1..n
            BY <1>0, <3>0
        <3>2. old[a + i] = old[a + j]
            BY <1>9, <2>1
        <3>3. a + i = a + j
            BY <1>0, <3>1, <3>2
        <3>. QED BY <3>3
    <2>. QED BY <1>9, <2>1
<1>12. Placed(T, p, x)
    <2>1. x \in 0..Len(T) /\ x + Len(p.before) <= Len(T) /\ x + Len(p.before) + 1 = x + h + 1
        <3>1. Len(p.before) = h
            BY <1>9
        <3>. QED BY <1>2, <1>7, <3>1
    <2>2. \A q \in 1..Len(p.before) : T[x + q] = p.before[q]
        BY <1>5, <1>9
    <2>3. Bounds(p.above, T, x, 0)
        <3>1. CASE b = 0
            BY <1>1, <1>5, <1>8, <3>1 DEF Staged, Bounds
        <3>2. CASE b # 0
            <4>1. b \in 1..m
                BY <1>0, <1>3, <3>2
            <4>2. T[x] = new[b] /\ old[a] = new[b]
                BY <1>1, <1>3, <1>4, <1>5, <4>1 DEF Staged, Framed
            <4>3. \A k \in 1..Len(T) : T[k] = new[b] => k = pos[b]
                <5>1. Occurs(T, new[b], pos[b])
                    BY <1>1, <1>2, <1>3, <4>1, OnlyThere
                <5>. QED BY <5>1 DEF Occurs
            <4>4. x # 0
                <5>1. 0 \in K /\ 0 < b /\ pos[0] = 0
                    BY <1>0, <1>1, <4>1 DEF Staying, Staged
                <5>2. pos[0] < pos[b]
                    BY <1>1, <1>3, <5>1 DEF Staged
                <5>. QED BY <1>5, <5>1, <5>2
            <4>. QED BY <1>5, <1>8, <3>2, <4>2, <4>3, <4>4 DEF Bounds
        <3>. QED BY <3>1, <3>2
    <2>4. PICK y \in Nat : y = x + h + 1 /\ y = pos[c]
        BY <1>5
    <2>5. Bounds(p.below, T, y, Len(T) + 1)
        <3>1. CASE c = m + 1
            BY <1>1, <1>8, <2>4, <3>1 DEF Staged, Bounds
        <3>2. CASE c # m + 1
            <4>1. c \in 1..m
                <5>1. c \in 1..(m + 1)
                    BY <1>3
                <5>. QED BY <1>0, <3>2, <5>1
            <4>2. T[y] = new[c]
                BY <1>1, <1>3, <2>4, <4>1 DEF Staged
            <4>3. old[a + h + 1] = new[c]
                BY <1>3, <1>4, <4>1 DEF Framed
            <4>4. \A k \in 1..Len(T) : T[k] = new[c] => k = pos[c]
                <5>1. Occurs(T, new[c], pos[c])
                    BY <1>1, <1>2, <1>3, <4>1, OnlyThere
                <5>. QED BY <5>1 DEF Occurs
            <4>5. y # Len(T) + 1
                <5>1. m + 1 \in K /\ c < m + 1 /\ pos[m + 1] = Len(T) + 1
                    BY <1>0, <1>1, <4>1 DEF Staying, Staged
                <5>2. pos[c] < pos[m + 1]
                    BY <1>1, <1>3, <5>1 DEF Staged
                <5>. QED BY <2>4, <5>1, <5>2
            <4>. QED BY <1>8, <2>4, <3>2, <4>2, <4>3, <4>4, <4>5 DEF Bounds
        <3>. QED BY <3>1, <3>2
    <2>. QED BY <2>1, <2>2, <2>3, <2>4, <2>5 DEF Placed
<1>13. PICK R \in Seq(V) : ApplyPatch(Bytes(T), Written(p)) = {Bytes(R)} /\ Spliced(R, T, p, x)
    <2>1. p.before \in Seq(V) /\ p.after \in Seq(V)
        BY <1>9, <1>10
    <2>. QED BY <1>2, <1>11, <1>12, <2>1, PatchApplies
<1>14. Replaced(T, x, x + h + 1, new, b, c, R)
    <2>1. Len(p.after) = g /\ Len(p.before) = h
        BY <1>9, <1>10
    <2>2. /\ Len(R) = Len(T) + g - h
          /\ \A k \in 1..x : R[k] = T[k]
          /\ \A q \in 1..g : R[x + q] = p.after[q]
          /\ \A k \in x + h + 1..Len(T) : R[k + g - h] = T[k]
        BY <1>13, <2>1 DEF Spliced
    <2>3. c - b = g + 1 /\ c - b - 1 = g
        <3>1. c = b + g + 1 /\ b \in Nat
            BY <1>3, <1>4
        <3>. QED BY <3>1
    <2>4. \A k \in Int : k + g - h = k + (g + 1) - ((x + h + 1) - x)
        OBVIOUS
    <2>5. \A q \in 1..g : R[x + q] = new[b + q]
        BY <1>10, <2>2
    <2>6. ASSUME NEW k \in x + h + 1..Len(T)
          PROVE  R[k + (c - b) - ((x + h + 1) - x)] = T[k]
        <3>1. k \in Int
            BY <1>2
        <3>2. k + (c - b) - ((x + h + 1) - x) = k + g - h
            BY <2>3, <2>4, <3>1
        <3>. QED BY <2>2, <3>2
    <2>7. Len(R) = Len(T) + (c - b) - ((x + h + 1) - x)
        BY <1>2, <2>2, <2>3, <2>4
    <2>. QED BY <2>2, <2>3, <2>5, <2>6, <2>7 DEF Replaced
<1>15. \E np : Staged(old, new, U, A, D \cup (b + 1..c - 1), R, np)
    <2>1. Replaced(T, pos[b], pos[c], new, b, c, R)
        BY <1>5, <1>14
    <2>. QED BY <1>1, <1>2, <2>1, StagedNext
<1>16. OnTheWay(old, new, U, A, V, D \cup (b + 1..c - 1), R)
    BY <1>13, <1>15 DEF OnTheWay
<1>17. ApplyPatch(Bytes(T), Fragment(old, new, <<b + 1, c - 1>>)) = {Bytes(R)}
    BY <1>6, <1>13
<1>. QED BY <1>16, <1>17 DEF Carries

-----------------------------------------------------------------------------
(* The patches of a pull request.                                           *)

LEMMA RunFacts ==
    ASSUME NEW new, Len(new) \in Nat, NEW S \in SUBSET (1..Len(new)), NEW X, X = Runs(S)
    PROVE  /\ IsFiniteSet(X)
           /\ \A r \in X : /\ r = <<r[1], r[2]>> /\ r[1] \in S /\ r[2] \in S /\ r[1] <= r[2]
                           /\ r[1]..r[2] \subseteq S /\ r[1] - 1 \notin S /\ r[2] + 1 \notin S
           /\ \A q, r \in X : q[1] <= r[1] /\ r[1] <= q[2] => q = r
           /\ \A k \in S : \E r \in X : r[1] <= k /\ k <= r[2]
<1> DEFINE m == Len(new)
<1>1. \A k \in S : k \in Nat /\ 1 <= k /\ k <= m
    OBVIOUS
<1>2. IsFiniteSet(X)
    <2>1. IsFiniteSet(S)
        <3>1. IsFiniteSet(1..m)
            BY FS_Interval
        <3>. QED BY <3>1, FS_Subset
    <2>2. IsFiniteSet(S \X S)
        BY <2>1, FS_Product
    <2>3. X \in SUBSET (S \X S)
        BY DEF Runs
    <2>. QED BY <2>2, <2>3, FS_Subset
<1>3. \A r \in X : /\ r = <<r[1], r[2]>> /\ r[1] \in S /\ r[2] \in S /\ r[1] <= r[2]
                   /\ r[1]..r[2] \subseteq S /\ r[1] - 1 \notin S /\ r[2] + 1 \notin S
    BY DEF Runs
<1>4. ASSUME NEW q \in X, NEW r \in X, q[1] <= r[1], r[1] <= q[2]
      PROVE  q = r
    <2>1. PICK a \in Nat, b \in Nat, c \in Nat, d \in Nat : q = <<a, b>> /\ r = <<c, d>>
        BY <1>1, <1>3
    <2>2. /\ a <= c /\ c <= b /\ c <= d
          /\ a..b \subseteq S /\ a - 1 \notin S /\ b + 1 \notin S
          /\ c..d \subseteq S /\ c - 1 \notin S /\ d + 1 \notin S
        BY <1>3, <1>4, <2>1
    <2>3. a = c
        <3>1. a < c => c - 1 \in a..b
            BY <2>2
        <3>. QED BY <2>2, <3>1
    <2>4. b = d
        <3>1. b < d => b + 1 \in c..d
            BY <2>2
        <3>2. d < b => d + 1 \in a..b
            BY <2>2
        <3>. QED BY <2>2, <3>1, <3>2
    <2>. QED BY <2>1, <2>3, <2>4
<1>5. ASSUME NEW k \in S
      PROVE  \E r \in X : r[1] <= k /\ k <= r[2]
    <2>1. PICK b, c : Gap(new, S, b, c) /\ b < k /\ k < c
        BY <1>5, GapAround
    <2>2. /\ b \in 0..(m + 1) /\ c \in 0..(m + 1) /\ b \notin S /\ c \notin S
          /\ \A i \in b + 1..c - 1 : i \in S
        BY <2>1 DEF Gap, Staying
    <2>3. PICK x \in Nat, y \in Nat : x = b + 1 /\ y = c - 1
        BY <2>1, <2>2
    <2>4. /\ x <= k /\ k <= y /\ x <= y /\ x \in x..y /\ y \in x..y
          /\ x - 1 = b /\ y + 1 = c
        BY <1>1, <2>1, <2>2, <2>3
    <2>5. x..y \subseteq S
        BY <2>2, <2>3
    <2>6. <<x, y>> \in X
        <3>1. <<x, y>> \in S \X S
            BY <2>4, <2>5
        <3>2. {x - 1, y + 1} \cap S = {}
            BY <2>2, <2>4
        <3>. QED BY <2>4, <2>5, <3>1, <3>2 DEF Runs
    <2>. QED BY <2>4, <2>6
<1>. QED BY <1>2, <1>3, <1>4, <1>5

\* bind_patches takes each run once.
Enumerates(run, N, X) ==
    /\ \A i \in 1..N : run[i] \in X
    /\ \A i, j \in 1..N : run[i] = run[j] => i = j
    /\ \A r \in X : \E i \in 1..N : run[i] = r

LEMMA BindFacts ==
    ASSUME NEW old, NEW new, Len(new) \in Nat, NEW S \in SUBSET (1..Len(new))
    PROVE  \E N \in Nat : \E run :
              /\ Enumerates(run, N, Runs(S))
              /\ BindPatches(old, new, S) = [i \in 1..N |-> Fragment(old, new, run[i])]
<1> DEFINE X == Runs(S)
           N == Cardinality(X)
           Below(r) == {q \in X : q[1] < r[1]}
           rank == [r \in X |-> Cardinality(Below(r)) + 1]
           Nth(i) == CHOOSE r \in X : Cardinality(Below(r)) = i - 1
           run == [i \in 1..N |-> Nth(i)]
<1>1. /\ IsFiniteSet(X)
      /\ \A r \in X : r[1] \in Nat /\ r[2] \in Nat /\ r[1] <= r[2]
      /\ \A q, r \in X : q[1] <= r[1] /\ r[1] <= q[2] => q = r
    <2>1. \A k \in S : k \in Nat
        OBVIOUS
    <2>. QED BY <2>1, RunFacts
<1>2. N \in Nat
    BY <1>1, FS_CardinalityType
<1>. HIDE DEF X
<1>3. \A r \in X : Below(r) \in SUBSET X /\ Below(r) # X
    BY <1>1
<1>4. \A r \in X : /\ IsFiniteSet(Below(r)) /\ Cardinality(Below(r)) \in Nat
                   /\ Cardinality(Below(r)) < N
    <2>1. ASSUME NEW r \in X
          PROVE  /\ IsFiniteSet(Below(r)) /\ Cardinality(Below(r)) \in Nat
                 /\ Cardinality(Below(r)) < N
        <3>1. PICK B \in SUBSET X : B = Below(r) /\ B # X
            <4>. HIDE DEF Below
            <4>. QED BY <1>3
        <3>2. IsFiniteSet(B) /\ Cardinality(B) <= Cardinality(X) /\ Cardinality(B) # Cardinality(X)
            BY <1>1, <3>1, FS_Subset
        <3>3. Cardinality(B) \in Nat
            BY <3>2, FS_CardinalityType
        <3>. HIDE DEF Below
        <3>. QED BY <1>2, <3>1, <3>2, <3>3
    <2>. QED BY <2>1
<1>5. ASSUME NEW q \in X, NEW r \in X, q[1] < r[1]
      PROVE  Cardinality(Below(q)) # Cardinality(Below(r))
    <2>1. PICK B \in SUBSET X, C \in SUBSET X : B = Below(q) /\ C = Below(r)
        BY <1>3
    <2>2. B \in SUBSET C /\ B # C
        <3>1. q \in C /\ q \notin B
            BY <1>1, <1>5, <2>1
        <3>2. \A s \in X : s[1] < q[1] => s[1] < r[1]
            BY <1>1, <1>5
        <3>. QED BY <2>1, <3>1, <3>2
    <2>3. IsFiniteSet(C)
        <3>. HIDE DEF Below
        <3>. QED BY <1>4, <2>1
    <2>4. Cardinality(B) # Cardinality(C)
        BY <2>2, <2>3, FS_Subset
    <2>. HIDE DEF Below
    <2>. QED BY <2>1, <2>4
<1>6. \A q, r \in X : Cardinality(Below(q)) = Cardinality(Below(r)) => q = r
    <2>. HIDE DEF Below
    <2>1. ASSUME NEW q \in X, NEW r \in X, Cardinality(Below(q)) = Cardinality(Below(r))
          PROVE  q = r
        <3>1. ~(q[1] < r[1]) /\ ~(r[1] < q[1])
            BY <1>5, <2>1
        <3>2. q[1] = r[1] /\ r[1] <= q[2]
            BY <1>1, <3>1
        <3>. QED BY <1>1, <3>2
    <2>. QED BY <2>1
<1>7. \A i \in 1..N : \E r \in X : Cardinality(Below(r)) = i - 1
    <2>. HIDE DEF Below
    <2>1. \A r \in X : rank[r] = Cardinality(Below(r)) + 1 /\ rank[r] \in 1..N
        BY <1>2, <1>4
    <2>2. rank \in Injection(X, 1..N)
        <3>1. rank \in [X -> 1..N]
            BY <2>1
        <3>2. \A q, r \in X : rank[q] = rank[r] => q = r
            BY <1>4, <1>6, <2>1
        <3>. QED BY <3>1, <3>2 DEF Injection, IsInjective
    <2>3. IsFiniteSet(1..N) /\ Cardinality(1..N) = N
        BY <1>2, FS_Interval
    <2>4. rank \in Surjection(X, 1..N)
        <3>. HIDE DEF rank
        <3>. QED BY <2>2, <2>3, FS_Injection
    <2>5. \A i \in 1..N : \E r \in X : rank[r] = i
        <3>. HIDE DEF rank
        <3>. QED BY <2>4 DEF Surjection
    <2>6. ASSUME NEW i \in 1..N
          PROVE  \E r \in X : Cardinality(Below(r)) = i - 1
        <3>1. PICK r \in X : rank[r] = i
            BY <2>5
        <3>2. Cardinality(Below(r)) = i - 1
            BY <1>2, <1>4, <2>1, <3>1
        <3>. QED BY <3>2
    <2>. QED BY <2>6
<1>8. \A i \in 1..N : run[i] \in X /\ Cardinality(Below(run[i])) = i - 1
    <2>1. \A i \in 1..N : Nth(i) \in X /\ Cardinality(Below(Nth(i))) = i - 1
        <3>. HIDE DEF Below
        <3>. QED BY <1>7
    <2>2. \A i \in 1..N : run[i] = Nth(i)
        <3>. HIDE DEF Nth
        <3>. QED OBVIOUS
    <2>. HIDE DEF run, Nth, Below
    <2>. QED BY <2>1, <2>2
<1>9. Enumerates(run, N, X)
    <2>1. ASSUME NEW r \in X
          PROVE  \E i \in 1..N : run[i] = r
        <3>1. PICK k \in Nat : k = Cardinality(Below(r)) /\ k < N
            BY <1>4, Zenon
        <3>2. k + 1 \in 1..N /\ (k + 1) - 1 = k
            BY <1>2, <3>1
        <3>3. run[k + 1] \in X /\ Cardinality(Below(run[k + 1])) = k
            <4>. HIDE DEF run, Below, N
            <4>. QED BY <1>8, <3>2
        <3>4. run[k + 1] = r
            <4>. HIDE DEF run, Below, N
            <4>. QED BY <1>6, <3>1, <3>3
        <3>. HIDE DEF run, N
        <3>. QED BY <3>2, <3>4
    <2>2. ASSUME NEW i \in 1..N, NEW j \in 1..N, run[i] = run[j]
          PROVE  i = j
        <3>1. i - 1 = j - 1
            <4>. HIDE DEF run, Below, N
            <4>. QED BY <1>8, <2>2
        <3>. QED BY <1>2, <3>1
    <2>. HIDE DEF run, N
    <2>. QED BY <1>8, <2>1, <2>2 DEF Enumerates
<1>10. BindPatches(old, new, S) = [i \in 1..N |-> Fragment(old, new, run[i])]
    <2>1. \A i \in 1..N : run[i] = Nth(i)
        <3>. HIDE DEF Nth
        <3>. QED OBVIOUS
    <2>2. BindPatches(old, new, S) = [i \in 1..N |-> Fragment(old, new, Nth(i))]
        BY DEF BindPatches, X
    <2>. HIDE DEF run, Nth, N
    <2>. QED BY <2>1, <2>2
<1>. HIDE DEF run, N
<1>. QED BY <1>2, <1>9, <1>10 DEF X

\* The texts after each patch.
Follows(after, t, ps, N) ==
    /\ after[0] = {t}
    /\ \A k \in 1..N : after[k] = UNION {ApplyPatch(u, ps[k]) : u \in after[k - 1]}

LEMMA AppliesInTurn ==
    ASSUME NEW t, NEW ps, NEW N \in Nat, N = Len(ps)
    PROVE  \E after : ApplyPatches(t, ps) = after[N] /\ Follows(after, t, ps, N)
<1> DEFINE Onto(U, k) == UNION {ApplyPatch(u, ps[k]) : u \in U}
           Rec(f) == f = [n \in 0..Len(ps) |-> IF n = 0 THEN {t} ELSE UNION {ApplyPatch(u, ps[n]) : u \in f[n - 1]}]
           Value(f, n) == IF n = 0 THEN {t} ELSE Onto(f[n - 1], n)
           Until(f, k) == f = [n \in 0..k |-> Value(f, n)]
           S == {k \in 0..N : \E f : Until(f, k)}
<1>. HIDE DEF Onto
<1>1. 0 \in S
    <2>1. PICK f : f = [n \in 0..0 |-> {t}]
        OBVIOUS
    <2>2. \A n \in 0..0 : {t} = Value(f, n)
        OBVIOUS
    <2>3. [n \in 0..0 |-> {t}] = [n \in 0..0 |-> Value(f, n)]
        <3>. HIDE DEF Value
        <3>. QED BY <2>2
    <2>4. Until(f, 0)
        <3>. HIDE DEF Value
        <3>. QED BY <2>1, <2>3
    <2>5. 0 \in 0..N
        OBVIOUS
    <2>. HIDE DEF Until
    <2>. QED BY <2>4, <2>5
<1>2. ASSUME NEW k \in 0..(N - 1), k \in S
      PROVE  k + 1 \in S
    <2>1. PICK f : Until(f, k)
        BY <1>2
    <2> DEFINE g == [n \in 0..(k + 1) |-> Value(f, n)]
    <2>2. \A n \in 0..k : f[n] = Value(f, n)
        <3>. HIDE DEF Value
        <3>. QED BY <2>1
    <2>3. \A n \in 0..k : g[n] = f[n]
        <3>1. \A n \in 0..k : g[n] = Value(f, n)
            <4>. HIDE DEF Value
            <4>. QED OBVIOUS
        <3>. HIDE DEF g, Value
        <3>. QED BY <2>2, <3>1
    <2>4. \A n \in 0..(k + 1) : n # 0 => n - 1 \in 0..k
        OBVIOUS
    <2>5. \A n \in 0..(k + 1) : g[n] = Value(g, n)
        <3>1. \A n \in 0..(k + 1) : g[n] = Value(f, n)
            <4>. HIDE DEF Value
            <4>. QED OBVIOUS
        <3>. HIDE DEF g
        <3>. QED BY <2>3, <2>4, <3>1
    <2>6. Until(g, k + 1)
        <3>1. g = [n \in 0..(k + 1) |-> g[n]]
            OBVIOUS
        <3>. HIDE DEF g, Value
        <3>. QED BY <2>5, <3>1
    <2>7. k + 1 \in 0..N
        OBVIOUS
    <2>. HIDE DEF Until
    <2>. QED BY <2>6, <2>7
<1>3. \E f : Until(f, N)
    <2>1. \A k \in 0..N : k \in S
        <3>. HIDE DEF S
        <3>. QED BY <1>1, <1>2, Reaches
    <2>. HIDE DEF Until
    <2>. QED BY <2>1
<1>4. \A f : Rec(f) <=> Until(f, N)
    BY DEF Onto
<1>5. PICK after : after = (CHOOSE f : Rec(f)) /\ Rec(after)
    <2>. HIDE DEF Rec, Until
    <2>. QED BY <1>3, <1>4
<1>6. ApplyPatches(t, ps) = after[N]
    BY <1>5 DEF ApplyPatches
<1>7. Until(after, N)
    <2>. HIDE DEF Rec, Until
    <2>. QED BY <1>4, <1>5
<1>8. \A n \in 0..N : after[n] = Value(after, n)
    <2>. HIDE DEF Value
    <2>. QED BY <1>7
<1>9. after[0] = {t} /\ \A k \in 1..N : after[k] = Onto(after[k - 1], k)
    BY <1>8
<1>. QED BY <1>6, <1>9 DEF Follows, Onto

\* The patches of a pull request fit one after the other and carry its lines.
LEMMA CoverCarried ==
    ASSUME NEW C, NEW V, Clean(V, C), NEW old, NEW new, NEW U, Separable(old, new, U, V), NEW A, Framed(old, new, U, A),
           NEW D, NEW T, OnTheWay(old, new, U, A, V, D, T),
           NEW S \in SUBSET U, S \cap D = {},
           \A r \in Runs(S) : Gap(new, U, r[1] - 1, r[2] + 1)
    PROVE  \E R : /\ ApplyPatches(Bytes(T), BindPatches(old, new, S)) = {Bytes(R)}
                  /\ OnTheWay(old, new, U, A, V, D \cup S, R)
<1>0. Len(new) \in Nat /\ S \in SUBSET (1..Len(new))
    BY DEF Separable
<1> DEFINE X == Runs(S)
<1>1. /\ \A r \in X : /\ r = <<r[1], r[2]>> /\ r[1] \in Nat /\ r[2] \in Nat /\ r[1] <= r[2]
                      /\ r[1] \in S /\ r[1]..r[2] \subseteq S
      /\ \A q, r \in X : q[1] <= r[1] /\ r[1] <= q[2] => q = r
      /\ \A k \in S : k \in Nat /\ \E r \in X : r[1] <= k /\ k <= r[2]
    <2>1. \A k \in S : k \in Nat
        BY <1>0
    <2>2. /\ \A r \in X : /\ r = <<r[1], r[2]>> /\ r[1] \in S /\ r[2] \in S /\ r[1] <= r[2]
                          /\ r[1]..r[2] \subseteq S
          /\ \A q, r \in X : q[1] <= r[1] /\ r[1] <= q[2] => q = r
          /\ \A k \in S : \E r \in X : r[1] <= k /\ k <= r[2]
        BY <1>0, RunFacts
    <2>. HIDE DEF X
    <2>. QED BY <2>1, <2>2
<1>2. PICK N \in Nat : \E run :
          /\ Enumerates(run, N, X)
          /\ BindPatches(old, new, S) = [i \in 1..N |-> Fragment(old, new, run[i])]
    BY <1>0, BindFacts
<1>3. PICK run : /\ Enumerates(run, N, X)
                 /\ BindPatches(old, new, S) = [i \in 1..N |-> Fragment(old, new, run[i])]
    BY <1>2
<1>. HIDE DEF X
<1>4. /\ \A i \in 1..N : run[i] \in X
      /\ \A i, j \in 1..N : run[i] = run[j] => i = j
      /\ \A r \in X : \E i \in 1..N : run[i] = r
    BY <1>3 DEF Enumerates
<1>5. PICK ps : /\ ps = BindPatches(old, new, S) /\ Len(ps) = N
                /\ \A i \in 1..N : ps[i] = Fragment(old, new, run[i])
    BY <1>3
<1>6. PICK after : ApplyPatches(Bytes(T), ps) = after[N] /\ Follows(after, Bytes(T), ps, N)
    BY <1>5, AppliesInTurn
<1> DEFINE Held(k) == D \cup UNION {run[i][1]..run[i][2] : i \in 1..k}
           E == {k \in 0..N : \E R : after[k] = {Bytes(R)} /\ OnTheWay(old, new, U, A, V, Held(k), R)}
<1>7. 0 \in E
    <2>1. Held(0) = D
        OBVIOUS
    <2>2. after[0] = {Bytes(T)}
        BY <1>6 DEF Follows
    <2>. HIDE DEF Held
    <2>. QED BY <2>1, <2>2
<1>8. ASSUME NEW k \in 0..(N - 1), k \in E
      PROVE  k + 1 \in E
    <2>1. PICK Q : after[k] = {Bytes(Q)} /\ OnTheWay(old, new, U, A, V, Held(k), Q)
        BY <1>8
    <2>2. PICK j \in 1..N : j = k + 1
        OBVIOUS
    <2>3. PICK r \in X : r = run[j]
        BY <1>4
    <2>4. PICK x \in Nat, y \in Nat : r = <<x, y>> /\ x <= y /\ x \in S /\ x..y \subseteq S
        BY <1>1
    <2>5. PICK b, c : b = x - 1 /\ c = y + 1
        OBVIOUS
    <2>6. Gap(new, U, b, c)
        BY <2>4, <2>5 DEF X
    <2>7. b + 1 = x /\ c - 1 = y /\ b + 1 # c
        BY <2>4, <2>5
    <2>8. x \notin Held(k)
        <3>1. x \notin D
            BY <2>4
        <3>2. ASSUME NEW i \in 1..k, x \in run[i][1]..run[i][2]
              PROVE  FALSE
            <4>1. i \in 1..N /\ i # j
                BY <2>2
            <4>2. run[i] \in X /\ run[i][1] \in Nat /\ run[i][2] \in Nat
                BY <1>1, <1>4, <4>1
            <4>3. run[i][1] <= r[1] /\ r[1] <= run[i][2]
                BY <2>4, <3>2, <4>2
            <4>4. run[i] = r
                BY <1>1, <4>2, <4>3
            <4>. QED BY <1>4, <2>3, <4>1, <4>4
        <3>. QED BY <3>1, <3>2
    <2>9. ps[j] = Fragment(old, new, <<b + 1, c - 1>>)
        BY <1>5, <2>3, <2>4, <2>7
    <2>10. PICK R : ApplyPatch(Bytes(Q), ps[j]) = {Bytes(R)} /\ OnTheWay(old, new, U, A, V, Held(k) \cup (b + 1..c - 1), R)
        <3>1. OnTheWay(old, new, U, A, V, Held(k), Q) /\ b + 1 \notin Held(k)
            <4>. HIDE DEF Held
            <4>. QED BY <2>1, <2>7, <2>8
        <3>. HIDE DEF Held
        <3>2. Carries(old, new, U, A, V, Held(k), Q, b, c)
            BY <2>6, <2>7, <3>1, GapCarried
        <3>. QED BY <2>9, <3>2 DEF Carries
    <2>11. Held(j) = Held(k) \cup (b + 1..c - 1)
        <3>1. 1..j = (1..k) \cup {j}
            BY <2>2
        <3>2. run[j][1]..run[j][2] = b + 1..c - 1
            BY <2>3, <2>4, <2>7
        <3>. QED BY <3>1, <3>2
    <2>12. after[j] = {Bytes(R)}
        <3>1. after[j] = UNION {ApplyPatch(u, ps[j]) : u \in after[j - 1]}
            BY <1>6 DEF Follows
        <3>2. j - 1 = k
            BY <2>2
        <3>. QED BY <2>1, <2>10, <3>1, <3>2
    <2>13. OnTheWay(old, new, U, A, V, Held(j), R)
        <3>. HIDE DEF Held
        <3>. QED BY <2>10, <2>11
    <2>14. j \in E
        <3>1. j \in 0..N
            OBVIOUS
        <3>. HIDE DEF Held
        <3>. QED BY <2>12, <2>13, <3>1
    <2>. HIDE DEF E
    <2>. QED BY <2>2, <2>14
<1>9. PICK R : after[N] = {Bytes(R)} /\ OnTheWay(old, new, U, A, V, Held(N), R)
    <2>1. \A k \in 0..N : k \in E
        <3>. HIDE DEF E
        <3>. QED BY <1>7, <1>8, Reaches
    <2>. HIDE DEF Held
    <2>. QED BY <2>1
<1>10. Held(N) = D \cup S
    <2>1. \A i \in 1..N : run[i][1]..run[i][2] \subseteq S
        BY <1>1, <1>4
    <2>2. ASSUME NEW k \in S
          PROVE  \E i \in 1..N : k \in run[i][1]..run[i][2]
        <3>1. PICK r \in X : r[1] <= k /\ k <= r[2] /\ k \in Nat /\ r[1] \in Nat /\ r[2] \in Nat
            BY <1>1
        <3>2. PICK i \in 1..N : run[i] = r
            BY <1>4
        <3>. QED BY <3>1, <3>2
    <2>. QED BY <2>1, <2>2
<1>. QED BY <1>5, <1>6, <1>9, <1>10

-----------------------------------------------------------------------------
(* The projection.                                                          *)

\* The lines that the first k pull requests hold.
HeldBy(cover, k) == UNION {cover[i] : i \in 1..k}

\* A stack that unchanged lines keep apart, of texts without a line that occurs twice or
\* is the end of another one, whose pull requests hold every line that either line diff
\* calls changed.
Fitting(old, new, cover) ==
    /\ \E C : Clean(Range(old) \cup Range(new), C)
    /\ Separable(old, new, HeldBy(cover, Len(cover)), Range(old) \cup Range(new))
    /\ \A i, j \in 1..Len(cover) : \A k \in cover[i], l \in cover[j] : i # j => k # l /\ k + 1 # l

\* When k pull requests have been projected, there is one text, on the way to the new one.
Reached(old, new, cover, k, texts) ==
    LET U == HeldBy(cover, Len(cover)) IN
    \E A : /\ Framed(old, new, U, A)
           /\ \E T : /\ texts = {Bytes(T)}
                     /\ OnTheWay(old, new, U, A, Range(old) \cup Range(new), HeldBy(cover, k), T)

\* The lines of a run are all that stands between two lines that stay.
LEMMA RunIsGap ==
    ASSUME NEW old, NEW new, NEW cover, Len(cover) \in Nat, Fitting(old, new, cover),
           NEW i \in 1..Len(cover), NEW r \in Runs(cover[i])
    PROVE  Gap(new, HeldBy(cover, Len(cover)), r[1] - 1, r[2] + 1)
<1> DEFINE U == HeldBy(cover, Len(cover))
           m == Len(new)
           S == cover[i]
<1>1. m \in Nat /\ U \in SUBSET (1..m) /\ S \in SUBSET U
    BY DEF Fitting, Separable, HeldBy
<1>2. r[1] \in S /\ r[2] \in S /\ r[1] <= r[2] /\ r[1]..r[2] \subseteq S /\ r[1] - 1 \notin S /\ r[2] + 1 \notin S
    <2>1. S \in SUBSET (1..m)
        <3>. HIDE DEF S, U
        <3>. QED BY <1>1
    <2>. HIDE DEF S
    <2>. QED BY <1>1, <2>1, RunFacts DEF S
<1>3. PICK x \in 1..m, y \in 1..m : r[1] = x /\ r[2] = y
    <2>. HIDE DEF S, U
    <2>. QED BY <1>1, <1>2
<1>4. x - 1 \notin U
    <2>1. ASSUME NEW j \in 1..Len(cover), x - 1 \in cover[j]
          PROVE  FALSE
        <3>1. j # i
            BY <1>2, <1>3, <2>1
        <3>2. (x - 1) + 1 # x
            BY <1>2, <1>3, <2>1, <3>1 DEF Fitting
        <3>. QED BY <3>2
    <2>. QED BY <2>1 DEF HeldBy
<1>5. y + 1 \notin U
    <2>1. ASSUME NEW j \in 1..Len(cover), y + 1 \in cover[j]
          PROVE  FALSE
        <3>1. j # i
            BY <1>2, <1>3, <2>1
        <3>. QED BY <1>2, <1>3, <2>1, <3>1 DEF Fitting
    <2>. QED BY <2>1 DEF HeldBy
<1>6. \A k \in (x - 1) + 1..(y + 1) - 1 : k \in U
    <2>1. x..y \subseteq U
        <3>. HIDE DEF S, U
        <3>. QED BY <1>1, <1>2, <1>3
    <2>2. ((x - 1) + 1..(y + 1) - 1) = x..y
        OBVIOUS
    <2>. HIDE DEF U
    <2>. QED BY <2>1, <2>2
<1>7. x - 1 \in Staying(new, U) /\ y + 1 \in Staying(new, U) /\ x - 1 < y + 1
    <2>1. x - 1 \in 0..(m + 1) /\ y + 1 \in 0..(m + 1) /\ x <= y
        BY <1>1, <1>2, <1>3
    <2>2. x - 1 < y + 1
        BY <2>1
    <2>. HIDE DEF U
    <2>. QED BY <1>4, <1>5, <2>1, <2>2 DEF Staying
<1>. HIDE DEF U
<1>. QED BY <1>3, <1>6, <1>7 DEF Gap, U

LEMMA ReachedFirst ==
    ASSUME NEW old, NEW new, NEW cover, Len(cover) \in Nat, Fitting(old, new, cover)
    PROVE  Reached(old, new, cover, 0, {Bytes(old)})
<1> DEFINE U == HeldBy(cover, Len(cover))
           V == Range(old) \cup Range(new)
<1>1. Separable(old, new, U, V)
    BY DEF Fitting
<1>. HIDE DEF U, V
<1>2. PICK A : Framed(old, new, U, A)
    BY <1>1, FrameExists
<1>3. Staged(old, new, U, A, {}, old, A)
    BY <1>1, <1>2, StagedFirst
<1>4. OnTheWay(old, new, U, A, V, {}, old)
    BY <1>1, <1>3 DEF OnTheWay, Separable
<1>5. HeldBy(cover, 0) = {}
    BY DEF HeldBy
<1>6. OnTheWay(old, new, U, A, V, HeldBy(cover, 0), old)
    BY <1>4, <1>5
<1>. QED BY <1>2, <1>6 DEF Reached, U, V

LEMMA ReachedNext ==
    ASSUME NEW old, NEW new, NEW cover, Len(cover) \in Nat, Fitting(old, new, cover),
           NEW k \in Nat, k < Len(cover), NEW texts, Reached(old, new, cover, k, texts)
    PROVE  Reached(old, new, cover, k + 1,
                   UNION {ApplyPatches(t, BindPatches(old, new, cover[k + 1])) : t \in texts})
<1> DEFINE U == HeldBy(cover, Len(cover))
           V == Range(old) \cup Range(new)
           S == cover[k + 1]
           D == HeldBy(cover, k)
<1>1. Separable(old, new, U, V)
    BY DEF Fitting
<1>2. k + 1 \in 1..Len(cover)
    OBVIOUS
<1>3. S \in SUBSET U
    BY <1>2 DEF HeldBy
<1>4. S \cap D = {}
    <2>1. ASSUME NEW j \in 1..k, NEW l \in S, l \in cover[j]
          PROVE  FALSE
        <3>1. j \in 1..Len(cover) /\ j # k + 1
            OBVIOUS
        <3>. QED BY <1>2, <2>1, <3>1 DEF Fitting
    <2>. QED BY <2>1 DEF HeldBy
<1>5. \A r \in Runs(S) : Gap(new, U, r[1] - 1, r[2] + 1)
    BY <1>2, RunIsGap
<1>6. HeldBy(cover, k + 1) = D \cup S
    <2>1. 1..(k + 1) = (1..k) \cup {k + 1}
        OBVIOUS
    <2>. QED BY <2>1 DEF HeldBy
<1>7. PICK A : /\ Framed(old, new, U, A)
               /\ \E T : texts = {Bytes(T)} /\ OnTheWay(old, new, U, A, V, D, T)
    BY DEF Reached
<1>8. PICK T : texts = {Bytes(T)} /\ OnTheWay(old, new, U, A, V, D, T)
    BY <1>7
<1>12. PICK C : Clean(V, C)
    BY DEF Fitting
<1>. HIDE DEF U, V, S, D
<1>9. PICK R : /\ ApplyPatches(Bytes(T), BindPatches(old, new, S)) = {Bytes(R)}
               /\ OnTheWay(old, new, U, A, V, D \cup S, R)
    BY <1>1, <1>3, <1>4, <1>5, <1>7, <1>8, <1>12, CoverCarried
<1>10. UNION {ApplyPatches(t, BindPatches(old, new, S)) : t \in texts} = {Bytes(R)}
    BY <1>8, <1>9
<1>11. OnTheWay(old, new, U, A, V, HeldBy(cover, k + 1), R)
    BY <1>6, <1>9
<1>. QED BY <1>7, <1>10, <1>11 DEF Reached, U, V, S

LEMMA ReachedLast ==
    ASSUME NEW old, NEW new, NEW cover, Len(cover) \in Nat, Fitting(old, new, cover),
           NEW texts, Reached(old, new, cover, Len(cover), texts)
    PROVE  texts = {Bytes(new)}
<1> DEFINE U == HeldBy(cover, Len(cover))
           V == Range(old) \cup Range(new)
<1>1. Separable(old, new, U, V)
    BY DEF Fitting
<1>2. PICK A : /\ Framed(old, new, U, A)
               /\ \E T : texts = {Bytes(T)} /\ OnTheWay(old, new, U, A, V, U, T)
    BY DEF Reached
<1>. HIDE DEF U, V
<1>3. PICK T : texts = {Bytes(T)} /\ OnTheWay(old, new, U, A, V, U, T)
    BY <1>2
<1>4. PICK pos : T \in Seq(V) /\ Staged(old, new, U, A, U, T, pos)
    BY <1>3 DEF OnTheWay
<1>5. T = new
    BY <1>1, <1>2, <1>4, StagedLast
<1>. QED BY <1>3, <1>5

\* What split_inclusive makes of two files, when every line ends in a newline and none is
\* the end of another one.
LEMMA LinesAreClean ==
    ASSUME NEW old, NEW new, old \in Seq(Range(old)), new \in Seq(Range(new)),
           SplitLines(old), SplitLines(new),
           \A k \in Range(old) \cup Range(new) : Last(k) = Newline,
           \A k, l \in Range(old) \cup Range(new) : IsSuffix(k, l) => k = l
    PROVE  \E C : Clean(Range(old) \cup Range(new), C)
<1> DEFINE V == Range(old) \cup Range(new)
           C == UNION {Range(v) : v \in V}
<1>1. ASSUME NEW t, t \in Seq(Range(t)), SplitLines(t), NEW v \in Range(t)
      PROVE  /\ v \in Seq(Range(v)) /\ v # <<>>
             /\ \A q \in 1..Len(v) : v[q] = Newline => q = Len(v)
    <2>1. PICK k \in 1..Len(t) : v = t[k]
        BY <1>1 DEF Range
    <2>. QED BY <1>1, <2>1 DEF SplitLines
<1>2. \A v \in V : /\ v \in Seq(Range(v)) /\ v # <<>>
                   /\ \A q \in 1..Len(v) : v[q] = Newline => q = Len(v)
    BY <1>1
<1>3. \A v \in V : v \in Seq(C)
    <2>1. ASSUME NEW v \in V
          PROVE  v \in Seq(C)
        <3>1. Range(v) \subseteq C
            OBVIOUS
        <3>. HIDE DEF C
        <3>. QED BY <1>2, <3>1, SeqMonotonic
    <2>. HIDE DEF C, V
    <2>. QED BY <2>1
<1>. HIDE DEF C, V
<1>4. \A v \in V : v[Len(v)] = Newline
    BY DEF Last, V
<1>5. ASSUME NEW u \in V, NEW v \in V, Len(u) <= Len(v), Stands(v, u, Len(v) - Len(u))
      PROVE  u = v
    <2>1. IsSuffix(u, v)
        BY <1>3, <1>5, EndsWith
    <2>. QED BY <2>1 DEF V
<1>6. Clean(V, C)
    BY <1>2, <1>3, <1>4, <1>5 DEF Clean
<1>. QED BY <1>6 DEF V

\* The patches of each pull request are those of its lines, and what has been projected
\* is on the way to the reviewed file.
ProjectionInv ==
    ~Merging =>
        /\ job \in [old : Sources, new : Sources, cover : Covers]
        /\ UNION Range(job.cover) \subseteq 1..Len(job.new)
        /\ patches = <<>> => applied = 0 /\ text = {Bytes(job.old)}
        /\ patches # <<>> =>
              /\ touched = ChangedLines(job.old, job.new)
              /\ patches = [i \in 1..Len(job.cover) |-> BindPatches(job.old, job.new, job.cover[i])]
              /\ applied \in 0..Len(job.cover)
              /\ Fitting(job.old, job.new, job.cover) =>
                    Reached(job.old, job.new, job.cover, applied, text)

\* When every line ends in a newline, none occurs twice or is the end of another one, and
\* unchanged lines keep pull requests apart, projecting a stack that covers every changed
\* line never conflicts and gives the reviewed file, for files, lines and stacks of every
\* length.
THEOREM ProjectionIsExact == PatchesSpec => []ProjectionRebuilds
<1>1. PatchesInit => ProjectionInv
    <2>. SUFFICES ASSUME PatchesInit, ~Merging PROVE ProjectionInv
        BY DEF ProjectionInv
    <2>1. job \notin [base : TokenTexts, left : TokenTexts, right : TokenTexts, deleted : BOOLEAN]
        BY DEF Merging
    <2>2. /\ job \in [old : Sources, new : Sources, cover : Covers]
          /\ UNION Range(job.cover) \subseteq 1..Len(job.new)
          /\ text = {Bytes(job.old)} /\ patches = <<>> /\ applied = 0
        BY <2>1 DEF PatchesInit
    <2>. QED BY <2>2 DEF ProjectionInv
<1>2. ProjectionInv /\ [PatchesNext]_patchVars => ProjectionInv'
    <2>. SUFFICES ASSUME ProjectionInv, [PatchesNext]_patchVars, ~Merging' PROVE ProjectionInv'
        BY DEF ProjectionInv
    <2>1. CASE Bind
        <3>1. job' = job /\ text' = text /\ applied' = applied /\ ~Merging /\ patches = <<>>
            BY <2>1 DEF Bind
        <3>2. /\ job \in [old : Sources, new : Sources, cover : Covers]
              /\ UNION Range(job.cover) \subseteq 1..Len(job.new)
              /\ applied = 0 /\ text = {Bytes(job.old)}
            BY <3>1 DEF ProjectionInv
        <3>3. job.cover \in Seq(SUBSET Nat)
            BY <3>2, TextAssumption
        <3>4. DOMAIN job.cover = 1..Len(job.cover) /\ Len(job.cover) \in Nat
            BY <3>3
        <3>5. touched' = ChangedLines(job.old, job.new)
            BY <2>1 DEF Bind
        <3>6. patches' = [i \in 1..Len(job.cover) |-> BindPatches(job.old, job.new, job.cover[i])]
            BY <2>1, <3>4 DEF Bind
        <3>7. Fitting(job.old, job.new, job.cover) => Reached(job.old, job.new, job.cover, applied, text)
            BY <3>2, <3>4, ReachedFirst
        <3>. QED BY <3>1, <3>2, <3>4, <3>5, <3>6, <3>7 DEF ProjectionInv
    <2>2. CASE Project
        <3>1. /\ job' = job /\ touched' = touched /\ patches' = patches /\ applied' = applied + 1
              /\ applied < Len(patches) /\ ~Merging
              /\ text' = UNION {ApplyPatches(t, patches[applied + 1]) : t \in text}
            BY <2>2 DEF Project, Merging
        <3>2. job \in [old : Sources, new : Sources, cover : Covers]
              /\ UNION Range(job.cover) \subseteq 1..Len(job.new)
            BY <3>1 DEF ProjectionInv
        <3>3. Len(job.cover) \in Nat
            BY <3>2, TextAssumption
        <3>4. patches # <<>>
            <4>1. CASE patches = <<>>
                <5>1. applied = 0 /\ Len(patches) = 0
                    BY <3>1, <4>1 DEF ProjectionInv
                <5>. QED BY <3>1, <5>1
            <4>. QED BY <4>1
        <3>5. /\ touched = ChangedLines(job.old, job.new)
              /\ patches = [i \in 1..Len(job.cover) |-> BindPatches(job.old, job.new, job.cover[i])]
              /\ applied \in 0..Len(job.cover)
              /\ Fitting(job.old, job.new, job.cover) =>
                    Reached(job.old, job.new, job.cover, applied, text)
            BY <3>1, <3>4 DEF ProjectionInv
        <3>6. Len(patches) = Len(job.cover)
            BY <3>3, <3>5
        <3>7. applied \in Nat /\ applied < Len(job.cover) /\ applied + 1 \in 1..Len(job.cover)
              /\ applied' \in 0..Len(job.cover)
            BY <3>1, <3>3, <3>5, <3>6
        <3>8. patches[applied + 1] = BindPatches(job.old, job.new, job.cover[applied + 1])
            BY <3>5, <3>7
        <3>9. ASSUME Fitting(job.old, job.new, job.cover)
              PROVE  Reached(job.old, job.new, job.cover, applied', text')
            <4>1. Reached(job.old, job.new, job.cover, applied, text)
                BY <3>5, <3>9
            <4>2. text' = UNION {ApplyPatches(t, BindPatches(job.old, job.new, job.cover[applied + 1])) : t \in text}
                BY <3>1, <3>8
            <4>3. Reached(job.old, job.new, job.cover, applied + 1, text')
                BY <3>3, <3>7, <3>9, <4>1, <4>2, ReachedNext
            <4>. QED BY <3>1, <4>3
        <3>. QED BY <3>1, <3>2, <3>4, <3>5, <3>7, <3>9 DEF ProjectionInv
    <2>3. CASE MergeSides
        BY <2>3 DEF MergeSides, Merging
    <2>4. CASE UNCHANGED patchVars
        BY <2>4 DEF patchVars, Merging, ProjectionInv
    <2>. QED BY <2>1, <2>2, <2>3, <2>4 DEF PatchesNext
<1>3. ProjectionInv => ProjectionRebuilds
    <2>. SUFFICES ASSUME ProjectionInv, StackProjected, Apart, Distinct
                  PROVE  text = {Bytes(job.new)}
        BY DEF ProjectionRebuilds
    <2>1. /\ job.old \in Sources /\ job.new \in Sources /\ job.cover \in Covers
          /\ UNION Range(job.cover) \subseteq 1..Len(job.new)
          /\ touched = ChangedLines(job.old, job.new)
          /\ patches = [i \in 1..Len(job.cover) |-> BindPatches(job.old, job.new, job.cover[i])]
          /\ applied = Len(patches)
          /\ Fitting(job.old, job.new, job.cover) =>
                Reached(job.old, job.new, job.cover, applied, text)
        BY DEF ProjectionInv, StackProjected
    <2>2. PICK old, new, cover : old = job.old /\ new = job.new /\ cover = job.cover
        OBVIOUS
    <2>3. /\ old \in Seq(Range(old)) /\ new \in Seq(Range(new)) /\ cover \in Seq(SUBSET Nat)
        BY <2>1, <2>2, TextAssumption
    <2>4. Len(cover) \in Nat /\ DOMAIN cover = 1..Len(cover) /\ applied = Len(cover)
        BY <2>1, <2>2, <2>3
    <2>5. HeldBy(cover, Len(cover)) = UNION Range(cover)
        BY <2>4 DEF HeldBy, Range
    <2>6. Separable(old, new, HeldBy(cover, Len(cover)), Range(old) \cup Range(new))
        <3>1. old \in Seq(Range(old) \cup Range(new)) /\ new \in Seq(Range(old) \cup Range(new))
            BY <2>3, SeqMonotonic
        <3>2. \A a, b \in 1..Len(old) : old[a] = old[b] => a = b
            BY <2>2, <2>3 DEF Distinct, IsInjective
        <3>3. \A a, b \in 1..Len(new) : new[a] = new[b] => a = b
            BY <2>2, <2>3 DEF Distinct, IsInjective
        <3>4. ChangedLines(old, new) \subseteq UNION Range(cover)
            BY <2>1, <2>2 DEF StackProjected
        <3>5. (1..Len(new)) \ {p[2] : p \in Aligned(old, new)} \subseteq UNION Range(cover)
            BY <2>2 DEF StackProjected, Unaligned
        <3>6. UNION Range(cover) \subseteq 1..Len(new)
            BY <2>1, <2>2
        <3>. QED BY <2>5, <3>1, <3>2, <3>3, <3>4, <3>5, <3>6 DEF Separable
    <2>10. \E C : Clean(Range(old) \cup Range(new), C)
        <3>1. /\ \A k \in Range(old) \cup Range(new) : Last(k) = Newline
              /\ \A k, l \in Range(old) \cup Range(new) : IsSuffix(k, l) => k = l
            BY <2>2 DEF Distinct
        <3>2. SplitLines(old) /\ SplitLines(new)
            BY <2>1, <2>2, TextAssumption
        <3>. QED BY <2>3, <3>1, <3>2, LinesAreClean
    <2>7. Fitting(old, new, cover)
        BY <2>2, <2>4, <2>6, <2>10 DEF Fitting, Apart
    <2>8. Reached(old, new, cover, Len(cover), text)
        BY <2>1, <2>2, <2>4, <2>7
    <2>9. text = {Bytes(new)}
        BY <2>4, <2>7, <2>8, ReachedLast
    <2>. QED BY <2>2, <2>9
<1>. QED BY <1>1, <1>2, <1>3, PTL DEF PatchesSpec

\* A projection in one piece and a merge in one piece are what was reviewed and what
\* both sides made.
THEOREM TextIsSound == PatchesSpec => []TextSound
<1>1. ProjectionRebuilds /\ MergeSound => TextSound
    BY DEF TextSound
<1>. QED BY <1>1, MergeIsSound, ProjectionIsExact, PTL
=============================================================================
