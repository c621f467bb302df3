------------------------------ MODULE MCDelivery ----------------------------
(* Two plans over a stack of two units, the second on top of the first.    *)
EXTENDS Delivery

MCUnits == {1, 2}
MCParent == <<1, 1>>
MCSymmetry == Permutations(Commands) \cup Permutations(Plans) \cup Permutations(Contents)

\* Commands in turn have room for a restack after a publication, in a later
\* second; commands that race for one of each.
MCMaxProjection == [e \in BOOLEAN |-> IF e THEN 2 ELSE 1]
MCMaxTime == [e \in BOOLEAN |-> IF e THEN 1 ELSE 0]
=============================================================================
