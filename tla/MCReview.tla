------------------------------ MODULE MCReview ------------------------------
(* One session whose atoms can be reviewed as one unit or as two.          *)
EXTENDS ReviewPublication, TLC

MCUnits == 1..3
Whole == {1}
Halves == {2, 3}
MCShapes == {Whole, Halves}
MCSymmetry == Permutations(Reviewers)
=============================================================================
