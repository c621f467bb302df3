------------------------------- MODULE MCHistory -----------------------------
(***************************************************************************)
(* Semantic history over a file, its rename, a new file at its old path,   *)
(* and the rename of that one: the least with which two files come to      *)
(* continue one Trunk.                                                     *)
(***************************************************************************)
EXTENDS SemanticHistory, TLC

CONSTANTS x, y, parse, render

MCTrees == {(2 :> x), (3 :> x), (2 :> y) @@ (3 :> x), (1 :> y) @@ (3 :> x)}
MCSymbols == (x :> {parse}) @@ (y :> {parse, render})
MCMaxHistory == [i \in BOOLEAN |-> IF i THEN 4 ELSE 3]
=============================================================================
