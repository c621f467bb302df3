------------------------------ MODULE MCPatches -----------------------------
(* Units that were written next to each other, in files without a line that *)
(* occurs twice.                                                            *)
EXTENDS Patches

CONSTANTS nl, w, x, y, z

MCSources == {t \in UNION {[1..n -> {<<w, nl>>, <<x, nl>>, <<y, nl>>, <<z, nl>>}] : n \in 1..4} : IsInjective(t)}
MCCovers == {<<{2}, {3}>>, <<{1}, {3}>>, <<{2}, {4}>>, <<{2, 3}, {4}>>}
=============================================================================
