------------------------------- MODULE MCCapture ------------------------------
(***************************************************************************)
(* Capture over two files of the worktree, the path of the one ending with *)
(* the path of the other.                                                  *)
(***************************************************************************)
EXTENDS Capture, TLC

CONSTANTS hook, lib, src_lib

MCMaxEvents == ({hook} :> 5)
MCEndings == {<<src_lib, lib>>}
MCRelative == [n \in {lib, src_lib} |-> n]
=============================================================================
