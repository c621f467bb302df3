------------------------------ MODULE MCPlanning ------------------------------
(***************************************************************************)
(* Planning over one file with two functions, an import in each: the least *)
(* with which sibling symbols come to wait for each other.                 *)
(***************************************************************************)
EXTENDS Planning

Node(from, to, import) == [from |-> from, to |-> to, import |-> import, test |-> FALSE]
MCLayouts ==
    {{Node(1, 2, FALSE), Node(3, 4, FALSE)},
     {Node(1, 2, FALSE), Node(2, 2, TRUE), Node(3, 4, FALSE)},
     {Node(1, 2, FALSE), Node(2, 2, TRUE), Node(3, 4, FALSE), Node(4, 4, TRUE)}}
=============================================================================
