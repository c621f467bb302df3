-------------------------- MODULE RevisionRegister --------------------------
(***************************************************************************)
(* What a caller is promised about one stable identity (a stack, a         *)
(* changeset): a register whose value is replaced only by appending the    *)
(* next revision.  Nothing already appended is rewritten, no revision      *)
(* number is skipped, and repeating the current value appends nothing.     *)
(***************************************************************************)
EXTENDS Naturals

CONSTANT Contents       \* the values a revision can carry

VARIABLE entries        \* the revisions published so far

Entry == [revision : Nat, content : Contents]

Init == entries = {}

IsNewest(e) == e \in entries /\ \A f \in entries : f.revision <= e.revision

\* The first revision of an identity.
Create(c) ==
    /\ entries = {}
    /\ entries' = {[revision |-> 0, content |-> c]}

\* A later revision, one above the newest and different from it.
Revise(c) ==
    \E e \in entries :
        /\ IsNewest(e)
        /\ e.content # c
        /\ entries' = entries \cup {[revision |-> e.revision + 1, content |-> c]}

Next == \E c \in Contents : Create(c) \/ Revise(c)

Spec == Init /\ [][Next]_entries
=============================================================================
