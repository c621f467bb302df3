-------------------------------- MODULE MCViews ------------------------------
(* Named views of a repository with one operator who retries, or with two. *)
EXTENDS Views, TLC

CONSTANTS one, two

\* One operator at a time with room for a death and its retry, or two at once.
MCCrew == [s \in BOOLEAN |-> IF s THEN {one} ELSE {one, two}]
MCMaxCommit == [s \in BOOLEAN |-> IF s THEN 4 ELSE 2]
MCMaxDeath == [s \in BOOLEAN |-> IF s THEN 1 ELSE 0]

\* Views elsewhere: of a commit that is here and of one that is not.
MCElsewhere == {[base |-> 2, scope |-> "draft", visible |-> {2}],
                [base |-> 0, scope |-> "shared", visible |-> {1, 2}]}
=============================================================================
