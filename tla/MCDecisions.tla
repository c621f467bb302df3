---------------------------- MODULE MCDecisions -----------------------------
(***************************************************************************)
(* What reviewers and operators of one repository do to it, side by side:  *)
(* review decisions and named views.  They share no state: a behaviour     *)
(* chooses one of them and the other stays where it begins, so that the    *)
(* state space is the sum of the two and not their product.                *)
(***************************************************************************)
EXTENDS MCReview, MCViews

VARIABLE part

decisionVars == <<reviewVars, viewVars, part>>

DecisionInit ==
    /\ part \in {"review", "views"}
    /\ ReviewInit /\ ViewInit
    /\ part # "review" => exclusive
    /\ part # "views" => serial

\* Commits end; reviewers never wait for each other.
DecisionNext ==
    \/ part = "review" /\ ReviewNext /\ UNCHANGED <<viewVars, part>>
    \/ part = "views" /\ ViewNext /\ UNCHANGED <<reviewVars, part>>
    \/ part # "review" /\ UNCHANGED decisionVars

DecisionSpec == DecisionInit /\ [][DecisionNext]_decisionVars
=============================================================================
