------------------------------ MODULE MCForge -------------------------------
(***************************************************************************)
(* What is on the forge and what is said of it, side by side: branches,    *)
(* projections and reviews, and the status a server answers to those that  *)
(* may ask.  They share no state: a behaviour chooses one of them and the  *)
(* other stays where it begins, so that the state space is the sum of the  *)
(* two and not their product.                                              *)
(***************************************************************************)
EXTENDS MCDelivery, Status, TLC

CONSTANTS ann, ivy, joe, near, far, sa, sb, sc, sd

VARIABLE part

forgeVars == <<deliveryVars, statusVars, part>>

\* A grant for a team and one, for a day, for its member.  The first one is revoked:
\* by its issuer, in one document that he signed and in one that only another actor
\* signed, and by that other actor.
TheOrganization == Organization(ivy)
TheTeam == Team(TheOrganization, ivy, {ann})
OfTeam == Grant(ivy, {}, {TheTeam}, "reviewer", {}, Never)
OfMember == Grant(ivy, {ann}, {}, "administrator", {"*"}, 1)
MCRevocations == {Revocation(OfTeam, ivy, 1), Revocation(OfTeam, ivy, 2), Revocation(OfTeam, joe, 1)}
MCHeldDocuments == {TheOrganization, TheTeam, OfTeam, OfMember}
MCDocuments == MCHeldDocuments \cup MCRevocations
MCSignatures ==
    {<<ivy, d>> : d \in MCHeldDocuments \cup {Revocation(OfTeam, ivy, 2)}}
    \cup {<<joe, Revocation(OfTeam, ivy, 1)>>, <<joe, Revocation(OfTeam, joe, 1)>>}
MCHeld == [r \in {near, far} |-> MCHeldDocuments]
MCPresented == {{}, {OfTeam}, {OfTeam, OfMember}}

\* A chain of three changesets, the last one with stacks in two repositories.
MCHome == (sa :> near) @@ (sb :> near) @@ (sc :> near) @@ (sd :> far)
MCGroups == {{sa}, {sb}, {sc, sd}}
MCBeginning ==
    ({sa} :> [status |-> "integrated", dependsOn |-> {}, selects |-> (sa :> 1)])
    @@ ({sb} :> [status |-> "integrated", dependsOn |-> {{sa}}, selects |-> (sb :> 1)])
    @@ ({sc, sd} :> [status |-> "active", dependsOn |-> {{sb}},
                     selects |-> (sc :> 1) @@ (sd :> 1)])
MCMaxMoves == [t \in BOOLEAN |-> 3]

NoStatus ==
    /\ documents = <<>> /\ signatures = <<>> /\ policies = <<>> /\ day = 0
    /\ changeset = <<>> /\ revision = <<>> /\ shown = {} /\ moves = 0
    /\ at = "idle" /\ query = NoQuery /\ token = TRUE

ForgeInit ==
    /\ part \in {"delivery", "status"}
    /\ DeliveryInit
    /\ part # "delivery" => exclusive /\ calm
    /\ IF part = "status" THEN StatusInit ELSE NoStatus

\* Questions have been answered in the end; commands never wait for each other.
ForgeNext ==
    \/ part = "delivery" /\ DeliveryNext /\ UNCHANGED <<statusVars, part>>
    \/ part = "status" /\ StatusNext /\ UNCHANGED <<deliveryVars, part>>
    \/ part # "delivery" /\ UNCHANGED forgeVars

ForgeSpec == ForgeInit /\ [][ForgeNext]_forgeVars
=============================================================================
