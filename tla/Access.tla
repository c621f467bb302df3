-------------------------------- MODULE Access -------------------------------
(***************************************************************************)
(* Who may ask: grants, teams, organisations and revocations in the        *)
(* semantic store, and require_role, which reads them.                     *)
(*                                                                         *)
(* A document is immutable and is named by its content: what it refers to  *)
(* is a part of it.  A document and each signature over it are objects of  *)
(* their own, which a repository fetches one by one and in any order, so a *)
(* grant may be there before its revocation, and a revocation before its   *)
(* signature.  Only signatures that verify are told apart from none.       *)
(***************************************************************************)
EXTENDS Naturals, FiniteSets

CONSTANTS
    Repositories,   \* registered repositories, each with its store and policy
    Documents,      \* the documents that exist
    Signatures,     \* <<actor, document>>: the signatures that exist
    Trusted,        \* authorized_grant_issuers of each policy at first
    Held,           \* repository -> the documents it holds at first
    MinimumSignatures,
    MaxDay          \* bound on the clock

VARIABLES
    documents,      \* repository -> documents it has
    signatures,     \* repository -> signatures it has
    policies,       \* repository -> issuers trusted and grants revoked in its policy
    day

accessVars == <<documents, signatures, policies, day>>

Never == MaxDay + 1

Grant(issuer, actors, teams, role, repositories, expires) ==
    [kind |-> "grant", issuer |-> issuer, actors |-> actors, teams |-> teams,
     role |-> role, repositories |-> repositories, expires |-> expires]
Organization(issuer) == [kind |-> "organization", issuer |-> issuer]
Team(organization, issuer, members) ==
    [kind |-> "team", organization |-> organization, issuer |-> issuer, members |-> members]
Revocation(grant, issuer, reason) ==
    [kind |-> "revocation", grant |-> grant, issuer |-> issuer, reason |-> reason]

Kind(k) == {d \in Documents : d.kind = k}

ASSUME AccessAssumption ==
    /\ \A d \in Kind("grant") :
          d.teams \subseteq Kind("team") /\ d.actors \cup d.teams # {} /\ d.expires \in Nat
    /\ \A d \in Kind("team") : d.organization \in Kind("organization") /\ d.members # {}
    /\ \A d \in Kind("revocation") : d.grant \in Kind("grant")
    /\ Held \in [Repositories -> SUBSET Documents]
    /\ MinimumSignatures \in Nat /\ MaxDay \in Nat

-----------------------------------------------------------------------------
(* What the store says of a document. *)

Signers(r, d) == {s[1] : s \in {s \in signatures[r] : s[2] = d}}

HasQuorum(r, d) == d \in documents[r] /\ Cardinality(Signers(r, d)) >= MinimumSignatures

IssuerSigned(r, d) == d \in documents[r] /\ d.issuer \in Signers(r, d)

\* Revocations that name the grant and its issuer.
Revocations(r, grant) ==
    {v \in documents[r] : v.kind = "revocation" /\ v.grant = grant /\ v.issuer = grant.issuer}

\* Giving up at a revocation whose signature did not arrive.
RevokedByAll(r, grant) ==
    Revocations(r, grant) # {} /\ \A v \in Revocations(r, grant) : IssuerSigned(r, v)

\* is_distributed_grant_revoked
Revoked(r, grant) == \E v \in Revocations(r, grant) : IssuerSigned(r, v)

\* verify_issuer_controlled_document
IssuerVerified(r, d) ==
    d.issuer \in policies[r].issuers /\ HasQuorum(r, d) /\ IssuerSigned(r, d)

GrantVerified(r, grant) ==
    /\ grant \in documents[r]
    /\ grant \notin policies[r].revoked
    /\ ~Revoked(r, grant)
    /\ day < grant.expires
    /\ IssuerVerified(r, grant)

TeamVerified(r, team) ==
    /\ team \in documents[r]
    /\ IssuerVerified(r, team.organization)
    /\ team.issuer = team.organization.issuer
    /\ IssuerVerified(r, team)

Member(r, actor, grant) ==
    actor \in grant.actors \/ \E t \in grant.teams : TeamVerified(r, t) /\ actor \in t.members

\* require_role: for every repository, or for one it is named for.
HasRole(r, actor, role, presented) ==
    \E grant \in presented :
        /\ GrantVerified(r, grant)
        /\ Member(r, actor, grant)
        /\ grant.role \in {"administrator", role}
        /\ grant.repositories = {} \/ "*" \in grant.repositories

-----------------------------------------------------------------------------
AccessInit ==
    /\ documents = Held
    /\ signatures = [r \in Repositories |-> {s \in Signatures : s[2] \in Held[r]}]
    /\ policies = [r \in Repositories |-> [issuers |-> Trusted, revoked |-> {}]]
    /\ day = 0

\* fetch brings object refs in, one after the other.
FetchDocument(r, d) ==
    /\ d \in Documents \ documents[r]
    /\ documents' = [documents EXCEPT ![r] = @ \cup {d}]
    /\ UNCHANGED <<signatures, policies, day>>

FetchSignature(r, s) ==
    /\ s \in Signatures \ signatures[r]
    /\ signatures' = [signatures EXCEPT ![r] = @ \cup {s}]
    /\ UNCHANGED <<documents, policies, day>>

\* A maintainer edits orkia.toml; what was revoked there stays revoked.
EditPolicy(r) ==
    /\ \/ \E i \in policies[r].issuers : policies' = [policies EXCEPT ![r].issuers = @ \ {i}]
       \/ \E grant \in Kind("grant") \ policies[r].revoked :
             policies' = [policies EXCEPT ![r].revoked = @ \cup {grant}]
    /\ UNCHANGED <<documents, signatures, day>>

NextDay ==
    /\ day < MaxDay
    /\ day' = day + 1
    /\ UNCHANGED <<documents, signatures, policies>>

\* Someone ends what a grant allowed, or word of it arrives.
AccessStep ==
    \/ \E r \in Repositories :
          \/ \E d \in Documents : FetchDocument(r, d)
          \/ \E s \in Signatures : FetchSignature(r, s)
          \/ EditPolicy(r)
    \/ NextDay

=============================================================================
