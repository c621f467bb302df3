-------------------------------- MODULE Status -------------------------------
(***************************************************************************)
(* The server's change_set_status: is this changeset ready to integrate?   *)
(*                                                                         *)
(* The answer is put together from signed refs read one after the other:   *)
(* the role, the changeset, the closure of its dependencies, their         *)
(* publications, and per stack of the changeset the role in its repository *)
(* and the publication.  Meanwhile commands revise what is read, or word   *)
(* arrives that a grant has ended.                                         *)
(*                                                                         *)
(* A command on changesets is one step here (ChangeSets takes it apart):   *)
(* readers see single refs, and a command stores a single changeset ref.   *)
(*                                                                         *)
(* token is chosen once, in Init: whether the caller shows the service     *)
(* token, so that no grant is read.                                        *)
(***************************************************************************)
EXTENDS Access

CONSTANTS
    Home,           \* stack -> its repository
    Groups,         \* changesets: sets of stacks
    Coordinator,    \* the repository of the changesets
    Reviewers,      \* the actors that ask
    Presented,      \* the sets of grants they show
    Beginning,      \* the changesets at first: group -> [status, dependsOn, selects]
    MaxMoves        \* token -> bound on commands, or on what is learnt of grants

ASSUME StatusAssumption ==
    /\ DOMAIN Beginning = Groups
    /\ \A g \in Groups :
          /\ g \subseteq DOMAIN Home
          /\ Beginning[g] \in [status : {"active", "integrated"},
                               dependsOn : SUBSET (Groups \ {g}), selects : [g -> Nat]]
    /\ \A s \in DOMAIN Home : Home[s] \in Repositories
    /\ Coordinator \in Repositories

VARIABLES
    changeset,      \* group -> its newest changeset
    revision,       \* stack -> its newest revision
    shown,          \* <<stack, revision>> with a published projection
    moves,
    at,             \* where the handler is
    query,          \* what it has read
    token

world == <<changeset, revision, shown>>
statusVars == <<accessVars, world, moves, at, query, token>>

NoQuery == <<>>
Stacks == DOMAIN Home

\* changeset_is_published
IsPublished(c) == \A s \in DOMAIN c.selects : <<s, c.selects[s]>> \in shown

\* changeset_execution_order: no part of the groups waits for itself or for another.
CanOrder(content) ==
    \A S \in SUBSET DOMAIN content :
        S # {} => \E g \in S : content[g].dependsOn \subseteq DOMAIN content \ S

\* all_dependencies and delivery_groups: a changeset of the closure goes before one that
\* is added to it.
Adding(content, g, c) ==
    [h \in DOMAIN content \cup {g} |-> IF h \in DOMAIN content THEN content[h] ELSE c]

\* Grants that ended, by whatever means, so far as the repository knows.
Ended(r) ==
    {grant \in Kind("grant") :
        \/ grant \in policies[r].revoked \/ grant.issuer \notin policies[r].issuers
        \/ day >= grant.expires
        \/ \E v \in documents[r] :
              v.kind = "revocation" /\ v.grant = grant /\ v.issuer = grant.issuer
              /\ <<grant.issuer, v>> \in signatures[r]}

StatusInit ==
    /\ AccessInit
    /\ changeset = Beginning
    /\ revision = [s \in Stacks |-> 1]
    /\ shown = {<<s, 1>> : s \in UNION {g \in Groups : Beginning[g].status = "integrated"}}
    /\ moves = 0
    /\ at = "idle" /\ query = NoQuery
    /\ token \in BOOLEAN

-----------------------------------------------------------------------------
(* The commands, see ReviewPublication, Delivery and ChangeSets. *)

Move(c, r, p) ==
    /\ token
    /\ moves < MaxMoves[token]
    /\ moves' = moves + 1
    /\ changeset' = c /\ revision' = r /\ shown' = p
    /\ query' = IF query = NoQuery THEN query
                ELSE [query EXCEPT !.seen = @ \cup {<<g, c[g]>> : g \in Groups}]
    /\ UNCHANGED <<accessVars, at, token>>

ReviseStack(s) == Move(changeset, [revision EXCEPT ![s] = @ + 1], shown)

PublishStack(s) ==
    /\ <<s, revision[s]>> \notin shown
    /\ Move(changeset, revision, shown \cup {<<s, revision[s]>>})

\* changeset create: dependencies that are integrated, the newest revisions.
CreateGroup(g) ==
    \E D \in SUBSET {d \in Groups \ {g} : changeset[d].status = "integrated"} :
        LET c == [status |-> "active", dependsOn |-> D, selects |-> [s \in g |-> revision[s]]] IN
        /\ changeset[g] # c
        /\ Move([changeset EXCEPT ![g] = c], revision, shown)

\* integrate --changeset
IntegrateGroup(g) ==
    /\ changeset[g].status = "active"
    /\ IsPublished(changeset[g])
    /\ \A d \in changeset[g].dependsOn : changeset[d].status = "integrated"
    /\ Move([changeset EXCEPT ![g].status = "integrated"], revision, shown)

Learn ==
    /\ ~token
    /\ moves < MaxMoves[token]
    /\ moves' = moves + 1
    /\ AccessStep
    /\ UNCHANGED <<world, at, query, token>>

-----------------------------------------------------------------------------
(* change_set_status *)

Ask(actor, presented, g) ==
    /\ at \in {"idle", "answered"}
    /\ token => presented = {}
    /\ at' = "role"
    /\ query' = [actor |-> actor, presented |-> presented, group |-> g,
                 root |-> <<>>, closure |-> <<>>, checked |-> {}, ready |-> TRUE,
                 ended |-> [r \in Repositories |-> Ended(r)],
                 seen |-> {<<h, changeset[h]>> : h \in Groups}]
    /\ UNCHANGED <<accessVars, world, moves, token>>

Allowed(r) == token \/ HasRole(r, query.actor, "reviewer", query.presented)

\* One read: on to the next step, or a refusal.
Read(step, good, next, q) ==
    /\ at = step
    /\ IF good THEN at' = next /\ query' = q ELSE at' = "idle" /\ query' = NoQuery
    /\ UNCHANGED <<accessVars, world, moves, token>>

CheckRole == Read("role", Allowed(Coordinator), "root", query)

ReadGroup ==
    Read("root", TRUE, "closure", [query EXCEPT !.root = changeset[query.group]])

\* pending
Awaited ==
    (query.root.dependsOn \cup UNION {query.closure[d].dependsOn : d \in DOMAIN query.closure})
        \ DOMAIN query.closure

ReadAwaited ==
    \E d \in Awaited :
        Read("closure", changeset[d].status = "integrated", "closure",
             [query EXCEPT !.closure = Adding(@, d, changeset[d])])

OrderGroups ==
    /\ at = "closure" => Awaited = {}
    /\ Read("closure", CanOrder(Adding(query.closure, query.group, query.root)),
            "publications", query)

CheckPublication ==
    \E d \in DOMAIN query.closure \ query.checked :
        Read("publications", IsPublished(query.closure[d]), "publications",
             [query EXCEPT !.checked = @ \cup {d}])

ToStacks ==
    /\ at = "publications" => query.checked = DOMAIN query.closure
    /\ Read("publications", TRUE, "stacks", [query EXCEPT !.checked = {}])

CheckStack ==
    \E s \in DOMAIN query.root.selects \ query.checked :
        Read("stacks", Allowed(Home[s]), "stacks",
             [query EXCEPT !.checked = @ \cup {s},
                           !.ready = @ /\ <<s, query.root.selects[s]>> \in shown])

AnswerStatus ==
    /\ at = "stacks" => query.checked = DOMAIN query.root.selects
    /\ Read("stacks", TRUE, "answered", query)

-----------------------------------------------------------------------------
StatusNext ==
    \/ \E s \in Stacks : ReviseStack(s) \/ PublishStack(s)
    \/ \E g \in Groups : CreateGroup(g) \/ IntegrateGroup(g)
    \/ Learn
    \/ \E a \in Reviewers, p \in Presented, g \in Groups : Ask(a, p, g)
    \/ CheckRole \/ ReadGroup
    \/ at = "closure" /\ ReadAwaited
    \/ at = "closure" /\ OrderGroups
    \/ at = "publications" /\ CheckPublication
    \/ at = "publications" /\ ToStacks
    \/ at = "stacks" /\ CheckStack
    \/ at = "stacks" /\ AnswerStatus

StatusSpec == StatusInit /\ [][StatusNext]_statusVars

-----------------------------------------------------------------------------
\* An answer rests, in every repository it looked into, on a grant that had
\* not ended there when the question was asked: no order in which the parts
\* of a revocation arrive revives it.
AnswersAuthorised ==
    at = "answered" /\ ~token =>
        \A r \in {Coordinator} \cup {Home[s] : s \in DOMAIN query.root.selects} :
            query.presented \ query.ended[r] # {}

\* "Ready" means that the whole closure was looked at: a set of changesets
\* that holds all its dependencies, each of them integrated at some moment
\* since the question was asked, with every selected revision published.
ReadyJustified ==
    at = "answered" /\ query.ready =>
        /\ <<query.group, query.root>> \in query.seen
        /\ IsPublished(query.root)
        /\ query.root.dependsOn \subseteq DOMAIN query.closure
        /\ \A d \in DOMAIN query.closure :
              /\ <<d, query.closure[d]>> \in query.seen
              /\ query.closure[d].status = "integrated"
              /\ query.closure[d].dependsOn \subseteq DOMAIN query.closure
              /\ IsPublished(query.closure[d])

StatusSound == AnswersAuthorised /\ ReadyJustified

=============================================================================
