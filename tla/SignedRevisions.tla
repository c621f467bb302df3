--------------------------- MODULE SignedRevisions --------------------------
(***************************************************************************)
(* Publication of the signed revisions of one identity in Git refs.        *)
(*                                                                         *)
(* A revision document names its own place: refs/orkia/<kind>/<id>/<rev>.  *)
(* Publishing one is four separate Git writes by a process that may die    *)
(* between any two of them, and several processes (hooks, the workspace    *)
(* watcher, commands, the server) share the repository without a lock:     *)
(*   put        the blob and its object ref (forced, content addressed)    *)
(*   find       the revision ref: the same document, another one, or none  *)
(*   sign       a signature object over the stored bytes                   *)
(*   reference  the revision ref, created without force                    *)
(* The caller first reads the newest revision to choose the document, as   *)
(* persist_review_plan does for stacks and changesets.                     *)
(***************************************************************************)
EXTENDS Naturals, FiniteSets

CONSTANTS
    Publishers,     \* processes that publish
    Contents,       \* what a revision of this identity can say
    None,           \* "supersedes nothing"
    Signers,        \* actors that hold a signing key
    Signer,         \* the identity each publisher loads
    MinSignatures,  \* policy.minimum_semantic_signatures
    MaxRevision     \* bound on revision numbers (u32 in the code)

ASSUME PublisherAssumption == Signer \in [Publishers -> Signers]
ASSUME SignerAssumption == IsFiniteSet(Signers)
ASSUME NoneAssumption == None \notin Contents
\* The default policy asks for one signature, and no command co-signs.
ASSUME QuorumAssumption == MinSignatures \in {0, 1}
ASSUME BoundAssumption == MaxRevision \in Nat

VARIABLES
    bound,          \* documents a revision ref points at
    objects,        \* documents with an object ref
    signatures,     \* <<document, signer>>: stored signature objects
    pc,             \* where each publisher is
    doc,            \* the document each publisher is publishing
    acknowledged    \* <<publisher, document>>: publications that returned Ok

vars == <<bound, objects, signatures, pc, doc, acknowledged>>

Revisions == 0..MaxRevision
Document ==
    [revision : Revisions, content : Contents, supersedes : Contents \cup {None}]
NoDocument == {}    \* a publisher that publishes nothing holds no document
Steps == {"idle", "put", "find", "resign", "sign", "reference"}

-----------------------------------------------------------------------------
\* require_signature_quorum: enough distinct signers over the stored bytes.
HasQuorum(d) ==
    /\ d \in objects
    /\ Cardinality({s \in Signers : <<d, s>> \in signatures}) >= MinSignatures

\* latest_stack, latest_changeset: the highest revision under the prefix.
Newest == {d \in bound : \A e \in bound : e.revision <= d.revision}

\* A draft that drops the pointer to the revision it replaces.
DraftUnlinked(c) ==
    IF bound = {} THEN {[revision |-> 0, content |-> c, supersedes |-> None]}
    ELSE {IF d.content = c THEN d
          ELSE [revision |-> d.revision + 1, content |-> c, supersedes |-> None] :
             d \in Newest}

\* A draft that does not compare itself with the newest revision.
DraftAlways(c) ==
    IF bound = {} THEN {[revision |-> 0, content |-> c, supersedes |-> None]}
    ELSE {[revision |-> d.revision + 1, content |-> c, supersedes |-> d.content] :
             d \in Newest}

\* The document a caller publishes to say c: the first revision, the newest one
\* again when it already says c, or the one that supersedes it.
Draft(c) ==
    IF bound = {} THEN {[revision |-> 0, content |-> c, supersedes |-> None]}
    ELSE {IF d.content = c THEN d
          ELSE [revision |-> d.revision + 1, content |-> c, supersedes |-> d.content] :
             d \in Newest}

-----------------------------------------------------------------------------
Init ==
    /\ bound = {}
    /\ objects = {}
    /\ signatures = {}
    /\ pc = [p \in Publishers |-> "idle"]
    /\ doc = [p \in Publishers |-> NoDocument]
    /\ acknowledged = {}

\* The publication returns: Ok for the document, or an error.
Return(p, oks) ==
    /\ pc' = [pc EXCEPT ![p] = "idle"]
    /\ doc' = [doc EXCEPT ![p] = NoDocument]
    /\ acknowledged' = acknowledged \cup {<<p, d>> : d \in oks}

Goto(p, step) ==
    /\ pc' = [pc EXCEPT ![p] = step]
    /\ UNCHANGED <<doc, acknowledged>>

\* A read that numbers the next revision past the last representable one.
ReadLatestOverflowing(p) ==
    /\ pc[p] = "idle"
    /\ \A d \in bound : HasQuorum(d)
    /\ \E c \in Contents : \E d \in Draft(c) : doc' = [doc EXCEPT ![p] = {d}]
    /\ pc' = [pc EXCEPT ![p] = "put"]
    /\ UNCHANGED <<bound, objects, signatures, acknowledged>>

\* Reading the newest revision fails unless every revision has its quorum; a
\* failed read changes nothing.
ReadLatest(p) ==
    /\ pc[p] = "idle"
    /\ \A d \in bound : HasQuorum(d)
    /\ \E c \in Contents : \E d \in Draft(c) :
          /\ d.revision <= MaxRevision
          /\ doc' = [doc EXCEPT ![p] = {d}]
    /\ pc' = [pc EXCEPT ![p] = "put"]
    /\ UNCHANGED <<bound, objects, signatures, acknowledged>>

Put(p) ==
    /\ pc[p] = "put"
    /\ objects' = objects \cup doc[p]
    /\ Goto(p, "find")
    /\ UNCHANGED <<bound, signatures>>

\* The revision ref's target decides what is left to do.
FindSame(p) ==
    /\ pc[p] = "find"
    /\ doc[p] \subseteq bound
    /\ Goto(p, "resign")
    /\ UNCHANGED <<bound, objects, signatures>>

Taken(d) == \E e \in bound : e.revision = d.revision /\ e # d

\* A lookup that takes any existing target for the document's own.
FindOtherLax(p) ==
    /\ pc[p] = "find"
    /\ \E d \in doc[p] : Taken(d)
    /\ Return(p, doc[p])
    /\ UNCHANGED <<bound, objects, signatures>>

FindOther(p) ==
    /\ pc[p] = "find"
    /\ \E d \in doc[p] : Taken(d)
    /\ Return(p, {})
    /\ UNCHANGED <<bound, objects, signatures>>

FindNone(p) ==
    /\ pc[p] = "find"
    /\ \A d \in doc[p] : \A e \in bound : e.revision # d.revision
    /\ Goto(p, "sign")
    /\ UNCHANGED <<bound, objects, signatures>>

\* A crash may have left the revision ref without this publisher's signature.
Resign(p) ==
    /\ pc[p] = "resign"
    /\ doc[p] \subseteq objects
    /\ signatures' = signatures \cup (doc[p] \X {Signer[p]})
    /\ Return(p, doc[p])
    /\ UNCHANGED <<bound, objects>>

\* Going on to the revision ref before the signature is stored.
SignSkipped(p) ==
    /\ pc[p] = "sign"
    /\ doc[p] \subseteq objects
    /\ Goto(p, "reference")
    /\ UNCHANGED <<bound, objects, signatures>>

Sign(p) ==
    /\ pc[p] = "sign"
    /\ doc[p] \subseteq objects
    /\ signatures' = signatures \cup (doc[p] \X {Signer[p]})
    /\ Goto(p, "reference")
    /\ UNCHANGED <<bound, objects>>

\* Creating the revision ref with force.
ReferenceForced(p) ==
    /\ pc[p] = "reference"
    /\ \A d \in doc[p] : bound' = {e \in bound : e.revision # d.revision} \cup {d}
    /\ Return(p, doc[p])
    /\ UNCHANGED <<objects, signatures>>

\* force = false: Git refuses a ref that exists, whatever it points at.
Reference(p) ==
    /\ pc[p] = "reference"
    /\ IF \E d \in doc[p], e \in bound : e.revision = d.revision
       THEN Return(p, {}) /\ UNCHANGED bound
       ELSE Return(p, doc[p]) /\ bound' = bound \cup doc[p]
    /\ UNCHANGED <<objects, signatures>>

\* The process dies; what it wrote stays, what it held is lost.
Crash(p) ==
    /\ pc[p] # "idle"
    /\ Return(p, {})
    /\ UNCHANGED <<bound, objects, signatures>>

Next ==
    \E p \in Publishers :
        \/ ReadLatest(p) \/ Put(p)
        \/ FindSame(p) \/ FindOther(p) \/ FindNone(p)
        \/ Resign(p) \/ Sign(p) \/ Reference(p)
        \/ Crash(p)

Spec == Init /\ [][Next]_vars

-----------------------------------------------------------------------------
TypeOK ==
    /\ bound \subseteq Document
    /\ objects \subseteq Document
    /\ signatures \subseteq Document \X Signers
    /\ pc \in [Publishers -> Steps]
    /\ doc \in [Publishers -> {NoDocument} \cup {{d} : d \in Document}]
    /\ acknowledged \subseteq Publishers \X Document

\* No process, by racing, crashing or replaying, ever removes or redirects a
\* published revision.
Immutable == [][bound \subseteq bound']_vars

\* Every revision a reader can find is stored and signed, whatever crash came
\* between the writes that published it: no lookup is ever refused.
VisibleHasQuorum == \A d \in bound : HasQuorum(d)

\* Revisions form one unbroken history: each but the first supersedes what the
\* revision just below it says, although it was chosen from an earlier read.
SupersedesChain ==
    \A d \in bound :
        IF d.revision = 0 THEN d.supersedes = None
        ELSE \E e \in bound :
                 e.revision = d.revision - 1 /\ d.supersedes = e.content

\* A publisher that was told Ok finds that very document published under its
\* revision, with its own signature.
AcknowledgedHolds ==
    \A pd \in acknowledged :
        pd[2] \in bound /\ <<pd[2], Signer[pd[1]]>> \in signatures

\* The refs, read as revision numbers and contents, are an append-only register.
History == {[revision |-> d.revision, content |-> d.content] : d \in bound}
Register == INSTANCE RevisionRegister WITH entries <- History
RegisterSpec == Register!Spec
=============================================================================
