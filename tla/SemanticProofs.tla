---------------------------- MODULE SemanticProofs ---------------------------
(***************************************************************************)
(* Proofs about what a repository keeps: the signed revisions, for any     *)
(* number of publishers, signers, contents and revisions, and the semantic *)
(* history, for any trees of files, texts, symbols and number of commits.  *)
(***************************************************************************)
EXTENDS SignedRevisions, SemanticHistory, FiniteSetTheorems, WellFoundedInduction, TLAPS

-----------------------------------------------------------------------------
(* Signed revisions.                                                        *)

(* What makes the properties inductive.  A publisher's document is stored   *)
(* once it has been put and signed once it is about to be referenced; it    *)
(* was chosen against a revision that is still there, because refs are      *)
(* never removed; and revision numbers leave no gap and are never shared.   *)

\* d is what Draft chooses: a first revision, or a different content over the
\* published revision just below.
Linked(d) ==
    IF d.revision = 0 THEN d.supersedes = None
    ELSE /\ d.supersedes # d.content
         /\ \E e \in bound : e.revision = d.revision - 1 /\ d.supersedes = e.content

Stored(d) == d \in objects
Signed(d, s) == <<d, s>> \in signatures

HeldDocuments ==
    \A p \in Publishers : \A d \in doc[p] :
        /\ Linked(d)
        /\ pc[p] \in {"find", "resign", "sign", "reference"} => Stored(d)
        /\ pc[p] = "resign" => d \in bound
        /\ pc[p] = "reference" => Signed(d, Signer[p])

BoundDocuments ==
    \A d \in bound : /\ Linked(d)
                     /\ Stored(d)
                     /\ \E s \in Signers : Signed(d, s)

OnePerRevision == \A d, e \in bound : d.revision = e.revision => d = e

NoGap == \A d \in bound : \A r \in 0..d.revision : \E e \in bound : e.revision = r

IInv == /\ TypeOK
        /\ HeldDocuments
        /\ BoundDocuments
        /\ OnePerRevision
        /\ NoGap
        /\ AcknowledgedHolds

-----------------------------------------------------------------------------
\* The draft for a content, from any set of published revisions: it is typed
\* and linked.
LEMMA DraftLinked ==
    ASSUME IInv, NEW c \in Contents, NEW d \in Draft(c), d.revision <= MaxRevision
    PROVE  d \in Document /\ Linked(d)
<1> USE PublisherAssumption, NoneAssumption, BoundAssumption
<1>1. CASE bound = {}
    BY <1>1 DEF Draft, Document, Revisions, Linked
<1>2. CASE bound # {}
    <2>1. PICK e \in Newest : d = IF e.content = c THEN e
              ELSE [revision |-> e.revision + 1, content |-> c, supersedes |-> e.content]
        BY <1>2 DEF Draft
    <2>2. e \in bound /\ e \in Document /\ Linked(e)
        BY <2>1 DEF Newest, IInv, TypeOK, BoundDocuments
    <2>3. CASE e.content = c
        BY <2>1, <2>2, <2>3
    <2>4. CASE e.content # c
        <3>1. d = [revision |-> e.revision + 1, content |-> c, supersedes |-> e.content]
            BY <2>1, <2>4
        <3>2. e.revision \in Nat /\ e.content \in Contents
            BY <2>2 DEF Document, Revisions
        <3>3. d.revision = e.revision + 1 /\ d.supersedes = e.content /\ d.content = c
            BY <3>1
        <3>4. d \in Document
            BY <3>1, <3>2, <3>3 DEF Document, Revisions
        <3>5. Linked(d)
            BY <2>2, <2>4, <3>2, <3>3 DEF Linked
        <3>. QED BY <3>4, <3>5
    <2>. QED BY <2>3, <2>4
<1>. QED BY <1>1, <1>2

\* Refs are only added, so a document linked to published revisions stays so.
LEMMA LinkedMonotone ==
    ASSUME NEW d, Linked(d), bound \subseteq bound'
    PROVE  Linked(d)'
BY DEF Linked

\* It holds in the beginning.
LEMMA InitIInv == Init => IInv
BY PublisherAssumption DEF Init, IInv, TypeOK, HeldDocuments, BoundDocuments,
       OnePerRevision, NoGap, AcknowledgedHolds, Steps, NoDocument

\* A publisher that returns leaves the others where they were.
LEMMA ReturnKeepsTypes ==
    ASSUME TypeOK, NEW p \in Publishers, NEW oks \in SUBSET doc[p], Return(p, oks)
    PROVE  /\ pc' \in [Publishers -> Steps]
           /\ doc' \in [Publishers -> {NoDocument} \cup {{d} : d \in Document}]
           /\ acknowledged' \subseteq Publishers \X Document
           /\ \A q \in Publishers : q # p => pc'[q] = pc[q] /\ doc'[q] = doc[q]
           /\ doc'[p] = {}
<1>1. doc[p] \subseteq Document
    BY DEF TypeOK, NoDocument
<1>2. {<<p, d>> : d \in oks} \subseteq Publishers \X Document
    BY <1>1
<1>. QED BY <1>2 DEF Return, TypeOK, NoDocument, Steps

\* So does going on to another step.
LEMMA GotoKeepsTypes ==
    ASSUME TypeOK, NEW p \in Publishers, NEW step \in Steps, Goto(p, step)
    PROVE  /\ pc' \in [Publishers -> Steps]
           /\ doc' \in [Publishers -> {NoDocument} \cup {{d} : d \in Document}]
           /\ acknowledged' \subseteq Publishers \X Document
           /\ \A q \in Publishers : q # p => pc'[q] = pc[q]
           /\ pc'[p] = step
BY DEF Goto, TypeOK

\* Nothing a publisher has written is taken back: bound, objects and signatures
\* only grow.
Grows == /\ bound \subseteq bound'
         /\ objects \subseteq objects'
         /\ signatures \subseteq signatures'

\* No step takes anything away.
LEMMA NextGrows == ASSUME [Next]_vars PROVE Grows
BY DEF Next, vars, Grows, ReadLatest, Put, FindSame, FindOther, FindNone, Resign, Sign,
       Reference, Crash


-----------------------------------------------------------------------------
\* What a step leaves true of the published revisions when it adds none and
\* acknowledges what it may: all that is left to show is what it holds.
LEMMA QuietStep ==
    ASSUME IInv, [Next]_vars, bound' = bound
    PROVE  BoundDocuments' /\ OnePerRevision' /\ NoGap'
<1>1. Grows
    BY NextGrows
<1>2. ASSUME NEW d \in bound PROVE Linked(d)' /\ Stored(d)' /\ \E s \in Signers : Signed(d, s)'
    <2>1. Linked(d) /\ Stored(d) /\ \E s \in Signers : Signed(d, s)
        BY DEF IInv, BoundDocuments
    <2>2. Linked(d)'
        BY <1>1, <2>1, LinkedMonotone DEF Grows
    <2>. QED BY <1>1, <2>1, <2>2 DEF Grows, Stored, Signed
<1>3. BoundDocuments'
    BY <1>2 DEF BoundDocuments
<1>. QED BY <1>3 DEF IInv, OnePerRevision, NoGap

\* A publisher that did not move still holds what it held.
LEMMA OthersHold ==
    ASSUME IInv, [Next]_vars,
           NEW q \in Publishers, pc'[q] = pc[q], doc'[q] = doc[q], NEW d \in doc'[q]
    PROVE  /\ Linked(d)'
           /\ pc'[q] \in {"find", "resign", "sign", "reference"} => Stored(d)'
           /\ pc'[q] = "resign" => d \in bound'
           /\ pc'[q] = "reference" => Signed(d, Signer[q])'
<1>1. Grows
    BY NextGrows
<1>2. Linked(d)
    BY DEF IInv, HeldDocuments
<1>3. Linked(d)'
    BY <1>1, <1>2, LinkedMonotone DEF Grows
<1>. QED BY <1>1, <1>3 DEF IInv, HeldDocuments, Grows, Stored, Signed

\* A return that acknowledges only published and signed documents.
LEMMA ReturnAcknowledges ==
    ASSUME IInv, [Next]_vars, NEW p \in Publishers, NEW oks, Return(p, oks),
           \A d \in oks : d \in bound' /\ <<d, Signer[p]>> \in signatures'
    PROVE  AcknowledgedHolds'
<1>1. Grows
    BY NextGrows
<1>2. ASSUME NEW pd \in acknowledged'
      PROVE  pd[2] \in bound' /\ <<pd[2], Signer[pd[1]]>> \in signatures'
    <2>1. CASE pd \in acknowledged
        BY <1>1, <2>1 DEF IInv, AcknowledgedHolds, Grows
    <2>2. CASE \E d \in oks : pd = <<p, d>>
        BY <2>2
    <2>. QED BY <2>1, <2>2 DEF Return
<1>. QED BY <1>2 DEF AcknowledgedHolds

\* A step that neither returns nor unpublishes keeps every acknowledgement.
LEMMA KeptAcknowledged ==
    ASSUME IInv, [Next]_vars, acknowledged' = acknowledged
    PROVE  AcknowledgedHolds'
BY NextGrows DEF IInv, AcknowledgedHolds, Grows

-----------------------------------------------------------------------------
\* What a step by p leaves to show about the documents publishers hold.
HeldBy(p) ==
    \A d \in doc[p] :
        /\ Linked(d)
        /\ pc[p] \in {"find", "resign", "sign", "reference"} => Stored(d)
        /\ pc[p] = "resign" => d \in bound
        /\ pc[p] = "reference" => Signed(d, Signer[p])

\* A step is one publisher's, and the others stay where they are.
LEMMA OneMoves ==
    ASSUME IInv, [Next]_vars, NEW p \in Publishers, HeldBy(p)',
           \A q \in Publishers : q # p => pc'[q] = pc[q] /\ doc'[q] = doc[q]
    PROVE  HeldDocuments'
BY OthersHold DEF HeldBy, HeldDocuments

\* The inductive step: every action keeps the invariant.
LEMMA NextIInv == IInv /\ [Next]_vars => IInv'
<1> SUFFICES ASSUME IInv, [Next]_vars PROVE IInv'
    OBVIOUS
<1> USE PublisherAssumption, BoundAssumption
<1>t. TypeOK
    BY DEF IInv
<1>0. CASE UNCHANGED vars
    BY <1>0 DEF vars, IInv, TypeOK, HeldDocuments, BoundDocuments, OnePerRevision, NoGap,
                AcknowledgedHolds, Linked, Stored, Signed
<1>1. ASSUME NEW p \in Publishers, ReadLatest(p) PROVE IInv'
    <2>0. PICK c \in Contents : \E d \in Draft(c) :
              d.revision <= MaxRevision /\ doc' = [doc EXCEPT ![p] = {d}]
        BY <1>1 DEF ReadLatest
    <2>1. PICK d \in Draft(c) :
              d.revision <= MaxRevision /\ doc' = [doc EXCEPT ![p] = {d}]
        BY <2>0
    <2>2. d \in Document /\ Linked(d)
        BY <2>1, DraftLinked
    <2>3. pc' = [pc EXCEPT ![p] = "put"]
          /\ UNCHANGED <<bound, objects, signatures, acknowledged>>
        BY <1>1 DEF ReadLatest
    <2>4. TypeOK'
        BY <1>t, <2>1, <2>2, <2>3 DEF TypeOK, Steps
    <2>5. doc'[p] = {d} /\ pc'[p] = "put"
        BY <1>t, <2>1, <2>3 DEF TypeOK
    <2>6. HeldBy(p)'
        BY <2>2, <2>3, <2>5 DEF HeldBy, Linked
    <2>7. HeldDocuments'
        BY <1>t, <2>1, <2>3, <2>6, OneMoves DEF TypeOK
    <2>. QED BY <2>3, <2>4, <2>7, QuietStep, KeptAcknowledged DEF IInv
<1>2. ASSUME NEW p \in Publishers, Put(p) PROVE IInv'
    <2>1. objects' = objects \cup doc[p] /\ doc' = doc /\ UNCHANGED <<bound, signatures>>
        BY <1>2 DEF Put, Goto
    <2>2. TypeOK'
        BY <1>2, <1>t, <2>1, GotoKeepsTypes DEF Put, TypeOK, Steps, NoDocument
    <2>3. /\ pc'[p] = "find"
          /\ \A q \in Publishers : q # p => pc'[q] = pc[q]
          /\ acknowledged' = acknowledged
        BY <1>2, <1>t, GotoKeepsTypes DEF Put, Steps, Goto
    <2>4. HeldBy(p)'
        BY <2>1, <2>3 DEF HeldBy, IInv, HeldDocuments, Linked, Stored
    <2>5. HeldDocuments'
        BY <2>1, <2>3, <2>4, OneMoves
    <2>. QED BY <2>1, <2>2, <2>3, <2>5, QuietStep, KeptAcknowledged DEF IInv
<1>3. ASSUME NEW p \in Publishers, FindSame(p) \/ FindNone(p) PROVE IInv'
    <2>1. PICK step \in {"resign", "sign"} :
              Goto(p, step) /\ (step = "resign" => doc[p] \subseteq bound)
        BY <1>3 DEF FindSame, FindNone
    <2>2. doc' = doc /\ UNCHANGED <<bound, objects, signatures>> /\ pc[p] = "find"
        BY <1>3 DEF FindSame, FindNone, Goto
    <2>3. TypeOK'
        BY <1>t, <2>1, <2>2, GotoKeepsTypes DEF TypeOK, Steps
    <2>4. /\ pc'[p] = step
          /\ \A q \in Publishers : q # p => pc'[q] = pc[q]
          /\ acknowledged' = acknowledged
        BY <1>t, <2>1, GotoKeepsTypes DEF Steps, Goto
    <2>5. HeldBy(p)'
        BY <2>1, <2>2, <2>4 DEF HeldBy, IInv, HeldDocuments, Linked, Stored
    <2>6. HeldDocuments'
        BY <2>2, <2>4, <2>5, OneMoves
    <2>. QED BY <2>2, <2>3, <2>4, <2>6, QuietStep, KeptAcknowledged DEF IInv
<1>4. ASSUME NEW p \in Publishers, Sign(p) PROVE IInv'
    <2>1. /\ signatures' = signatures \cup (doc[p] \X {Signer[p]})
          /\ doc' = doc
          /\ UNCHANGED <<bound, objects>>
          /\ doc[p] \subseteq objects
        BY <1>4 DEF Sign, Goto
    <2>2. doc[p] \X {Signer[p]} \subseteq Document \X Signers
        BY <1>t, <2>1 DEF TypeOK
    <2>3. TypeOK'
        BY <1>4, <1>t, <2>1, <2>2, GotoKeepsTypes DEF Sign, TypeOK, Steps
    <2>4. /\ pc'[p] = "reference"
          /\ \A q \in Publishers : q # p => pc'[q] = pc[q]
          /\ acknowledged' = acknowledged
        BY <1>4, <1>t, GotoKeepsTypes DEF Sign, Steps, Goto
    <2>5. HeldBy(p)'
        BY <2>1, <2>4 DEF HeldBy, IInv, HeldDocuments, Linked, Stored, Signed
    <2>6. HeldDocuments'
        BY <2>1, <2>4, <2>5, OneMoves
    <2>. QED BY <2>1, <2>3, <2>4, <2>6, QuietStep, KeptAcknowledged DEF IInv
<1>5. ASSUME NEW p \in Publishers, FindOther(p) \/ Crash(p) PROVE IInv'
    <2>1. Return(p, {}) /\ UNCHANGED <<bound, objects, signatures>>
        BY <1>5 DEF FindOther, Crash
    <2>2. /\ pc' \in [Publishers -> Steps]
          /\ doc' \in [Publishers -> {NoDocument} \cup {{d} : d \in Document}]
          /\ acknowledged' \subseteq Publishers \X Document
          /\ \A q \in Publishers : q # p => pc'[q] = pc[q] /\ doc'[q] = doc[q]
          /\ doc'[p] = {}
        BY <1>t, <2>1, ReturnKeepsTypes
    <2>3. TypeOK'
        BY <1>t, <2>1, <2>2 DEF TypeOK
    <2>4. HeldBy(p)'
        BY <2>2 DEF HeldBy
    <2>5. HeldDocuments'
        BY <2>2, <2>4, OneMoves
    <2>6. AcknowledgedHolds'
        BY <2>1, ReturnAcknowledges
    <2>. QED BY <2>1, <2>3, <2>5, <2>6, QuietStep DEF IInv
<1>6. ASSUME NEW p \in Publishers, Resign(p) PROVE IInv'
    <2>1. /\ pc[p] = "resign"
          /\ Return(p, doc[p])
          /\ doc[p] \subseteq objects
          /\ signatures' = signatures \cup (doc[p] \X {Signer[p]})
          /\ UNCHANGED <<bound, objects>>
        BY <1>6 DEF Resign
    <2>2. /\ pc' \in [Publishers -> Steps]
          /\ doc' \in [Publishers -> {NoDocument} \cup {{d} : d \in Document}]
          /\ acknowledged' \subseteq Publishers \X Document
          /\ \A q \in Publishers : q # p => pc'[q] = pc[q] /\ doc'[q] = doc[q]
          /\ doc'[p] = {}
        BY <1>t, <2>1, ReturnKeepsTypes
    <2>3. doc[p] \X {Signer[p]} \subseteq Document \X Signers
        BY <1>t, <2>1 DEF TypeOK
    <2>4. TypeOK'
        BY <1>t, <2>1, <2>2, <2>3 DEF TypeOK
    <2>5. HeldDocuments'
        <3>1. HeldBy(p)'
            BY <2>2 DEF HeldBy
        <3>. QED BY <2>2, <3>1, OneMoves
    <2>6. doc[p] \subseteq bound
        BY <2>1 DEF IInv, HeldDocuments
    <2>7. AcknowledgedHolds'
        BY <2>1, <2>6, ReturnAcknowledges
    <2>. QED BY <2>1, <2>4, <2>5, <2>7, QuietStep DEF IInv
<1>7. ASSUME NEW p \in Publishers, Reference(p) PROVE IInv'
    <2>1. pc[p] = "reference" /\ UNCHANGED <<objects, signatures>>
        BY <1>7 DEF Reference
    <2>2. CASE Return(p, {}) /\ bound' = bound
        <3>1. TypeOK'
            BY <1>t, <2>1, <2>2, ReturnKeepsTypes DEF TypeOK
        <3>2. HeldDocuments'
            <4>1. HeldBy(p)'
                BY <1>t, <2>2, ReturnKeepsTypes DEF HeldBy
            <4>. QED BY <1>t, <2>2, <4>1, ReturnKeepsTypes, OneMoves
        <3>3. AcknowledgedHolds'
            BY <2>2, ReturnAcknowledges
        <3>. QED BY <2>2, <3>1, <3>2, <3>3, QuietStep DEF IInv
    <2>3. CASE /\ Return(p, doc[p])
               /\ bound' = bound \cup doc[p]
               /\ \A d \in doc[p], e \in bound : e.revision # d.revision
        <3>1. /\ pc' \in [Publishers -> Steps]
              /\ doc' \in [Publishers -> {NoDocument} \cup {{d} : d \in Document}]
              /\ acknowledged' \subseteq Publishers \X Document
              /\ \A q \in Publishers : q # p => pc'[q] = pc[q] /\ doc'[q] = doc[q]
              /\ doc'[p] = {}
            BY <1>t, <2>3, ReturnKeepsTypes
        <3>2. TypeOK'
            BY <1>t, <2>1, <2>3, <3>1 DEF TypeOK, NoDocument
        <3>3. HeldDocuments'
            <4>1. HeldBy(p)'
                BY <3>1 DEF HeldBy
            <4>. QED BY <3>1, <4>1, OneMoves
        <3>4. \A d \in doc[p] : Linked(d) /\ Stored(d) /\ Signed(d, Signer[p])
            BY <2>1 DEF IInv, HeldDocuments
        <3>5. AcknowledgedHolds'
            <4>1. \A d \in doc[p] : d \in bound' /\ <<d, Signer[p]>> \in signatures'
                BY <2>1, <2>3, <3>4 DEF Signed
            <4>. QED BY <2>3, <4>1, ReturnAcknowledges
        <3>6. BoundDocuments'
            <4>1. ASSUME NEW d \in bound'
                  PROVE  Linked(d)' /\ Stored(d)' /\ \E s \in Signers : Signed(d, s)'
                <5>1. Linked(d) /\ Stored(d) /\ \E s \in Signers : Signed(d, s)
                    BY <2>3, <3>4 DEF IInv, BoundDocuments
                <5>2. Linked(d)'
                    BY <2>3, <5>1, LinkedMonotone
                <5>. QED BY <2>1, <5>1, <5>2 DEF Stored, Signed
            <4>. QED BY <4>1 DEF BoundDocuments
        <3>7. \A d, e \in doc[p] : d = e
            BY <1>t DEF TypeOK, NoDocument
        <3>8. OnePerRevision'
            BY <2>3, <3>7 DEF IInv, OnePerRevision
        <3>9. NoGap'
            <4>1. ASSUME NEW d \in doc[p], NEW r \in 0..d.revision
                  PROVE  \E e \in bound' : e.revision = r
                <5>1. d.revision \in Nat
                    BY <1>t DEF TypeOK, NoDocument, Document, Revisions
                <5>2. CASE r = d.revision
                    BY <2>3, <5>2
                <5>3. CASE r # d.revision
                    <6>1. PICK e \in bound : e.revision = d.revision - 1
                        BY <3>4, <5>1, <5>3 DEF Linked
                    <6>2. r \in 0..e.revision
                        BY <5>1, <5>3, <6>1
                    <6>. QED BY <2>3, <6>1, <6>2 DEF IInv, NoGap
                <5>. QED BY <5>2, <5>3
            <4>2. ASSUME NEW d \in bound, NEW r \in 0..d.revision
                  PROVE  \E e \in bound' : e.revision = r
                BY <2>3 DEF IInv, NoGap
            <4>. QED BY <2>3, <4>1, <4>2 DEF NoGap
        <3>. QED BY <3>2, <3>3, <3>5, <3>6, <3>8, <3>9 DEF IInv
    <2>. QED BY <1>7, <2>2, <2>3 DEF Reference
<1>. QED
    BY <1>0, <1>1, <1>2, <1>3, <1>4, <1>5, <1>6, <1>7 DEF Next

\* Invariant: what is bound to a revision is stored, signed and linked, and what a
\* publisher holds is ready for its next step (publish_signed_revision).
THEOREM InductiveInvariant == Spec => []IInv
BY InitIInv, NextIInv, PTL DEF Spec

-----------------------------------------------------------------------------
\* Every variable keeps its type, however many processes publish, and no
\* revision number passes the bound.
THEOREM TypeCorrect == Spec => []TypeOK
<1>1. IInv => TypeOK
    BY DEF IInv
<1>. QED BY <1>1, InductiveInvariant, PTL

\* A reader never meets a revision that lacks its object or its signature,
\* although the object, the signature and the ref are separate writes of
\* processes that crash and race.
THEOREM QuorumAlways == Spec => []VisibleHasQuorum
<1>1. IInv => VisibleHasQuorum
    <2> SUFFICES ASSUME IInv, NEW d \in bound PROVE HasQuorum(d)
        BY DEF VisibleHasQuorum
    <2> DEFINE S == {s \in Signers : <<d, s>> \in signatures}
    <2>1. Stored(d) /\ \E s \in Signers : Signed(d, s)
        BY DEF IInv, BoundDocuments
    <2>2. IsFiniteSet(S)
        BY SignerAssumption, FS_Subset
    <2>3. S # {}
        BY <2>1 DEF Signed
    <2>4. Cardinality(S) \in Nat /\ Cardinality(S) # 0
        BY <2>2, <2>3, FS_CardinalityType, FS_EmptySet
    <2>5. Cardinality(S) >= MinSignatures
        BY <2>4, QuorumAssumption
    <2>. QED BY <2>1, <2>5 DEF HasQuorum, Stored
<1>. QED BY <1>1, InductiveInvariant, PTL

\* The history of an identity is one unbroken chain of superseding revisions.
THEOREM HistoryUnbroken == Spec => []SupersedesChain
<1>1. IInv => SupersedesChain
    BY DEF IInv, BoundDocuments, Linked, SupersedesChain
<1>. QED BY <1>1, InductiveInvariant, PTL

\* Ok means published: no later race or crash takes back what was acknowledged.
THEOREM AcknowledgementsHold == Spec => []AcknowledgedHolds
<1>1. IInv => AcknowledgedHolds
    BY DEF IInv
<1>. QED BY <1>1, InductiveInvariant, PTL

\* No step removes or redirects a published revision.
THEOREM NeverRewritten == Spec => Immutable
<1>1. [Next]_vars => [bound \subseteq bound']_vars
    BY NextGrows DEF Grows
<1>. QED BY <1>1, PTL DEF Spec, Immutable

-----------------------------------------------------------------------------
\* Publishing over the newest revision appends to the register.
LEMMA ReferenceAppends ==
    ASSUME IInv, NEW p \in Publishers, pc[p] = "reference",
           NEW d \in doc[p], doc[p] = {d}, bound' = bound \cup {d},
           \A e \in bound : e.revision # d.revision
    PROVE  Register!Next
<1> DEFINE new == [revision |-> d.revision, content |-> d.content]
<1>1. d \in Document /\ Linked(d)
    BY DEF IInv, TypeOK, NoDocument, HeldDocuments
<1>2. d.content \in Contents /\ d.revision \in Nat
    BY <1>1, BoundAssumption DEF Document, Revisions
<1>3. History' = History \cup {new}
    BY DEF History
<1>4. \A e \in bound : e.revision \in Nat
    BY BoundAssumption DEF IInv, TypeOK, Document, Revisions
<1>5. CASE bound = {}
    <2>1. d.revision = 0
        BY <1>1, <1>5 DEF Linked
    <2>2. Register!Create(d.content)
        BY <1>3, <1>5, <2>1 DEF Register!Create, History
    <2>. QED BY <1>2, <2>2 DEF Register!Next
<1>6. CASE bound # {}
    <2>1. \A e \in bound : e.revision < d.revision
        <3>1. SUFFICES ASSUME NEW e \in bound, d.revision <= e.revision PROVE FALSE
            BY <1>2, <1>4
        <3>2. d.revision \in 0..e.revision
            BY <1>2, <1>4, <3>1
        <3>. QED BY <3>2 DEF IInv, NoGap
    <2>2. d.revision # 0
        BY <1>2, <1>4, <1>6, <2>1
    <2>3. PICK e \in bound : /\ e.revision = d.revision - 1
                             /\ e.content # d.content
        BY <1>1, <2>2 DEF Linked
    <2>4. [revision |-> e.revision, content |-> e.content] \in History
        BY DEF History
    <2>5. \A f \in History : f.revision <= e.revision
        BY <1>2, <1>4, <2>1, <2>3 DEF History
    <2>6. Register!Revise(d.content)
        <3>1. new = [revision |-> e.revision + 1, content |-> d.content]
            BY <1>2, <1>4, <2>3
        <3>. QED BY <1>3, <2>3, <2>4, <2>5, <3>1 DEF Register!Revise, Register!IsNewest
    <2>. QED BY <1>2, <2>6 DEF Register!Next
<1>. QED BY <1>5, <1>6

\* The Git protocol implements the append-only register: races, crashes and
\* replays show its readers nothing else.
THEOREM ImplementsRegister == Spec => RegisterSpec
<1>1. Init => Register!Init
    BY DEF Init, Register!Init, History
<1>2. ASSUME IInv, [Next]_vars PROVE [Register!Next]_History
    <2>1. CASE bound' = bound
        BY <2>1 DEF History
    <2>2. ASSUME NEW p \in Publishers, Reference(p), bound' # bound PROVE Register!Next
        <3>1. /\ pc[p] = "reference"
              /\ bound' = bound \cup doc[p]
              /\ \A d \in doc[p], e \in bound : e.revision # d.revision
            BY <2>2 DEF Reference
        <3>2. PICK d \in doc[p] : doc[p] = {d}
            BY <1>2, <2>2, <3>1 DEF IInv, TypeOK, NoDocument
        <3>. QED BY <1>2, <3>1, <3>2, ReferenceAppends
    <2>3. CASE bound' # bound
        <3>1. \E p \in Publishers : Reference(p)
            BY <1>2, <2>3 DEF Next, vars, ReadLatest, Put, FindSame, FindOther, FindNone,
                              Resign, Sign, Crash
        <3>. QED BY <2>2, <2>3, <3>1
    <2>. QED BY <2>1, <2>3
<1>. QED BY <1>1, <1>2, InductiveInvariant, PTL DEF Spec, RegisterSpec, Register!Spec

-----------------------------------------------------------------------------
(* The invariant of the states.  A state is a manifest: each of its Trunks is *)
(* known by the path it was first seen at and by the operation that inserted  *)
(* it.  That is what makes a file's next state continue a Trunk.              *)

Paths == UNION {DOMAIN t : t \in Trees}
Blobs == UNION {Range(t) : t \in Trees}
AllSymbols == UNION {Symbols[b] : b \in Texts}
FileTree == UNION {[D -> Blobs] : D \in {E \in SUBSET Paths : IsFiniteSet(E)}}
TrunkRecord ==
    [state : {"Alive", "Deleted", "Zombie"}, paths : SUBSET Paths,
     alive : SUBSET AllSymbols, gone : SUBSET AllSymbols]

\* Parents are earlier commits.
Graph ==
    /\ importing \in BOOLEAN
    /\ history \in Seq([parents : Seq(Nat), tree : FileTree])
    /\ Len(history) \in 1..MaxHistory[importing]
    /\ \A c \in Commits : Parents(c) \subseteq 1..(c - 1)

Inserted(operations, t) == \E o \in operations : o.action = "Insert" /\ o.target = t

Manifest(s) ==
    /\ s.trunks \in [DOMAIN s.trunks -> TrunkRecord]
    /\ \A t \in DOMAIN s.trunks : t[2] \in s.trunks[t].paths /\ Inserted(s.operations, t)

Manifests(S) == \A s \in S : Manifest(s)
Single(S) == \A s, u \in S : s = u

States ==
    /\ DOMAIN active = 1..MaxHistory[importing]
    /\ \A c \in DOMAIN active :
          /\ Single(active[c])
          /\ active[c] # {} => c \in Commits
          /\ \A s \in active[c] :
                /\ s.commit = c /\ s.files = history[c].tree
                /\ Manifest(s) /\ Accountable(c, s)

KeepInv == Graph /\ States

-----------------------------------------------------------------------------
(* Sets of numbers.                                                         *)

\* A set of numbers that is not empty has a smallest one.
LEMMA Smallest ==
    ASSUME NEW D \in SUBSET Nat, D # {}
    PROVE  \E n \in D : \A k \in D : ~(k < n)
<1>1. PICK n \in D : \A k \in D : <<k, n>> \notin OpToRel(<, Nat)
    BY NatLessThanWellFounded, WFMin, Zenon
<1>2. \A k \in D : ~(k < n)
    BY <1>1, Zenon DEF OpToRel
<1>. QED BY <1>2

\* A finite one has a greatest.
LEMMA MaxFacts ==
    ASSUME NEW S \in SUBSET Nat, IsFiniteSet(S), S # {}
    PROVE  Max(S) \in S /\ \A k \in S : Max(S) >= k
<1> DEFINE Top(T) == \E m \in T : \A k \in T : m >= k
<1>1. Top(S)
    <2> SUFFICES ASSUME ~Top(S) PROVE FALSE
        OBVIOUS
    <2> DEFINE D == {n \in Nat : \E T \in SUBSET S : T # {} /\ ~Top(T) /\ Cardinality(T) = n}
    <2> HIDE DEF Top
    <2>1. Cardinality(S) \in D /\ D \subseteq Nat
        BY FS_CardinalityType
    <2>2. PICK n \in D : \A k \in D : ~(k < n)
        BY <2>1, Smallest, Zenon
    <2>3. PICK T \in SUBSET S : T # {} /\ ~Top(T) /\ Cardinality(T) = n
        BY <2>2
    <2>4. PICK e \in T : TRUE
        BY <2>3
    <2>5. IsFiniteSet(T) /\ IsFiniteSet(T \ {e}) /\ n \in Nat
        BY <2>3, FS_Subset, FS_RemoveElement
    <2>6. Cardinality(T \ {e}) = n - 1 /\ n - 1 \in Nat
        BY <2>3, <2>4, <2>5, FS_RemoveElement, FS_CardinalityType
    <2>7. T \ {e} = {} \/ Top(T \ {e})
        <3>1. n - 1 \notin D
            BY <2>2, <2>5, <2>6
        <3>. QED BY <2>6, <3>1
    <2>8. e \in Nat /\ T \subseteq Nat
        BY <2>4
    <2>9. CASE T \ {e} = {}
        <3>1. T = {e}
            BY <2>4, <2>9
        <3>. QED BY <2>3, <2>8, <3>1 DEF Top
    <2>10. CASE Top(T \ {e})
        <3>1. PICK m \in T \ {e} : \A k \in T \ {e} : m >= k
            BY <2>10 DEF Top
        <3>2. CASE m >= e
            BY <2>3, <2>8, <3>1, <3>2 DEF Top
        <3>3. CASE e >= m
            BY <2>3, <2>4, <2>8, <3>1, <3>3 DEF Top
        <3>. QED BY <2>8, <3>1, <3>2, <3>3
    <2>. QED BY <2>7, <2>9, <2>10
<1>. QED BY <1>1 DEF Max

-----------------------------------------------------------------------------
(* What a state is computed from.                                           *)

Textual(c) == {q \in DOMAIN history[c].tree : history[c].tree[q] \in Texts}
Prior(c, previous, q) ==
    {t \in TrunksOf(previous) :
        \E u \in TrunkIn(previous, t) : NamesOf(c, previous, q) \cap u.paths # {}}
Present(c, previous) == {TrunkOf(c, previous, q) : q \in Textual(c)}
Continuing(c, previous, t) == {q \in Textual(c) : TrunkOf(c, previous, q) = t}
FileOf(c, previous, t) == Max(Continuing(c, previous, t))
Blob(c, q) == history[c].tree[q]

\* The Trunks of manifests.
LEMMA TrunkFacts ==
    ASSUME NEW S, Manifests(S), NEW t \in TrunksOf(S)
    PROVE  /\ TrunkIn(S, t) # {} /\ TrunkIn(S, t) \subseteq TrunkRecord
           /\ \A u \in TrunkIn(S, t) : t[2] \in u.paths
           /\ Inserted(OperationsIn(S), t)
<1>1. PICK s \in S : t \in DOMAIN s.trunks
    BY DEF TrunksOf
<1>2. Manifest(s)
    BY DEF Manifests
<1>3. s.trunks[t] \in TrunkIn(S, t)
    BY <1>1 DEF TrunkIn
<1>4. ASSUME NEW u \in TrunkIn(S, t)
      PROVE  u \in TrunkRecord /\ t[2] \in u.paths
    <2>1. PICK r \in S : t \in DOMAIN r.trunks /\ u = r.trunks[t]
        BY DEF TrunkIn
    <2>2. Manifest(r)
        BY DEF Manifests
    <2>. QED BY <2>1, <2>2 DEF Manifest
<1>5. Inserted(OperationsIn(S), t)
    <2>1. PICK o \in s.operations : o.action = "Insert" /\ o.target = t
        BY <1>1, <1>2 DEF Manifest, Inserted
    <2>2. o \in OperationsIn(S)
        BY DEF OperationsIn
    <2>. QED BY <2>1, <2>2 DEF Inserted
<1>. QED BY <1>3, <1>4, <1>5

\* The extracted Trunks, named.
LEMMA ExtractIs ==
    ASSUME NEW c, NEW P
    PROVE  /\ DOMAIN ExtractTrunks(c, P) = Present(c, P) \cup TrunksOf(P)
           /\ \A t \in Present(c, P) :
                  ExtractTrunks(c, P)[t] =
                      ExtractTrunk(TrunkIn(P, t), FileOf(c, P, t), Blob(c, FileOf(c, P, t)))
           /\ \A t \in TrunksOf(P) \ Present(c, P) :
                  ExtractTrunks(c, P)[t] =
                      DeleteTrunk(CHOOSE u \in TrunkIn(P, t) : TRUE, "Deleted")
BY DEF ExtractTrunks, Present, FileOf, Continuing, Textual, Blob

\* The Trunk of a file, named.
LEMMA TrunkOfFacts ==
    ASSUME NEW c, NEW P, NEW q
    PROVE  \/ TrunkOf(c, P, q) \in Prior(c, P, q)
           \/ Prior(c, P, q) = {} /\ TrunkOf(c, P, q) = <<Anchor(c), q, Blob(c, q)>>
BY DEF TrunkOf, Prior, Blob

\* The file of a Trunk.
LEMMA FileOfFacts ==
    ASSUME NEW c, history[c].tree \in FileTree, NEW P, NEW t \in Present(c, P)
    PROVE  /\ FileOf(c, P, t) \in Textual(c) /\ TrunkOf(c, P, FileOf(c, P, t)) = t
           /\ \A q \in Textual(c) : TrunkOf(c, P, q) = t => FileOf(c, P, t) >= q
<1>1. Textual(c) \in SUBSET Nat /\ IsFiniteSet(Textual(c))
    BY HistoryAssumption, FS_Subset DEF FileTree, Textual, Paths
<1>2. Continuing(c, P, t) \in SUBSET Nat /\ IsFiniteSet(Continuing(c, P, t))
    BY <1>1, FS_Subset DEF Continuing
<1>3. Continuing(c, P, t) # {}
    BY DEF Present, Continuing
<1>4. /\ FileOf(c, P, t) \in Continuing(c, P, t)
      /\ \A q \in Continuing(c, P, t) : FileOf(c, P, t) >= q
    BY <1>2, <1>3, MaxFacts DEF FileOf
<1>. QED BY <1>4 DEF Continuing

\* A Trunk that goes on or ends keeps its paths and what it ever had.
LEMMA ExtractKeeps ==
    ASSUME NEW T \in SUBSET TrunkRecord, NEW path \in Paths, NEW blob \in Texts
    PROVE  /\ ExtractTrunk(T, path, blob) \in TrunkRecord
           /\ ExtractTrunk(T, path, blob).state = "Alive"
           /\ path \in ExtractTrunk(T, path, blob).paths
           /\ \A u \in T : /\ u.paths \subseteq ExtractTrunk(T, path, blob).paths
                           /\ Nodes(u) \subseteq Nodes(ExtractTrunk(T, path, blob))
<1> DEFINE x == ExtractTrunk(T, path, blob)
           P == UNION {t.paths : t \in T}
           N == UNION {Nodes(t) : t \in T}
<1>1. /\ x.state = "Alive" /\ x.paths = {path} \cup P
      /\ x.alive = Symbols[blob] /\ x.gone = N \ Symbols[blob]
      /\ x = [state |-> x.state, paths |-> x.paths, alive |-> x.alive, gone |-> x.gone]
    BY DEF ExtractTrunk
<1>2. Symbols[blob] \subseteq AllSymbols
    BY HistoryAssumption DEF AllSymbols
<1>3. \A u \in T : u.paths \subseteq Paths /\ Nodes(u) \subseteq AllSymbols
    BY DEF TrunkRecord, Nodes
<1>4. P \subseteq Paths /\ N \subseteq AllSymbols
    BY <1>3
<1>5. \A u \in T : u.paths \subseteq P /\ Nodes(u) \subseteq N
    OBVIOUS
<1> HIDE DEF x, P, N
<1>6. x \in TrunkRecord
    <2>1. x.paths \in SUBSET Paths /\ x.alive \in SUBSET AllSymbols
        BY <1>1, <1>2, <1>4
    <2>2. x.gone \in SUBSET AllSymbols
        BY <1>1, <1>4
    <2>. QED BY <1>1, <2>1, <2>2 DEF TrunkRecord
<1>7. Nodes(x) = Symbols[blob] \cup N
    BY <1>1 DEF Nodes
<1>. QED BY <1>1, <1>5, <1>6, <1>7 DEF x

\* A Trunk that ends keeps its paths and its nodes.
LEMMA DeleteKeeps ==
    ASSUME NEW u \in TrunkRecord, NEW state \in {"Deleted", "Zombie"}
    PROVE  /\ DeleteTrunk(u, state) \in TrunkRecord
           /\ DeleteTrunk(u, state).paths = u.paths
           /\ Nodes(DeleteTrunk(u, state)) = Nodes(u)
BY DEF TrunkRecord, DeleteTrunk, Nodes

-----------------------------------------------------------------------------
(* The state of a commit. *)

\* What the extracted Trunks of a commit are.
LEMMA ExtractFacts ==
    ASSUME NEW c, history[c].tree \in FileTree, NEW P, Manifests(P),
           NEW t \in DOMAIN ExtractTrunks(c, P)
    PROVE  /\ ExtractTrunks(c, P)[t] \in TrunkRecord
           /\ t[2] \in ExtractTrunks(c, P)[t].paths
           /\ t \in Present(c, P) => ExtractTrunks(c, P)[t].state = "Alive"
           /\ t \notin TrunksOf(P) => t \in Present(c, P)
           /\ Single(P) => \A u \in TrunkIn(P, t) :
                  /\ u.paths \subseteq ExtractTrunks(c, P)[t].paths
                  /\ Nodes(u) \subseteq Nodes(ExtractTrunks(c, P)[t])
<1> DEFINE x == ExtractTrunks(c, P)[t]
<1>0. t \in Present(c, P) \cup TrunksOf(P)
    BY ExtractIs
<1>1. CASE t \in Present(c, P)
    <2>. DEFINE f == FileOf(c, P, t)
    <2>1. f \in Textual(c) /\ TrunkOf(c, P, f) = t
        BY <1>1, FileOfFacts
    <2>2. x = ExtractTrunk(TrunkIn(P, t), f, Blob(c, f))
        BY <1>1, ExtractIs
    <2>3. f \in Paths /\ Blob(c, f) \in Texts /\ Blob(c, f) \in Blobs
        BY <2>1 DEF Textual, Blob, FileTree
    <2>4. t \in Prior(c, P, f) \/ t = <<Anchor(c), f, Blob(c, f)>>
        BY <2>1, TrunkOfFacts
    <2>5. TrunkIn(P, t) \in SUBSET TrunkRecord
        <3>1. t \notin TrunksOf(P) => TrunkIn(P, t) = {}
            BY DEF TrunksOf, TrunkIn
        <3>. QED BY <3>1, TrunkFacts
    <2>6. /\ x \in TrunkRecord /\ x.state = "Alive" /\ f \in x.paths
          /\ \A u \in TrunkIn(P, t) : u.paths \subseteq x.paths /\ Nodes(u) \subseteq Nodes(x)
        <3>. HIDE DEF f, x
        <3>. QED BY <2>2, <2>3, <2>5, ExtractKeeps
    <2>7. t[2] \in x.paths
        <3>1. CASE t \in Prior(c, P, f)
            <4>1. t \in TrunksOf(P)
                BY <3>1 DEF Prior
            <4>2. PICK u \in TrunkIn(P, t) : TRUE
                BY <4>1, TrunkFacts
            <4>. QED BY <2>6, <4>1, <4>2, TrunkFacts
        <3>2. CASE t = <<Anchor(c), f, Blob(c, f)>>
            <4>. HIDE DEF f, x
            <4>. QED BY <2>3, <2>6, <3>2
        <3>. QED BY <2>4, <3>1, <3>2
    <2>. QED BY <1>1, <2>6, <2>7
<1>2. CASE t \in TrunksOf(P) \ Present(c, P)
    <2>1. x = DeleteTrunk(CHOOSE u \in TrunkIn(P, t) : TRUE, "Deleted")
        BY <1>2, ExtractIs
    <2>2. PICK w : w = CHOOSE u \in TrunkIn(P, t) : TRUE
        OBVIOUS
    <2>3. w \in TrunkIn(P, t) /\ w \in TrunkRecord /\ t[2] \in w.paths
        BY <1>2, <2>2, TrunkFacts
    <2>4. x \in TrunkRecord /\ x.paths = w.paths /\ Nodes(x) = Nodes(w)
        BY <2>1, <2>2, <2>3, DeleteKeeps
    <2>5. Single(P) => \A u \in TrunkIn(P, t) : u = w
        BY <2>3 DEF Single, TrunkIn
    <2>. QED BY <1>2, <2>3, <2>4, <2>5
<1>. QED BY <1>0, <1>1, <1>2

\* A text file continues a Trunk that is alive, and is lost from its paths only if it
\* was renamed and a later file has the Trunk.
LEMMA ExtractAccounts ==
    ASSUME NEW c, history[c].tree \in FileTree, NEW P, Manifests(P), Single(P),
           NEW q \in Textual(c)
    PROVE  LET t == TrunkOf(c, P, q)
               x == ExtractTrunks(c, P)[t] IN
           /\ t \in Present(c, P) /\ t \in DOMAIN ExtractTrunks(c, P)
           /\ x.state = "Alive"
           /\ \/ q \in x.paths
              \/ /\ Source(c, q) \cap x.paths # {}
                 /\ \E p \in Textual(c) \cap x.paths : q < p
<1> DEFINE t == TrunkOf(c, P, q)
           x == ExtractTrunks(c, P)[t]
           f == FileOf(c, P, t)
<1>1. t \in Present(c, P) /\ t \in DOMAIN ExtractTrunks(c, P)
    BY ExtractIs DEF Present
<1>2. /\ x.state = "Alive" /\ t[2] \in x.paths
      /\ \A u \in TrunkIn(P, t) : u.paths \subseteq x.paths
    BY <1>1, ExtractFacts
<1>3. f \in Textual(c) /\ TrunkOf(c, P, f) = t /\ f >= q
    BY <1>1, FileOfFacts
<1>4. x = ExtractTrunk(TrunkIn(P, t), f, Blob(c, f))
    BY <1>1, ExtractIs
<1>5. f \in x.paths
    BY <1>4 DEF ExtractTrunk
<1>6. CASE t = <<Anchor(c), q, Blob(c, q)>>
    <2>1. t[2] = q
        BY <1>6
    <2>. QED BY <1>1, <1>2, <2>1
<1>7. CASE t \in Prior(c, P, q)
    <2>1. PICK u \in TrunkIn(P, t) : NamesOf(c, P, q) \cap u.paths # {}
        BY <1>7 DEF Prior
    <2>2. q \in u.paths \/ Source(c, q) \cap u.paths # {}
        BY <2>1 DEF NamesOf
    <2>3. u.paths \subseteq x.paths
        BY <1>2, <2>1
    <2>4. f \in Nat /\ q \in Nat
        BY <1>3, HistoryAssumption DEF Textual, FileTree, Paths
    <2>. HIDE DEF t, x, f
    <2>5. f = q \/ q < f
        BY <1>3, <2>4
    <2>6. f = q => q \in x.paths
        BY <1>5
    <2>7. q < f => \E p \in Textual(c) \cap x.paths : q < p
        BY <1>3, <1>5
    <2>8. q \in x.paths \/ Source(c, q) \cap x.paths # {}
        BY <2>2, <2>3
    <2>9. /\ x.state = "Alive" /\ t \in Present(c, P) /\ t \in DOMAIN ExtractTrunks(c, P)
          /\ \/ q \in x.paths
             \/ /\ Source(c, q) \cap x.paths # {}
                /\ \E p \in Textual(c) \cap x.paths : q < p
        BY <1>1, <1>2, <2>5, <2>6, <2>7, <2>8
    <2>. QED BY <2>9 DEF t, x
<1>. QED BY <1>6, <1>7, TrunkOfFacts

\* What is new in a state was inserted by it.
LEMMA TransitionInserts ==
    ASSUME NEW c, NEW P, NEW trunks, NEW t \in DOMAIN trunks, trunks[t].state = "Alive",
           t \notin TrunksOf(P)
    PROVE  Inserted({o \in Transition(c, P, trunks) : o.target = t}, t)
<1>1. TrunkIn(P, t) = {}
    BY DEF TrunksOf, TrunkIn
<1> DEFINE files == history[c].tree
           wasAlive(r) == \E u \in TrunkIn(P, r) : u.state = "Alive"
           isAlive(r) == trunks[r].state = "Alive"
           o == [base |-> IF P = {} THEN c ELSE (CHOOSE s \in P : TRUE).commit,
                 target |-> t,
                 action |-> IF ~isAlive(t) THEN "Delete"
                            ELSE IF wasAlive(t) THEN "Replace" ELSE "Insert",
                 content |-> IF isAlive(t) THEN {TrunkBlob(files, trunks[t])} ELSE {}]
<1>2. o \in Transition(c, P, trunks)
    <2>1. isAlive(t) /\ ~wasAlive(t)
        BY <1>1
    <2>. QED BY <2>1, Zenon DEF Transition
<1>3. o.action = "Insert" /\ o.target = t
    BY <1>1
<1>. QED BY <1>2, <1>3 DEF Inserted

\* The materialised state, field by field.
LEMMA MaterializedIs ==
    ASSUME NEW known, NEW c, NEW P
    PROVE  LET M == Materialized(known, c, P)
               others == ParentStates(known, c)
               extracted == ExtractTrunks(c, P) IN
           /\ M.commit = c /\ M.files = history[c].tree
           /\ DOMAIN M.trunks = DOMAIN extracted \cup TrunksOf(others)
           /\ M.trunks = [t \in DOMAIN M.trunks |-> M.trunks[t]]
           /\ \A t \in DOMAIN extracted : M.trunks[t] = extracted[t]
           /\ \A t \in TrunksOf(others) \ DOMAIN extracted :
                  M.trunks[t] = DeleteTrunk(CHOOSE u \in TrunkIn(others, t) : TRUE, "Zombie")
           /\ OperationsIn(P \cup others) \subseteq M.operations
           /\ \A t \in DOMAIN M.trunks : t \notin TrunksOf(others) =>
                  {o \in Transition(c, P, M.trunks) : o.target = t} \subseteq M.operations
<1> DEFINE others == ParentStates(known, c)
           extracted == ExtractTrunks(c, P)
           zombies == [t \in TrunksOf(others) \ DOMAIN extracted |->
                          DeleteTrunk(CHOOSE u \in TrunkIn(others, t) : TRUE, "Zombie")]
           trunks == [t \in DOMAIN extracted \cup DOMAIN zombies |->
                          IF t \in DOMAIN extracted THEN extracted[t] ELSE zombies[t]]
           new == {o \in Transition(c, P, trunks) : o.target \notin TrunksOf(others) \ TrunksOf(P)}
           M == Materialized(known, c, P)
<1>1. M = [commit |-> c, files |-> history[c].tree, trunks |-> trunks,
           operations |-> OperationsIn(P \cup others) \cup new]
    BY DEF Materialized
<1>2. /\ M.commit = c /\ M.files = history[c].tree /\ M.trunks = trunks
      /\ M.operations = OperationsIn(P \cup others) \cup new
    BY <1>1
<1>3. /\ DOMAIN trunks = DOMAIN extracted \cup TrunksOf(others)
      /\ \A t \in DOMAIN extracted : trunks[t] = extracted[t]
      /\ \A t \in TrunksOf(others) \ DOMAIN extracted :
            trunks[t] = DeleteTrunk(CHOOSE u \in TrunkIn(others, t) : TRUE, "Zombie")
    OBVIOUS
<1>4. trunks = [t \in DOMAIN trunks |-> trunks[t]]
    OBVIOUS
<1>5. ASSUME NEW t, t \notin TrunksOf(others)
      PROVE  {o \in Transition(c, P, trunks) : o.target = t} \subseteq new
    BY <1>5
<1> HIDE DEF others, extracted, trunks, new, M, zombies
<1>6. /\ M.commit = c /\ M.files = history[c].tree
      /\ DOMAIN M.trunks = DOMAIN extracted \cup TrunksOf(others)
      /\ M.trunks = [t \in DOMAIN M.trunks |-> M.trunks[t]]
      /\ \A t \in DOMAIN extracted : M.trunks[t] = extracted[t]
      /\ \A t \in TrunksOf(others) \ DOMAIN extracted :
             M.trunks[t] = DeleteTrunk(CHOOSE u \in TrunkIn(others, t) : TRUE, "Zombie")
      /\ OperationsIn(P \cup others) \subseteq M.operations
      /\ \A t \in DOMAIN M.trunks : t \notin TrunksOf(others) =>
             {o \in Transition(c, P, M.trunks) : o.target = t} \subseteq M.operations
    BY <1>2, <1>3, <1>4, <1>5
<1>. QED BY <1>6 DEF others, extracted, M

\* A materialised state is a manifest of its commit and keeps what it is computed from.
LEMMA MaterializedFacts ==
    ASSUME NEW known, NEW c, history[c].tree \in FileTree, NEW P, Manifests(P), Single(P),
           Manifests(ParentStates(known, c))
    PROVE  LET M == Materialized(known, c, P) IN
           /\ M.commit = c /\ M.files = history[c].tree
           /\ Manifest(M) /\ Accountable(c, M)
<1> DEFINE M == Materialized(known, c, P)
           others == ParentStates(known, c)
           extracted == ExtractTrunks(c, P)
<1>1. /\ M.commit = c /\ M.files = history[c].tree
      /\ DOMAIN M.trunks = DOMAIN extracted \cup TrunksOf(others)
      /\ M.trunks = [t \in DOMAIN M.trunks |-> M.trunks[t]]
      /\ \A t \in DOMAIN extracted : M.trunks[t] = extracted[t]
      /\ \A t \in TrunksOf(others) \ DOMAIN extracted :
             M.trunks[t] = DeleteTrunk(CHOOSE u \in TrunkIn(others, t) : TRUE, "Zombie")
      /\ OperationsIn(P \cup others) \subseteq M.operations
      /\ \A t \in DOMAIN M.trunks : t \notin TrunksOf(others) =>
             {o \in Transition(c, P, M.trunks) : o.target = t} \subseteq M.operations
    BY MaterializedIs
<1>2. ASSUME NEW t \in DOMAIN extracted
      PROVE  /\ M.trunks[t] \in TrunkRecord
             /\ t[2] \in M.trunks[t].paths
             /\ t \notin TrunksOf(P) => M.trunks[t].state = "Alive"
    <2>1. M.trunks[t] = extracted[t]
        BY <1>1
    <2>. QED BY <2>1, ExtractFacts
<1>3. ASSUME NEW t \in TrunksOf(others) \ DOMAIN extracted
      PROVE  M.trunks[t] \in TrunkRecord /\ t[2] \in M.trunks[t].paths
    <2>1. PICK w : w = CHOOSE u \in TrunkIn(others, t) : TRUE
        OBVIOUS
    <2>2. w \in TrunkIn(others, t) /\ w \in TrunkRecord /\ t[2] \in w.paths
        BY <2>1, TrunkFacts
    <2>3. M.trunks[t] = DeleteTrunk(w, "Zombie")
        BY <1>1, <2>1
    <2>. QED BY <2>2, <2>3, DeleteKeeps
<1>4. ASSUME NEW t \in DOMAIN M.trunks
      PROVE  Inserted(M.operations, t)
    <2>1. CASE t \in TrunksOf(P) \/ t \in TrunksOf(others)
        <3>1. Inserted(OperationsIn(P), t) \/ Inserted(OperationsIn(others), t)
            BY <2>1, TrunkFacts
        <3>2. /\ OperationsIn(P) \subseteq OperationsIn(P \cup others)
              /\ OperationsIn(others) \subseteq OperationsIn(P \cup others)
            BY DEF OperationsIn
        <3>. QED BY <1>1, <3>1, <3>2 DEF Inserted
    <2>2. CASE t \notin TrunksOf(P) /\ t \notin TrunksOf(others)
        <3>1. t \in DOMAIN extracted /\ M.trunks[t].state = "Alive"
            BY <1>1, <1>2, <2>2
        <3>2. Inserted({o \in Transition(c, P, M.trunks) : o.target = t}, t)
            BY <2>2, <3>1, TransitionInserts
        <3>3. {o \in Transition(c, P, M.trunks) : o.target = t} \subseteq M.operations
            BY <1>1, <2>2
        <3>. QED BY <3>2, <3>3 DEF Inserted
    <2>. QED BY <2>1, <2>2
<1>5. Manifest(M)
    <2>1. \A t \in DOMAIN M.trunks :
             /\ M.trunks[t] \in TrunkRecord /\ t[2] \in M.trunks[t].paths
             /\ Inserted(M.operations, t)
        BY <1>1, <1>2, <1>3, <1>4
    <2>. HIDE DEF M
    <2>2. M.trunks \in [DOMAIN M.trunks -> TrunkRecord]
        BY <1>1, <2>1
    <2>. QED BY <2>1, <2>2 DEF Manifest
<1>6. Accountable(c, M)
    <2>1. TextFiles(M) = Textual(c)
        BY <1>1 DEF TextFiles, Textual
    <2>2. ASSUME NEW q \in Textual(c)
          PROVE  \E t \in DOMAIN M.trunks :
                    /\ Accounted(M, t)
                    /\ \/ q \in M.trunks[t].paths
                       \/ /\ Source(c, q) \cap M.trunks[t].paths # {}
                          /\ \E p \in Textual(c) \cap M.trunks[t].paths : q < p
        <3>1. PICK t : t = TrunkOf(c, P, q)
            OBVIOUS
        <3>2. /\ t \in DOMAIN extracted
              /\ extracted[t].state = "Alive"
              /\ \/ q \in extracted[t].paths
                 \/ /\ Source(c, q) \cap extracted[t].paths # {}
                    /\ \E p \in Textual(c) \cap extracted[t].paths : q < p
            BY <3>1, ExtractAccounts
        <3>3. t \in DOMAIN M.trunks /\ M.trunks[t] = extracted[t] /\ Inserted(M.operations, t)
            BY <1>1, <1>4, <3>2
        <3>. QED BY <3>2, <3>3 DEF Accounted, Inserted
    <2>. QED BY <2>1, <2>2 DEF Accountable
<1>. QED BY <1>1, <1>5, <1>6

-----------------------------------------------------------------------------
(* Every step keeps the states as they should be. *)

\* Commits and their parents.
LEMMA GraphFacts ==
    ASSUME Graph
    PROVE  /\ Commits = 1..Len(history) /\ Len(history) \in Nat \ {0}
           /\ \A c \in Commits :
                 /\ history[c] \in [parents : Seq(Nat), tree : FileTree]
                 /\ Parents(c) \subseteq Commits /\ \A d \in Parents(c) : d < c /\ c \in Nat
                 /\ history[c].parents # <<>> => Head(history[c].parents) \in Parents(c)
<1>1. /\ Commits = 1..Len(history) /\ Len(history) \in Nat \ {0}
      /\ \A c \in Commits : history[c] \in [parents : Seq(Nat), tree : FileTree]
    <2>. DEFINE C == [parents : Seq(Nat), tree : FileTree]
    <2>1. MaxHistory[importing] \in Nat \ {0}
        BY HistoryAssumption DEF Graph
    <2>2. history \in Seq(C)
        BY DEF Graph
    <2>. HIDE DEF C
    <2>3. DOMAIN history = 1..Len(history) /\ \A c \in DOMAIN history : history[c] \in C
        BY <2>2
    <2>4. Len(history) \in Nat \ {0}
        BY <2>1 DEF Graph
    <2>. QED BY <2>3, <2>4 DEF Commits, C
<1>2. ASSUME NEW c \in Commits
      PROVE  Parents(c) \subseteq Commits /\ \A d \in Parents(c) : d < c /\ c \in Nat
    BY <1>1, <1>2 DEF Graph
<1>3. ASSUME NEW c \in Commits, history[c].parents # <<>>
      PROVE  Head(history[c].parents) \in Parents(c)
    <2>1. history[c].parents \in Seq(Nat)
        BY <1>1
    <2>2. 1 \in DOMAIN history[c].parents /\ Head(history[c].parents) = history[c].parents[1]
        BY <1>3, <2>1
    <2>. QED BY <2>2 DEF Parents, Range
<1>. QED BY <1>1, <1>2, <1>3

\* What a state may be computed from.
LEMMA PreviousFacts ==
    ASSUME KeepInv, NEW c \in Commits
    PROVE  /\ \A P \in Previous(active, c) : Manifests(P) /\ Single(P)
           /\ Manifests(ParentStates(active, c))
<1>1. \A d \in Commits : Manifests(active[d]) /\ Single(active[d])
    <2>1. \A d \in Commits : d \in DOMAIN active
        BY GraphFacts, HistoryAssumption DEF KeepInv, States, Graph
    <2>. QED BY <2>1 DEF KeepInv, States, Manifests
<1>2. Parents(c) \subseteq Commits /\
      (history[c].parents # <<>> => Head(history[c].parents) \in Commits)
    BY GraphFacts DEF KeepInv
<1>3. Manifests(SameTree(active, c))
    <2>1. ASSUME NEW s \in SameTree(active, c) PROVE \E d \in Commits : s \in active[d]
        BY DEF SameTree
    <2>. QED BY <1>1, <2>1 DEF Manifests
<1>4. ASSUME NEW P \in Previous(active, c)
      PROVE  \/ P = {} \/ (\E d \in Commits : P = active[d])
             \/ \E s \in SameTree(active, c) : P = {s}
    <2>1. CASE history[c].parents # <<>> /\ active[Head(history[c].parents)] # {}
        BY <1>2, <2>1 DEF Previous
    <2>2. CASE ~(history[c].parents # <<>> /\ active[Head(history[c].parents)] # {})
        BY <2>2 DEF Previous
    <2>. QED BY <2>1, <2>2
<1>5. ASSUME NEW P \in Previous(active, c) PROVE Manifests(P) /\ Single(P)
    <2>1. CASE P = {}
        BY <2>1 DEF Manifests, Single
    <2>2. CASE \E d \in Commits : P = active[d]
        BY <2>2, <1>1
    <2>3. CASE \E s \in SameTree(active, c) : P = {s}
        BY <2>3, <1>3 DEF Manifests, Single
    <2>. QED BY <1>4, <2>1, <2>2, <2>3
<1>6. Manifests(ParentStates(active, c))
    <2>1. ASSUME NEW s \in ParentStates(active, c) PROVE \E d \in Commits : s \in active[d]
        BY <1>2 DEF ParentStates
    <2>. QED BY <1>1, <2>1 DEF Manifests
<1>. QED BY <1>5, <1>6

\* A commit's state is computed.
LEMMA ActivateStep ==
    ASSUME KeepInv, NEW c \in Commits, NEW P \in Previous(active, c),
           UNCHANGED <<history, importing>>, Activate(c, Materialized(active, c, P))
    PROVE  KeepInv'
<1>1. PICK M : M = Materialized(active, c, P)
    OBVIOUS
<1>2. active' = [active EXCEPT ![c] = {M}]
    BY <1>1 DEF Activate
<1>3. M.commit = c /\ M.files = history[c].tree /\ Manifest(M) /\ Accountable(c, M)
    <2>1. history[c].tree \in FileTree
        BY GraphFacts DEF KeepInv
    <2>. QED BY <1>1, <2>1, PreviousFacts, MaterializedFacts
<1>4. Graph' /\ Commits' = Commits
    BY DEF KeepInv, Graph, Commits, Parents
<1>5. \A d : \A s : Accountable(d, s)' <=> Accountable(d, s)
    BY DEF Accountable, Source, TextFiles, Accounted, RenamedFrom
<1>6. DOMAIN active' = DOMAIN active
    BY <1>2
<1>7. ASSUME NEW d \in DOMAIN active
      PROVE  /\ Single(active'[d]) /\ (active'[d] # {} => d \in Commits)
             /\ \A s \in active'[d] :
                   /\ s.commit = d /\ s.files = history[d].tree
                   /\ Manifest(s) /\ Accountable(d, s)
    <2>1. CASE d = c
        <3>1. active'[d] = {M}
            BY <1>2, <1>7, <2>1
        <3>. QED BY <1>3, <2>1, <3>1 DEF Single
    <2>2. CASE d # c
        <3>1. active'[d] = active[d]
            BY <1>2, <1>7, <2>2
        <3>. QED BY <3>1 DEF KeepInv, States
    <2>. QED BY <2>1, <2>2
<1>8. States'
    <2>1. \A d \in DOMAIN active' :
             /\ Single(active'[d]) /\ (active'[d] # {} => d \in Commits')
             /\ \A s \in active'[d] :
                   /\ s.commit = d /\ s.files = history'[d].tree
                   /\ Manifest(s) /\ Accountable(d, s)'
        BY <1>4, <1>5, <1>6, <1>7
    <2>2. DOMAIN active' = 1..MaxHistory[importing']
        BY <1>6 DEF KeepInv, States
    <2>. QED BY <2>1, <2>2 DEF States
<1>. QED BY <1>4, <1>8 DEF KeepInv

\* A history that grows, and nothing else that a state is about.
LEMMA CommitFacts ==
    ASSUME Graph, NEW parents \in Seq(Commits), NEW tree \in FileTree,
           Commit(parents, tree), importing' = importing
    PROVE  /\ Graph' /\ Commits \subseteq Commits'
           /\ \A c \in Commits : history'[c] = history[c]
           /\ Commits' = Commits \cup {Len(history) + 1} /\ Len(history) + 1 \notin Commits
           /\ history'[Len(history) + 1] = [parents |-> parents, tree |-> tree]
<1> DEFINE new == [parents |-> parents, tree |-> tree]
           C == [parents : Seq(Nat), tree : FileTree]
<1>0. Commits = 1..Len(history) /\ Len(history) \in Nat \ {0} /\ history \in Seq(C)
    BY GraphFacts DEF Graph
<1>1. parents \in Seq(Nat)
    BY <1>0
<1>2. new \in C
    BY <1>1
<1>3. history' = Append(history, new) /\ Len(history) < MaxHistory[importing]
    BY DEF Commit
<1> HIDE DEF new, C
<1>4. /\ history' \in Seq(C) /\ Len(history') = Len(history) + 1
      /\ history'[Len(history) + 1] = new
      /\ \A c \in 1..Len(history) : history'[c] = history[c]
    BY <1>0, <1>2, <1>3
<1>5. Commits' = 1..(Len(history) + 1)
    BY <1>4 DEF Commits
<1>6. ASSUME NEW c \in Commits
      PROVE  Parents(c)' \subseteq 1..(c - 1)
    <2>1. history'[c] = history[c]
        BY <1>0, <1>4
    <2>2. Parents(c)' = Parents(c)
        BY <2>1 DEF Parents
    <2>. QED BY <2>1, <2>2 DEF Graph
<1>7. PICK n : n = Len(history) + 1
    OBVIOUS
<1>8. history'[n].parents = parents
    BY <1>4, <1>7 DEF new
<1>9. Parents(n)' \subseteq Commits
    <2>1. Parents(n)' = Range(parents)
        BY <1>8 DEF Parents
    <2>. QED BY <1>8, <2>1 DEF Range
<1>10. Graph'
    <2>1. ASSUME NEW c \in Commits'
          PROVE  Parents(c)' \subseteq 1..(c - 1)
        <3>1. CASE c \in Commits
            BY <1>6, <3>1
        <3>2. CASE c = n
            <4>1. Parents(c)' = Parents(n)'
                BY <3>2
            <4>2. Commits = 1..(c - 1)
                BY <1>0, <1>7, <3>2
            <4>. QED BY <1>9, <4>1, <4>2
        <3>. QED BY <1>0, <1>5, <1>7, <3>1, <3>2
    <2>2. Len(history') \in 1..MaxHistory[importing']
        <3>1. MaxHistory[importing] \in Nat
            BY HistoryAssumption DEF Graph
        <3>. QED BY <1>0, <1>3, <1>4, <3>1
    <2>. QED BY <1>4, <2>1, <2>2 DEF Graph, C
<1>. QED BY <1>0, <1>4, <1>5, <1>10 DEF new

\* What a path was renamed from is settled by its commit.
LEMMA SourceStays ==
    ASSUME Graph, NEW c \in Commits, \A d \in Commits : history'[d] = history[d]
    PROVE  \A q : Source(c, q)' = Source(c, q)
<1>1. /\ history'[c] = history[c]
      /\ history[c].parents # <<>> =>
            history'[Head(history[c].parents)] = history[Head(history[c].parents)]
    BY GraphFacts
<1>2. ASSUME NEW q, history[c].parents = <<>> PROVE Source(c, q)' = Source(c, q)
    BY <1>1, <1>2 DEF Source
<1>3. ASSUME NEW q, history[c].parents # <<>> PROVE Source(c, q)' = Source(c, q)
    <2>1. /\ Source(c, q) = RenamedFrom(history[Head(history[c].parents)].tree,
                                        history[c].tree, q)
          /\ Source(c, q)' = RenamedFrom(history'[Head(history'[c].parents)].tree,
                                         history'[c].tree, q)
        BY <1>1, <1>3 DEF Source
    <2>. QED BY <1>1, <1>3, <2>1
<1>. QED BY <1>2, <1>3

\* A commit that has a state keeps being accounted for.
LEMMA CommitStep ==
    ASSUME KeepInv, NEW parents \in Seq(Commits), NEW tree \in FileTree,
           Commit(parents, tree), UNCHANGED <<active, importing>>
    PROVE  KeepInv'
<1>1. Graph' /\ Commits \subseteq Commits' /\ \A c \in Commits : history'[c] = history[c]
    BY CommitFacts DEF KeepInv
<1>2. ASSUME NEW c \in Commits, NEW s, Accountable(c, s)
      PROVE  Accountable(c, s)'
    <2>1. \A q : Source(c, q)' = Source(c, q)
        BY <1>1, SourceStays DEF KeepInv
    <2>. QED BY <1>2, <2>1 DEF Accountable, TextFiles, Accounted
<1>3. States'
    <2>1. ASSUME NEW c \in DOMAIN active
          PROVE  /\ Single(active[c]) /\ (active[c] # {} => c \in Commits')
                 /\ \A s \in active[c] :
                       /\ s.commit = c /\ s.files = history'[c].tree
                       /\ Manifest(s) /\ Accountable(c, s)'
        BY <1>1, <1>2 DEF KeepInv, States
    <2>. QED BY <2>1 DEF States, KeepInv
<1>. QED BY <1>1, <1>3 DEF KeepInv

-----------------------------------------------------------------------------
(* What a commit descends from. *)

Walks(back, c) ==
    back = [d \in 0..c |-> IF d = 0 THEN {} ELSE {d} \cup UNION {back[e] : e \in Parents(d)}]
Walk(c) == CHOOSE back : Walks(back, c)

\* The model's definition says so.
LEMMA UptoIsWalk == \A c : Upto(c) = Walk(c)[c]
BY DEF Upto, Walk, Walks

\* There is such a function, ...
LEMMA WalkExists ==
    ASSUME Graph, NEW c \in Commits
    PROVE  Walks(Walk(c), c)
<1>0. Commits = 1..Len(history) /\ Len(history) \in Nat /\ c \in Nat
    BY GraphFacts
<1>. SUFFICES \E back : Walks(back, c)
    BY DEF Walk
<1>. SUFFICES ASSUME ~\E back : Walks(back, c) PROVE FALSE
    OBVIOUS
<1> DEFINE D == {n \in 0..c : ~\E back : Walks(back, n)}
<1>1. c \in D /\ D \subseteq Nat
    BY <1>0
<1>2. PICK n \in D : \A k \in D : ~(k < n)
    BY <1>1, Smallest, Zenon
<1>3. n \in 0..c /\ ~\E back : Walks(back, n)
    BY <1>2
<1>4. CASE n = 0
    <2>1. PICK back : back = [d \in 0..0 |-> {}]
        OBVIOUS
    <2>2. Walks(back, 0)
        BY <2>1 DEF Walks
    <2>. QED BY <1>3, <1>4, <2>2
<1>5. CASE n # 0
    <2>1. n - 1 \in 0..c /\ n - 1 < n /\ n \in 1..c
        BY <1>0, <1>3, <1>5
    <2>2. n - 1 \notin D
        BY <1>2, <2>1
    <2>3. PICK back : Walks(back, n - 1)
        BY <2>1, <2>2
    <2>4. PICK more : more = [d \in 0..n |->
              IF d = n THEN {n} \cup UNION {back[e] : e \in Parents(n)} ELSE back[d]]
        OBVIOUS
    <2>5. \A d \in 1..n : Parents(d) \subseteq 0..(n - 1) /\ Parents(d) \subseteq 0..(d - 1)
        <3>1. \A d \in 1..n : d \in Commits
            BY <1>0, <1>3
        <3>. QED BY <1>0, <1>3, <3>1 DEF Graph
    <2>6. \A e \in 0..(n - 1) : more[e] = back[e]
        BY <1>0, <1>3, <2>4
    <2>7. ASSUME NEW d \in 1..n
          PROVE  UNION {more[e] : e \in Parents(d)} = UNION {back[e] : e \in Parents(d)}
        <3>1. \A e \in Parents(d) : more[e] = back[e]
            BY <2>5, <2>6
        <3>. QED BY <3>1
    <2>8. ASSUME NEW d \in 0..n
          PROVE  more[d] = IF d = 0 THEN {} ELSE {d} \cup UNION {more[e] : e \in Parents(d)}
        <3>1. CASE d = n
            <4>1. more[n] = {n} \cup UNION {back[e] : e \in Parents(n)}
                BY <2>1, <2>4
            <4>2. n \in 1..n
                BY <1>0, <2>1
            <4>3. UNION {more[e] : e \in Parents(n)} = UNION {back[e] : e \in Parents(n)}
                BY <2>7, <4>2
            <4>4. more[n] = {n} \cup UNION {more[e] : e \in Parents(n)}
                BY <4>1, <4>3
            <4>. QED BY <1>5, <3>1, <4>4
        <3>2. CASE d # n
            <4>1. d \in 0..(n - 1) /\ more[d] = back[d]
                BY <1>0, <1>3, <2>6, <3>2
            <4>2. back[d] = IF d = 0 THEN {} ELSE {d} \cup UNION {back[e] : e \in Parents(d)}
                BY <2>3, <4>1 DEF Walks
            <4>3. d = 0 \/ d \in 1..n
                BY <1>0, <1>3
            <4>. QED BY <2>7, <4>1, <4>2, <4>3
        <3>. QED BY <3>1, <3>2
    <2>9. Walks(more, n)
        BY <2>4, <2>8 DEF Walks
    <2>. QED BY <1>3, <2>9
<1>. QED BY <1>4, <1>5

\* ... two of them agree, ...
LEMMA WalksSame ==
    ASSUME Graph, NEW c \in Commits, NEW d \in Commits,
           NEW up, Walks(up, c), NEW v, Walks(v, d)
    PROVE  \A n \in 0..c : n <= d => up[n] = v[n]
<1>0. Commits = 1..Len(history) /\ Len(history) \in Nat /\ c \in Nat /\ d \in Nat
    BY GraphFacts
<1> DEFINE D == {n \in 0..c : n <= d /\ up[n] # v[n]}
<1>. SUFFICES ASSUME D # {} PROVE FALSE
    OBVIOUS
<1>4. D \subseteq Nat
    BY <1>0
<1>5. PICK n \in D : \A k \in D : ~(k < n)
    BY <1>4, Smallest, Zenon
<1>6. n \in 0..c /\ n \in 0..d /\ up[n] # v[n]
    BY <1>0, <1>5
<1>7. /\ up[n] = IF n = 0 THEN {} ELSE {n} \cup UNION {up[e] : e \in Parents(n)}
      /\ v[n] = IF n = 0 THEN {} ELSE {n} \cup UNION {v[e] : e \in Parents(n)}
    BY <1>6 DEF Walks
<1>8. n # 0 /\ n \in Commits
    BY <1>0, <1>6, <1>7
<1>9. \A e \in Parents(n) : e \in 0..c /\ e <= d /\ e < n
    BY <1>0, <1>6, <1>8 DEF Graph
<1>10. \A e \in Parents(n) : up[e] = v[e]
    BY <1>5, <1>9
<1>11. UNION {up[e] : e \in Parents(n)} = UNION {v[e] : e \in Parents(n)}
    BY <1>10
<1>. QED BY <1>6, <1>7, <1>8, <1>11

\* ... and so do those of two commits.
LEMMA WalksAgree ==
    ASSUME Graph, NEW c \in Commits, NEW d \in Commits
    PROVE  \A n \in 0..c : n <= d => Walk(c)[n] = Walk(d)[n]
BY WalkExists, WalksSame

\* A commit descends from itself and from what its parents descend from.
LEMMA UptoFacts ==
    ASSUME Graph, NEW c \in Commits
    PROVE  Upto(c) = {c} \cup UNION {Upto(e) : e \in Parents(c)}
<1>0. Commits = 1..Len(history) /\ Len(history) \in Nat /\ c \in Nat /\ c # 0
    BY GraphFacts
<1>1. Walk(c)[c] = {c} \cup UNION {Walk(c)[e] : e \in Parents(c)}
    BY <1>0, WalkExists DEF Walks
<1>2. ASSUME NEW e \in Parents(c)
      PROVE  Walk(c)[e] = Upto(e)
    <2>1. e \in Commits /\ e \in 0..c /\ e <= e
        BY <1>0, GraphFacts DEF Graph
    <2>2. Walk(c)[e] = Walk(e)[e]
        BY <2>1, WalksAgree
    <2>. QED BY <2>2, UptoIsWalk
<1>3. UNION {Walk(c)[e] : e \in Parents(c)} = UNION {Upto(e) : e \in Parents(c)}
    BY <1>2
<1>. QED BY <1>1, <1>3, UptoIsWalk

\* All of it are commits that are not later.
LEMMA UptoBound ==
    ASSUME Graph, NEW c \in Commits
    PROVE  Upto(c) \subseteq 1..c /\ Upto(c) \subseteq Commits
<1>0. Commits = 1..Len(history) /\ Len(history) \in Nat /\ c \in Nat
    BY GraphFacts
<1> DEFINE D == {n \in Commits : ~(Upto(n) \subseteq 1..n)}
<1>. SUFFICES ASSUME D # {} PROVE FALSE
    BY <1>0
<1>1. D \subseteq Nat
    BY <1>0
<1>2. PICK n \in D : \A k \in D : ~(k < n)
    BY <1>1, Smallest, Zenon
<1>3. n \in Commits /\ n \in Nat \ {0} /\ ~(Upto(n) \subseteq 1..n)
    BY <1>0, <1>2
<1>4. \A e \in Parents(n) : e \in Commits /\ e < n /\ Upto(e) \subseteq 1..e
    BY <1>2, <1>3, GraphFacts
<1>5. \A e \in Parents(n) : Upto(e) \subseteq 1..n
    BY <1>0, <1>3, <1>4
<1>. QED BY <1>3, <1>5, UptoFacts

\* What a commit descends from, and its anchor, are settled by its history.
LEMMA UptoStays ==
    ASSUME Graph, NEW c \in Commits, Commits \subseteq Commits',
           \A d \in Commits : history'[d] = history[d]
    PROVE  Upto(c)' = Upto(c) /\ Anchor(c)' = Anchor(c)
<1>0. Commits = 1..Len(history) /\ Len(history) \in Nat /\ c \in Nat
    BY GraphFacts
<1>1. \A d \in 0..c : d = 0 \/ Parents(d)' = Parents(d)
    <2>1. \A d \in 0..c : d = 0 \/ d \in Commits
        BY <1>0
    <2>. QED BY <2>1 DEF Parents
<1>2. ASSUME NEW back PROVE Walks(back, c)' <=> Walks(back, c)
    <2>1. ASSUME NEW d \in 0..c
          PROVE  (IF d = 0 THEN {} ELSE {d} \cup UNION {back[e] : e \in Parents(d)'})
                    = (IF d = 0 THEN {} ELSE {d} \cup UNION {back[e] : e \in Parents(d)})
        BY <1>1
    <2>2. [d \in 0..c |-> IF d = 0 THEN {} ELSE {d} \cup UNION {back[e] : e \in Parents(d)'}]
            = [d \in 0..c |-> IF d = 0 THEN {} ELSE {d} \cup UNION {back[e] : e \in Parents(d)}]
        BY <2>1
    <2>. QED BY <2>2 DEF Walks
<1>3. PICK up : up = Walk(c)
    OBVIOUS
<1>4. PICK v : v = Walk(c)'
    OBVIOUS
<1>5. Walks(up, c)
    BY <1>3, WalkExists
<1>6. Walks(v, c)
    <2>1. Walks(up, c)'
        BY <1>2, <1>5
    <2>2. Walks(v, c)'
        BY <1>4, <2>1 DEF Walk
    <2>. QED BY <1>2, <2>2
<1>7. up[c] = v[c]
    BY <1>0, <1>5, <1>6, WalksSame
<1>8. Upto(c) = up[c] /\ Upto(c)' = v[c]
    <2>1. Upto(c) = Walk(c)[c]
        BY UptoIsWalk
    <2>2. Upto(c)' = (Walk(c)')[c]
        BY DEF Upto, Walk, Walks
    <2>. QED BY <1>3, <1>4, <2>1, <2>2
<1>9. PICK S : S = Upto(c) \cap Roots
    OBVIOUS
<1>10. S = (Upto(c) \cap Roots)'
    <2>1. Upto(c) \subseteq Commits
        BY UptoBound
    <2>. QED BY <1>7, <1>8, <1>9, <2>1 DEF Roots
<1>11. Anchor(c) = (CHOOSE d \in S : TRUE) /\ Anchor(c)' = (CHOOSE d \in S : TRUE)
    BY <1>9, <1>10 DEF Anchor
<1>. QED BY <1>7, <1>8, <1>11

\* Roots that are distinct were distinct before the history grew.
LEMMA DistinctBefore ==
    ASSUME Graph, Commits \subseteq Commits', \A d \in Commits : history'[d] = history[d],
           RootsAreDistinct'
    PROVE  RootsAreDistinct
<1> SUFFICES ASSUME NEW c \in Roots, NEW d \in Commits, history[d].tree = history[c].tree
             PROVE  c \in Upto(d)
    BY DEF RootsAreDistinct
<1>1. c \in Commits /\ c \in Roots' /\ d \in Commits'
    BY DEF Roots
<1>2. history'[d].tree = history'[c].tree
    BY <1>1
<1>3. c \in Upto(d)'
    BY <1>1, <1>2 DEF RootsAreDistinct
<1>. QED BY <1>3, UptoStays

\* A merge base is one of the commits that both sides descend from.
LEMMA BaseFacts ==
    ASSUME Graph, NEW l \in Commits, NEW r \in Commits, NEW b \in MergeBases(l, r)
    PROVE  b \in Commits /\ b \in Upto(l) /\ b \in Upto(r)
BY UptoBound DEF MergeBases

-----------------------------------------------------------------------------
\* Every tree the program writes is one of files with known paths and blobs.
LEMMA TreeFacts == Trees \subseteq FileTree
<1> SUFFICES ASSUME NEW t \in Trees PROVE t \in FileTree
    OBVIOUS
<1>1. t = [q \in DOMAIN t |-> t[q]] /\ IsFiniteSet(DOMAIN t)
    BY HistoryAssumption
<1>2. DOMAIN t \subseteq Paths /\ \A q \in DOMAIN t : t[q] \in Blobs
    BY DEF Paths, Blobs, Range
<1>3. t \in [DOMAIN t -> Blobs]
    BY <1>1, <1>2
<1>. QED BY <1>1, <1>2, <1>3 DEF FileTree

\* So is a merge of two.
LEMMA MergedFacts ==
    ASSUME Graph, NEW b \in Commits, NEW l \in Commits, NEW r \in Commits,
           NEW tree \in MergedTrees(b, l, r), NEW t \in tree
    PROVE  t \in FileTree
<1> DEFINE paths == DOMAIN history[l].tree \cup DOMAIN history[r].tree
           merged(q) == IF File(r, q) # File(b, q) THEN File(r, q) ELSE File(l, q)
           kept == {p \in paths : merged(p) # {}}
           clean == [q \in kept |-> CHOOSE f \in merged(q) : TRUE]
<1>1. tree \in {{}} \cup {{s} : s \in Trees} \/ tree = {clean}
    BY DEF MergedTrees
<1>2. \A c \in {l, r} : /\ DOMAIN history[c].tree \subseteq Paths
                        /\ IsFiniteSet(DOMAIN history[c].tree)
                        /\ \A q : File(c, q) \subseteq Blobs
    <2>1. \A c \in {l, r} : history[c].tree \in FileTree
        BY GraphFacts
    <2>. QED BY <2>1 DEF FileTree, File
<1>3. kept \subseteq Paths /\ IsFiniteSet(kept)
    <2>1. IsFiniteSet(paths) /\ paths \subseteq Paths
        BY <1>2, FS_Union
    <2>. QED BY <2>1, FS_Subset
<1>4. \A q \in kept : (CHOOSE f \in merged(q) : TRUE) \in Blobs
    <2> SUFFICES ASSUME NEW q \in kept PROVE (CHOOSE f \in merged(q) : TRUE) \in Blobs
        OBVIOUS
    <2>1. PICK M : M = merged(q)
        OBVIOUS
    <2>2. M # {} /\ M \subseteq Blobs
        BY <1>2, <2>1
    <2>3. (CHOOSE f \in M : TRUE) \in M
        BY <2>2
    <2>. QED BY <2>1, <2>2, <2>3
<1>5. clean \in FileTree
    <2>1. clean \in [kept -> Blobs]
        BY <1>4
    <2>. QED BY <1>3, <2>1 DEF FileTree
<1>. QED BY <1>1, <1>5, TreeFacts

\* The merge in progress has made its commit.
Underway == \A m \in merging : m.result \in Commits

\* A clone begins with one commit and no state.
LEMMA KeepInit == HistoryInit => KeepInv /\ Underway
<1> SUFFICES ASSUME HistoryInit PROVE KeepInv /\ Underway
    OBVIOUS
<1>1. PICK t \in Trees : history = <<[parents |-> <<>>, tree |-> t]>>
    BY DEF HistoryInit
<1>2. t \in FileTree /\ importing \in BOOLEAN /\ MaxHistory[importing] \in Nat \ {0}
    BY TreeFacts, HistoryAssumption DEF HistoryInit
<1>3. /\ Len(history) = 1 /\ DOMAIN history = {1}
      /\ history[1].parents = <<>> /\ history[1].tree = t
      /\ history \in Seq([parents : Seq(Nat), tree : FileTree])
    BY <1>1, <1>2
<1>4. Graph
    <2>1. Parents(1) = {}
        BY <1>3 DEF Parents, Range
    <2>. QED BY <1>2, <1>3, <2>1 DEF Graph, Commits
<1>5. States
    BY <1>2 DEF HistoryInit, States, Single
<1>. QED BY <1>4, <1>5 DEF KeepInv, Underway, HistoryInit

\* A step that is not about states.
LEMMA SameStep ==
    ASSUME KeepInv, Underway, UNCHANGED <<history, active, importing>>, merging' \subseteq merging
    PROVE  KeepInv' /\ Underway'
<1>1. Graph' /\ Commits' = Commits
    BY DEF KeepInv, Graph, Commits, Parents
<1>2. \A d : \A s : Accountable(d, s)' <=> Accountable(d, s)
    BY DEF Accountable, Source, TextFiles, Accounted, RenamedFrom
<1>3. States'
    BY <1>1, <1>2 DEF KeepInv, States
<1>. QED BY <1>1, <1>3 DEF KeepInv, Underway

\* One lemma per step.
LEMMA CommitOf ==
    ASSUME GitHistory
    PROVE  \E parents \in Seq(Commits), tree \in FileTree : Commit(parents, tree)
<1>1. PICK t \in Trees :
         \/ Commit(<<>>, t)
         \/ \E c \in Commits : Commit(<<c>>, t)
         \/ \E l, r \in Commits : Commit(<<l, r>>, t)
    BY DEF GitHistory
<1>2. t \in FileTree
    BY TreeFacts
<1>3. CASE \E c \in Commits : Commit(<<c>>, t)
    <2>1. PICK c \in Commits : Commit(<<c>>, t)
        BY <1>3
    <2>2. <<c>> \in Seq(Commits)
        OBVIOUS
    <2>. QED BY <1>2, <2>1, <2>2
<1>4. CASE \E l, r \in Commits : Commit(<<l, r>>, t)
    <2>1. PICK l \in Commits, r \in Commits : Commit(<<l, r>>, t)
        BY <1>4
    <2>2. <<l, r>> \in Seq(Commits)
        OBVIOUS
    <2>. QED BY <1>2, <2>1, <2>2
<1>5. CASE Commit(<<>>, t)
    <2>1. <<>> \in Seq(Commits)
        OBVIOUS
    <2>. QED BY <1>2, <1>5, <2>1
<1>. QED BY <1>1, <1>3, <1>4, <1>5

\* A commit made with Git.
LEMMA GitStep == KeepInv /\ Underway /\ GitHistory => KeepInv' /\ Underway'
<1> SUFFICES ASSUME KeepInv, Underway, GitHistory PROVE KeepInv' /\ Underway'
    OBVIOUS
<1>1. PICK parents \in Seq(Commits), tree \in FileTree : Commit(parents, tree)
    BY CommitOf
<1>2. UNCHANGED <<active, importing, merging>>
    BY DEF GitHistory
<1>3. KeepInv' /\ Commits \subseteq Commits'
    BY <1>1, <1>2, CommitStep, CommitFacts DEF KeepInv
<1>. QED BY <1>2, <1>3 DEF Underway

\* A state that is computed.
LEMMA ComputeStep ==
    ASSUME KeepInv, Underway, NEW c \in Commits, NEW P \in Previous(active, c),
           UNCHANGED <<history, importing>>, merging' \subseteq merging,
           Activate(c, Materialized(active, c, P))
    PROVE  KeepInv' /\ Underway'
<1>1. KeepInv'
    BY ActivateStep
<1>2. Commits' = Commits
    BY DEF Commits
<1>. QED BY <1>1, <1>2 DEF Underway

\* A semantic merge.
LEMMA MergeStep ==
    ASSUME KeepInv, Underway, NEW l \in Commits, NEW r \in Commits, SemanticMerge(l, r)
    PROVE  KeepInv' /\ Underway'
<1>0. PICK b \in MergeBases(l, r) : \E tree \in MergedTrees(b, l, r) :
          \/ tree = {} /\ UNCHANGED <<history, merging>>
          \/ \E t \in tree : \E o : Commit(<<l, r>>, t) /\
                merging' = {[base |-> b, result |-> Len(history) + 1, operations |-> o]}
    BY DEF SemanticMerge
<1>1. PICK tree \in MergedTrees(b, l, r) :
          \/ tree = {} /\ UNCHANGED <<history, merging>>
          \/ \E t \in tree : \E o : Commit(<<l, r>>, t) /\
                merging' = {[base |-> b, result |-> Len(history) + 1, operations |-> o]}
    BY <1>0
<1>2. UNCHANGED <<active, importing>>
    BY DEF SemanticMerge
<1>3. CASE UNCHANGED <<history, merging>>
    BY <1>2, <1>3, SameStep
<1>4. CASE \E t \in tree : \E o : Commit(<<l, r>>, t) /\
              merging' = {[base |-> b, result |-> Len(history) + 1, operations |-> o]}
    <2>1. PICK t \in tree : \E o : Commit(<<l, r>>, t) /\
              merging' = {[base |-> b, result |-> Len(history) + 1, operations |-> o]}
        BY <1>4
    <2>2. b \in Commits
        BY BaseFacts DEF KeepInv
    <2>3. t \in FileTree
        BY <2>2, MergedFacts DEF KeepInv
    <2>4. <<l, r>> \in Seq(Commits)
        OBVIOUS
    <2>5. KeepInv'
        BY <1>2, <2>1, <2>3, <2>4, CommitStep
    <2>6. Len(history) + 1 \in Commits'
        BY <1>2, <2>1, <2>3, <2>4, CommitFacts DEF KeepInv
    <2>. QED BY <2>1, <2>5, <2>6 DEF Underway
<1>. QED BY <1>1, <1>3, <1>4

\* Any step.
LEMMA KeepNext == KeepInv /\ Underway /\ [HistoryNext]_historyVars => KeepInv' /\ Underway'
<1> SUFFICES ASSUME KeepInv, Underway, [HistoryNext]_historyVars PROVE KeepInv' /\ Underway'
    OBVIOUS
<1>1. CASE GitHistory
    BY <1>1, GitStep
<1>2. ASSUME NEW c \in Commits, Materialize(c) PROVE KeepInv' /\ Underway'
    BY <1>2, ComputeStep DEF Materialize
<1>3. ASSUME NEW c \in Commits, ImportCommit(c) PROVE KeepInv' /\ Underway'
    BY <1>3, ComputeStep DEF ImportCommit
<1>4. ASSUME NEW l \in Commits, NEW r \in Commits, SemanticMerge(l, r)
      PROVE  KeepInv' /\ Underway'
    BY <1>4, MergeStep
<1>5. CASE RecordMerge
    BY <1>5, ComputeStep DEF RecordMerge, Underway
<1>6. CASE UNCHANGED <<history, active, importing>> /\ merging' \subseteq merging
    BY <1>6, SameStep
<1>7. CASE DieMerging
    BY <1>6, <1>7 DEF DieMerging
<1>8. ASSUME NEW m \in resolutions, NEW c \in Commits, FinalizeMerge(m, c)
      PROVE  KeepInv' /\ Underway'
    BY <1>6, <1>8 DEF FinalizeMerge
<1>9. CASE UNCHANGED historyVars
    BY <1>6, <1>9 DEF historyVars
<1>. QED BY <1>1, <1>2, <1>3, <1>4, <1>5, <1>7, <1>8, <1>9 DEF HistoryNext

-----------------------------------------------------------------------------
(* A state as a function of what it is computed from: the commit's tree, the  *)
(* Trunks extracted from it, the states of the parents and the previous state. *)

ChangesFrom(c, files, P, trunks) ==
    LET wasAlive(t) == \E u \in TrunkIn(P, t) : u.state = "Alive"
        isAlive(t) == trunks[t].state = "Alive"
        change(t) == [base |-> IF P = {} THEN c ELSE (CHOOSE s \in P : TRUE).commit,
                      target |-> t,
                      action |-> IF ~isAlive(t) THEN "Delete"
                                 ELSE IF wasAlive(t) THEN "Replace" ELSE "Insert",
                      content |-> IF isAlive(t) THEN {TrunkBlob(files, trunks[t])} ELSE {}]
        same(t) == \E s \in P :
                      /\ s.trunks[t].paths \cap DOMAIN s.files # {}
                      /\ TrunkBlob(s.files, s.trunks[t]) = TrunkBlob(files, trunks[t]) IN
    {change(t) : t \in {u \in DOMAIN trunks :
        \/ isAlive(u) /\ ~wasAlive(u)
        \/ ~isAlive(u) /\ wasAlive(u)
        \/ isAlive(u) /\ wasAlive(u) /\ ~same(u)}}

StateFrom(c, tree, extracted, others, P) ==
    LET zombies == [t \in TrunksOf(others) \ DOMAIN extracted |->
                        DeleteTrunk(CHOOSE u \in TrunkIn(others, t) : TRUE, "Zombie")]
        trunks == [t \in DOMAIN extracted \cup DOMAIN zombies |->
                        IF t \in DOMAIN extracted THEN extracted[t] ELSE zombies[t]]
        inherited == TrunksOf(others) \ TrunksOf(P)
        new == {o \in ChangesFrom(c, tree, P, trunks) : o.target \notin inherited} IN
    [commit |-> c, files |-> tree, trunks |-> trunks,
     operations |-> OperationsIn(P \cup others) \cup new]

\* The model's definitions say so, ...
LEMMA MaterializedFrom ==
    ASSUME NEW known, NEW c, NEW P
    PROVE  Materialized(known, c, P) =
               StateFrom(c, history[c].tree, ExtractTrunks(c, P), ParentStates(known, c), P)
BY DEF Materialized, Transition, StateFrom, ChangesFrom

\* ... also after a step.
LEMMA MaterializedFromNext ==
    ASSUME NEW known, NEW c, NEW P
    PROVE  Materialized(known, c, P)' =
               StateFrom(c, history'[c].tree, ExtractTrunks(c, P)', ParentStates(known, c)', P)
BY DEF Materialized, Transition, StateFrom, ChangesFrom

\* The extracted Trunks of a commit are the same when the history has grown.
LEMMA ExtractStays ==
    ASSUME Graph, NEW c \in Commits, Commits \subseteq Commits',
           \A d \in Commits : history'[d] = history[d], NEW P
    PROVE  ExtractTrunks(c, P)' = ExtractTrunks(c, P)
<1>1. /\ history'[c] = history[c]
      /\ history[c].parents # <<>> =>
            history'[Head(history[c].parents)] = history[Head(history[c].parents)]
    BY GraphFacts
<1>2. \A q : NamesOf(c, P, q)' = NamesOf(c, P, q)
    <2>1. \A q : Source(c, q)' = Source(c, q)
        BY SourceStays
    <2>. QED BY <2>1 DEF NamesOf
<1>3. \A q : Prior(c, P, q)' = Prior(c, P, q)
    BY <1>2 DEF Prior
<1>4. ASSUME NEW q PROVE TrunkOf(c, P, q)' = TrunkOf(c, P, q)
    <2>0. Anchor(c)' = Anchor(c)
        BY UptoStays
    <2>1. TrunkOf(c, P, q) =
              IF Prior(c, P, q) = {} THEN <<Anchor(c), q, history[c].tree[q]>>
              ELSE CHOOSE t \in Prior(c, P, q) : TRUE
        BY DEF TrunkOf, Prior
    <2>2. TrunkOf(c, P, q)' =
              IF Prior(c, P, q)' = {} THEN <<Anchor(c)', q, history'[c].tree[q]>>
              ELSE CHOOSE t \in Prior(c, P, q)' : TRUE
        BY DEF TrunkOf, Prior
    <2>3. PICK S : S = Prior(c, P, q)
        OBVIOUS
    <2>4. S = Prior(c, P, q)'
        BY <1>3, <2>3
    <2>5. TrunkOf(c, P, q) =
              IF S = {} THEN <<Anchor(c), q, history[c].tree[q]>> ELSE CHOOSE t \in S : TRUE
        BY <2>1, <2>3
    <2>6. TrunkOf(c, P, q)' =
              IF S = {} THEN <<Anchor(c)', q, history'[c].tree[q]>> ELSE CHOOSE t \in S : TRUE
        BY <2>2, <2>4
    <2>. QED BY <1>1, <2>0, <2>5, <2>6
<1>5. Textual(c)' = Textual(c)
    BY <1>1 DEF Textual
<1>6. Present(c, P)' = Present(c, P)
    BY <1>4, <1>5 DEF Present
<1>7. ASSUME NEW t PROVE FileOf(c, P, t)' = FileOf(c, P, t)
    <2>1. Continuing(c, P, t)' = Continuing(c, P, t)
        BY <1>4, <1>5 DEF Continuing
    <2>. QED BY <2>1 DEF FileOf
<1>8. ExtractTrunks(c, P) =
          [t \in Present(c, P) \cup TrunksOf(P) |->
              IF t \in Present(c, P)
              THEN ExtractTrunk(TrunkIn(P, t), FileOf(c, P, t), history[c].tree[FileOf(c, P, t)])
              ELSE DeleteTrunk(CHOOSE u \in TrunkIn(P, t) : TRUE, "Deleted")]
    BY DEF ExtractTrunks, Present, FileOf, Continuing, Textual
<1>9. ExtractTrunks(c, P)' =
          [t \in Present(c, P)' \cup TrunksOf(P) |->
              IF t \in Present(c, P)'
              THEN ExtractTrunk(TrunkIn(P, t), FileOf(c, P, t)', history'[c].tree[FileOf(c, P, t)'])
              ELSE DeleteTrunk(CHOOSE u \in TrunkIn(P, t) : TRUE, "Deleted")]
    BY DEF ExtractTrunks, Present, FileOf, Continuing, Textual
<1>. QED BY <1>1, <1>6, <1>7, <1>8, <1>9

\* The state of a commit that is computed from all its parents'.
First(known, c) ==
    IF history[c].parents = <<>> THEN {} ELSE known[Head(history[c].parents)]
StateOf(known, c) == Materialized(known, c, First(known, c))

\* It depends on the parents' states only, ...
LEMMA StateSame ==
    ASSUME Graph, NEW c \in Commits, NEW k, NEW j, \A d \in Parents(c) : j[d] = k[d]
    PROVE  StateOf(j, c) = StateOf(k, c) /\ ParentStates(j, c) = ParentStates(k, c)
<1>1. ParentStates(j, c) = ParentStates(k, c)
    BY DEF ParentStates
<1>2. First(j, c) = First(k, c)
    BY GraphFacts DEF First
<1>. QED BY <1>1, <1>2, MaterializedFrom DEF StateOf

\* ... also when the history grows.
LEMMA StateStays ==
    ASSUME Graph, NEW c \in Commits, Commits \subseteq Commits',
           \A d \in Commits : history'[d] = history[d],
           NEW k, NEW j, \A d \in Parents(c) : j[d] = k[d]
    PROVE  /\ StateOf(j, c)' = StateOf(k, c) /\ ParentStates(j, c)' = ParentStates(k, c)
           /\ Parents(c)' = Parents(c)
<1>0. Parents(c)' = Parents(c)
    BY DEF Parents
<1>1. ParentStates(j, c)' = ParentStates(k, c)
    BY <1>0 DEF ParentStates
<1>2. First(j, c)' = First(k, c)
    BY GraphFacts DEF First
<1>3. history'[c].tree = history[c].tree /\ \A P : ExtractTrunks(c, P)' = ExtractTrunks(c, P)
    BY ExtractStays
<1>4. PICK P : P = First(k, c)
    OBVIOUS
<1>5. StateOf(j, c)' = Materialized(j, c, P)' /\ StateOf(k, c) = Materialized(k, c, P)
    BY <1>2, <1>4 DEF StateOf
<1>. QED BY <1>0, <1>1, <1>3, <1>5, MaterializedFrom, MaterializedFromNext

-----------------------------------------------------------------------------
(* Importing: a commit has a state only if its parents have one, and then it  *)
(* is the one that is computed from theirs; a root's is computed from nothing *)
(* if no other root has its tree.  What a merge in progress or a    *)
(* resolution says was done is in its participants' states.  The states are   *)
(* a parameter, for a step to speak of those before and those after it.       *)

Certain(c) == history[c].parents # <<>> \/ RootsAreDistinct

Settles(known) ==
    \A c \in Commits : known[c] # {} =>
        /\ \A d \in Parents(c) : known[d] # {}
        /\ Certain(c) => known[c] = {StateOf(known, c)}

MergesKept(known) ==
    \A m \in merging :
        /\ m.result \in Commits /\ Len(history[m.result].parents) = 2
        /\ \A d \in Parents(m.result) : known[d] # {}
        /\ m.operations \subseteq OperationsIn(ParentStates(known, m.result))

ResolutionsKept(known) ==
    \A r \in resolutions :
        /\ r.left \in Commits /\ r.right \in Commits
        /\ known[r.left] # {} /\ known[r.right] # {}
        /\ r.operations \subseteq OperationsIn(known[r.left] \cup known[r.right])
        /\ r.result # 0 =>
              /\ r.result \in Commits /\ known[r.result] # {}
              /\ Parents(r.result) = {r.left, r.right}

ImportInv ==
    importing =>
        \E known : /\ known = active /\ Settles(known)
                   /\ MergesKept(known) /\ ResolutionsKept(known)

\* The states a clone has.
LEMMA ActiveFacts ==
    ASSUME KeepInv, NEW c \in Commits
    PROVE  /\ c \in DOMAIN active
           /\ Manifests(active[c]) /\ Single(active[c])
           /\ Manifests(First(active, c)) /\ Single(First(active, c))
<1>1. \A d \in Commits : d \in DOMAIN active /\ Manifests(active[d]) /\ Single(active[d])
    <2>1. \A d \in Commits : d \in DOMAIN active
        BY GraphFacts, HistoryAssumption DEF KeepInv, States, Graph
    <2>. QED BY <2>1 DEF KeepInv, States, Manifests
<1>2. First(active, c) = {} \/ \E d \in Commits : First(active, c) = active[d]
    BY GraphFacts DEF First, KeepInv
<1>. QED BY <1>1, <1>2 DEF Manifests, Single

\* A state keeps what its parents' states have.
LEMMA StateKeeps ==
    ASSUME KeepInv, NEW c \in Commits, NEW s, s = StateOf(active, c)
    PROVE  /\ OperationsIn(ParentStates(active, c)) \subseteq s.operations
           /\ TrunksOf(ParentStates(active, c)) \subseteq DOMAIN s.trunks
           /\ \A u \in First(active, c) : \A t \in DOMAIN u.trunks :
                 t \in DOMAIN s.trunks => Nodes(u.trunks[t]) \subseteq Nodes(s.trunks[t])
<1>1. PICK P : P = First(active, c)
    OBVIOUS
<1>2. PICK others : others = ParentStates(active, c)
    OBVIOUS
<1>3. s = Materialized(active, c, P)
    BY <1>1 DEF StateOf
<1>4. /\ DOMAIN s.trunks = DOMAIN ExtractTrunks(c, P) \cup TrunksOf(others)
      /\ \A t \in DOMAIN ExtractTrunks(c, P) : s.trunks[t] = ExtractTrunks(c, P)[t]
      /\ OperationsIn(P \cup others) \subseteq s.operations
    <2> DEFINE M == Materialized(active, c, P)
               these == ParentStates(active, c)
               extracted == ExtractTrunks(c, P)
    <2>1. /\ M.commit = c /\ M.files = history[c].tree
          /\ DOMAIN M.trunks = DOMAIN extracted \cup TrunksOf(these)
          /\ M.trunks = [t \in DOMAIN M.trunks |-> M.trunks[t]]
          /\ \A t \in DOMAIN extracted : M.trunks[t] = extracted[t]
          /\ \A t \in TrunksOf(these) \ DOMAIN extracted :
                 M.trunks[t] = DeleteTrunk(CHOOSE u \in TrunkIn(these, t) : TRUE, "Zombie")
          /\ OperationsIn(P \cup these) \subseteq M.operations
          /\ \A t \in DOMAIN M.trunks : t \notin TrunksOf(these) =>
                 {o \in Transition(c, P, M.trunks) : o.target = t} \subseteq M.operations
        BY MaterializedIs
    <2>. QED BY <1>2, <1>3, <2>1
<1>5. OperationsIn(others) \subseteq OperationsIn(P \cup others)
    BY DEF OperationsIn
<1>6. Manifests(P) /\ Single(P) /\ history[c].tree \in FileTree
    BY <1>1, ActiveFacts, GraphFacts DEF KeepInv
<1>7. ASSUME NEW u \in P, NEW t \in DOMAIN u.trunks
      PROVE  Nodes(u.trunks[t]) \subseteq Nodes(s.trunks[t])
    <2>1. t \in TrunksOf(P) /\ u.trunks[t] \in TrunkIn(P, t)
        BY DEF TrunksOf, TrunkIn
    <2>2. t \in DOMAIN ExtractTrunks(c, P)
        BY <2>1, ExtractIs
    <2>3. Nodes(u.trunks[t]) \subseteq Nodes(ExtractTrunks(c, P)[t])
        BY <1>6, <2>1, <2>2, ExtractFacts
    <2>. QED BY <1>4, <2>2, <2>3
<1>. QED BY <1>1, <1>2, <1>4, <1>5, <1>7

\* What a state's log has it has.
Within(u, s) == u.operations \subseteq s.operations /\ DOMAIN u.trunks \subseteq DOMAIN s.trunks

\* A state has what the states in its log have.
LEMMA LogFacts ==
    ASSUME KeepInv, Settles(active), NEW c \in Commits, active[c] # {}
    PROVE  \A d \in Upto(c) :
               active[d] # {} /\ \A u \in active[d] : \A s \in active[c] : Within(u, s)
<1>0. Graph /\ Commits = 1..Len(history) /\ Len(history) \in Nat
    BY GraphFacts DEF KeepInv
<1> DEFINE Kept(n) == \A d \in Upto(n) :
               active[d] # {} /\ \A u \in active[d] : \A s \in active[n] : Within(u, s)
           D == {n \in Commits : active[n] # {} /\ ~Kept(n)}
<1>. SUFFICES ASSUME D # {} PROVE FALSE
    OBVIOUS
<1>1. D \subseteq Nat
    BY <1>0
<1>2. PICK n \in D : \A k \in D : ~(k < n)
    <2>. HIDE DEF D
    <2>. QED BY <1>1, Smallest, Zenon
<1>3. n \in Commits /\ active[n] # {} /\ ~Kept(n)
    BY <1>2
<1>4. PICK s : s \in active[n]
    BY <1>3
<1>5. active[n] = {s} /\ \A e \in Parents(n) : active[e] # {}
    BY <1>3, <1>4, ActiveFacts DEF Settles, Single
<1>6. ASSUME NEW e \in Parents(n), NEW v \in active[e]
      PROVE  Within(v, s)
    <2>0. s = StateOf(active, n)
        <3>1. history[n].parents # <<>>
            BY DEF Parents, Range
        <3>. QED BY <1>3, <1>4, <3>1 DEF Settles, Certain
    <2>1. v \in ParentStates(active, n)
        BY DEF ParentStates
    <2>2. /\ v.operations \subseteq OperationsIn(ParentStates(active, n))
          /\ DOMAIN v.trunks \subseteq TrunksOf(ParentStates(active, n))
        BY <2>1 DEF OperationsIn, TrunksOf
    <2>. QED BY <1>3, <2>0, <2>2, StateKeeps DEF Within
<1>7. ASSUME NEW e \in Parents(n) PROVE Kept(e)
    <2>1. e \in Commits /\ e < n
        BY <1>0, <1>3, GraphFacts
    <2>. QED BY <1>2, <1>5, <2>1
<1>8. ASSUME NEW d \in Upto(n)
      PROVE  active[d] # {} /\ \A u \in active[d] : Within(u, s)
    <2>1. CASE d = n
        BY <1>5, <2>1 DEF Within
    <2>2. CASE d # n
        <3>1. PICK e \in Parents(n) : d \in Upto(e)
            BY <1>0, <1>3, <2>2, UptoFacts
        <3>2. PICK v : v \in active[e]
            BY <1>5
        <3>3. active[d] # {} /\ \A u \in active[d] : Within(u, v)
            BY <1>7, <3>1, <3>2
        <3>. QED BY <1>6, <3>2, <3>3 DEF Within
    <2>. QED BY <2>1, <2>2
<1>. QED BY <1>3, <1>5, <1>8

-----------------------------------------------------------------------------
\* The parents of a commit are among what it descends from.
LEMMA ParentsUpto ==
    ASSUME Graph, NEW c \in Commits
    PROVE  Parents(c) \subseteq Upto(c) \ {c}
<1>1. \A d \in Parents(c) : d \in Commits /\ d # c
    BY GraphFacts
<1>2. \A d \in Parents(c) : d \in Upto(d)
    BY <1>1, UptoFacts
<1>. QED BY <1>1, <1>2, UptoFacts

\* A root without a state has no state to go on from if no other root has its tree.
LEMMA NothingYet ==
    ASSUME KeepInv, Settles(active), RootsAreDistinct, NEW c \in Roots, active[c] = {}
    PROVE  SameTree(active, c) = {}
<1> SUFFICES ASSUME NEW d \in Commits, history[d].tree = history[c].tree, active[d] # {}
             PROVE  FALSE
    BY DEF SameTree
<1>1. c \in Upto(d)
    BY DEF RootsAreDistinct
<1>. QED BY <1>1, LogFacts

\* So a commit whose parents have a state is computed from theirs.
LEMMA PreviousIs ==
    ASSUME KeepInv, Settles(active), NEW c \in Commits, \A d \in Parents(c) : active[d] # {},
           active[c] = {} \/ history[c].parents # <<>>, Certain(c)
    PROVE  Previous(active, c) = {First(active, c)}
<1>1. CASE history[c].parents # <<>>
    <2>1. Head(history[c].parents) \in Parents(c)
        BY <1>1, GraphFacts DEF KeepInv
    <2>. QED BY <1>1, <2>1 DEF Previous, First
<1>2. CASE history[c].parents = <<>>
    <2>1. SameTree(active, c) = {}
        BY <1>2, NothingYet DEF Certain, Roots
    <2>. QED BY <1>2, <2>1 DEF Previous, First
<1>. QED BY <1>1, <1>2

\* A step that gives commits the states computed from their parents' and takes none away.
LEMMA SettlesNext ==
    ASSUME Graph, \A d \in Commits : history'[d] = history[d], Commits \subseteq Commits',
           NEW k, NEW j, Settles(k),
           \A d \in Commits : k[d] # {} => j[d] = k[d],
           \A d \in Commits' : j[d] # {} => d \in Commits,
           \A d \in Commits : j[d] # {} =>
               k[d] # {} \/ /\ \A e \in Parents(d) : k[e] # {}
                            /\ Certain(d) => j[d] = {StateOf(k, d)}
    PROVE  Settles(j)'
<1> SUFFICES ASSUME NEW d \in Commits', j[d] # {}
             PROVE  /\ \A e \in Parents(d)' : j[e] # {}
                    /\ Certain(d)' => j[d] = {StateOf(j, d)'}
    BY DEF Settles
<1>1. d \in Commits
    OBVIOUS
<1>2. (\A e \in Parents(d) : k[e] # {}) /\ (Certain(d) => j[d] = {StateOf(k, d)})
    BY <1>1 DEF Settles
<1>3. \A e \in Parents(d) : j[e] = k[e]
    BY <1>1, <1>2, GraphFacts
<1>4. StateOf(j, d)' = StateOf(k, d) /\ Parents(d)' = Parents(d)
    BY <1>1, <1>3, StateStays
<1>5. Certain(d)' => Certain(d)
    BY <1>1, DistinctBefore DEF Certain
<1>. QED BY <1>2, <1>3, <1>4, <1>5

-----------------------------------------------------------------------------
\* What is recorded of merges stays true when states are only added.
LEMMA RecordsNext ==
    ASSUME Graph, \A d \in Commits : history'[d] = history[d], Commits \subseteq Commits',
           NEW k, NEW j, \A d \in Commits : k[d] # {} => j[d] = k[d]
    PROVE  /\ MergesKept(k) /\ merging' \subseteq merging => MergesKept(j)'
           /\ ResolutionsKept(k) /\ resolutions' \subseteq resolutions => ResolutionsKept(j)'
<1>1. ASSUME NEW m \in merging, MergesKept(k)
      PROVE  /\ m.result \in Commits' /\ Len(history'[m.result].parents) = 2
             /\ \A d \in Parents(m.result)' : j[d] # {}
             /\ m.operations \subseteq OperationsIn(ParentStates(j, m.result)')
    <2>1. PICK c \in Commits : c = m.result
        BY <1>1 DEF MergesKept
    <2>2. /\ Len(history[c].parents) = 2
          /\ \A d \in Parents(c) : k[d] # {}
          /\ m.operations \subseteq OperationsIn(ParentStates(k, c))
        BY <1>1, <2>1 DEF MergesKept
    <2>3. \A d \in Parents(c) : j[d] = k[d]
        BY <2>2, GraphFacts
    <2>4. ParentStates(j, c)' = ParentStates(k, c) /\ Parents(c)' = Parents(c)
        BY <2>3, StateStays
    <2>5. /\ c \in Commits' /\ Len(history'[c].parents) = 2
          /\ \A d \in Parents(c)' : j[d] # {}
          /\ m.operations \subseteq OperationsIn(ParentStates(j, c)')
        BY <2>2, <2>3, <2>4
    <2>. QED BY <2>1, <2>5
<1>2. ASSUME NEW r \in resolutions, ResolutionsKept(k)
      PROVE  /\ r.left \in Commits' /\ r.right \in Commits'
             /\ j[r.left] # {} /\ j[r.right] # {}
             /\ r.operations \subseteq OperationsIn(j[r.left] \cup j[r.right])
             /\ r.result # 0 =>
                   /\ r.result \in Commits' /\ j[r.result] # {}
                   /\ Parents(r.result)' = {r.left, r.right}
    <2>1. /\ r.left \in Commits /\ r.right \in Commits
          /\ j[r.left] = k[r.left] /\ j[r.right] = k[r.right]
          /\ k[r.left] # {} /\ k[r.right] # {}
          /\ r.operations \subseteq OperationsIn(k[r.left] \cup k[r.right])
        BY <1>2 DEF ResolutionsKept
    <2>2. ASSUME r.result # 0
          PROVE  /\ r.result \in Commits' /\ j[r.result] # {}
                 /\ Parents(r.result)' = {r.left, r.right}
        <3>1. /\ r.result \in Commits /\ k[r.result] # {}
              /\ Parents(r.result) = {r.left, r.right}
            BY <1>2, <2>2 DEF ResolutionsKept
        <3>2. Parents(r.result)' = Parents(r.result)
            BY <3>1 DEF Parents
        <3>. QED BY <3>1, <3>2
    <2>. QED BY <2>1, <2>2
<1>3. ASSUME MergesKept(k), merging' \subseteq merging PROVE MergesKept(j)'
    BY <1>1, <1>3 DEF MergesKept
<1>4. ASSUME ResolutionsKept(k), resolutions' \subseteq resolutions PROVE ResolutionsKept(j)'
    BY <1>2, <1>4 DEF ResolutionsKept
<1>. QED BY <1>3, <1>4

\* One resolution more.
LEMMA ResolveNext ==
    ASSUME UNCHANGED history, NEW k, NEW j, NEW l \in Commits, NEW r \in Commits,
           NEW b, NEW c, NEW o, NEW x, Resolve(b, l, r, c, o, x),
           Graph, \A d \in Commits : k[d] # {} => j[d] = k[d],
           ResolutionsKept(k), k[l] # {}, k[r] # {},
           o \subseteq OperationsIn(k[l] \cup k[r]),
           c # 0 => c \in Commits /\ j[c] # {} /\ Parents(c) = {l, r}
    PROVE  ResolutionsKept(j)'
<1>1. PICK m : m = [base |-> b, left |-> l, right |-> r, result |-> c,
                    operations |-> o, supersedes |-> x]
    OBVIOUS
<1>2. resolutions' = resolutions \cup {m}
    BY <1>1 DEF Resolve
<1>3. m.left = l /\ m.right = r /\ m.result = c /\ m.operations = o
    BY <1>1
<1>4. Commits' = Commits /\ \A d : Parents(d)' = Parents(d)
    BY DEF Commits, Parents
<1>5. j[l] = k[l] /\ j[r] = k[r]
    OBVIOUS
<1> SUFFICES ASSUME NEW n \in resolutions'
             PROVE  /\ n.left \in Commits /\ n.right \in Commits
                    /\ j[n.left] # {} /\ j[n.right] # {}
                    /\ n.operations \subseteq OperationsIn(j[n.left] \cup j[n.right])
                    /\ n.result # 0 =>
                          /\ n.result \in Commits /\ j[n.result] # {}
                          /\ Parents(n.result) = {n.left, n.right}
    BY <1>4 DEF ResolutionsKept
<1>6. CASE n = m
    BY <1>3, <1>5, <1>6
<1>7. CASE n \in resolutions
    <2>1. /\ n.left \in Commits /\ n.right \in Commits
          /\ k[n.left] # {} /\ k[n.right] # {}
          /\ n.operations \subseteq OperationsIn(k[n.left] \cup k[n.right])
          /\ n.result # 0 =>
                /\ n.result \in Commits /\ k[n.result] # {}
                /\ Parents(n.result) = {n.left, n.right}
        BY <1>7 DEF ResolutionsKept
    <2>2. j[n.left] = k[n.left] /\ j[n.right] = k[n.right]
        BY <2>1
    <2>. QED BY <2>1, <2>2
<1>. QED BY <1>2, <1>6, <1>7

-----------------------------------------------------------------------------
(* Every step keeps it. *)

WholeInv == KeepInv /\ Underway /\ ImportInv

\* What importing means of the states there are.
LEMMA ImportFacts ==
    ASSUME ImportInv, importing
    PROVE  Settles(active) /\ MergesKept(active) /\ ResolutionsKept(active)
BY DEF ImportInv

\* A commit is computed from what it descends from.
LEMMA ImportComputes ==
    ASSUME WholeInv, importing, NEW c \in Commits, NEW P \in Previous(active, c),
           \A d \in Parents(c) : active[d] # {},
           active[c] = {} \/ history[c].parents # <<>>,
           UNCHANGED <<history, importing>>, Activate(c, Materialized(active, c, P)),
           NEW k, k = active, NEW j, j = active'
    PROVE  /\ Graph /\ Commits \subseteq Commits' /\ \A d \in Commits : history'[d] = history[d]
           /\ \A d \in Commits : k[d] # {} => j[d] = k[d]
           /\ j[c] # {} /\ Settles(j)'
<1>0. KeepInv /\ Settles(active) /\ Settles(k)
    BY ImportFacts DEF WholeInv
<1>1. Certain(c) => P = First(active, c)
    BY <1>0, PreviousIs
<1>2. PICK s : s = Materialized(active, c, P)
    OBVIOUS
<1>3. Certain(c) => s = StateOf(k, c)
    BY <1>1, <1>2 DEF StateOf
<1>4. j = [k EXCEPT ![c] = {s}]
    BY <1>2 DEF Activate
<1>5. c \in DOMAIN k
    BY <1>0, ActiveFacts
<1>6. \A d \in DOMAIN k : j[d] = IF d = c THEN {s} ELSE k[d]
    BY <1>4, <1>5
<1>7. Commits \subseteq DOMAIN k
    BY <1>0, ActiveFacts
<1>8. k[c] # {} => k[c] = {s}
    BY <1>0, <1>3 DEF Settles, Certain
<1>9. \A d \in Commits : k[d] # {} => j[d] = k[d]
    BY <1>6, <1>7, <1>8
<1>10. Commits' = Commits
    BY DEF Commits
<1>11. \A d \in Commits : j[d] # {} =>
           k[d] # {} \/ /\ \A e \in Parents(d) : k[e] # {}
                        /\ Certain(d) => j[d] = {StateOf(k, d)}
    <2> SUFFICES ASSUME NEW d \in Commits, j[d] # {}, k[d] = {}
                 PROVE  /\ \A e \in Parents(d) : k[e] # {}
                        /\ Certain(d) => j[d] = {StateOf(k, d)}
        OBVIOUS
    <2>1. d = c /\ j[d] = {s}
        BY <1>6, <1>7
    <2>. QED BY <1>3, <2>1
<1>12. Settles(j)'
    BY <1>0, <1>9, <1>10, <1>11, SettlesNext DEF KeepInv
<1>. QED BY <1>0, <1>6, <1>7, <1>9, <1>10, <1>12 DEF KeepInv

\* What the participants of a merge did is in the states of its sides.
LEMMA MergeOperations ==
    ASSUME WholeInv, importing, NEW l \in Commits, NEW r \in Commits,
           NEW b \in MergeBases(l, r), \A c \in {b, l, r} : active[c] # {}
    PROVE  OperationsIn(UNION {active[c] : c \in {b, l, r}})
               \subseteq OperationsIn(active[l] \cup active[r])
<1>1. KeepInv /\ Settles(active)
    BY ImportFacts DEF WholeInv
<1>2. b \in Upto(l)
    BY <1>1, BaseFacts DEF KeepInv
<1>3. \A u \in active[b] : \A s \in active[l] : Within(u, s)
    BY <1>1, <1>2, LogFacts
<1>4. PICK s : s \in active[l]
    OBVIOUS
<1> SUFFICES ASSUME NEW c \in {b, l, r}, NEW u \in active[c], NEW o \in u.operations
             PROVE  o \in OperationsIn(active[l] \cup active[r])
    BY DEF OperationsIn
<1>5. CASE c = b
    BY <1>3, <1>4, <1>5 DEF Within, OperationsIn
<1>6. CASE c # b
    BY <1>6 DEF OperationsIn
<1>. QED BY <1>5, <1>6

\* A commit changes no state.
LEMMA CommitKeeps ==
    ASSUME WholeInv, importing, NEW parents \in Seq(Commits),
           NEW tree \in FileTree, Commit(parents, tree), UNCHANGED <<active, importing>>,
           NEW k, k = active
    PROVE  /\ Graph /\ Commits \subseteq Commits' /\ \A d \in Commits : history'[d] = history[d]
           /\ Settles(k)'
<1>1. KeepInv /\ Settles(k)
    BY ImportFacts DEF WholeInv
<1>2. Graph /\ Commits \subseteq Commits' /\ \A d \in Commits : history'[d] = history[d]
    BY <1>1, CommitFacts DEF KeepInv
<1>3. KeepInv'
    BY <1>1, CommitStep
<1>4. \A d \in Commits' : k[d] # {} => d \in Commits
    <2>1. \A d \in DOMAIN active : active[d] # {} => d \in Commits
        BY <1>1 DEF KeepInv, States
    <2>2. \A d \in Commits' : d \in DOMAIN active
        <3>1. /\ Commits' = Commits \cup {Len(history) + 1}
              /\ Commits = 1..Len(history) /\ Len(history) \in Nat
            BY <1>1, CommitFacts, GraphFacts DEF KeepInv
        <3>2. /\ Len(history) < MaxHistory[importing] /\ MaxHistory[importing] \in Nat
              /\ DOMAIN active = 1..MaxHistory[importing]
            BY <1>1, HistoryAssumption DEF Commit, KeepInv, Graph, States
        <3>3. PICK n, max : n = Len(history) /\ max = MaxHistory[importing]
            OBVIOUS
        <3>4. n \in Nat /\ max \in Nat /\ n < max
            BY <3>1, <3>2, <3>3
        <3>5. Commits' = 1..n \cup {n + 1} /\ DOMAIN active = 1..max
            BY <3>1, <3>2, <3>3
        <3>6. 1..n \cup {n + 1} \subseteq 1..max
            BY <3>4
        <3>. QED BY <3>5, <3>6
    <2>. QED BY <2>1, <2>2
<1>5. Settles(k)'
    BY <1>1, <1>2, <1>4, SettlesNext
<1>. QED BY <1>2, <1>5

\* A commit made with Git.
LEMMA GitImports == WholeInv /\ GitHistory => ImportInv'
<1> SUFFICES ASSUME WholeInv, GitHistory, importing PROVE ImportInv'
    BY DEF ImportInv, GitHistory
<1>1. PICK parents \in Seq(Commits), tree \in FileTree : Commit(parents, tree)
    BY CommitOf
<1>2. PICK k : k = active
    OBVIOUS
<1>3. UNCHANGED <<active, importing, merging, resolutions>>
    BY DEF GitHistory
<1>4. /\ Graph /\ Commits \subseteq Commits' /\ \A d \in Commits : history'[d] = history[d]
      /\ Settles(k)'
    BY <1>1, <1>2, <1>3, CommitKeeps
<1>5. MergesKept(k) /\ ResolutionsKept(k)
    BY <1>2, ImportFacts DEF WholeInv
<1>6. MergesKept(k)' /\ ResolutionsKept(k)'
    BY <1>3, <1>4, <1>5, RecordsNext
<1>. QED BY <1>2, <1>3, <1>4, <1>6 DEF ImportInv

\* An import.
LEMMA ComputeImports ==
    ASSUME WholeInv, NEW c \in Commits, ImportCommit(c)
    PROVE  ImportInv'
<1> SUFFICES ASSUME importing PROVE ImportInv'
    BY DEF ImportInv, ImportCommit
<1>1. /\ active[c] = {} /\ \A d \in Upto(c) \ {c} : active[d] # {}
      /\ UNCHANGED <<history, resolutions, merging, importing>>
    BY DEF ImportCommit
<1>2. PICK P \in Previous(active, c) : Activate(c, Materialized(active, c, P))
    BY DEF ImportCommit
<1>3. \A d \in Parents(c) : active[d] # {}
    BY <1>1, ParentsUpto DEF WholeInv, KeepInv
<1>4. PICK k : k = active
    OBVIOUS
<1>5. PICK j : j = active'
    OBVIOUS
<1>6. /\ Graph /\ Commits \subseteq Commits' /\ \A d \in Commits : history'[d] = history[d]
      /\ \A d \in Commits : k[d] # {} => j[d] = k[d]
      /\ Settles(j)'
    BY <1>1, <1>2, <1>3, <1>4, <1>5, ImportComputes
<1>7. MergesKept(k) /\ ResolutionsKept(k)
    BY <1>4, ImportFacts DEF WholeInv
<1>8. MergesKept(j)' /\ ResolutionsKept(j)'
    BY <1>1, <1>6, <1>7, RecordsNext
<1>. QED BY <1>5, <1>6, <1>8 DEF ImportInv

\* A semantic merge: a conflict, or the merge's commit.
LEMMA MergeImports ==
    ASSUME WholeInv, NEW l \in Commits, NEW r \in Commits, SemanticMerge(l, r)
    PROVE  ImportInv'
<1> SUFFICES ASSUME importing PROVE ImportInv'
    BY DEF ImportInv, SemanticMerge
<1>1. PICK b \in MergeBases(l, r) :
          /\ \A c \in {b, l, r} : active[c] # {}
          /\ LET operations == OperationsIn(UNION {active[c] : c \in {b, l, r}}) IN
             \E tree \in MergedTrees(b, l, r) :
                \/ /\ tree = {}
                   /\ Resolve(b, l, r, 0, operations, {})
                   /\ UNCHANGED <<history, merging>>
                \/ /\ \E t \in tree : Commit(<<l, r>>, t)
                   /\ merging' =
                          {[base |-> b, result |-> Len(history) + 1, operations |-> operations]}
                   /\ UNCHANGED resolutions
    BY DEF SemanticMerge
<1>2. PICK o : o = OperationsIn(UNION {active[c] : c \in {b, l, r}})
    OBVIOUS
<1>3. UNCHANGED <<active, importing>>
    BY DEF SemanticMerge
<1>4. PICK k : k = active
    OBVIOUS
<1>5. KeepInv /\ Settles(k) /\ MergesKept(k) /\ ResolutionsKept(k)
    BY <1>4, ImportFacts DEF WholeInv
<1>6. k[l] # {} /\ k[r] # {} /\ o \subseteq OperationsIn(k[l] \cup k[r])
    BY <1>1, <1>2, <1>4, MergeOperations
<1>7. PICK tree \in MergedTrees(b, l, r) :
          \/ tree = {} /\ Resolve(b, l, r, 0, o, {}) /\ UNCHANGED <<history, merging>>
          \/ /\ \E t \in tree : Commit(<<l, r>>, t)
             /\ merging' = {[base |-> b, result |-> Len(history) + 1, operations |-> o]}
             /\ UNCHANGED resolutions
    BY <1>1, <1>2
<1>8. CASE Resolve(b, l, r, 0, o, {}) /\ UNCHANGED <<history, merging>>
    <2>1. Graph /\ Commits \subseteq Commits' /\ \A d \in Commits : history'[d] = history[d]
        BY <1>5, <1>8 DEF Commits, KeepInv
    <2>2. \A d \in Commits' : k[d] # {} => d \in Commits
        BY <1>8 DEF Commits
    <2>3. Settles(k)'
        BY <1>5, <2>1, <2>2, SettlesNext
    <2>4. MergesKept(k)'
        BY <1>5, <1>8, <2>1, RecordsNext
    <2>5. ResolutionsKept(k)'
        BY <1>5, <1>6, <1>8, <2>1, ResolveNext
    <2>. QED BY <1>3, <1>4, <2>3, <2>4, <2>5 DEF ImportInv
<1>9. CASE /\ \E t \in tree : Commit(<<l, r>>, t)
           /\ merging' = {[base |-> b, result |-> Len(history) + 1, operations |-> o]}
           /\ UNCHANGED resolutions
    <2>1. PICK t \in tree : Commit(<<l, r>>, t)
        BY <1>9
    <2>2. b \in Commits
        BY <1>5, BaseFacts DEF KeepInv
    <2>3. t \in FileTree
        BY <1>5, <2>2, MergedFacts DEF KeepInv
    <2>4. <<l, r>> \in Seq(Commits)
        OBVIOUS
    <2>5. /\ Graph /\ Commits \subseteq Commits' /\ \A d \in Commits : history'[d] = history[d]
          /\ Settles(k)'
        BY <1>3, <1>4, <2>1, <2>3, <2>4, CommitKeeps
    <2>6. ResolutionsKept(k)'
        BY <1>5, <1>9, <2>5, RecordsNext
    <2>7. PICK n : n = Len(history) + 1
        OBVIOUS
    <2>8. n \in Commits' /\ history'[n] = [parents |-> <<l, r>>, tree |-> t]
        BY <1>3, <1>5, <2>1, <2>3, <2>4, <2>7, CommitFacts DEF KeepInv
    <2>9. Len(history'[n].parents) = 2 /\ Parents(n)' = {l, r}
        <3>1. history'[n].parents = <<l, r>>
            BY <2>8
        <3>. QED BY <3>1 DEF Parents, Range
    <2>10. ParentStates(k, n)' = k[l] \cup k[r]
        BY <2>9 DEF ParentStates
    <2>11. PICK m : m = [base |-> b, result |-> n, operations |-> o]
        OBVIOUS
    <2>12. merging' = {m} /\ m.result = n /\ m.operations = o
        BY <1>9, <2>7, <2>11
    <2>13. MergesKept(k)'
        BY <1>6, <2>8, <2>9, <2>10, <2>12 DEF MergesKept
    <2>. QED BY <1>3, <1>4, <2>5, <2>6, <2>13 DEF ImportInv
<1>. QED BY <1>7, <1>8, <1>9

\* The merge's state and its resolution.
LEMMA RecordImports == WholeInv /\ RecordMerge => ImportInv'
<1> SUFFICES ASSUME WholeInv, RecordMerge, importing PROVE ImportInv'
    BY DEF ImportInv, RecordMerge
<1>1. PICK m \in merging :
          /\ LET p == history[m.result].parents IN
             Resolve(m.base, p[1], p[2], m.result, m.operations, {})
          /\ \E P \in Previous(active, m.result) :
                Activate(m.result, Materialized(active, m.result, P))
    BY DEF RecordMerge
<1>2. merging' = {} /\ UNCHANGED <<history, importing>>
    BY DEF RecordMerge
<1>3. PICK k : k = active
    OBVIOUS
<1>4. PICK j : j = active'
    OBVIOUS
<1>5. KeepInv /\ Settles(k) /\ MergesKept(k) /\ ResolutionsKept(k)
    BY <1>3, ImportFacts DEF WholeInv
<1>6. PICK c \in Commits : c = m.result
    BY <1>5 DEF MergesKept
<1>7. /\ Len(history[c].parents) = 2 /\ \A d \in Parents(c) : k[d] # {}
      /\ m.operations \subseteq OperationsIn(ParentStates(k, c))
    BY <1>5, <1>6 DEF MergesKept
<1>8. PICK P \in Previous(active, c) : Activate(c, Materialized(active, c, P))
    BY <1>1, <1>6
<1>9. PICK l : l = history[c].parents[1]
    OBVIOUS
<1>10. PICK r : r = history[c].parents[2]
    OBVIOUS
<1>11. /\ Parents(c) = {l, r} /\ l \in Commits /\ r \in Commits /\ history[c].parents # <<>>
    <2>1. history[c].parents \in Seq(Nat)
        BY <1>5, GraphFacts DEF KeepInv
    <2>2. DOMAIN history[c].parents = 1..2 /\ history[c].parents # <<>>
        BY <1>7, <2>1
    <2>3. Parents(c) = {l, r}
        BY <1>9, <1>10, <2>2 DEF Parents, Range
    <2>. QED BY <1>5, <2>2, <2>3, GraphFacts DEF KeepInv
<1>12. ParentStates(k, c) = k[l] \cup k[r]
    BY <1>11 DEF ParentStates
<1>13. /\ Graph /\ Commits \subseteq Commits' /\ \A d \in Commits : history'[d] = history[d]
       /\ \A d \in Commits : k[d] # {} => j[d] = k[d]
       /\ j[c] # {} /\ Settles(j)'
    <2>1. /\ \A d \in Parents(c) : active[d] # {}
          /\ active[c] = {} \/ history[c].parents # <<>>
        BY <1>3, <1>7, <1>11
    <2>. QED BY <1>2, <1>3, <1>4, <1>8, <2>1, ImportComputes
<1>14. MergesKept(j)'
    BY <1>2, <1>5, <1>13, RecordsNext
<1>15. Resolve(m.base, l, r, c, m.operations, {})
    BY <1>1, <1>6, <1>9, <1>10
<1>16. m.operations \subseteq OperationsIn(k[l] \cup k[r]) /\ k[l] # {} /\ k[r] # {}
    BY <1>7, <1>11, <1>12
<1>17. ResolutionsKept(j)'
    BY <1>2, <1>5, <1>11, <1>13, <1>15, <1>16, ResolveNext
<1>. QED BY <1>4, <1>13, <1>14, <1>17 DEF ImportInv

\* A step that changes at most the merge in progress and records of merges.
LEMMA QuietImports ==
    ASSUME WholeInv, UNCHANGED <<history, active, importing>>, merging' \subseteq merging,
           \/ UNCHANGED resolutions
           \/ \E m \in resolutions, c \in Commits : FinalizeMerge(m, c)
    PROVE  ImportInv'
<1> SUFFICES ASSUME importing PROVE ImportInv'
    BY DEF ImportInv
<1>1. PICK k : k = active
    OBVIOUS
<1>2. KeepInv /\ Settles(k) /\ MergesKept(k) /\ ResolutionsKept(k)
    BY <1>1, ImportFacts DEF WholeInv
<1>3. /\ Graph /\ Commits \subseteq Commits' /\ \A d \in Commits : history'[d] = history[d]
      /\ \A d \in Commits' : k[d] # {} => d \in Commits
    BY <1>2 DEF Commits, KeepInv
<1>4. Settles(k)'
    BY <1>2, <1>3, SettlesNext
<1>5. MergesKept(k)'
    BY <1>2, <1>3, RecordsNext
<1>6. CASE UNCHANGED resolutions
    <2>1. ResolutionsKept(k)'
        BY <1>2, <1>3, <1>6, RecordsNext
    <2>. QED BY <1>1, <1>4, <1>5, <2>1 DEF ImportInv
<1>7. ASSUME NEW m \in resolutions, NEW c \in Commits, FinalizeMerge(m, c) PROVE ImportInv'
    <2>1. /\ Parents(c) = {m.left, m.right} /\ k[c] # {}
          /\ Resolve(m.base, m.left, m.right, c, m.operations, {<<m.left, m.right>>})
        BY <1>1, <1>7 DEF FinalizeMerge
    <2>2. /\ m.left \in Commits /\ m.right \in Commits /\ k[m.left] # {} /\ k[m.right] # {}
          /\ m.operations \subseteq OperationsIn(k[m.left] \cup k[m.right])
        BY <1>2 DEF ResolutionsKept
    <2>3. ResolutionsKept(k)'
        BY <1>2, <1>3, <2>1, <2>2, ResolveNext
    <2>. QED BY <1>1, <1>4, <1>5, <2>3 DEF ImportInv
<1>. QED BY <1>6, <1>7

\* The invariant of the history holds in every state.
LEMMA WholeNext == WholeInv /\ [HistoryNext]_historyVars => WholeInv'
<1> SUFFICES ASSUME WholeInv, [HistoryNext]_historyVars PROVE WholeInv'
    OBVIOUS
<1>0. KeepInv' /\ Underway'
    BY KeepNext DEF WholeInv
<1>1. ASSUME GitHistory PROVE ImportInv'
    BY <1>1, GitImports
<1>2. ASSUME NEW c \in Commits, Materialize(c) PROVE ImportInv'
    BY <1>2 DEF Materialize, ImportInv
<1>3. ASSUME NEW c \in Commits, ImportCommit(c) PROVE ImportInv'
    BY <1>3, ComputeImports
<1>4. ASSUME NEW l \in Commits, NEW r \in Commits, SemanticMerge(l, r) PROVE ImportInv'
    BY <1>4, MergeImports
<1>5. ASSUME RecordMerge PROVE ImportInv'
    BY <1>5, RecordImports
<1>6. ASSUME DieMerging PROVE ImportInv'
    BY <1>6, QuietImports DEF DieMerging
<1>7. ASSUME NEW m \in resolutions, NEW c \in Commits, FinalizeMerge(m, c) PROVE ImportInv'
    <2>1. UNCHANGED <<history, active, importing>> /\ merging' \subseteq merging
        BY <1>7 DEF FinalizeMerge
    <2>. QED BY <1>7, <2>1, QuietImports
<1>8. ASSUME UNCHANGED historyVars PROVE ImportInv'
    BY <1>8, QuietImports DEF historyVars
<1>9. ImportInv'
    BY <1>1, <1>2, <1>3, <1>4, <1>5, <1>6, <1>7, <1>8 DEF HistoryNext
<1>. QED BY <1>0, <1>9 DEF WholeInv

\* It holds in the beginning.
LEMMA WholeInit == HistoryInit => WholeInv
<1> SUFFICES ASSUME HistoryInit PROVE WholeInv
    OBVIOUS
<1>1. KeepInv /\ Underway /\ merging = {} /\ resolutions = {}
    BY KeepInit DEF HistoryInit
<1>2. \A c \in Commits : active[c] = {}
    <2>1. \A c \in Commits : c \in DOMAIN active
        BY <1>1, ActiveFacts
    <2>. QED BY <2>1 DEF HistoryInit
<1>3. Settles(active) /\ MergesKept(active) /\ ResolutionsKept(active)
    BY <1>1, <1>2 DEF Settles, MergesKept, ResolutionsKept
<1>. QED BY <1>1, <1>3 DEF ImportInv, WholeInv

\* Nothing the history had is lost.
LEMMA WholeKeeps == WholeInv => HistoryKept
<1> SUFFICES ASSUME WholeInv PROVE HistoryKept
    OBVIOUS
<1>1. ASSUME NEW c \in Commits, NEW s \in active[c] PROVE Accountable(c, s)
    BY ActiveFacts DEF WholeInv, KeepInv, States
<1>2. ASSUME importing, NEW c \in Commits, NEW s \in active[c] PROVE LogKept(c, s)
    <2>1. KeepInv /\ Settles(active) /\ Graph
        BY <1>2, ImportFacts DEF WholeInv, KeepInv
    <2>2. history[c].parents # <<>> => s = StateOf(active, c)
        BY <1>2, <2>1 DEF Settles, Certain
    <2>3. SUFFICES ASSUME NEW d \in Upto(c), NEW u \in active[d]
                   PROVE  /\ Diff(u, s).removedOperations = {}
                          /\ Diff(u, s).removedTrunks = {}
                          /\ history[c].parents # <<>> /\ u.commit = Head(history[c].parents) =>
                                \A t \in Diff(u, s).changedTrunks :
                                    Nodes(u.trunks[t]) \subseteq Nodes(s.trunks[t])
        BY DEF LogKept, Log
    <2>4. Within(u, s)
        BY <1>2, <2>1, LogFacts
    <2>5. /\ Diff(u, s).removedOperations = u.operations \ s.operations
          /\ Diff(u, s).removedTrunks = DOMAIN u.trunks \ DOMAIN s.trunks
          /\ \A t \in Diff(u, s).changedTrunks : t \in DOMAIN u.trunks /\ t \in DOMAIN s.trunks
        BY DEF Diff
    <2>6. d \in Commits /\ u.commit = d
        <3>1. d \in Commits
            BY <2>1, UptoBound
        <3>2. d \in DOMAIN active
            BY <2>1, <3>1, ActiveFacts
        <3>. QED BY <2>1, <3>1, <3>2 DEF KeepInv, States
    <2>7. ASSUME history[c].parents # <<>>, u.commit = Head(history[c].parents)
          PROVE  u \in First(active, c)
        BY <2>6, <2>7 DEF First
    <2>. QED BY <2>1, <2>2, <2>4, <2>5, <2>7, StateKeeps DEF Within
<1>3. ASSUME importing, NEW m \in resolutions, m.result # 0, NEW s \in active[m.result]
      PROVE  m.operations \subseteq s.operations
    <2>1. KeepInv /\ Settles(active) /\ ResolutionsKept(active)
        BY <1>3, ImportFacts DEF WholeInv
    <2>2. PICK c \in Commits : c = m.result
        BY <1>3, <2>1 DEF ResolutionsKept
    <2>3. /\ m.operations \subseteq OperationsIn(active[m.left] \cup active[m.right])
          /\ Parents(c) = {m.left, m.right}
        BY <1>3, <2>1, <2>2 DEF ResolutionsKept
    <2>4. ParentStates(active, c) = active[m.left] \cup active[m.right]
        BY <2>3 DEF ParentStates
    <2>5. s = StateOf(active, c)
        <3>1. history[c].parents # <<>>
            BY <2>3 DEF Parents, Range
        <3>. QED BY <1>3, <2>1, <2>2, <3>1 DEF Settles, Certain
    <2>. QED BY <2>1, <2>3, <2>4, <2>5, StateKeeps
<1>. QED BY <1>1, <1>2, <1>3 DEF HistoryKept

\* Invariant: every text file continues a Trunk whose insertion is known; computed
\* parent before child, a state keeps every operation, Trunk and Branch of its log, and
\* what a merge resolution says was done (semantic_blame, semantic_log).
THEOREM HistoryIsKept == HistorySpec => []HistoryKept
<1>1. HistoryInit => WholeInv
    BY WholeInit
<1>2. WholeInv /\ [HistoryNext]_historyVars => WholeInv'
    BY WholeNext
<1>3. WholeInv => HistoryKept
    BY WholeKeeps
<1>. QED BY <1>1, <1>2, <1>3, PTL DEF HistorySpec

-----------------------------------------------------------------------------
(* One import of the whole history. *)

ImportNext(known, n) ==
    [known EXCEPT ![n] = {Materialized(known, n, CHOOSE p \in Previous(known, n) : TRUE)}]
NoStates == [c \in 1..MaxHistory[importing] |-> {}]
Imports(back, n) ==
    back = [m \in 0..n |-> IF m = 0 THEN NoStates ELSE ImportNext(back[m - 1], m)]
Import(n) == CHOOSE back : Imports(back, n)

\* The model's definition says so.
LEMMA WholeIsImport == WholeImport = Import(Len(history))[Len(history)]
BY DEF WholeImport, Import, Imports, ImportNext, NoStates

\* There is such a sequence of states.
LEMMA ImportExists ==
    ASSUME NEW c \in Nat
    PROVE  Imports(Import(c), c)
<1>. SUFFICES \E back : Imports(back, c)
    BY DEF Import
<1>. SUFFICES ASSUME ~\E back : Imports(back, c) PROVE FALSE
    OBVIOUS
<1> DEFINE D == {n \in Nat : ~\E back : Imports(back, n)}
<1>1. c \in D /\ D \subseteq Nat
    OBVIOUS
<1>2. PICK n \in D : \A k \in D : ~(k < n)
    BY <1>1, Smallest, Zenon
<1>3. n \in Nat /\ ~\E back : Imports(back, n)
    BY <1>2
<1>4. CASE n = 0
    <2>1. PICK back : back = [d \in 0..0 |-> NoStates]
        OBVIOUS
    <2>2. Imports(back, 0)
        BY <2>1 DEF Imports
    <2>. QED BY <1>3, <1>4, <2>2
<1>5. CASE n # 0
    <2>1. n - 1 \in Nat /\ n - 1 < n
        BY <1>3, <1>5
    <2>2. n - 1 \notin D
        BY <1>2, <2>1
    <2>3. PICK back : Imports(back, n - 1)
        BY <2>1, <2>2
    <2>4. PICK more : more = [d \in 0..n |->
              IF d = n THEN ImportNext(back[n - 1], n) ELSE back[d]]
        OBVIOUS
    <2>5. \A e \in 0..(n - 1) : more[e] = back[e]
        BY <1>3, <2>4
    <2>6. ASSUME NEW d \in 0..n
          PROVE  more[d] = IF d = 0 THEN NoStates ELSE ImportNext(more[d - 1], d)
        <3>1. CASE d = n
            <4>1. more[n] = ImportNext(back[n - 1], n)
                BY <1>3, <2>4
            <4>2. back[n - 1] = more[n - 1]
                BY <2>1, <2>5
            <4>. QED BY <1>5, <3>1, <4>1, <4>2
        <3>2. CASE d # n
            <4>1. d \in 0..(n - 1) /\ more[d] = back[d]
                BY <1>3, <2>5, <3>2
            <4>2. back[d] = IF d = 0 THEN NoStates ELSE ImportNext(back[d - 1], d)
                BY <2>3, <4>1 DEF Imports
            <4>3. d # 0 => back[d - 1] = more[d - 1]
                BY <1>3, <2>5, <4>1
            <4>. QED BY <4>1, <4>2, <4>3
        <3>. QED BY <3>1, <3>2
    <2>7. Imports(more, n)
        BY <2>4, <2>6 DEF Imports
    <2>. QED BY <1>3, <2>7
<1>. QED BY <1>4, <1>5

\* When n commits are done, each of them has the state computed from its parents'.
Done(known, n) ==
    /\ DOMAIN known = 1..MaxHistory[importing]
    /\ \A c \in 1..n : known[c] = {StateOf(known, c)}
    /\ \A c \in Commits : n < c => known[c] = {}

\* One commit more.
LEMMA ImportDoes ==
    ASSUME Graph, RootsAreDistinct, NEW n \in Commits, NEW known, Done(known, n - 1)
    PROVE  Done(ImportNext(known, n), n)
<1>0. /\ Commits = 1..Len(history) /\ Len(history) \in Nat /\ n \in Nat \ {0}
      /\ n \in DOMAIN known
    BY GraphFacts, HistoryAssumption DEF Graph, Done
<1>1. \A d \in Parents(n) : d \in 1..(n - 1) /\ known[d] # {}
    BY <1>0 DEF Graph, Done
<1>2. Previous(known, n) = {First(known, n)}
    <2>1. CASE history[n].parents # <<>>
        <3>1. Head(history[n].parents) \in Parents(n)
            BY <2>1, GraphFacts
        <3>. QED BY <1>1, <2>1, <3>1 DEF Previous, First
    <2>2. CASE history[n].parents = <<>>
        <3>1. ASSUME NEW d \in Commits \ {n}, history[d].tree = history[n].tree
              PROVE  known[d] = {}
            <4>1. n \in Upto(d)
                BY <2>2, <3>1 DEF RootsAreDistinct, Roots
            <4>2. n \in 1..d
                BY <4>1, UptoBound
            <4>3. n - 1 < d
                BY <1>0, <4>2
            <4>. QED BY <4>3 DEF Done
        <3>2. SameTree(known, n) = {}
            BY <3>1 DEF SameTree
        <3>. QED BY <2>2, <3>2 DEF Previous, First
    <2>. QED BY <2>1, <2>2
<1>3. (CHOOSE p \in Previous(known, n) : TRUE) = First(known, n)
    BY <1>2
<1>4. PICK j : j = ImportNext(known, n)
    OBVIOUS
<1>5. j = [known EXCEPT ![n] = {StateOf(known, n)}]
    BY <1>3, <1>4 DEF ImportNext, StateOf
<1>6. /\ DOMAIN j = DOMAIN known /\ j[n] = {StateOf(known, n)}
      /\ \A d \in DOMAIN known : d # n => j[d] = known[d]
    BY <1>0, <1>5
<1>7. \A c \in Commits : c \in DOMAIN known
    BY <1>0, HistoryAssumption DEF Graph, Done
<1>8. ASSUME NEW c \in 1..n PROVE j[c] = {StateOf(j, c)}
    <2>1. c \in Commits /\ c <= n
        BY <1>0
    <2>2. \A d \in Parents(c) : d \in Commits /\ d # n
        BY <1>0, <2>1, GraphFacts
    <2>3. \A d \in Parents(c) : j[d] = known[d]
        BY <1>6, <1>7, <2>2
    <2>4. StateOf(j, c) = StateOf(known, c)
        BY <2>1, <2>3, StateSame
    <2>5. j[c] = {StateOf(known, c)}
        <3>1. CASE c = n
            BY <1>6, <3>1
        <3>2. CASE c # n
            <4>1. c \in 1..(n - 1)
                BY <1>0, <3>2
            <4>. QED BY <1>6, <1>7, <2>1, <3>2, <4>1 DEF Done
        <3>. QED BY <3>1, <3>2
    <2>. QED BY <2>4, <2>5
<1>9. ASSUME NEW c \in Commits, n < c PROVE j[c] = {}
    <2>1. c # n /\ n - 1 < c
        BY <1>0, <1>9
    <2>. QED BY <1>6, <1>7, <2>1 DEF Done
<1>. QED BY <1>4, <1>6, <1>8, <1>9 DEF Done

\* In the end all of them have one.
LEMMA WholeFacts ==
    ASSUME Graph, RootsAreDistinct
    PROVE  \A c \in Commits : WholeImport[c] = {StateOf(WholeImport, c)}
<1>0. Commits = 1..Len(history) /\ Len(history) \in Nat
    BY GraphFacts
<1>1. PICK w : w = Import(Len(history))
    OBVIOUS
<1>2. Imports(w, Len(history)) /\ WholeImport = w[Len(history)]
    BY <1>0, <1>1, ImportExists, WholeIsImport
<1> DEFINE D == {n \in 0..Len(history) : ~Done(w[n], n)}
<1>3. D = {}
    <2> SUFFICES ASSUME D # {} PROVE FALSE
        OBVIOUS
    <2>1. D \subseteq Nat
        BY <1>0
    <2>2. PICK n \in D : \A k \in D : ~(k < n)
        BY <2>1, Smallest, Zenon
    <2>3. n \in 0..Len(history) /\ ~Done(w[n], n)
        BY <2>2
    <2>4. w[n] = IF n = 0 THEN NoStates ELSE ImportNext(w[n - 1], n)
        BY <1>2, <2>3 DEF Imports
    <2>5. CASE n = 0
        <3>1. \A c \in Commits : c \in 1..MaxHistory[importing]
            BY <1>0, HistoryAssumption DEF Graph
        <3>. QED BY <2>3, <2>4, <2>5, <3>1 DEF Done, NoStates
    <2>6. CASE n # 0
        <3>1. n - 1 \in 0..Len(history) /\ n - 1 < n /\ n \in Commits
            BY <1>0, <2>3, <2>6
        <3>2. Done(w[n - 1], n - 1)
            BY <2>2, <3>1
        <3>3. Done(ImportNext(w[n - 1], n), n)
            BY <3>1, <3>2, ImportDoes
        <3>. QED BY <2>3, <2>4, <2>6, <3>3
    <2>. QED BY <2>5, <2>6
<1>4. Done(WholeImport, Len(history))
    BY <1>0, <1>2, <1>3
<1>. QED BY <1>0, <1>4 DEF Done

\* It is what every clone that only imports and merges has.
LEMMA WholeAgrees == WholeInv => ImportIsDeterministic
<1> SUFFICES ASSUME WholeInv, importing, RootsAreDistinct
             PROVE  \A c \in Commits : active[c] \subseteq WholeImport[c]
    BY DEF ImportIsDeterministic, StatesAreDeterministic
<1>0. KeepInv /\ Settles(active) /\ Graph /\ Commits = 1..Len(history) /\ Len(history) \in Nat
    BY ImportFacts, GraphFacts DEF WholeInv, KeepInv
<1>1. PICK whole : whole = WholeImport
    OBVIOUS
<1>2. \A c \in Commits : whole[c] = {StateOf(whole, c)}
    BY <1>0, <1>1, WholeFacts
<1> DEFINE D == {c \in Commits : ~(active[c] \subseteq whole[c])}
<1>. SUFFICES ASSUME D # {} PROVE FALSE
    BY <1>1
<1>3. D \subseteq Nat
    BY <1>0
<1>4. PICK n \in D : \A k \in D : ~(k < n)
    BY <1>3, Smallest, Zenon
<1>5. n \in Commits /\ ~(active[n] \subseteq whole[n]) /\ active[n] # {}
    BY <1>4
<1>6. active[n] = {StateOf(active, n)} /\ \A d \in Parents(n) : active[d] # {}
    BY <1>0, <1>5 DEF Settles, Certain
<1>7. ASSUME NEW d \in Parents(n) PROVE active[d] = whole[d]
    <2>1. d \in Commits /\ d < n
        BY <1>0, <1>5, GraphFacts
    <2>2. active[d] \subseteq whole[d]
        BY <1>4, <2>1
    <2>3. PICK x : whole[d] = {x}
        BY <1>2, <2>1
    <2>. QED BY <1>6, <2>2, <2>3
<1>8. StateOf(active, n) = StateOf(whole, n)
    BY <1>0, <1>5, <1>7, StateSame
<1>. QED BY <1>2, <1>5, <1>6, <1>8

\* Invariant: as long as no root repeats the tree of another line of history, clones
\* that only import and merge agree on the state of a commit, in whatever order they
\* learn of commits and wherever an import is interrupted: its hash is what they sign
\* (import_semantic_history, semantic_state_with_same_tree).
THEOREM ImportAgrees == HistorySpec => []ImportIsDeterministic
<1>1. HistoryInit => WholeInv
    BY WholeInit
<1>2. WholeInv /\ [HistoryNext]_historyVars => WholeInv'
    BY WholeNext
<1>3. WholeInv => ImportIsDeterministic
    BY WholeAgrees
<1>. QED BY <1>1, <1>2, <1>3, PTL DEF HistorySpec
=============================================================================
