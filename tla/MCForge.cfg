SPECIFICATION ForgeSpec
SYMMETRY MCSymmetry
CONSTANTS
    Commands = {one, two}
    Units <- MCUnits
    Parent <- MCParent
    Plans = {plan, other}
    Contents = {first, second}
    MaxDecision = 2
    MaxProjection <- MCMaxProjection
    MaxTime <- MCMaxTime
    ann = ann
    ivy = ivy
    joe = joe
    near = near
    far = far
    sa = sa
    sb = sb
    sc = sc
    sd = sd
    Repositories = {near, far}
    Documents <- MCDocuments
    Signatures <- MCSignatures
    Trusted = {ivy}
    Held <- MCHeld
    MinimumSignatures = 1
    MaxDay = 1
    Home <- MCHome
    Groups <- MCGroups
    Coordinator = near
    Reviewers = {ann}
    Presented <- MCPresented
    Beginning <- MCBeginning
    MaxMoves <- MCMaxMoves
INVARIANTS
    DeliveryTypeOK
    EvidenceFirst
    PublishedIsRemote
    PublishedHasReview
    ParentRecorded
    DeliveredIsFetchable
    StatusSound
