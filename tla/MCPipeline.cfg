SPECIFICATION PipelineSpec
CHECK_DEADLOCK FALSE
CONSTANTS
    p1 = p1
    p2 = p2
    ada = ada
    bob = bob
    one = one
    two = two
    hook = hook
    hook2 = hook2
    lib = lib
    src_lib = src_lib
    Publishers <- MCPublishers
    Signers <- MCSigners
    Signer <- MCSigner
    Contents = {c1, c2}
    None = None
    MinSignatures = 1
    MaxRevision = 2
    Shells = {one, two}
    Hooks = {hook, hook2}
    Paths = {lib}
    Reports = {src_lib}
    Endings <- MCEndings
    Relative <- MCRelative
    Agents = {claude}
    Crews <- MCCrews
    MaxEvents <- MCMaxEvents
    MaxSessions = 2
    Operators = {one, two}
    Crew <- MCCrew
    Maintainers = {one}
    Views = {v}
    Filters = {{}, {2}}
    Elsewhere <- MCElsewhere
    MaxCommit <- MCMaxCommit
    MaxDeath <- MCMaxDeath
    Deliveries = {d1, d2}
    Requests = {r1, r2}
    MaxTrouble = 2
    MaxRepeat = 1
    nl = nl
    w = w
    x = x
    y = y
    z = z
    Files = {1, 2}
    Lines = {1, 2, 3}
    Layouts <- MCLayouts
    MinimumConfidence = 800
    Foreign = foreign
    MaxForeign = 1
    Newline = nl
    Sources <- MCSources
    Covers <- MCCovers
    TokenTexts <- MCTokenTexts
INVARIANTS
    TypeOK
    VisibleHasQuorum
    SupersedesChain
    AcknowledgedHolds
    CoverageSound
    LinksAreStarted
    PlanningSound
    TextSound
PROPERTIES
    Immutable
    RegisterSpec
    WatchersEnd
    AdvanceKeepsCommits
    RetriedAdvanceLands
    RecordsOnce
    EveryDeliveryAcknowledged
