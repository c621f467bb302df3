SPECIFICATION LinesSpec
SYMMETRY MCSymmetry
CONSTRAINT MCBound
CONSTANTS
    Clients = {one, two}
    Stacks = {api, web}
    Groups <- MCAlone
    MaxPlan = 2
    MaxRevision = 4
    x = x
    y = y
    parse = parse
    render = render
    Trees <- MCTrees
    Texts = {x, y}
    Symbols <- MCSymbols
    MaxHistory <- MCMaxHistory
    MaxRoots = 2
    MaxResolutions = 2
    Writers = {hook, command}
    None = None
    Ids <- MCIds
    Legacy <- MCLegacy
    Start = 1
    MaxTime = 3
INVARIANTS
    TypeOK
    NoDanglingLink
    LinksGoBack
    OneRoot
    SerialChainVerifies
    ChangesetTypeOK
    IntegratedOrdered
    IntegratedWasEvaluated
    HistoryKept
    ImportIsDeterministic
PROPERTIES
    IntegratesAfterDependencies
    AppendOnly
