SPECIFICATION HistorySpec
CHECK_DEADLOCK FALSE
CONSTANTS
    x = x
    y = y
    parse = parse
    render = render
    Trees <- MCTrees
    Texts = {x, y}
    Symbols <- MCSymbols
    MaxHistory <- MCMaxHistory
    MaxRoots = 2
    MaxResolutions = 2
INVARIANT
    ManifestComplete
