SPECIFICATION PatchesSpec
CHECK_DEADLOCK FALSE
CONSTANTS
    nl = nl
    Newline = nl
    w = w
    x = x
    y = y
    z = z
    Sources <- MCSources
    Covers <- MCCovers
    TokenTexts = {}
INVARIANTS
    DiffIsSelection
