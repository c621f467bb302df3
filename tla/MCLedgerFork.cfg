SPECIFICATION Spec
CONSTANTS
    Writers = {hook, command}
    None = None
    Ids <- MCIds
    Legacy = {}
    Start = 1
    MaxTime = 4
INVARIANTS
    SteadyChainVerifies
