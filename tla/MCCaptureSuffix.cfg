SPECIFICATION CaptureSpec
CHECK_DEADLOCK FALSE
CONSTANTS
    hook = hook
    lib = lib
    src_lib = src_lib
    Shells = {}
    Hooks = {hook}
    Paths = {lib, src_lib}
    Reports = {lib, src_lib}
    Endings <- MCEndings
    Relative <- MCRelative
    Agents = {claude}
    Crews = {{hook}}
    MaxEvents <- MCMaxEvents
    MaxSessions = 1
INVARIANT
    UnrelatedWritesFail
