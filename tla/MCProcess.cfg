SPECIFICATION Spec
CONSTANTS
    PAGE = 2
    Frames <- MCFrames
    Starts <- MCStarts
    Images <- MCImages
    Loaders = {"kernel", "compat"}
    PIE_BASE = 20
    STACK_TOP = 40
    AreaSizes = {3, 4}
    AreaAddrs = {30, 32}
    Memory_limit = 6
    Touched <- MCTouched
INVARIANTS LoadedAsTheFileSays PanicOnlyIfMalformed OwnPagesAsked FreedPagesUnmapped
\* a load that failed, and a halted CPU, stay as they are
CHECK_DEADLOCK FALSE
