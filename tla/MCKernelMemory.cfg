SPECIFICATION Spec
CONSTANTS
    Caps = {}
    RawBits = {}
    PrivilegeVals = {3}
    Limits = {1}
    Lifetimes = {0}
    Sizes = {0, 1, 2}
    Accesses = {"rw", "rwx"}
    Frames <- MCFrames
    Images <- MCImages
    STACK_AT = 10
    USER_BASE = 8
    TOKEN_SPAN = 2
    ASLR_PAGES = 2
    TICK_MOD = 100
    MaxTokens = 3
    MaxSessions = 1
    MaxUsed = 2
    MaxThreads = 2
    MaxTick = 1
INVARIANTS TypeOK BlocksAccounted NoDanglingMapping VmasDisjoint
\* the run ends at MaxTick
CHECK_DEADLOCK FALSE
