SPECIFICATION Spec
CONSTANTS
    Caps = {}
    RawBits = {}
    PrivilegeVals = {3}
    Limits = {1}
    Lifetimes = {1}
    Sizes = {1}
    Accesses = {"rw"}
    Frames <- MCFrames
    Images <- MCImages
    STACK_AT = 10
    USER_BASE = 8
    TOKEN_SPAN = 2
    ASLR_PAGES = 2
    TICK_MOD = 100
    MaxTokens = 2
    MaxSessions = 1
    MaxUsed = 1
    MaxThreads = 2
    MaxTick = 1
INVARIANT ExecKeepsKernelUp
CHECK_DEADLOCK FALSE
