SPECIFICATION Spec
CONSTANTS
    Caps = {}
    RawBits = {}
    PrivilegeVals = {3}
    Limits = {1}
    Lifetimes = {2}
    Sizes = {1, 2}
    Accesses = {"rw"}
    Frames <- MCFrames
    Images = {}
    STACK_AT = 10
    USER_BASE = 8
    TOKEN_SPAN = 2
    ASLR_PAGES = 2
    TICK_MOD = 100
    MaxTokens = 2
    MaxSessions = 1
    MaxUsed = 2
    MaxThreads = 2
    MaxTick = 2
INVARIANT WithinQuota
CHECK_DEADLOCK FALSE
