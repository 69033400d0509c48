SPECIFICATION Spec
CONSTANTS
    Caps = {mem}
    RawBits = {mem}
    PrivilegeVals = {3}
    Limits = {1}
    Lifetimes = {1, 3}
    Sizes = {}
    Accesses = {}
    Frames = {}
    Images = {}
    STACK_AT = 10
    USER_BASE = 8
    TOKEN_SPAN = 2
    ASLR_PAGES = 2
    TICK_MOD = 100
    MaxTokens = 2
    MaxSessions = 2
    MaxUsed = 2
    MaxThreads = 2
    MaxTick = 3
INVARIANT ExpiredTokenGrantsNothing
CHECK_DEADLOCK FALSE
