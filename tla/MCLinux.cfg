SPECIFICATION LinuxSpec
CONSTANTS
    Caps = {mem, net}
    RawBits = {mem, net}
    PrivilegeVals = {1}
    Limits = {1}
    Lifetimes = {0}
    Sizes = {}
    Accesses = {"rx"}
    Frames = {0}
    Images = {}
    STACK_AT = 14
    USER_BASE = 8
    TOKEN_SPAN = 2
    ASLR_PAGES = 2
    TICK_MOD = 3
    MaxTokens = 3
    MaxSessions = 3
    MaxUsed = 1
    MaxThreads = 3
    MaxTick = 2
    PAGE_SIZE = 2
    HEAP_START = 26
    Breaks = {27, 28}
    Lengths = {1}
    NET_CONNECT = net
    FORK_LIMIT = 2
    FORK_CAPS = {mem, net}
    FORK_TICKS = 2
INVARIANTS TwoRunsEach LimitIsMemory
PROPERTIES ReclaimedOnTime RefusedForGood
\* the run ends at MaxTick
CHECK_DEADLOCK FALSE
