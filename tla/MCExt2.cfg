SPECIFICATION DirSpec
CONSTANTS
    block_size = 2
    DIRECT = 2
    PTRS = 2
    Sizes = {0, 1, 3, 4, 5, 8, 9, 16, 17, 31, 32}
    inodes_per_group = 2
    Disks <- MCDisks
    Paths <- MCPaths
    Stale <- MCStale
    BadNames = {"bad"}
INVARIANTS ReadInOrder ResolvesAsNamed ListsWhatResolves
PROPERTIES ReadInFull CallsEnd
\* a call ends
CHECK_DEADLOCK FALSE
