SPECIFICATION Spec
CONSTANTS
    PT_ENTRIES = 3
    Pool = {2, 3, 4, 5, 6}
    pml4 = 3
    pdpt0 = 4
    Junk <- MCJunk
    Strays <- MCStrays
    VPages <- MCPages
    Targets = {20, 21}
    FlagSets <- MCAllFlags
    None = None
INVARIANT WriteXorExecute
\* lost tables are not followed
CHECK_DEADLOCK FALSE
