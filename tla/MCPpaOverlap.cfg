SPECIFICATION PpaSpec
CONSTANTS
    MAX_ORDER = 3
    TOTAL_PAGES = 8
    Requests = {1, 2, 4}
    Clients = {a, b}
SYMMETRY Symmetry
INVARIANT AllocationsDisjoint
