SPECIFICATION PpaSpec
CONSTANTS
    MAX_ORDER = 3
    TOTAL_PAGES = 8
    Requests = {0, 1, 2, 3, 5}
    Clients = {a, b, c, d}
SYMMETRY Symmetry
INVARIANTS BlocksInPool NoPageLost
