SPECIFICATION Spec
CONSTANTS
    Ports = {p, q}
    MAX_MESSAGES = 2
    MaxThreads = 3
    MaxRip = 1
INVARIANTS BlockedIsQueued NoLostWakeup BoundedWait
