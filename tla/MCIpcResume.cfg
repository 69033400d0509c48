SPECIFICATION Spec
CONSTANTS
    Ports = {p}
    MAX_MESSAGES = 1
    MaxThreads = 2
    MaxRip = 1
PROPERTY ResumesWhereStopped
