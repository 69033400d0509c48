SPECIFICATION PollSpec
CONSTANTS
    Ports = {p}
    MAX_MESSAGES = 2
    MaxThreads = 2
    MaxRip = 0
PROPERTY SendWakesReceiver
