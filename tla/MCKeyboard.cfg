SPECIFICATION FairSpec
CONSTANTS
    RING_BUF_SIZE = 3
    LINE_BUF_SIZE = 2
    Scancodes <- MCScancodes
    SCANCODE_NORMAL <- MCNormal
    SCANCODE_SHIFT <- MCShift
    HaltCommands <- MCHalt
INVARIANTS TypeOK ReaderOwnsSlot
PROPERTIES RingIsQueue KeysDelivered
\* "reboot" stops the machine
CHECK_DEADLOCK FALSE
