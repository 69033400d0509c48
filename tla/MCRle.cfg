SPECIFICATION RleSpec
CONSTANTS
    BYTE = 4
    Bytes = {0, 1, 3}
    MaxLen = 6
    Room = {0, 4, 6, 20}
INVARIANTS DecompressorFaithful RoundTrip
\* both calls return
CHECK_DEADLOCK FALSE
