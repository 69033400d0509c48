SPECIFICATION Spec
CONSTANTS
    SectorSize = 2
    CountMod = 3
    Byte = {0, 1, 2}
    Sessions = {1, 2}
    Granted <- MCGranted
    Paths = {"new", "bad", "fb0", "hda", "null", "tty"}
    InvalidPaths = {"bad"}
    DevPaths = {"fb0", "hda", "null", "tty"}
    Devices <- MCDevices
    Ext2Files <- MCNoExt2
    Initramfs <- MCNoFiles
    Disk <- MCDisk
    Chunks <- MCDeviceChunks
    ReadSizes = {3, 4}
    FB_LEN = 3
    MaxFd = 5
    MaxOffset = 3
INVARIANTS FdsUnique SmallTransfersComplete OffsetsInFile
PROPERTY OnlyWritersWrite
\* descriptor numbers run out, or the kernel panics
CHECK_DEADLOCK FALSE
