SPECIFICATION Spec
CONSTANTS
    SectorSize = 2
    CountMod = 256
    Byte = {0, 1, 2}
    Sessions = {1, 2}
    Granted <- MCGranted
    Paths = {"motd", "ext"}
    InvalidPaths = {}
    DevPaths = {}
    Devices <- MCNoDevices
    Ext2Files <- MCExt2
    Initramfs <- MCInitramfs
    Disk <- MCDisk
    Chunks <- MCFileChunks
    ReadSizes = {1}
    FB_LEN = 0
    MaxFd = 5
    MaxOffset = 3
INVARIANT ReadMatchesCat
CHECK_DEADLOCK FALSE
