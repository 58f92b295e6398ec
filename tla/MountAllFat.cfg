SPECIFICATION Spec
CONSTANTS
    root = root
    oem = oem
    userdata = userdata
    Part <- MCPart
    Root = root
    Fstab <- MCFstab
    FsTypes <- MCFsTypes
    File = {f1}
    MaxCycles = 2
INVARIANTS FatTried
CHECK_DEADLOCK FALSE
