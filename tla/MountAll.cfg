SPECIFICATION Spec
CONSTANTS
    root = root
    oem = oem
    userdata = userdata
    Part <- MCPart
    Root = root
    Fstab <- MCFstab
    FsTypes <- MCFsTypes
    File = {f1}
    MaxCycles = 2
INVARIANTS
    FilesKept
    LabelledIsFull
    RepairedBeforeMount
PROPERTIES
    FullStaysFull
\* the system may stay up after MaxCycles reboots
CHECK_DEADLOCK FALSE
