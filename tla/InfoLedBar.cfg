CONSTANTS
    Volumes = {v0, v1}
    Zero = v0
    NoFile = NoFile
    Modes <- MCModes
    MaxCalls = 2
SPECIFICATION FairSpec
CHECK_DEADLOCK FALSE
PROPERTY VolumeBarCloses
