CONSTANTS
    Volumes = {v0, v1}
    Zero = v0
    NoFile = NoFile
    Modes <- MCModes
    MaxCalls = 3
SPECIFICATION FairSpec
\* the service may have nothing left to do after MaxCalls calls
CHECK_DEADLOCK FALSE
INVARIANTS
    TimersExclusive
    VolumeKept
    OnlyRepeatsMissed
PROPERTIES
    WifiErrorEnds
    VolumeSaved
