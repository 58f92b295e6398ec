SPECIFICATION FairSpec
CONSTANTS
    Images <- MCImages
    BufSize = 2
    HdrSize = 2
    Word <- MCWord
    FlashSize = 4
    MaxRuns = 2
INVARIANTS
    ArmedIsVerified
    RebootedIsDurable
PROPERTIES
    KeepsUpdateProtocol
    UpdateEnds
\* the system may stay booted once the tool has been run MaxRuns times
CHECK_DEADLOCK FALSE
