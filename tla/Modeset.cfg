SPECIFICATION FairSpec
CONSTANTS
    hdmi1 = hdmi1
    hdmi2 = hdmi2
    cvbs = cvbs
    Connectors <- MCConnectors
    HDMI <- MCHDMI
    NoConnector = NoConnector
    EventSpace = 2
    MaxPlugs = 2
INVARIANTS
    TypeOK
    WaiterIsWoken
PROPERTIES
    AnimationRuns
    AnimationPauses
    ScreenFollows
\* a thread that met a null pointer takes the process with it
CHECK_DEADLOCK FALSE
