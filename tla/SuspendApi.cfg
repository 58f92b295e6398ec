CONSTANTS
    App <- MCApp
    Name <- MCName
    NoApp = "none"
    NameOf <- MCNameOf
    MaxSuspends = 2
SPECIFICATION FairSpec
\* the system may stay awake once it has been suspended MaxSuspends times
CHECK_DEADLOCK FALSE
INVARIANTS OneListener
PROPERTIES KeepsProtocol SuspendEnds EverybodyResumes
