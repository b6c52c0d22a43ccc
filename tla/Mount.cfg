CONSTANTS
    Daemon <- MCDaemon
    Item = {w1}
    Waits = TRUE
    Faults = {"kill"}
SPECIFICATION FairMountSpec
INVARIANTS
    
    FailedMeansGone
    OneOwner
    
PROPERTIES
    ParentResolves
    StopCompletes
CHECK_DEADLOCK FALSE
