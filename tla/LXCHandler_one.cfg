\* One machine and everything that can go wrong.
SPECIFICATION Spec
CONSTANTS
    VMs = {v1}
    MaxHeavy = 1
    KillerRetries = 1
    DebugEnable = TRUE
    DoesNotCleanup = TRUE
    Faults <- AllFaults
INVARIANTS
    TypeOK
    ContainerOwned
    NothingLeft
    LaunchPrepared
    LxcExitSeen
    StopReachesAll
