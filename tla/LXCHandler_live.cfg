\* One machine, and an HKD that crashes, loses replies and loses rows.
SPECIFICATION FairSpec
CONSTANTS
    VMs = {v1}
    MaxHeavy = 1
    KillerRetries = 1
    DebugEnable = FALSE
    DoesNotCleanup = FALSE
    Faults = {"crash", "lost", "reply"}
PROPERTIES
    HkdTerminates
    StopHonoured
    ZombieReaped
