\* Two machines and one heavy slot.
SPECIFICATION Spec
CONSTANTS
    VMs = {v1, v2}
    MaxHeavy = 1
    KillerRetries = 0
    DebugEnable = FALSE
    DoesNotCleanup = FALSE
    Faults = {"cmd"}
INVARIANTS
    HeavyLimited
SYMMETRY Symmetry
