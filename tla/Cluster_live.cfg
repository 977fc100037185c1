\* A node fails, the other one watches.
SPECIFICATION FairSpec
CONSTANTS
    NULL = NULL
    a = a
    b = b
    v = v
    Nodes = {a, b}
    VMs = {v}
    TickDelay = 1
    TickTimeout = 0
    NodeTimeout = 1
    L7rsTimeout = 0
    VmsTimeout = 0
    KillTime = 0
    Horizon = 2
    Skew <- InTime
    Watchers = {b}
    Frail = {a}
    Faults = {"link", "power"}
    MaxFaults = 1
    Requests = {"connect"}
PROPERTIES
    RowsFreed
    SessionsFreed
    PartitionedStops
