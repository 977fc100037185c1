\* Two nodes, either of which may fail in some way; the timeouts are just long enough.
SPECIFICATION Spec
CONSTANTS
    NULL = NULL
    a = a
    b = b
    v = v
    Nodes = {a, b}
    VMs = {v}
    TickDelay = 1
    TickTimeout = 1
    NodeTimeout = 3
    L7rsTimeout = 0
    VmsTimeout = 1
    KillTime = 0
    Horizon = 4
    Skew <- InTime
    Watchers = {b}
    Frail = {a, b}
    Faults = {"link", "power", "hkd", "stop"}
    MaxFaults = 1
    Requests = {"connect", "contend", "logout", "stopvm", "shutdown"}
INVARIANTS
    LiveNotLost
    OneNode
    OrphanCaught
