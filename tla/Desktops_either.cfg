\* One desktop, both clients, late changes, failures and a websocket that is closed.
SPECIFICATION FairSpec
CONSTANTS
    d1 = d1
    VMs = {d1}
    Clients <- Either
    Timeout = 2
    MaxTimers = 2
    MaxMsgs = 2
    NULL = NULL
    Faults = {"net", "absent", "idle"}
INVARIANTS
    TypeOK
    ConnectedTrue
PROPERTIES
    ConnectingEnds
