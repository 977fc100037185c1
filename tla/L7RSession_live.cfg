\* Two processes of one node.
SPECIFICATION FairSpec
CONSTANTS
    p1 = p1
    p2 = p2
    h1 = h1
    L7Rs = {p1, p2}
    Hosts = {h1}
    HostOf <- TwoOnOne
    NoL7R = NoL7R
    Faults = {"conflict"}
INVARIANTS
    ConnectedByOwner
PROPERTIES
    AbortHonoured
    SessionReleased
    RequestEnds
