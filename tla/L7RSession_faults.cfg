\* Two processes of one node, and a daemon that crashes or is given up.
SPECIFICATION Spec
CONSTANTS
    p1 = p1
    p2 = p2
    h1 = h1
    L7Rs = {p1, p2}
    Hosts = {h1}
    HostOf <- TwoOnOne
    NoL7R = NoL7R
    Faults = {"conflict", "crash", "survive", "lost"}
INVARIANTS
    TypeOK
    SessionOwned
    OwnerCleaned
PROPERTIES
    LockImplemented
SYMMETRY Symmetry
