\* Two rows on two pages, other administrators and failing requests.
SPECIFICATION FairSpec
CONSTANTS
    all = all
    some = some
    Ids = {1, 2}
    Filters = {all, some}
    Match <- MatchesAny
    Order <- Orders
    Block = 1
    MaxSelectable = 2
    Dependent = {2}
    MaxXhr = 2
    MaxRequests = 4
    NULL = NULL
    Faults = {"others", "fail"}
INVARIANTS
    TypeOK
    RenderedLast
    ListCurrent
    SelectionShown
    SelectionCounted
PROPERTIES
    BusyEnds
