\* Two publishing nodes with one endpoint, two subscribing nodes of another process,
\* one of which publishes, too.
CONSTANTS
    p1 = p1
    p2 = p2
    n1 = n1
    n2 = n2
    n3 = n3
    n4 = n4
    Procs = {p1, p2}
    Nodes = {n1, n2, n3, n4}
    OwnerOf <- MCOwnerOf
    Hosts <- MCHosts
    HostOf <- MCHostOf
    Topics = {"a"}
    Scopes = {"All"}
    Faults = {"expiry", "connect"}
    Offerers = {n1, n2, n3}
    Subscribers = {n3, n4}
    MaxFilters = 3
    MaxControl = 1
SPECIFICATION Spec
SYMMETRY Symmetry
CHECK_DEADLOCK FALSE
INVARIANTS
    TypeOK
    NoDoubleConnect
    InterestConnected
PROPERTIES
    SubscribersKept
