\* Two topics of the same publisher share an endpoint.
CONSTANTS
    p1 = p1
    p2 = p2
    n1 = n1
    n2 = n2
    n3 = n3
    n4 = n4
    Procs = {p1, p2}
    Nodes = {n1, n2, n3, n4}
    OwnerOf <- MCOwnerOf
    Hosts <- MCHosts
    HostOf <- MCHostOf
    Topics = {a, b}
    Scopes = {"All"}
    Faults = {"control", "expiry"}
    Offerers = {n1}
    Subscribers = {n3, n4}
    MaxFilters = 2
    MaxControl = 1
SPECIFICATION Spec
CHECK_DEADLOCK FALSE
INVARIANTS
    ConnectionsAreConnected
