\* Topics of every scope and services of one process, another one, on another
\* host, asking for them.
CONSTANTS
    p1 = p1
    p2 = p2
    p3 = p3
    h1 = h1
    h2 = h2
    n1 = n1
    n2 = n2
    Hosts <- MCHosts
    HostOf <- MCHostOf
    OwnerOf <- MCOwnerOf
    Topics = {"t"}
    Procs = {p1, p3}
    Nodes = {n1}
    Kinds = {"msg", "srv"}
    Scopes = {"Process", "Host", "All"}
    Advertised <- MCAdvertised
    Interests <- MCInterests
    Silence = 0
    MaxInFlight = 2
SPECIFICATION Spec
CHECK_DEADLOCK FALSE
INVARIANTS
    TypeOK
    InfoHasActivity
    DiscoveredInSync
PROPERTIES
    EndsAreTold
    RefinesDirectory
