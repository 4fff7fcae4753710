\* Two nodes of a process advertise the same topic with different scopes.
CONSTANTS
    p1 = p1
    p2 = p2
    n1 = n1
    n2 = n2
    n3 = n3
    a = a
    b = b
    Procs = {p1, p2}
    Nodes = {n1, n2, n3}
    OwnerOf <- MCOwnerOf
    PrefixOf <- MCPrefixOf
    Hosts <- MCHosts
    HostOf <- MCHostOf
    Topics = {a}
    Scopes = {"Process", "All"}
    Faults = {}
    Offerers = {n1, n2}
    Subscribers = {n3}
    Msgs = {"m"}
    MaxFilters = 2
    MaxControl = 1
SPECIFICATION MSpec
CHECK_DEADLOCK FALSE
INVARIANTS
    ScopeKept
