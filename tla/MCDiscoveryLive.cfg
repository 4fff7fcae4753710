\* Liveness: offers of scope All, nobody asks, the heartbeats do the work.
CONSTANTS
    p1 = p1
    p2 = p2
    p3 = p3
    h1 = h1
    h2 = h2
    n1 = n1
    n2 = n2
    Hosts <- MCHosts
    HostOf <- MCHostOf
    OwnerOf <- MCOwnerOf
    Topics = {"t"}
    Procs = {p1, p2}
    Nodes = {n1}
    Kinds = {"msg", "srv"}
    Scopes = {"All"}
    Advertised <- MCAdvertised
    Interests <- MCNoInterests
    Silence = 0
    MaxInFlight = 2
SPECIFICATION FairSpec
CHECK_DEADLOCK FALSE
PROPERTIES
    DeadForgotten
    LiveKnown
