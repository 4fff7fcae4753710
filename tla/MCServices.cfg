\* Two processes that both reply; one of them calls, blocking and not.
CONSTANTS
    p1 = p1
    p2 = p2
    n1 = n1
    n2 = n2
    r1 = r1
    r2 = r2
    r3 = r3
    a = a
    b = b
    Procs = {p1, p2}
    Rank <- MCRank
    Hosts <- MCHosts
    HostOf <- MCHostOf
    Nodes = {n1, n2}
    OwnerOf <- MCOwnerOf
    Topics = {a, b}
    Repliers = {n1, n2}
    Reqs = {r1, r2, r3}
    CallerOf <- MCCallerOf
    TopicOf <- MCTopicOf
    Blocking = {r1}
SPECIFICATION Spec
CHECK_DEADLOCK FALSE
INVARIANTS
    TypeOK
    NoIdleRequest
    ResponsesHaveHandlers
    RespondersConnected
PROPERTIES
    CallsOnce
