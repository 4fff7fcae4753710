\* Two topics, two processes, two nodes, two endpoints and two scopes: one
\* vector can hold several addresses, one map several processes.
CONSTANTS
    Topics = {1, 2}
    Procs = {p1, p2}
    Addrs = {a1, a2}
    Nodes = {n1, n2}
    Scopes = {process, all}
    MaxAddresses = 4
SPECIFICATION Spec
SYMMETRY Symmetry
INVARIANTS
    TypeOK
    QueriesAgree
    NoDuplicates
PROPERTIES
    RefinesEntries
