\* Two topics, two nodes, two UUIDs and two handlers of each.
CONSTANTS
    Topics = {t1, t2}
    Nodes = {1, 2}
    Uuids = {1, 2}
    Objects = {o1, o2}
SPECIFICATION Spec
SYMMETRY Symmetry
INVARIANTS
    TypeOK
    QueriesAgree

    
