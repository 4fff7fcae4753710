\* Every spelling of a few names, and two topics or services at a time with every
\* scope.
CONSTANTS
    Partitions <- AllPartitions
    Namespaces <- AllNamespaces
    Topics <- MCTopics
    Scopes = {0, 1, 2}
    PUuid <- MCPUuid
    NUuid <- MCNUuid
    Addr <- MCAddr
    Ctrl <- MCCtrl
    SameHost = FALSE
    MaxOffers = 2
    MaxInFlight = 1
SPECIFICATION Spec
CONSTRAINT Few
CHECK_DEADLOCK FALSE
INVARIANTS
    TypeOK
    DatagramsIntact
    TakenBack
    NamesMeet
    PartitionsApart
    ListsLeadBack
