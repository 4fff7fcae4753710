\* Every call that takes both mutexes in the order of discovery's callbacks, or
\* one mutex only; callbacks that publish.
CONSTANTS
    UserThreads = {u1, u2}
    Calls = {"Advertise", "Subscribe", "Unsubscribe", "Publish", "RequestLocal", "Request",
             "BlockingRequest", "AdvertisedTopics"}
    CallbackCalls = {"Publish", "AdvertisedTopics"}
SPECIFICATION Spec
SYMMETRY Symmetry
INVARIANTS
    TypeOK
    NoCircularWait
    OnlyUnsubscribeCollides
    WaiterLetsGo
