\* A thread asks for the list of topics.
CONSTANTS
    UserThreads = {u1}
    Calls = {"GetTopicList"}
    CallbackCalls = {}
SPECIFICATION Spec
INVARIANTS
    NoCircularWait
