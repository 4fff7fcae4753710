--------------------------- MODULE HandlerStorage ---------------------------
(***************************************************************************)
(* Class HandlerStorage: a map from topics to maps from node UUIDs to maps *)
(* from handler UUIDs to handlers.  NodeShared keeps three of them, for    *)
(* local subscriptions, requests and repliers.  A handler has a UUID, which *)
(* GetHandlerUuid answers and which a copy of it shares.  Nodes and UUIDs  *)
(* are numbers: GetHandler answers the first in the order of the maps.     *)
(***************************************************************************)
EXTENDS Maps, Integers, FiniteSets

CONSTANTS Topics, Nodes,
          Uuids,      \* handler UUIDs
          Objects     \* what tells two handlers of one UUID apart

ASSUME HandlersAssumption == Nodes \cup Uuids \subseteq Nat

VARIABLES data,   \* topic -> (nUuid -> (hUuid -> handler))
          ret     \* the answer of the last method called

vars == <<data, ret>>

Handler == [uuid : Uuids, object : Objects]

\* The table as the set of registrations it stands for.
Registered ==
    UNION {UNION {{[topic |-> t, node |-> n, handler |-> data[t][n][u]] :
                       u \in DOMAIN data[t][n]} :
                  n \in DOMAIN data[t]} :
           t \in DOMAIN data}

Registry == INSTANCE HandlerRegistry WITH registered <- Registered

---------------------------------------------------------------------------
\* The queries.
HasHandlersForTopic(t) == t \in DOMAIN data /\ DOMAIN data[t] # {}

HasHandlersForNode(t, n) == t \in DOMAIN data /\ n \in DOMAIN data[t]

\* map::begin of a map that is not empty.
Begin(m) == CHOOSE k \in DOMAIN m : \A l \in DOMAIN m : k <= l

\* GetHandler(topic), of what to answer; the code takes two begin() without
\* asking whether there is anything.
FirstDefined(t) == DOMAIN data[t] # {} /\ DOMAIN data[t][Begin(data[t])] # {}
First(t) == LET m == data[t][Begin(data[t])] IN m[Begin(m)]

\* GetHandler(topic, node, handler) finds data[t][n][u] if this holds.
HasHandler(t, n, u) == HasHandlersForNode(t, n) /\ u \in DOMAIN data[t][n]

---------------------------------------------------------------------------
Init == data = EmptyMap /\ ret = FALSE

\* Mutant: the node's map is made anew.
AddFirst(t, n, h) ==
    /\ data' = Put(data, t, Put(At(data, t, EmptyMap), n, Put(EmptyMap, h.uuid, h)))
    /\ ret' = FALSE

\* Mutant: topic and node in the wrong order.
AddSwapped(t, n, h) ==
    /\ data' = Put(data, n, Put(At(data, n, EmptyMap), t, Put(EmptyMap, h.uuid, h)))
    /\ ret' = FALSE

\* map::insert, which keeps a handler of the same UUID that is there.
\* AddHandler answers nothing.
AddHandler(t, n, h) ==
    LET m == At(At(data, t, EmptyMap), n, EmptyMap)
    IN  /\ data' = Put(data, t, Put(At(data, t, EmptyMap), n,
                                    IF h.uuid \in DOMAIN m THEN m
                                    ELSE Put(m, h.uuid, h)))
        /\ ret' = FALSE

\* Mutant: the node's map stays when it became empty.
RemoveLeavesNode(t, n, u) ==
    IF HasHandlersForNode(t, n)
    THEN /\ data' = Put(data, t, Put(data[t], n, Erase(data[t][n], u)))
         /\ ret' = (DOMAIN data[t][n] = {u})
    ELSE UNCHANGED data /\ ret' = FALSE

\* The answer speaks of the node's map, not of the handler.
RemoveHandler(t, n, u) ==
    IF HasHandlersForNode(t, n)
    THEN LET m == Erase(data[t][n], u)
         IN  /\ data' = PutOrErase(data, t, PutOrErase(data[t], n, m))
             /\ ret' = (DOMAIN m = {})
    ELSE UNCHANGED data /\ ret' = FALSE

RemoveHandlersForNode(t, n) ==
    IF t \in DOMAIN data
    THEN /\ data' = PutOrErase(data, t, Erase(data[t], n))
         /\ ret' = (n \in DOMAIN data[t])
    ELSE UNCHANGED data /\ ret' = FALSE

Next ==
    \E t \in Topics, n \in Nodes :
        \/ \E h \in Handler : AddHandler(t, n, h)
        \/ \E u \in Uuids : RemoveHandler(t, n, u)
        \/ RemoveHandlersForNode(t, n)

Spec == Init /\ [][Next]_vars

---------------------------------------------------------------------------
\* The table is a map of maps of handlers.
TypeOK ==
    /\ DOMAIN data \subseteq Topics
    /\ \A t \in DOMAIN data :
          /\ DOMAIN data[t] \subseteq Nodes
          /\ \A n \in DOMAIN data[t] :
                /\ DOMAIN data[t][n] \subseteq Uuids
                /\ \A u \in DOMAIN data[t][n] :
                      data[t][n][u] \in Handler /\ data[t][n][u].uuid = u
    /\ ret \in BOOLEAN

\* After any sequence of calls the queries answer of the handlers that are
\* registered and of no others: none is misled by a map that became empty, and
\* GetHandler(topic), which NodeShared::RecvSrvRequest and a local Request call,
\* never follows begin() of an empty map.
QueriesAgree ==
    \A t \in Topics :
        LET ofTopic == {r \in Registered : r.topic = t}
        IN  /\ HasHandlersForTopic(t) <=> ofTopic # {}
            /\ t \in DOMAIN data <=> ofTopic # {}
            /\ t \in DOMAIN data =>
                  FirstDefined(t) /\ First(t) \in {r.handler : r \in ofTopic}
            /\ \A n \in Nodes :
                  /\ HasHandlersForNode(t, n) <=> \E r \in ofTopic : r.node = n
                  /\ \A u \in Uuids :
                        {r.handler : r \in Registry!Under(t, n, u)} =
                            IF HasHandler(t, n, u) THEN {data[t][n][u]} ELSE {}

\* The nested maps behave as the set of registrations of HandlerRegistry: adding
\* a handler of a node keeps the node's others and the one of the same UUID,
\* removing one keeps all others, and RemoveHandlersForNode answers as
\* documented.  Of the answer of RemoveHandler nothing is said here.
RefinesRegistrations == Registry!RegistrationsSpec

\* The same with all answers, among them that of RemoveHandler:
\* HandlerStorage.hh:161, "True when the handler is removed or false otherwise."
RefinesRegistry == Registry!Spec

=============================================================================
