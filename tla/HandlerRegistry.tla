-------------------------- MODULE HandlerRegistry ---------------------------
(***************************************************************************)
(* What class HandlerStorage promises its users: a set of handlers, each   *)
(* registered for a topic by a node, at most one for a UUID, and Boolean   *)
(* answers that are those documented (HandlerStorage.hh).                  *)
(***************************************************************************)
CONSTANTS Topics, Nodes,
          Uuids,      \* handler UUIDs
          Objects     \* what tells two handlers of one UUID apart

VARIABLES registered,   \* a set of [topic, node, handler]
          ret           \* the answer of the last operation

Handler == [uuid : Uuids, object : Objects]

Registration == [topic : Topics, node : Nodes, handler : Handler]

\* What is registered for topic t by node n under the UUID u.
Under(t, n, u) ==
    {r \in registered : r.topic = t /\ r.node = n /\ r.handler.uuid = u}

Init == registered = {} /\ ret = FALSE

\* The first handler of a UUID counts.  There is no answer.
Add(r) ==
    /\ registered' = IF Under(r.topic, r.node, r.handler.uuid) = {}
                     THEN registered \cup {r} ELSE registered
    /\ ret' = FALSE

Remove(t, n, u) ==
    /\ registered' = registered \ Under(t, n, u)
    /\ ret' = (Under(t, n, u) # {})

RemoveNode(t, n) ==
    LET gone == {r \in registered : r.topic = t /\ r.node = n}
    IN  /\ registered' = registered \ gone
        /\ ret' = (gone # {})

Next ==
    \/ \E r \in Registration : Add(r)
    \/ \E t \in Topics, n \in Nodes :
          RemoveNode(t, n) \/ \E u \in Uuids : Remove(t, n, u)

Spec == Init /\ [][Next]_<<registered, ret>>

---------------------------------------------------------------------------
\* Spec, without a word about what Remove answers.
RegistrationsNext ==
    \/ \E r \in Registration : Add(r)
    \/ \E t \in Topics, n \in Nodes :
          \/ RemoveNode(t, n)
          \/ \E u \in Uuids : registered' = registered \ Under(t, n, u)

RegistrationsSpec == Init /\ [][RegistrationsNext]_<<registered, ret>>

=============================================================================
