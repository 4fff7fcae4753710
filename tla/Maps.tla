-------------------------------- MODULE Maps --------------------------------
(* std::map, as far as TopicStorage and HandlerStorage use it. *)

\* std::map: the empty map, operator[] with a default, insertion and erase.
EmptyMap == [k \in {} |-> <<>>]

At(m, k, default) == IF k \in DOMAIN m THEN m[k] ELSE default

Put(m, k, v) == [x \in DOMAIN m \cup {k} |-> IF x = k THEN v ELSE m[x]]

Erase(m, k) == [x \in DOMAIN m \ {k} |-> m[x]]

\* An inner vector or map that became empty is erased from the map around it.
PutOrErase(m, k, v) == IF DOMAIN v = {} THEN Erase(m, k) ELSE Put(m, k, v)

=============================================================================
