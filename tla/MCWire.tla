------------------------------- MODULE MCWire -------------------------------
(* Wire for TLC: short strings over a few characters. *)
EXTENDS Wire

Strings(chars, n) == UNION {[1 .. l -> chars] : l \in 0 .. n}

a == 97

\* Every spelling, for what depends on names,
AllPartitions == Strings({Slash, a}, 2)
AllNamespaces == {<<>>, <<a>>, <<Slash, a>>, <<a, Slash>>}
\* and a few, for what becomes of them.
FewPartitions == {<<>>, <<a, Slash>>}
FewNamespaces == {<<>>, <<Slash, a>>}
\* "", "/", "a", "/a", "a/", "//" and "@a".
MCTopics == Strings({Slash}, 2) \cup {<<a>>, <<Slash, a>>, <<a, Slash>>, <<At, a>>}

\* Where every spelling is tried, topics for everybody only, one at a time.
Few ==
    \/ {node, peer} \subseteq
          {Constructed(p, n) : p \in FewPartitions, n \in FewNamespaces}
    \/ /\ own["srv"] = {} /\ advertised["srv"] = {}
       /\ Cardinality(own["msg"]) <= 1
       /\ \A e \in own["msg"] : e.scope = All

\* Strings of different lengths.
MCPUuid == <<1>>
MCNUuid == <<2, 3>>
MCAddr == <<4, 5, 6>>
MCCtrl == <<7, 8, 9, 10>>
=============================================================================
