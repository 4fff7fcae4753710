----------------------------- MODULE MCMessages -----------------------------
(* Messages for TLC. *)
EXTENDS Messages, TLC

CONSTANTS p1, p2, n1, n2, n3, a, b

\* p1 has the nodes n1 and n2, p2 has n3.
MCOwnerOf == [n \in Nodes |-> IF n = n3 THEN p2 ELSE p1]

\* The name of topic a is a prefix of b's.
MCPrefixOf == [t \in Topics |-> IF t = b THEN {a, b} \cap Topics ELSE {t}]

MCHosts == {"h"}
MCHostOf == [p \in Procs |-> "h"]
=============================================================================
