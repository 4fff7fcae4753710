------------------------------ MODULE MCPubSub ------------------------------
(* PubSub for TLC. *)
EXTENDS PubSub, TLC

CONSTANTS p1, p2, n1, n2, n3, n4

\* p1 has the nodes n1 and n2, which publish, p2 the nodes n3 and n4, which
\* subscribe; n3 may do both.
MCOwnerOf == [n \in Nodes |-> IF n \in {n1, n2} THEN p1 ELSE p2]

\* Nodes of p1 that only publish are interchangeable.
Symmetry == Permutations({n1, n2})

MCHosts == {"h"}
MCHostOf == [p \in Procs |-> "h"]
=============================================================================
