---------------------------- MODULE MCDiscovery ----------------------------
(* Discovery for TLC: which process runs where, which node lives where. *)
EXTENDS Discovery, TLC

CONSTANTS p1, p2, p3, h1, h2, n1, n2

MCHosts == {h1, h2}

\* p1 and p2 share a host, p3 is on another one; both nodes are p1's.
MCHostOf == [p \in Procs |-> IF p = p3 THEN h2 ELSE h1]
MCOwnerOf == [n \in Nodes |-> p1]

\* Topics of every scope, services of scope All.
MCAdvertised == {i \in Kinds \X Scopes : i[1] = "msg" \/ i[2] = "All"}

\* p1 only offers, the others only ask.
MCInterests == [p \in Procs |-> IF p = p1 THEN {} ELSE Kinds \X Topics]

MCNoInterests == [p \in Procs |-> {}]
=============================================================================
