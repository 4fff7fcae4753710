----------------------------- MODULE MCServices -----------------------------
(* Services for TLC. *)
EXTENDS Services, TLC

CONSTANTS p1, p2, n1, n2, r1, r2, r3, a, b

\* p2 comes before p1 in the order of the UUIDs.  n1 lives in p1, n2 in p2.
MCRank == [p \in Procs |-> IF p = p1 THEN 1 ELSE 0]
MCOwnerOf == [n \in Nodes |-> IF n = n1 THEN p1 ELSE p2]
MCHosts == {"h"}
MCHostOf == [p \in Procs |-> "h"]

\* p2 makes all the requests, the last one for the second service.
MCCallerOf == [r \in Reqs |-> p2]
MCTopicOf == [r \in Reqs |-> IF r = r3 THEN b ELSE a]
=============================================================================
