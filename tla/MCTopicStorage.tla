--------------------------- MODULE MCTopicStorage ---------------------------
(* TopicStorage for TLC. *)
EXTENDS TopicStorage, TLC

Symmetry == Permutations(Procs) \cup Permutations(Addrs) \cup Permutations(Nodes)
=============================================================================
