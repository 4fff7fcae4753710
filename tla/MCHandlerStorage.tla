-------------------------- MODULE MCHandlerStorage --------------------------
(* HandlerStorage for TLC. *)
EXTENDS HandlerStorage, TLC

Symmetry == Permutations(Topics) \cup Permutations(Objects)
=============================================================================
