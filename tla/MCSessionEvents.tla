--------------------------- MODULE MCSessionEvents ---------------------------
(* An instance of SessionEvents for TLC. *)
EXTENDS SessionEvents, TLC

Symmetry == Permutations(Writers) \cup Permutations(Games)
=============================================================================
