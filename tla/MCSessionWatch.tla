--------------------------- MODULE MCSessionWatch ---------------------------
(* An instance of SessionWatch for TLC. *)
EXTENDS SessionWatch, TLC

Symmetry == Permutations(Writers) \cup Permutations(Watchers)
=============================================================================
