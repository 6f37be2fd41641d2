-------------------------- MODULE MCTournamentStore --------------------------
(* Instances of TournamentStore for TLC. *)
EXTENDS TournamentStore
=============================================================================
