--------------------------- MODULE MCRatingLedger ---------------------------
(* Instances of RatingLedger for TLC. *)
EXTENDS RatingLedger, TLC

\* Sources 1 and 2 share a player; the players of 3 are new when it comes.
MCSides ==
  (1 :> [a |-> {"p1"}, b |-> {"p2"}]) @@ (2 :> [a |-> {"p2"}, b |-> {"p3"}])
    @@ (3 :> [a |-> {"p4"}, b |-> {"p5"}])

\* In source 1 a placeholder plays with p2.
MCPlaceholders == <<[a |-> 0, b |-> 1], [a |-> 0, b |-> 0], [a |-> 0, b |-> 0]>>

\* Source 2 is a tournament.  Sessions 1 and 3 are locked with their scores; or
\* 1 was locked without one and 3 is still a draft.
Locked(v) == [there |-> TRUE, ver |-> v, final |-> TRUE]
Draft(v) == [Locked(v) EXCEPT !.final = FALSE]
MCFirstSources == {<<Locked(1), Draft(1), Locked(1)>>, <<Locked(0), Draft(0), Draft(1)>>}

R(kind, s) == [kind |-> kind, src |-> s]

MCRequests == {R("ingest", 2), R("revert", 1), R("delete", 1), R("season", 2)}

MCPromotions == {<<"p1", "B">>}
=============================================================================
