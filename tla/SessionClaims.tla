---------------------------- MODULE SessionClaims ----------------------------
(***************************************************************************)
(* What comments of the handlers and the store say of the live session,    *)
(* for a sentence the write paths do not keep.  It is checked by a run of  *)
(* its own that shows how.                                                 *)
(***************************************************************************)
EXTENDS SessionInvariant

\* The commit of a PATCH or a lock request, whose snapshot is not the client's.
MutateCommits(c) == At(c, {"patch", "lock"}, "commit") /\ tx'[c].pc = "respond"

\* handler/session.go:454 "If-Match WAJIB untuk semua mutasi (cegah
\* lost-update antar request)": a PATCH of the metadata, or a lock, that
\* passed its If-Match leaves every score another request committed.
MutateKeepsScores ==
  [][\A c \in Clients : MutateCommits(c) => \A g \in Games : games'[g].score = games[g].score]_vars

==============================================================================
