-------------------------- MODULE SessionInvariant --------------------------
(***************************************************************************)
(* The inductive invariant of SessionStore: what a transaction holds at    *)
(* each of its steps, that locks exclude, and what was checked under them. *)
(* SessionStoreProofs proves it; the runs check what follows from it.      *)
(***************************************************************************)
EXTENDS SessionStore

\* A request that is under way passed its handler's checks.
Accepted(c) == tx[c].pc # "idle" => tx[c].req.op # "none" /\ Acceptable(tx[c].req)

\* The locks a writer holds.  A Save that creates the session has no row to
\* lock; its advisory lock stands in for it.
HoldsLocks(c) ==
  /\ GameWriter(c) => tx[c].req.game \in tx[c].games
  /\ tx[c].lock => tx[c].pc = "commit"
  /\ GameWriter(c) /\ tx[c].lock => tx[c].row = "noKeyUpdate"
  /\ SessionWriter(c) /\ tx[c].seen # "none" => tx[c].row = "update"
  /\ SessionWriter(c) /\ tx[c].seen = "none" => tx[c].req.op \in SaveOps
  /\ SessionWriter(c) /\ tx[c].req.op \in SaveOps => tx[c].adv = "publish_session"

\* At its commit an operation holds every game row it is about to write.
HoldsRows(c) ==
  SessionWriter(c) /\ tx[c].pc = "commit" =>
    /\ tx[c].req.op \in SaveOps \cup {"delete"} => RowsLeft(c) = {}
    /\ tx[c].req.op \in SwapOps => {tx[c].req.game, tx[c].req.other} \subseteq tx[c].games

\* The inputs that were validated under the locks are still those.
Validated(c) ==
  /\ GameWriter(c) => Present(games[tx[c].req.game])
  /\ GameWriter(c) /\ tx[c].req.op = "skip" => tx[c].req.refs \subseteq Players
  /\ SessionWriter(c) /\ tx[c].req.op \in SaveOps => ValidSnapshot(tx[c].body)
  /\ SessionWriter(c) /\ tx[c].req.op = "absent" => tx[c].req.refs \subseteq Players
  /\ SessionWriter(c) /\ tx[c].pc = "commit" /\ tx[c].req.op \in SwapOps =>
       CanSwap(games, tx[c].req)

\* What one transaction relies on.
Local(c) ==
  Accepted(c) /\ HoldsLocks(c) /\ HoldsRows(c) /\ Validated(c) /\ GameCheck(c) /\ SessionCheck(c)

\* Locks of two transactions do not conflict.
Compatible(t, u) ==
  /\ ~Conflict(t.row, u.row)
  /\ t.games \cap u.games = {}
  /\ t.adv # "none" => t.adv # u.adv

LocksExclude == \A c, d \in Clients : c # d => Compatible(tx[c], tx[d])

\* A transaction is accepted, holds its locks against everybody else, and
\* what it checked under them is still so at its commit.
Inv == LocksExclude /\ \A c \in Clients : Local(c)
=============================================================================
