------------------------ MODULE SessionRefinementProofs ------------------------
(***************************************************************************)
(* For any number of clients, games, players and requests: SessionStore    *)
(* implements SessionAtomic, and what the committed rows of a session and  *)
(* its events are always like.  Beside the invariant of SessionStoreProofs *)
(* the argument needs what the transactions decided before their commits:  *)
(* that the session was a draft, that a game would change, that a lock     *)
(* request locks; and that what was validated under the locks (a publish's *)
(* snapshot, a swap, the version of a game) still is when it is written.   *)
(***************************************************************************)
EXTENDS SessionRefinement, SessionStoreProofs

\* A request some client sent.
Sent(c) == tx[c].pc # "idle" => tx[c].req \in Requests

\* What status an operation on the session's row has found.
Found(c) ==
  SessionWriter(c) =>
    /\ tx[c].req.op \in SaveOps => tx[c].seen \in {"none", "draft"}
    /\ tx[c].req.op \in SwapOps \cup {"absent", "delete"} => tx[c].seen = "draft"
    /\ tx[c].req.op = "unlock" => tx[c].seen # "none"

\* A lock request locks.
Locking(c) ==
  tx[c].req.op = "lock" =>
    /\ tx[c].pc \in {"begin", "rows"} => tx[c].body.locked
    /\ tx[c].pc = "commit" => tx[c].lock

\* A game operation changes its row, has its event past InsertOutbox, and an
\* auto-lock finds a draft.
Changing(c) ==
  GameWriter(c) =>
    /\ ~GameNoop(games[tx[c].req.game], tx[c].req)
    /\ tx[c].pc # "outbox" => tx[c].told
    /\ tx[c].lock => tx[c].req.op = "score" /\ status = "draft"

Decided(c) == Sent(c) /\ Found(c) /\ Locking(c) /\ Changing(c)

Decisions == \A c \in Clients : Decided(c)

Writing == {"games", "rows", "commit", "outbox", "count", "autolock"}

-----------------------------------------------------------------------------
(* Steps that change no table of the session *)

\* A transaction nobody touches keeps what it decided.
LEMMA DecidedKept ==
  ASSUME Decisions, UNCHANGED <<status, games>>, NEW c \in Clients,
         \A d \in Clients \ {c} : tx'[d] = tx[d], Decided(c)'
  PROVE  Decisions'
<1>1. ASSUME NEW d \in Clients \ {c} PROVE Decided(d)'
  BY DEF Decisions, Decided, Sent, Found, Locking, Changing, GameWriter, SessionWriter
<1> QED
  BY <1>1 DEF Decisions

\* A request before its check, or after its commit, has nothing to decide.
LEMMA DecidedOutside ==
  ASSUME NEW c \in Clients, tx'[c].pc \notin Writing, tx'[c].pc # "idle" => tx'[c].req \in Requests,
         tx'[c].req.op = "lock" /\ tx'[c].pc = "begin" => tx'[c].body.locked
  PROVE  Decided(c)'
BY DEF Decided, Sent, Found, Locking, Changing, GameWriter, SessionWriter, Writing

LEMMA DecidedAtEnd ==
  ASSUME TypeOK, Decisions, UNCHANGED <<status, games>>, NEW c \in Clients, Finish(c)
  PROVE  Decisions'
<1>1. tx'[c].pc = "idle" /\ \A d \in Clients \ {c} : tx'[d] = tx[d]
  BY DEF TypeOK, Finish, IdleTx
<1>2. Decided(c)'
  BY <1>1, DecidedOutside DEF Writing
<1> QED
  BY <1>1, <1>2, DecidedKept

-----------------------------------------------------------------------------
(* Commits *)

\* A commit of one operation keeps what the others decided: they hold other
\* games, and one of them that locks has the session's row.
LEMMA DecidedByOthers ==
  ASSUME TypeOK, Inv, Decisions, NEW c \in Clients,
         tx'[c].pc \in {"idle", "respond"}, tx'[c].pc = "respond" => tx'[c].req = tx[c].req, tx[c].pc # "idle",
         \A d \in Clients \ {c} : tx'[d] = tx[d],
         \A d \in Clients \ {c} : GameWriter(d) =>
           /\ games'[tx[d].req.game] = games[tx[d].req.game]
           /\ tx[d].lock => status' = status
  PROVE  Decisions'
<1>1. Decided(c)'
  BY DecidedOutside DEF Decisions, Decided, Sent, Writing
<1>2. ASSUME NEW d \in Clients \ {c} PROVE Decided(d)'
  BY DEF Decisions, Decided, Sent, Found, Locking, Changing, GameWriter, SessionWriter
<1> QED
  BY <1>1, <1>2 DEF Decisions

\* A game operation that locks keeps every operation on the session's row out.
LEMMA LockersExclude ==
  ASSUME TypeOK, Inv, NEW c \in Clients, NEW d \in Clients, c # d, GameWriter(d), tx[d].lock
  PROVE  /\ ~SessionWriter(c)
         /\ GameWriter(c) => ~tx[c].lock
<1>1. tx[d].row = "noKeyUpdate" /\ status # "none" /\ Compatible(tx[c], tx[d])
  BY DEF Inv, Local, HoldsLocks, LocksExclude, GameCheck, SameSession
<1>2. ~SessionWriter(c)
  BY <1>1 DEF Inv, Local, HoldsLocks, SessionCheck, Compatible, Conflict
<1>3. GameWriter(c) => ~tx[c].lock
  BY <1>1 DEF Inv, Local, HoldsLocks, Compatible, Conflict
<1> QED
  BY <1>2, <1>3

\* When a publish or a delete commits, no game operation is past its check.
LEMMA NoGameWriter ==
  ASSUME TypeOK, Inv, NEW c \in Clients, NEW d \in Clients, c # d,
         At(c, SaveOps \cup {"delete"}, "commit")
  PROVE  ~GameWriter(d)
<1> SUFFICES ASSUME GameWriter(d) PROVE FALSE
  OBVIOUS
<1>1. RowsLeft(c) = {}
  BY DEF Inv, Local, HoldsRows, SessionWriter, SessionOps, At
<1>2. status # "none" /\ Present(games[tx[d].req.game]) /\ tx[d].req.game \in tx[d].games
  BY DEF Inv, Local, GameCheck, SameSession, Validated, HoldsLocks
<1>3. tx[d].req.game \in Games
  BY DEF TypeOK, Tx, RequestType
<1>4. tx[d].req.game \in tx[c].games
  BY <1>1, <1>2, <1>3 DEF RowsLeft
<1> QED
  BY <1>2, <1>4 DEF Inv, LocksExclude, Compatible

LEMMA DecidedGameCommit ==
  ASSUME TypeOK, Inv, Decisions, NEW c \in Clients, CommitGame(c)
  PROVE  Decisions'
<1>1. Committed(c) /\ GameWriter(c) /\ tx[c].pc # "idle"
  BY DEF CommitGame, At, GameWriter
<1>2. ASSUME NEW d \in Clients \ {c}, GameWriter(d)
      PROVE  games'[tx[d].req.game] = games[tx[d].req.game] /\ (tx[d].lock => status' = status)
  <2>1. tx[d].req.game # tx[c].req.game /\ tx[d].req.game \in Games
    BY <1>1, <1>2, OneGameWriter DEF TypeOK, Tx, RequestType
  <2>2. tx[d].lock => ~tx[c].lock
    BY <1>1, <1>2, LockersExclude
  <2> QED
    BY <2>1, <2>2 DEF CommitGame, TypeOK
<1> QED
  BY <1>1, <1>2, CommittedFields, DecidedByOthers

LEMMA DecidedSessionCommit ==
  ASSUME TypeOK, Inv, Decisions, NEW c \in Clients,
         CommitSave(c) \/ CommitDelete(c) \/ CommitUnlock(c) \/ CommitAbsent(c) \/ CommitSwap(c)
  PROVE  Decisions'
<1>1. SessionWriter(c) /\ tx[c].pc # "idle"
  BY DEF CommitSave, CommitDelete, CommitUnlock, CommitAbsent, CommitSwap, At, SessionWriter, SessionOps
<1>2. /\ tx'[c].pc \in {"idle", "respond"} /\ (tx'[c].pc = "respond" => tx'[c].req = tx[c].req)
      /\ \A d \in Clients \ {c} : tx'[d] = tx[d]
  <2>1. CASE Finish(c)
    BY <2>1 DEF TypeOK, Finish, IdleTx
  <2>2. CASE Committed(c)
    BY <2>2, CommittedFields
  <2> QED
    BY <2>1, <2>2 DEF CommitSave, CommitDelete, CommitUnlock, CommitAbsent, CommitSwap
<1>3. ASSUME NEW d \in Clients \ {c}, GameWriter(d)
      PROVE  games'[tx[d].req.game] = games[tx[d].req.game] /\ ~tx[d].lock
  <2>1. ~tx[d].lock
    BY <1>1, <1>3, LockersExclude
  <2>2. CASE CommitSave(c) \/ CommitDelete(c)
    BY <1>3, <2>2, NoGameWriter DEF CommitSave, CommitDelete, At
  <2>3. CASE CommitUnlock(c) \/ CommitAbsent(c)
    BY <2>1, <2>3 DEF CommitUnlock, CommitAbsent
  <2>4. CASE CommitSwap(c)
    <3>1. {tx[c].req.game, tx[c].req.other} \subseteq tx[c].games /\ tx[c].req.op \in SwapOps
      BY <1>1, <2>4 DEF CommitSwap, At, Inv, Local, HoldsRows
    <3>2. tx[d].req.game \notin {tx[c].req.game, tx[c].req.other}
      BY <1>3, <3>1 DEF Inv, Local, HoldsLocks, LocksExclude, Compatible
    <3>3. tx[d].req.game \in Games /\ tx[c].req \in RequestType /\ games \in [Games -> Row]
      BY DEF TypeOK, Tx, RequestType
    <3> QED
      BY <2>1, <2>4, <3>1, <3>2, <3>3, SwapKeepsOthers DEF CommitSwap
  <2> QED
    BY <2>2, <2>3, <2>4
<1> QED
  BY <1>1, <1>2, <1>3, DecidedByOthers

-----------------------------------------------------------------------------
(* Every step keeps the decisions *)

LEMMA DecisionsStep ==
  ASSUME TypeOK, Inv, Decisions, [Next]_vars
  PROVE  Decisions'
<1> DEFINE Rest(c) == \A d \in Clients \ {c} : tx'[d] = tx[d]
<1>a. ASSUME NEW c \in Clients PROVE tx \in [Clients -> Tx] /\ tx[c] \in Tx
  BY DEF TypeOK
<1>b. ASSUME UNCHANGED <<status, games, tx>> PROVE Decisions'
  BY <1>b DEF Decisions, Decided, Sent, Found, Locking, Changing, GameWriter, SessionWriter
<1>c. ASSUME NEW c \in Clients, UNCHANGED <<status, games>>, Finish(c) PROVE Decisions'
  BY <1>c, DecidedAtEnd
\* A request that goes on, outside its transaction's writing steps.
<1>d. ASSUME NEW c \in Clients, UNCHANGED <<status, games>>, Rest(c), tx'[c].pc \notin Writing,
             tx[c].pc # "idle", tx'[c].req = tx[c].req,
             tx'[c].req.op = "lock" /\ tx'[c].pc = "begin" => tx'[c].body.locked
      PROVE  Decisions'
  BY <1>d, DecidedOutside, DecidedKept DEF Decisions, Decided, Sent
<1>0. CASE UNCHANGED vars
  BY <1>0, <1>b DEF vars
<1>1. ASSUME NEW c \in Clients, Get(c) PROVE Decisions'
  BY <1>1, <1>b DEF Get, db
<1>2. ASSUME NEW c \in Clients, NEW r \in Requests, Issue(c, r) PROVE Decisions'
  <2>1. /\ Rest(c) /\ UNCHANGED <<status, games>>
        /\ tx'[c].req = r /\ tx'[c].pc = IF r.op \in SaveOps THEN "load" ELSE "begin"
    BY <1>2, <1>a, IdleType DEF Issue, Tx, IdleTx, db
  <2>2. Decided(c)'
    BY <2>1, DecidedOutside DEF Writing, SaveOps
  <2> QED
    BY <2>1, <2>2, DecidedKept
<1>3. ASSUME NEW c \in Clients, NEW r \in Requests, IssueCached(c, r) PROVE Decisions'
  BY <1>3, <1>b DEF IssueCached, db
<1>4. ASSUME NEW c \in Clients, PutLoad(c) PROVE Decisions'
  <2>1. CASE Finish(c)
    BY <1>4, <2>1, <1>c DEF PutLoad, db
  <2>2. CASE tx' = [tx EXCEPT ![c].pc = "begin", ![c].body = PutBody(c, tx[c].req)]
    <3>1. /\ Rest(c) /\ UNCHANGED <<status, games>> /\ tx'[c].pc = "begin" /\ tx[c].pc = "load"
          /\ tx'[c].req = tx[c].req /\ tx[c].req.op # "lock"
      BY <1>4, <2>2, <1>a DEF PutLoad, At, PutOps, Tx, db
    <3> QED
      BY <3>1, <1>d DEF Writing
  <2> QED
    BY <1>4, <2>1, <2>2 DEF PutLoad
<1>5. ASSUME NEW c \in Clients, MutateLoad(c) PROVE Decisions'
  <2>1. CASE Finish(c)
    BY <1>5, <2>1, <1>c DEF MutateLoad, db
  <2>2. ASSUME NEW b, tx' = [tx EXCEPT ![c].pc = "begin", ![c].body = b],
               tx[c].req.op = "lock" => b.locked
        PROVE  Decisions'
    <3>1. /\ Rest(c) /\ UNCHANGED <<status, games>> /\ tx'[c].pc = "begin" /\ tx[c].pc = "load"
          /\ tx'[c].req = tx[c].req /\ tx'[c].body = b
      BY <1>5, <2>2, <1>a DEF MutateLoad, At, Tx, db
    <3> QED
      BY <2>2, <3>1, <1>d DEF Writing
  <2>3. [LoadSnap EXCEPT !.locked = TRUE].locked
    BY DEF LoadSnap
  <2> QED
    BY <1>5, <2>1, <2>2, <2>3 DEF MutateLoad
<1>6. ASSUME NEW c \in Clients, ReadStatus(c) PROVE Decisions'
  <2>1. CASE Finish(c)
    BY <1>6, <2>1, <1>c DEF ReadStatus, db
  <2>2. ASSUME NEW p \in {"idem", "game"},
               tx' = [tx EXCEPT ![c].pc = p, ![c].sid = uuid, ![c].seen = status]
        PROVE  Decisions'
    <3>1. /\ Rest(c) /\ UNCHANGED <<status, games>> /\ tx'[c].pc = p /\ tx[c].pc = "begin"
          /\ tx'[c].req = tx[c].req
      BY <1>6, <2>2, <1>a DEF ReadStatus, At, Tx, db
    <3> QED
      BY <3>1, <1>d DEF Writing
  <2> QED
    BY <1>6, <2>1, <2>2 DEF ReadStatus
<1>7. ASSUME NEW c \in Clients, CheckIdempotency(c) PROVE Decisions'
  <2>1. CASE Finish(c)
    BY <1>7, <2>1, <1>c DEF CheckIdempotency, db
  <2>2. CASE tx' = [tx EXCEPT ![c].pc = "game"]
    <3>1. /\ Rest(c) /\ UNCHANGED <<status, games>> /\ tx'[c].pc = "game" /\ tx[c].pc = "idem"
          /\ tx'[c].req = tx[c].req
      BY <1>7, <2>2, <1>a DEF CheckIdempotency, At, Tx, db
    <3> QED
      BY <3>1, <1>d DEF Writing
  <2> QED
    BY <1>7, <2>1, <2>2 DEF CheckIdempotency
<1>8. ASSUME NEW c \in Clients, LockGame(c) PROVE Decisions'
  <2>1. CASE Finish(c)
    BY <1>8, <2>1, <1>c DEF LockGame, db
  <2>2. CASE /\ ~GameNoop(games[tx[c].req.game], tx[c].req)
             /\ tx' = [tx EXCEPT ![c].pc = "outbox", ![c].games = {tx[c].req.game}]
    <3>1. /\ Rest(c) /\ UNCHANGED <<status, games>> /\ tx'[c].pc = "outbox" /\ tx[c].pc = "game"
          /\ tx'[c].req = tx[c].req /\ tx'[c].lock = tx[c].lock
      BY <1>8, <2>2, <1>a DEF LockGame, At, Tx, db
    <3>2. ~tx'[c].lock
      BY <3>1 DEF Inv, Local, HoldsLocks
    <3>3. Decided(c)'
      BY <2>2, <3>1, <3>2 DEF Decisions, Decided, Sent, Found, Locking, Changing, SessionWriter
    <3> QED
      BY <3>1, <3>3, DecidedKept
  <2> QED
    BY <1>8, <2>1, <2>2 DEF LockGame
\* A game operation that goes on to its commit.
<1>e. ASSUME NEW c \in Clients, UNCHANGED <<status, games>>, Rest(c), GameWriter(c),
             tx'[c].req = tx[c].req, tx'[c].lock => tx[c].req.op = "score" /\ status = "draft",
             tx'[c].pc \in {"count", "autolock", "commit"}, tx'[c].told
      PROVE  Decisions'
  <2>1. tx[c].req.op \notin SessionOps /\ tx[c].req.op # "lock" /\ tx[c].pc # "idle"
    BY <1>e DEF GameWriter, GameOps, SessionOps, SwapOps, SaveOps, PutOps
  <2>2. Decided(c)'
    BY <1>e, <2>1 DEF Decisions, Decided, Sent, Found, Locking, Changing, SessionWriter, GameWriter
  <2> QED
    BY <1>e, <2>2, DecidedKept
<1>9. ASSUME NEW c \in Clients, InsertOutbox(c) PROVE Decisions'
  <2>1. /\ Rest(c) /\ UNCHANGED <<status, games>> /\ tx'[c].pc \in {"count", "commit"} /\ tx[c].pc = "outbox"
        /\ tx'[c].req = tx[c].req /\ tx'[c].lock = tx[c].lock /\ tx'[c].told /\ GameWriter(c)
    BY <1>9, <1>a DEF InsertOutbox, AfterOutbox, At, Tx, db, GameWriter
  <2>2. ~tx[c].lock
    BY <2>1 DEF Inv, Local, HoldsLocks
  <2> QED
    BY <2>1, <2>2, <1>e
<1>10. ASSUME NEW c \in Clients, CountScored(c) PROVE Decisions'
  <2>1. /\ Rest(c) /\ UNCHANGED <<status, games>> /\ tx'[c].pc \in {"autolock", "commit"} /\ tx[c].pc = "count"
        /\ tx'[c].req = tx[c].req /\ tx'[c].lock = tx[c].lock /\ tx'[c].told = tx[c].told
        /\ GameWriter(c)
    BY <1>10, <1>a DEF CountScored, At, Tx, db, GameWriter, GameOps
  <2>2. ~tx[c].lock /\ tx[c].told
    BY <2>1 DEF Inv, Local, HoldsLocks, Decisions, Decided, Changing
  <2> QED
    BY <2>1, <2>2, <1>e
<1>11. ASSUME NEW c \in Clients, AutoLock(c) PROVE Decisions'
  <2>1. /\ Rest(c) /\ UNCHANGED <<status, games>> /\ tx'[c].pc = "commit" /\ tx[c].pc = "autolock"
        /\ tx'[c].req = tx[c].req /\ GameWriter(c) /\ tx[c].req.op = "score"
        /\ tx'[c].lock = tx[c].lock \/ status = "draft"
        /\ tx'[c].told = tx[c].told
    BY <1>11, <1>a DEF AutoLock, At, Tx, db, GameWriter, GameOps
  <2>2. ~tx[c].lock /\ tx[c].told
    BY <2>1 DEF Inv, Local, HoldsLocks, Decisions, Decided, Changing
  <2> QED
    BY <2>1, <2>2, <1>e
<1>12. ASSUME NEW c \in Clients, CommitGame(c) PROVE Decisions'
  BY <1>12, DecidedGameCommit
<1>13. ASSUME NEW c \in Clients,
              CommitSave(c) \/ CommitDelete(c) \/ CommitUnlock(c) \/ CommitAbsent(c) \/ CommitSwap(c)
       PROVE  Decisions'
  BY <1>13, DecidedSessionCommit
\* An operation on the session's row, past its check.
<1>f. ASSUME NEW c \in Clients, UNCHANGED <<status, games>>, Rest(c), tx[c].pc # "idle",
             tx[c].req.op \in SessionOps, tx'[c].req = tx[c].req, Found(c)', Locking(c)'
      PROVE  Decisions'
  <2>1. tx[c].req.op \notin GameOps
    BY <1>f DEF GameOps, SessionOps, SwapOps, SaveOps, PutOps
  <2>2. Decided(c)'
    BY <1>f, <2>1 DEF Decisions, Decided, Sent, Changing, GameWriter
  <2> QED
    BY <1>f, <2>2, DecidedKept
<1>14. ASSUME NEW c \in Clients, SaveBegin(c) PROVE Decisions'
  <2>1. CASE Finish(c)
    BY <1>14, <2>1, <1>c DEF SaveBegin, db
  <2>2. CASE ~Finish(c)
    <3>1. /\ Rest(c) /\ UNCHANGED <<status, games>> /\ tx'[c].pc = "rows" /\ tx[c].pc = "begin"
          /\ tx'[c].req = tx[c].req /\ tx'[c].body = tx[c].body /\ tx'[c].seen = status
          /\ tx[c].req.op \in SaveOps /\ status \in {"none", "draft"}
      BY <1>14, <2>2, <1>a DEF SaveBegin, SaveAllowed, At, Tx, db
    <3>2. Found(c)' /\ Locking(c)'
      BY <3>1 DEF Found, Locking, Decisions, Decided, SaveOps, PutOps, SwapOps
    <3> QED
      BY <3>1, <3>2, <1>f DEF SessionOps
  <2> QED
    BY <2>1, <2>2
<1>15. ASSUME NEW c \in Clients, DeleteBegin(c) PROVE Decisions'
  <2>1. CASE Finish(c)
    BY <1>15, <2>1, <1>c DEF DeleteBegin, db
  <2>2. CASE ~Finish(c)
    <3>1. /\ Rest(c) /\ UNCHANGED <<status, games>> /\ tx'[c].pc = "rows" /\ tx[c].pc = "begin"
          /\ tx'[c].req = tx[c].req /\ tx'[c].seen = "draft" /\ tx[c].req.op = "delete"
      BY <1>15, <2>2, <1>a DEF DeleteBegin, At, Tx, db
    <3>2. Found(c)' /\ Locking(c)'
      BY <3>1 DEF Found, Locking
    <3> QED
      BY <3>1, <3>2, <1>f DEF SessionOps
  <2> QED
    BY <2>1, <2>2
<1>16. ASSUME NEW c \in Clients, NEW g \in Games, DeleteRow(c, g) PROVE Decisions'
  <2>1. /\ Rest(c) /\ UNCHANGED <<status, games>> /\ tx'[c].pc = "rows" /\ tx[c].pc = "rows"
        /\ tx'[c].req = tx[c].req /\ tx'[c].body = tx[c].body /\ tx'[c].seen = tx[c].seen
        /\ tx[c].req.op \in SaveOps \cup {"delete"}
    BY <1>16, <1>a DEF DeleteRow, At, Tx, db
  <2>2. Found(c)' /\ Locking(c)'
    BY <2>1 DEF Decisions, Decided, Found, Locking, SessionWriter
  <2> QED
    BY <2>1, <2>2, <1>f DEF SessionOps
<1>17. ASSUME NEW c \in Clients, RowsDeleted(c) PROVE Decisions'
  <2>1. /\ Rest(c) /\ UNCHANGED <<status, games>> /\ tx'[c].pc = "commit" /\ tx[c].pc = "rows"
        /\ tx'[c].req = tx[c].req /\ tx'[c].seen = tx[c].seen
        /\ tx'[c].lock = (tx[c].req.op \in SaveOps /\ SaveLocks(c))
        /\ tx[c].req.op \in SaveOps \cup {"delete"}
    BY <1>17, <1>a DEF RowsDeleted, At, Tx, db
  <2>2. Found(c)' /\ Locking(c)'
    BY <2>1 DEF Decisions, Decided, Found, Locking, SessionWriter, SaveLocks, SaveOps
  <2> QED
    BY <2>1, <2>2, <1>f DEF SessionOps
<1>18. ASSUME NEW c \in Clients, UnlockBegin(c) PROVE Decisions'
  <2>1. CASE Finish(c)
    BY <1>18, <2>1, <1>c DEF UnlockBegin, db
  <2>2. CASE ~Finish(c)
    <3>1. /\ Rest(c) /\ UNCHANGED <<status, games>> /\ tx'[c].pc = "commit" /\ tx[c].pc = "begin"
          /\ tx'[c].req = tx[c].req /\ tx'[c].seen = status /\ status # "none" /\ tx[c].req.op = "unlock"
      BY <1>18, <2>2, <1>a DEF UnlockBegin, At, Tx, db
    <3>2. Found(c)' /\ Locking(c)'
      BY <3>1 DEF Found, Locking, SaveOps, PutOps, SwapOps
    <3> QED
      BY <3>1, <3>2, <1>f DEF SessionOps
  <2> QED
    BY <2>1, <2>2
<1>19. ASSUME NEW c \in Clients, GranularBegin(c) PROVE Decisions'
  <2>1. CASE Finish(c)
    BY <1>19, <2>1, <1>c DEF GranularBegin, db
  <2>2. CASE ~Finish(c)
    <3>1. /\ Rest(c) /\ UNCHANGED <<status, games>> /\ tx[c].pc = "begin"
          /\ tx'[c].req = tx[c].req /\ tx'[c].seen = "draft" /\ tx[c].req.op \in SwapOps \cup {"absent"}
      BY <1>19, <2>2, <1>a DEF GranularBegin, GranularAllowed, At, Tx, db
    <3>2. Found(c)' /\ Locking(c)'
      BY <3>1 DEF Found, Locking, SwapOps
    <3> QED
      BY <3>1, <3>2, <1>f DEF SessionOps
  <2> QED
    BY <2>1, <2>2
<1>20. ASSUME NEW c \in Clients, LockTwoGames(c) PROVE Decisions'
  <2>1. CASE Finish(c)
    BY <1>20, <2>1, <1>c DEF LockTwoGames, db
  <2>2. CASE ~Finish(c)
    <3>1. /\ Rest(c) /\ UNCHANGED <<status, games>> /\ tx[c].pc = "games"
          /\ tx'[c].req = tx[c].req /\ tx'[c].seen = tx[c].seen /\ tx[c].req.op \in SwapOps
      BY <1>20, <2>2, <1>a DEF LockTwoGames, At, Tx, db
    <3>2. Found(c)' /\ Locking(c)'
      BY <3>1 DEF Decisions, Decided, Found, Locking, SwapOps, SessionWriter, SessionOps
    <3> QED
      BY <3>1, <3>2, <1>f DEF SessionOps
  <2> QED
    BY <2>1, <2>2
<1>21. ASSUME NEW c \in Clients, Respond(c) PROVE Decisions'
  <2>1. CASE Finish(c)
    BY <1>21, <2>1, <1>c DEF Respond, db
  <2>2. CASE tx' = [tx EXCEPT ![c].pc = "saveIdem", ![c].body = LoadSnap]
    <3>1. /\ Rest(c) /\ UNCHANGED <<status, games>> /\ tx'[c].pc = "saveIdem" /\ tx[c].pc = "respond"
          /\ tx'[c].req = tx[c].req
      BY <1>21, <2>2, <1>a DEF Respond, Tx, db
    <3> QED
      BY <3>1, <1>d DEF Writing
  <2> QED
    BY <1>21, <2>1, <2>2 DEF Respond
<1>22. ASSUME NEW c \in Clients, SaveIdempotency(c) PROVE Decisions'
  BY <1>22, <1>c DEF SaveIdempotency
\* A request whose statement fails.
<1>g. ASSUME NEW c \in Clients, UNCHANGED <<status, games>>, tx[c].pc # "idle", Break(c) PROVE Decisions'
  <2>1. Rest(c) /\ tx'[c].pc = "broken" /\ tx'[c].req = tx[c].req
    BY <1>g, <1>a DEF Break, IdleTx
  <2> QED
    BY <1>g, <2>1, <1>d DEF Writing
<1>23. ASSUME NEW c \in Clients, DeadlockAbort(c) PROVE Decisions'
  <2>1. AtOutbox(c) => tx[c].pc # "idle"
    BY DEF AtOutbox, At
  <2> QED
    BY <1>23, <2>1, <1>c, <1>g DEF DeadlockAbort, db
<1>27. ASSUME NEW c \in Clients, OutboxFails(c) PROVE Decisions'
  BY <1>27, <1>g DEF OutboxFails, AtOutbox, At, db
<1>28. ASSUME NEW c \in Clients, BrokenGoesOn(c) PROVE Decisions'
  BY <1>28, <1>c DEF BrokenGoesOn, db
<1>24. CASE DayPasses
  BY <1>24, <1>b DEF DayPasses, db
<1>25. ASSUME NEW k \in Keys, CacheEvict(k) PROVE Decisions'
  BY <1>25, <1>b DEF CacheEvict, db
<1>26. CASE Restart
  <2>1. \A c \in Clients : tx'[c].pc = "idle"
    BY <1>26 DEF Restart, IdleTx
  <2> QED
    BY <2>1, DecidedOutside DEF Decisions, Writing
<1> QED
  BY <1>0, <1>1, <1>2, <1>3, <1>4, <1>5, <1>6, <1>7, <1>8, <1>9, <1>10, <1>11, <1>12, <1>13, <1>14,
     <1>15, <1>16, <1>17, <1>18, <1>19, <1>20, <1>21, <1>22, <1>23, <1>24, <1>25, <1>26, <1>27, <1>28
     DEF Next, ServerStep, UserStep

LEMMA InvariantAndDecisions == Spec => [](TypeOK /\ Inv /\ Decisions)
<1>1. Init => Decisions
  <2> SUFFICES ASSUME Init PROVE Decisions
    OBVIOUS
  <2>1. \A c \in Clients : tx[c].pc = "idle"
    BY DEF Init, IdleTx
  <2> QED
    BY <2>1 DEF Decisions, Decided, Sent, Found, Locking, Changing, GameWriter, SessionWriter
<1>2. TypeOK /\ Inv /\ Decisions /\ [Next]_vars => Decisions'
  BY DecisionsStep
<1> QED
  BY <1>1, <1>2, InvariantHolds, PTL DEF Spec

-----------------------------------------------------------------------------
(* Commits are steps of SessionAtomic *)

\* The abstract module computes rows with the operators of the store.
LEMMA SameOperators ==
  /\ Atomic!GameOps = GameOps /\ Atomic!SaveOps = SaveOps /\ Atomic!SwapOps = SwapOps
  /\ Atomic!Row = Row
  /\ \A g \in Games : Atomic!NoGame(g) = NoGame(g) /\ Atomic!FreshRow(g) = FreshRow(g)
  /\ \A row : Atomic!Present(row) = Present(row)
  /\ \A seat : Atomic!Distinct(seat) = Distinct(seat)
  /\ \A row, r : Atomic!GameUpdate(row, r) = GameUpdate(row, r) /\ Atomic!GameNoop(row, r) = GameNoop(row, r)
<1>1. Atomic!GameOps = GameOps /\ Atomic!SaveOps = SaveOps /\ Atomic!SwapOps = SwapOps
  BY DEF Atomic!GameOps, GameOps, Atomic!SaveOps, SaveOps, Atomic!PutOps, PutOps, Atomic!SwapOps, SwapOps
<1>2. Atomic!Row = Row
  BY DEF Atomic!Row, Row, Atomic!Seats, Seats
<1>3. \A g \in Games : Atomic!NoGame(g) = NoGame(g) /\ Atomic!FreshRow(g) = FreshRow(g)
  BY DEF Atomic!NoGame, NoGame, Atomic!FreshRow, FreshRow
<1>4. \A row : Atomic!Present(row) = Present(row)
  BY DEF Atomic!Present, Present
<1>5. \A seat : Atomic!Distinct(seat) = Distinct(seat)
  BY DEF Atomic!Distinct, Distinct, Atomic!Seats, Seats
<1>6. \A row, r : Atomic!GameUpdate(row, r) = GameUpdate(row, r)
  BY DEF Atomic!GameUpdate, GameUpdate
<1>7. \A row, r : Atomic!GameNoop(row, r) = GameNoop(row, r)
  BY DEF Atomic!GameNoop, GameNoop
<1> QED
  BY <1>1, <1>2, <1>3, <1>4, <1>5, <1>6, <1>7

\* The same for swaps.
LEMMA SameSwaps ==
  ASSUME NEW rows, NEW r
  PROVE  Atomic!Swapped(rows, r) = Swapped(rows, r) /\ Atomic!CanSwap(rows, r) = CanSwap(rows, r)
<1>1. \A t : Atomic!TeamSeats(t) = TeamSeats(t)
  BY DEF Atomic!TeamSeats, TeamSeats
<1>2. \A f, S : Atomic!BumpGames(f, S) = BumpGames(f, S)
  BY DEF Atomic!BumpGames, BumpGames
<1>3. \A f, a, s, b, t : Atomic!ExchangeSeat(f, a, s, b, t) = ExchangeSeat(f, a, s, b, t)
  BY DEF Atomic!ExchangeSeat, ExchangeSeat
<1>4. Atomic!SwapSlots(rows, r) = SwapSlots(rows, r)
  BY DEF Atomic!SwapSlots, SwapSlots
<1>5. Atomic!SwapPlayer(rows, r) = SwapPlayer(rows, r)
  BY <1>2, <1>3 DEF Atomic!SwapPlayer, SwapPlayer
<1>6. Atomic!SwapTeam(rows, r) = SwapTeam(rows, r)
  BY <1>1, <1>2, <1>3 DEF Atomic!SwapTeam, SwapTeam
<1>7. Atomic!SwapLegal(rows, r) = SwapLegal(rows, r)
  BY <1>1, SameOperators DEF Atomic!SwapLegal, SwapLegal
<1> QED
  BY <1>4, <1>5, <1>6, <1>7, SameOperators DEF Atomic!Swapped, Swapped, Atomic!CanSwap, CanSwap

\* A game operation commits at the version its If-Match names, and changes it.
LEMMA GameRefines ==
  ASSUME TypeOK, Inv, Decisions, NEW c \in Clients, CommitGame(c)
  PROVE  Atomic!Play(tx[c].req)
<1> DEFINE r == tx[c].req
<1>1. GameWriter(c) /\ r.op \in GameOps /\ r.game \in Games
  BY DEF CommitGame, At, GameWriter, TypeOK, Tx, RequestType
<1>2. /\ status # "none" /\ Present(games[r.game]) /\ games[r.game].ver = r.exp
      /\ r.op = "skip" => r.refs \subseteq Players
  BY <1>1 DEF Inv, Local, GameCheck, SameSession, Validated
<1>3. /\ ~GameNoop(games[r.game], r) /\ tx[c].told
      /\ tx[c].lock => r.op = "score" /\ status = "draft"
  BY <1>1 DEF Decisions, Decided, Changing, CommitGame, At
<1>4. games' = [games EXCEPT ![r.game] = GameUpdate(games[r.game], r)]
  BY DEF CommitGame
<1>5. Atomic!Event(r.game, r.exp + 1) /\ UNCHANGED <<uuid, absent>>
  BY <1>3 DEF CommitGame, WithEvent, Atomic!Event
<1>6. \/ UNCHANGED <<status, version>>
      \/ r.op = "score" /\ status = "draft" /\ status' = "locked" /\ version' = version + 1
  BY <1>3 DEF CommitGame
<1> QED
  BY <1>1, <1>2, <1>3, <1>4, <1>5, <1>6, SameOperators DEF Atomic!Play

\* A publish commits a valid schedule on the draft it has found, or creates.
LEMMA SaveRefines ==
  ASSUME TypeOK, Inv, Decisions, NEW c \in Clients, CommitSave(c)
  PROVE  Atomic!Publish(tx[c].req)
<1> DEFINE r == tx[c].req
           snap == tx[c].body
<1>1. SessionWriter(c) /\ r.op \in SaveOps /\ tx[c].pc = "commit"
  BY DEF CommitSave, At, SessionWriter, SessionOps
<1>2. /\ status \in {"none", "draft"}
      /\ IF status = "none" THEN r.exp = 0 ELSE r.exp \in {0, version}
  BY <1>1 DEF Inv, Local, SessionCheck, VersionMatches, Decisions, Decided, Found
<1>3. /\ uuid' = IF status = "none" THEN uuid + 1 ELSE uuid
      /\ version' = IF status = "none" THEN 1 ELSE version + 1
      /\ status' \in {"draft", "locked"} /\ UNCHANGED outbox
  BY DEF CommitSave, SavedVersion
<1>4. r.op = "lock" => status' = "locked"
  BY <1>1 DEF CommitSave, Decisions, Decided, Locking
<1>5. Atomic!Published
  <2>1. snap \in Snapshot /\ ValidSnapshot(snap)
    BY <1>1 DEF TypeOK, Tx, Inv, Local, Validated
  <2>2. absent' \subseteq Players /\ games' = SyncedRows(snap)
    BY <2>1 DEF CommitSave, ValidSnapshot
  <2>3. games' \in [Games -> Row] /\ Tallied(games') /\ Seated(games')
    BY <2>1, <2>2, SyncedType, SyncedData
  <2>4. ASSUME NEW g \in Games PROVE games'[g].ver \in {0, 1} /\ games'[g].skip = {}
    <3>1. snap.games[g] \in Row
      BY <2>1 DEF Snapshot
    <3>2. games'[g] = IF Present(snap.games[g]) THEN [snap.games[g] EXCEPT !.ver = 1, !.skip = {}]
                      ELSE NoGame(g)
      BY <2>2 DEF SyncedRows
    <3> QED
      BY <3>1, <3>2 DEF Row, NoGame, FreshRow
  <2> QED
    BY <2>2, <2>3, <2>4, SameOperators DEF Atomic!Published, Tallied, Seated
<1> QED
  BY <1>1, <1>2, <1>3, <1>4, <1>5, SameOperators DEF Atomic!Publish

\* The other operations on the session's row.
LEMMA AbsentRefines ==
  ASSUME TypeOK, Inv, Decisions, NEW c \in Clients, CommitAbsent(c)
  PROVE  Atomic!SetAbsent(tx[c].req)
<1>1. SessionWriter(c) /\ tx[c].req.op = "absent"
  BY DEF CommitAbsent, At, SessionWriter, SessionOps
<1>2. status = "draft" /\ tx[c].req.exp = version /\ tx[c].req.refs \subseteq Players
  BY <1>1 DEF Inv, Local, SessionCheck, VersionMatches, Validated, Decisions, Decided, Found
<1> QED
  BY <1>1, <1>2 DEF CommitAbsent, WithEvent, Atomic!SetAbsent, Atomic!Event

LEMMA SwapRefines ==
  ASSUME TypeOK, Inv, Decisions, NEW c \in Clients, CommitSwap(c)
  PROVE  Atomic!Swap(tx[c].req)
<1>1. SessionWriter(c) /\ tx[c].req.op \in SwapOps /\ tx[c].pc = "commit"
  BY DEF CommitSwap, At, SessionWriter, SessionOps
<1>2. status = "draft" /\ tx[c].req.exp = version /\ CanSwap(games, tx[c].req)
  BY <1>1 DEF Inv, Local, SessionCheck, VersionMatches, Validated, Decisions, Decided, Found
<1> QED
  BY <1>1, <1>2, SameOperators, SameSwaps DEF CommitSwap, WithEvent, Atomic!Swap, Atomic!Event

LEMMA UnlockRefines ==
  ASSUME TypeOK, Inv, Decisions, NEW c \in Clients, CommitUnlock(c)
  PROVE  Atomic!Unlock(tx[c].req) \/ UNCHANGED Atomic!tables
<1>1. SessionWriter(c) /\ tx[c].req.op = "unlock"
  BY DEF CommitUnlock, At, SessionWriter, SessionOps
<1>2. status \in {"draft", "locked"}
  BY <1>1 DEF Inv, Local, SessionCheck, Decisions, Decided, Found, TypeOK, Statuses
<1> QED
  BY <1>1, <1>2 DEF CommitUnlock, Atomic!Unlock, Atomic!tables

LEMMA DeleteRefines ==
  ASSUME TypeOK, Inv, Decisions, NEW c \in Clients, CommitDelete(c)
  PROVE  Atomic!Delete(tx[c].req)
<1>1. SessionWriter(c) /\ tx[c].req.op = "delete"
  BY DEF CommitDelete, At, SessionWriter, SessionOps
<1>2. status = "draft"
  BY <1>1 DEF Inv, Local, SessionCheck, Decisions, Decided, Found
<1>3. games' = [g \in Games |-> Atomic!NoGame(g)]
  BY SameOperators DEF CommitDelete
<1> QED
  BY <1>1, <1>2, <1>3 DEF CommitDelete, Atomic!Delete

\* The other steps leave the tables as they are.
LEMMA TableWriters ==
  ASSUME [Next]_vars, ~UNCHANGED Atomic!tables
  PROVE  \E c \in Clients : \/ CommitGame(c) \/ CommitSave(c) \/ CommitDelete(c) \/ CommitSwap(c)
                            \/ CommitAbsent(c) \/ CommitUnlock(c)
<1> USE DEF Atomic!tables
<1>1. CASE UNCHANGED vars
  BY <1>1 DEF vars
<1>2. ASSUME NEW c \in Clients, ServerStep(c)
      PROVE  \/ CommitGame(c) \/ CommitSave(c) \/ CommitDelete(c) \/ CommitSwap(c)
             \/ CommitAbsent(c) \/ CommitUnlock(c)
  BY <1>2 DEF ServerStep, PutLoad, MutateLoad, ReadStatus, CheckIdempotency, LockGame, InsertOutbox,
     CountScored, AutoLock, SaveBegin, DeleteBegin, DeleteRow, RowsDeleted, UnlockBegin,
     GranularBegin, LockTwoGames, Respond, SaveIdempotency, BrokenGoesOn, db
<1>3. ASSUME NEW c \in Clients, UserStep(c) PROVE FALSE
  BY <1>3 DEF UserStep, Get, Issue, IssueCached, db
<1>4. ASSUME NEW c \in Clients, OutboxFails(c) \/ DeadlockAbort(c) PROVE FALSE
  BY <1>4 DEF OutboxFails, DeadlockAbort, db
<1>5. CASE DayPasses
  BY <1>5 DEF DayPasses, db
<1>6. ASSUME NEW k \in Keys, CacheEvict(k) PROVE FALSE
  BY <1>6 DEF CacheEvict, db
<1>7. CASE Restart
  BY <1>7 DEF Restart, db
<1> QED
  BY <1>1, <1>2, <1>3, <1>4, <1>5, <1>6, <1>7 DEF Next

\* Every step is one of the abstract module's or none.
LEMMA StepRefines ==
  ASSUME TypeOK, Inv, Decisions, [Next]_vars
  PROVE  [Atomic!Next]_Atomic!tables
<1> SUFFICES ASSUME ~UNCHANGED Atomic!tables PROVE Atomic!Next
  OBVIOUS
<1>1. PICK c \in Clients : \/ CommitGame(c) \/ CommitSave(c) \/ CommitDelete(c) \/ CommitSwap(c)
                           \/ CommitAbsent(c) \/ CommitUnlock(c)
  BY TableWriters
<1>2. tx[c].req \in Requests
  <2>1. tx[c].pc = "commit"
    BY <1>1 DEF CommitGame, CommitSave, CommitDelete, CommitSwap, CommitAbsent, CommitUnlock, At
  <2> QED
    BY <2>1 DEF Decisions, Decided, Sent
<1>3. \/ Atomic!Play(tx[c].req) \/ Atomic!Publish(tx[c].req) \/ Atomic!SetAbsent(tx[c].req)
      \/ Atomic!Swap(tx[c].req) \/ Atomic!Unlock(tx[c].req) \/ Atomic!Delete(tx[c].req)
  BY <1>1, GameRefines, SaveRefines, AbsentRefines, SwapRefines, UnlockRefines, DeleteRefines
<1> QED
  BY <1>2, <1>3 DEF Atomic!Next

-----------------------------------------------------------------------------
(* One request after the other *)

\* Whatever the transactions do to each other, the tables of the session show
\* one request after the other, each on the version its If-Match named.
THEOREM TakesEffect == Spec => TakesEffectAtOnce
<1>1. Init => Atomic!Init
  <2> SUFFICES ASSUME Init PROVE Atomic!Init
    OBVIOUS
  <2>1. /\ [g \in Games |-> Atomic!NoGame(g)] = [g \in Games |-> NoGame(g)]
        /\ [g \in Games |-> Atomic!FreshRow(g)] = [g \in Games |-> FreshRow(g)]
    BY SameOperators
  <2> QED
    BY <2>1 DEF Init, Atomic!Init
<1>2. TypeOK /\ Inv /\ Decisions /\ [Next]_vars => [Atomic!Next]_Atomic!tables
  BY StepRefines
<1> QED
  BY <1>1, <1>2, InvariantAndDecisions, PTL DEF Spec, TakesEffectAtOnce, Atomic!Spec

\* A game operation leaves the seats, and the game there.
LEMMA PlaySeats ==
  ASSUME TypeOK, NEW r \in Requests, Atomic!Play(r), NEW g \in Games
  PROVE  games'[g].seat = games[g].seat /\ Present(games'[g]) = Present(games[g])
<1>1. games[g] \in Row /\ r.op \in GameOps /\ Present(games[r.game])
  BY SameOperators DEF TypeOK, Atomic!Play
<1>2. games'[g] = IF g = r.game THEN GameUpdate(games[g], r) ELSE games[g]
  BY SameOperators DEF TypeOK, Atomic!Play
<1>3. GameUpdate(games[g], r).seat = games[g].seat /\ GameUpdate(games[g], r).ver = games[g].ver + 1
  <2>1. CASE r.op = "score"
    BY <1>1, <2>1 DEF GameUpdate, Row
  <2>2. CASE r.op = "played"
    BY <1>1, <2>2 DEF GameUpdate, Row
  <2>3. CASE r.op = "skip"
    BY <1>1, <2>3 DEF GameUpdate, Row
  <2> QED
    BY <1>1, <2>1, <2>2, <2>3 DEF GameOps
<1> QED
  BY <1>1, <1>2, <1>3 DEF Present, Row

\* What the session's version says, and what a lock protects, step by step.
LEMMA StepVersions ==
  ASSUME TypeOK, Inv, Decisions, [Next]_vars
  PROVE  /\ Continues =>
              /\ version' \in {version, version + 1}
              /\ \/ status' # status \/ absent' # absent
                 \/ \E g \in Games : games'[g].seat # games[g].seat
                 => version' = version + 1
         /\ status = "locked" =>
              /\ status' # "none"
              /\ status' = "locked" =>
                   /\ version' = version /\ absent' = absent
                   /\ \A g \in Games : /\ games'[g].seat = games[g].seat
                                       /\ Present(games'[g]) = Present(games[g])
<1>1. CASE UNCHANGED Atomic!tables
  BY <1>1 DEF Atomic!tables
<1>2. ASSUME NEW r \in Requests, Atomic!Play(r)
      PROVE  /\ absent' = absent /\ status' # "none"
             /\ \A g \in Games : games'[g].seat = games[g].seat /\ Present(games'[g]) = Present(games[g])
             /\ \/ UNCHANGED <<status, version>>
                \/ status = "draft" /\ version' = version + 1
  <2>1. /\ absent' = absent /\ status # "none"
        /\ UNCHANGED <<status, version>> \/ (status = "draft" /\ status' = "locked" /\ version' = version + 1)
    BY <1>2 DEF Atomic!Play
  <2> QED
    BY <1>2, <2>1, PlaySeats
<1>3. ASSUME NEW r \in Requests, Atomic!Publish(r)
      PROVE  status = "none" \/ (status = "draft" /\ version' = version + 1)
  BY <1>3 DEF Atomic!Publish
<1>4. ASSUME NEW r \in Requests, Atomic!SetAbsent(r) \/ Atomic!Swap(r)
      PROVE  status = "draft" /\ version' = version + 1
  BY <1>4 DEF Atomic!SetAbsent, Atomic!Swap
<1>5. ASSUME NEW r \in Requests, Atomic!Unlock(r)
      PROVE  status' = "draft" /\ version' = version + 1
  BY <1>5 DEF Atomic!Unlock
<1>6. ASSUME NEW r \in Requests, Atomic!Delete(r)
      PROVE  status = "draft" /\ status' = "none"
  BY <1>6 DEF Atomic!Delete
<1>7. Atomic!Next \/ UNCHANGED Atomic!tables
  BY StepRefines
<1> QED
  BY <1>1, <1>2, <1>3, <1>4, <1>5, <1>6, <1>7 DEF Atomic!Next, Continues

\* Nothing the session's version speaks for changes without a bump, and one
\* step bumps it once.
THEOREM BumpsOncePerChange == Spec => OneBumpPerChange
<1>1. TypeOK /\ Inv /\ Decisions /\ [Next]_vars =>
        (Continues =>
           /\ version' \in {version, version + 1}
           /\ \/ status' # status \/ absent' # absent
              \/ \E g \in Games : games'[g].seat # games[g].seat
              => version' = version + 1)
  BY StepVersions
<1> QED
  BY <1>1, InvariantAndDecisions, PTL DEF Spec, OneBumpPerChange

\* Scores may still arrive at a locked session; nothing else changes in it
\* before it is unlocked.
THEOREM LockFreezes == Spec => LockedStructureFrozen
<1>1. TypeOK /\ Inv /\ Decisions /\ [Next]_vars =>
        (status = "locked" =>
           /\ status' # "none"
           /\ status' = "locked" =>
                /\ version' = version /\ absent' = absent
                /\ \A g \in Games : /\ games'[g].seat = games[g].seat
                                    /\ Present(games'[g]) = Present(games[g]))
  BY StepVersions
<1> QED
  BY <1>1, InvariantAndDecisions, PTL DEF Spec, LockedStructureFrozen

-----------------------------------------------------------------------------
(* What a commit writes in the rows *)

\* Only four commits write game rows.
LEMMA GamesWriters ==
  ASSUME [Next]_vars, ~ UNCHANGED games
  PROVE  \E c \in Clients : CommitGame(c) \/ CommitSave(c) \/ CommitDelete(c) \/ CommitSwap(c)
<1>1. CASE UNCHANGED vars BY <1>1 DEF vars
<1>2. ASSUME NEW c \in Clients, ServerStep(c)
      PROVE  CommitGame(c) \/ CommitSave(c) \/ CommitDelete(c) \/ CommitSwap(c)
  BY <1>2 DEF ServerStep, PutLoad, MutateLoad, ReadStatus, CheckIdempotency, LockGame, InsertOutbox,
     CountScored, AutoLock, SaveBegin, DeleteBegin, DeleteRow, RowsDeleted, UnlockBegin, CommitUnlock,
     GranularBegin, CommitAbsent, LockTwoGames, Respond, SaveIdempotency, BrokenGoesOn, db
<1>3. ASSUME NEW c \in Clients, UserStep(c) PROVE FALSE
  BY <1>3 DEF UserStep, Get, Issue, IssueCached, db
<1>4. ASSUME NEW c \in Clients, OutboxFails(c) \/ DeadlockAbort(c) PROVE FALSE
  BY <1>4 DEF OutboxFails, DeadlockAbort, db
<1>5. CASE DayPasses BY <1>5 DEF DayPasses, db
<1>6. ASSUME NEW k \in Keys, CacheEvict(k) PROVE FALSE BY <1>6 DEF CacheEvict, db
<1>7. CASE Restart BY <1>7 DEF Restart, db
<1>8. QED BY <1>1, <1>2, <1>3, <1>4, <1>5, <1>6, <1>7 DEF Next

\* A game operation writes its own row only.
LEMMA GameCommitRows ==
  ASSUME TypeOK, Inv, NEW c \in Clients, CommitGame(c), Tallied(games), Seated(games)
  PROVE  Tallied(games') /\ Seated(games')
<1> DEFINE r == tx[c].req
           new == GameUpdate(games[r.game], r)
<1>1. r \in RequestType /\ r.game \in Games /\ r.op \in GameOps /\ games[r.game] \in Row
  BY DEF TypeOK, Tx, RequestType, CommitGame, At
<1>2. Present(games[r.game])
  BY DEF Inv, Local, Validated, CommitGame, At, GameWriter
<1>3. games' = [games EXCEPT ![r.game] = new] BY DEF CommitGame
<1>4. (new.score # NoScore => new.played) /\ new.seat = games[r.game].seat
  BY <1>1, GameUpdateData DEF Tallied
<1>5. Distinct(games[r.game].seat) BY <1>1, <1>2 DEF Seated
<1> HIDE DEF new
<1>6. QED BY <1>3, <1>4, <1>5 DEF Tallied, Seated

\* Every step keeps the committed rows tallied and seated.
LEMMA DataStep ==
  ASSUME TypeOK, Inv, Tallied(games), Seated(games), [Next]_vars
  PROVE  Tallied(games') /\ Seated(games')
<1>1. CASE UNCHANGED games BY <1>1 DEF Tallied, Seated
<1>2. ASSUME NEW c \in Clients, CommitSave(c) PROVE Tallied(games') /\ Seated(games')
  <2>1. tx[c].body \in Snapshot BY DEF TypeOK, Tx
  <2>2. ValidSnapshot(tx[c].body)
    BY <1>2 DEF Inv, Local, Validated, CommitSave, At, SessionWriter, SessionOps
  <2>3. games' = SyncedRows(tx[c].body) BY <1>2 DEF CommitSave
  <2> QED BY <2>1, <2>2, <2>3, SyncedData
<1>3. ASSUME NEW c \in Clients, CommitDelete(c) PROVE Tallied(games') /\ Seated(games')
  <2>1. games' = [g \in Games |-> NoGame(g)] BY <1>3 DEF CommitDelete
  <2>2. ASSUME NEW g \in Games PROVE NoGame(g).score = NoScore /\ ~Present(NoGame(g))
    BY DEF NoGame, FreshRow, Present
  <2> QED BY <2>1, <2>2 DEF Tallied, Seated
<1>4. ASSUME NEW c \in Clients, CommitSwap(c) PROVE Tallied(games') /\ Seated(games')
  <2>1. games \in [Games -> Row] /\ tx[c].req \in RequestType BY DEF TypeOK, Tx
  <2>2. tx[c].req.op \in SwapOps /\ CanSwap(games, tx[c].req)
    BY <1>4 DEF Inv, Local, Validated, CommitSwap, At, SessionWriter, SessionOps
  <2>3. games' = Swapped(games, tx[c].req) BY <1>4 DEF CommitSwap
  <2> QED BY <2>1, <2>2, <2>3, SwappedTallied, SwappedSeated
<1>5. QED BY <1>1, <1>2, <1>3, <1>4, GameCommitRows, GamesWriters

\* The rows of a session are always tallied and seated.
LEMMA DataHolds == Spec => [](Tallied(games) /\ Seated(games))
<1>1. Init => Tallied(games) /\ Seated(games)
  <2>1. ASSUME NEW g \in Games
        PROVE  /\ FreshRow(g).score = NoScore /\ FreshRow(g).seat = FirstSeats[g]
               /\ NoGame(g).score = NoScore /\ ~Present(NoGame(g))
    BY DEF FreshRow, NoGame, Present
  <2> QED BY <2>1, FirstSeatsAssumption DEF Init, Tallied, Seated
<1>2. TypeOK /\ Inv /\ Tallied(games) /\ Seated(games) /\ [Next]_vars
        => (Tallied(games) /\ Seated(games))'
  BY DataStep
<1>3. QED BY <1>1, <1>2, InvariantHolds, PTL DEF Spec

-----------------------------------------------------------------------------
(* The theorems *)

\* No committed score of a game that was not played, whatever PUTs, scores
\* and un-plays interleave: domain/validate.go's rule holds of the tables, not
\* only of the snapshot it was checked on.
THEOREM ScoresArePlayed == Spec => []ScoredIsPlayed
<1>1. Tallied(games) => ScoredIsPlayed BY DEF Tallied, ScoredIsPlayed
<1>2. QED BY <1>1, DataHolds, PTL

\* No game ever seats a player twice: the checks a publish and the statements
\* of a swap make still hold of the rows they write.
THEOREM SeatsAreDistinct == Spec => []SeatsDistinct
<1>1. Seated(games) => SeatsDistinct BY DEF Seated, SeatsDistinct
<1>2. QED BY <1>1, DataHolds, PTL

-----------------------------------------------------------------------------
(* Versions and events *)

\* A step that changes the tables commits a request of Requests.
LEMMA Committing ==
  ASSUME TypeOK, Inv, Decisions, [Next]_vars, ~UNCHANGED <<version, games, outbox>>
  PROVE  \E c \in Clients :
           /\ \/ CommitGame(c) \/ CommitSave(c) \/ CommitDelete(c) \/ CommitSwap(c)
              \/ CommitAbsent(c) \/ CommitUnlock(c)
           /\ tx[c].req \in Requests
<1>1. PICK c \in Clients : \/ CommitGame(c) \/ CommitSave(c) \/ CommitDelete(c) \/ CommitSwap(c)
                           \/ CommitAbsent(c) \/ CommitUnlock(c)
  BY TableWriters DEF Atomic!tables
<1>2. tx[c].req \in Requests
  <2>1. tx[c].pc = "commit"
    BY <1>1 DEF CommitGame, CommitSave, CommitDelete, CommitSwap, CommitAbsent, CommitUnlock, At
  <2> QED
    BY <2>1 DEF Decisions, Decided, Sent
<1> QED
  BY <1>1, <1>2

\* A game operation raises the version of its game by one.
LEMMA UpdateRaises ==
  ASSUME NEW row \in Row, NEW r, r.op \in GameOps
  PROVE  GameUpdate(row, r).ver = row.ver + 1
<1>1. CASE r.op = "score"
  BY <1>1 DEF GameUpdate, Row
<1>2. CASE r.op = "played"
  BY <1>2 DEF GameUpdate, Row
<1>3. CASE r.op = "skip"
  BY <1>3 DEF GameUpdate, Row
<1> QED
  BY <1>1, <1>2, <1>3 DEF GameOps

\* The event of a game operation reports the version the game gets.
LEMMA GameEvent ==
  ASSUME TypeOK, Inv, Decisions, NEW c \in Clients, CommitGame(c)
  PROVE  LET g == tx[c].req.game
         IN  /\ g \in Games /\ games'[g].ver = games[g].ver + 1
             /\ \A h \in Games \ {g} : games'[h] = games[h]
             /\ outbox' = Append(outbox, [of |-> g, ver |-> games[g].ver + 1])
             /\ version' \in {version, version + 1}
<1> DEFINE r == tx[c].req
<1>1. r \in RequestType /\ r.game \in Games /\ r.op \in GameOps /\ games[r.game] \in Row
  BY DEF TypeOK, Tx, RequestType, CommitGame, At
<1>2. games[r.game].ver = r.exp
  BY DEF Inv, Local, GameCheck, GameWriter, CommitGame, At
<1>3. games' = [games EXCEPT ![r.game] = GameUpdate(games[r.game], r)]
  BY DEF CommitGame
<1>4. games'[r.game].ver = games[r.game].ver + 1
  BY <1>1, <1>3, UpdateRaises DEF TypeOK
<1>5. outbox' = Append(outbox, [of |-> r.game, ver |-> games[r.game].ver + 1])
  <2>1. tx[c].told
    BY DEF Decisions, Decided, Changing, CommitGame, At, GameWriter
  <2> QED
    BY <1>2, <2>1 DEF CommitGame, WithEvent
<1>6. version' \in {version, version + 1}
  BY DEF CommitGame
<1> QED
  BY <1>1, <1>3, <1>4, <1>5, <1>6

\* An event appended is the only new one.
LEMMA OneNew ==
  ASSUME NEW S, NEW seq \in Seq(S), NEW e \in S, NEW i \in DOMAIN Append(seq, e) \ DOMAIN seq
  PROVE  Append(seq, e)[i] = e
  OBVIOUS

LEMMA TellsStep ==
  ASSUME TypeOK, Inv, Decisions, [Next]_vars, Continues
  PROVE  ToldChanges /\ ToldVersions
<1>1. CASE UNCHANGED <<version, games, outbox>>
  BY <1>1 DEF ToldChanges, ToldVersions
<1>2. CASE ~UNCHANGED <<version, games, outbox>>
  <2>1. PICK c \in Clients : \/ CommitGame(c) \/ CommitSave(c) \/ CommitDelete(c) \/ CommitSwap(c)
                             \/ CommitAbsent(c) \/ CommitUnlock(c)
    BY <1>2, Committing
  <2>2. outbox \in Seq(Event) /\ version \in Nat /\ \A h \in Games : games[h].ver \in Nat
    BY DEF TypeOK, Row
  <2>3. CASE CommitGame(c)
    <3> DEFINE h == tx[c].req.game
               e == [of |-> h, ver |-> games[h].ver + 1]
    <3>1. /\ h \in Games /\ games'[h].ver = games[h].ver + 1
          /\ \A k \in Games \ {h} : games'[k] = games[k]
          /\ outbox' = Append(outbox, e)
      BY <2>3, GameEvent
    <3>2. e \in Event /\ e.of = h /\ e.ver = games[h].ver + 1
      BY <2>2, <3>1 DEF Event
    <3>3. ToldChanges
      BY <3>1 DEF ToldChanges
    <3> HIDE DEF e
    <3>4. \A i \in DOMAIN outbox' \ DOMAIN outbox : outbox'[i] = e
      BY <2>2, <3>1, <3>2, OneNew
    <3>5. ToldVersions
      BY <3>1, <3>2, <3>4 DEF ToldVersions
    <3> QED
      BY <3>3, <3>5
  <2>4. CASE CommitSave(c)
    <3>1. ASSUME NEW g \in Games PROVE games'[g].ver \in {0, 1}
      <4>1. games' = SyncedRows(tx[c].body) /\ tx[c].body.games[g] \in Row
        BY <2>4 DEF CommitSave, TypeOK, Tx, Snapshot
      <4> QED
        BY <4>1 DEF SyncedRows, NoGame, FreshRow, Row
    <3>2. outbox' = outbox
      BY <2>4 DEF CommitSave
    <3> QED
      BY <3>1, <3>2 DEF ToldChanges, ToldVersions
  <2>5. CASE CommitSwap(c) \/ CommitAbsent(c)
    <3>1. PICK n \in {"session", "absent"} :
            /\ outbox' = Append(outbox, [of |-> n, ver |-> version + 1])
            /\ n = "session" \/ games' = games
      BY <2>5 DEF CommitSwap, CommitAbsent, WithEvent
    <3>2. version' = version + 1
      BY <2>5 DEF CommitSwap, CommitAbsent
    <3> DEFINE e == [of |-> n, ver |-> version + 1]
    <3>3. e \in Event /\ e.of \notin Games /\ e.ver = version + 1
      BY <2>2, NamesAssumption DEF Event
    <3>4. ToldChanges
      BY <3>1, <3>2 DEF ToldChanges
    <3> HIDE DEF e
    <3>5. outbox' = Append(outbox, e)
      BY <3>1 DEF e
    <3>6. \A i \in DOMAIN outbox' \ DOMAIN outbox : outbox'[i] = e
      BY <2>2, <3>3, <3>5, OneNew
    <3>7. ToldVersions
      BY <3>2, <3>3, <3>6 DEF ToldVersions
    <3> QED
      BY <3>4, <3>7
  <2>6. CASE CommitUnlock(c)
    BY <2>6 DEF CommitUnlock, ToldChanges, ToldVersions
  <2>7. CASE CommitDelete(c)
    BY <2>7 DEF CommitDelete, Continues
  <2> QED
    BY <2>1, <2>3, <2>4, <2>5, <2>6, <2>7
<1> QED
  BY <1>1, <1>2

\* The durable events and the changes of a session's games go together, swaps
\* and failing InsertOutbox calls included: no game changes without the event
\* of its new version committed with it, unless by a publish, and no event
\* tells a version that was not made (granular.go:168, swap.go:138).
THEOREM EventsAreOfChanges == Spec => EventsTellChanges
<1>1. TypeOK /\ Inv /\ Decisions /\ [Next]_vars => (Continues => ToldChanges /\ ToldVersions)
  BY TellsStep
<1> QED
  BY <1>1, InvariantAndDecisions, PTL DEF Spec, EventsTellChanges

-----------------------------------------------------------------------------
(* A version is spent once *)

\* What starts versions again: a Save, and swapping two games' slots, which
\* exchanges their versions.
VersionsOnlyRise ==
  \A r \in Requests : r.op \notin SaveOps \cup {"swapSlots"}

\* No event reports a version that is still to come.
Reported(seq, rows, n) ==
  \A i \in DOMAIN seq : seq[i].ver <= IF seq[i].of \in Games THEN rows[seq[i].of].ver ELSE n

Has(seq, e) == \E i \in DOMAIN seq : seq[i] = e

Unrepeated(seq) == \A i, j \in DOMAIN seq : i # j => seq[i] # seq[j]

\* An event of a version that has not been reached is a new one.
LEMMA NewEvent ==
  ASSUME NEW seq \in Seq(Event), NEW e \in Event, Unrepeated(seq), ~Has(seq, e)
  PROVE  Unrepeated(Append(seq, e))
<1>1. /\ DOMAIN Append(seq, e) = 1..(Len(seq) + 1) /\ DOMAIN seq = 1..Len(seq) /\ Len(seq) \in Nat
      /\ \A i \in 1..Len(seq) : Append(seq, e)[i] = seq[i]
      /\ Append(seq, e)[Len(seq) + 1] = e
  OBVIOUS
<1> QED
  BY <1>1 DEF Unrepeated, Has

LEMMA ReportedAppend ==
  ASSUME NEW seq \in Seq(Event), NEW e \in Event,
         NEW rows \in [Games -> Row], NEW after \in [Games -> Row], NEW n \in Nat, NEW m \in Nat,
         Reported(seq, rows, n), n <= m, \A g \in Games : rows[g].ver <= after[g].ver,
         e.ver <= IF e.of \in Games THEN after[e.of].ver ELSE m
  PROVE  Reported(seq, after, m) /\ Reported(Append(seq, e), after, m)
<1>1. Reported(seq, after, m)
  <2> SUFFICES ASSUME NEW i \in DOMAIN seq
               PROVE  seq[i].ver <= IF seq[i].of \in Games THEN after[seq[i].of].ver ELSE m
    BY DEF Reported
  <2>1. seq[i].ver \in Nat /\ \A g \in Games : rows[g].ver \in Nat /\ after[g].ver \in Nat
    <3>1. seq[i] \in Event
      OBVIOUS
    <3>2. \A g \in Games : rows[g] \in Row /\ after[g] \in Row
      OBVIOUS
    <3> QED
      BY <3>1, <3>2 DEF Event, Row
  <2>2. seq[i].ver <= IF seq[i].of \in Games THEN rows[seq[i].of].ver ELSE n
    BY DEF Reported
  <2> QED
    BY <2>1, <2>2
<1>2. \A i \in DOMAIN Append(seq, e) : (i \in DOMAIN seq /\ Append(seq, e)[i] = seq[i]) \/ Append(seq, e)[i] = e
  OBVIOUS
<1> QED
  BY <1>1, <1>2 DEF Reported

\* No version of after is below that of rows.
NoneLower(rows, after) == \A g \in Games : rows[g].ver <= after[g].ver

\* Exchanging two seats lowers no version, and no more does raising two games.
LEMMA ExchangeVersions ==
  ASSUME NEW rows \in [Games -> Row], NEW a \in Games, NEW b \in Games, NEW s \in Seats, NEW t \in Seats
  PROVE  ExchangeSeat(rows, a, s, b, t) \in [Games -> Row] /\ NoneLower(rows, ExchangeSeat(rows, a, s, b, t))
<1>1. ExchangeSeat(rows, a, s, b, t) \in [Games -> Row]
  BY ExchangeType
<1>2. ASSUME NEW g \in Games
      PROVE  rows[g].ver <= ExchangeSeat(rows, a, s, b, t)[g].ver
  <2>1. ExchangeSeat(rows, a, s, b, t)[g].ver = rows[g].ver
    BY ExchangeScores
  <2>2. rows[g].ver \in Nat
    BY DEF Row
  <2> QED
    BY <2>1, <2>2
<1> QED
  BY <1>1, <1>2 DEF NoneLower

LEMMA BumpVersions ==
  ASSUME NEW rows \in [Games -> Row], NEW S
  PROVE  BumpGames(rows, S) \in [Games -> Row] /\ NoneLower(rows, BumpGames(rows, S))
<1>1. BumpGames(rows, S) \in [Games -> Row]
  BY BumpType
<1>2. ASSUME NEW g \in Games
      PROVE  rows[g].ver <= BumpGames(rows, S)[g].ver
  BY DEF BumpGames, Row
<1> QED
  BY <1>1, <1>2 DEF NoneLower

LEMMA NoneLowerYet ==
  ASSUME NEW rows \in [Games -> Row], NEW some \in [Games -> Row], NEW after \in [Games -> Row],
         NoneLower(rows, some), NoneLower(some, after)
  PROVE  NoneLower(rows, after)
BY DEF NoneLower, Row

\* A swap of players or teams lowers no version.
LEMMA SwapRaises ==
  ASSUME NEW rows \in [Games -> Row], NEW r \in RequestType, r.op \in {"swapPlayer", "swapTeam"}
  PROVE  NoneLower(rows, Swapped(rows, r))
<1>1. r.game \in Games /\ r.other \in Games /\ r.at \in Seats /\ r.with \in Seats
  BY DEF RequestType
<1>2. CASE r.op = "swapPlayer"
  <2> DEFINE some == ExchangeSeat(rows, r.game, r.at, r.other, r.with)
  <2>1. some \in [Games -> Row] /\ NoneLower(rows, some)
    BY <1>1, ExchangeVersions
  <2>2. Swapped(rows, r) = BumpGames(some, {r.game, r.other})
    BY <1>2 DEF Swapped, SwapPlayer
  <2> HIDE DEF some
  <2>3. Swapped(rows, r) \in [Games -> Row] /\ NoneLower(some, Swapped(rows, r))
    BY <2>1, <2>2, BumpVersions
  <2> QED
    BY <2>1, <2>3, NoneLowerYet
<1>3. CASE r.op = "swapTeam"
  <2> DEFINE s == TeamSeats(r.at)
             t == IF r.game = r.other THEN TeamSeats(r.with) ELSE s
             first == ExchangeSeat(rows, r.game, s[1], r.other, t[1])
             second == ExchangeSeat(first, r.game, s[2], r.other, t[2])
  <2>1. s[1] \in Seats /\ s[2] \in Seats /\ t[1] \in Seats /\ t[2] \in Seats
    BY DEF TeamSeats, Seats
  <2>2. Swapped(rows, r) = BumpGames(second, {r.game, r.other})
    BY <1>3 DEF Swapped, SwapTeam
  <2> HIDE DEF s, t
  <2>3. first \in [Games -> Row] /\ NoneLower(rows, first)
    BY <1>1, <2>1, ExchangeVersions
  <2> HIDE DEF first
  <2>4. second \in [Games -> Row] /\ NoneLower(first, second)
    BY <1>1, <2>1, <2>3, ExchangeVersions
  <2> HIDE DEF second
  <2>5. Swapped(rows, r) \in [Games -> Row] /\ NoneLower(second, Swapped(rows, r))
    BY <2>2, <2>4, BumpVersions
  <2>6. NoneLower(rows, second)
    BY <2>3, <2>4, NoneLowerYet
  <2> QED
    BY <2>4, <2>5, <2>6, NoneLowerYet
<1> QED
  BY <1>2, <1>3

Spent == Reported(outbox, games, version) /\ Unrepeated(outbox)

LEMMA SpentStep ==
  ASSUME VersionsOnlyRise, TypeOK, TypeOK', Inv, Decisions, Spent, [Next]_vars
  PROVE  Spent'
<1>1. CASE UNCHANGED <<version, games, outbox>>
  BY <1>1 DEF Spent, Reported
<1>2. CASE ~UNCHANGED <<version, games, outbox>>
  <2>1. PICK c \in Clients :
          /\ \/ CommitGame(c) \/ CommitSave(c) \/ CommitDelete(c) \/ CommitSwap(c)
             \/ CommitAbsent(c) \/ CommitUnlock(c)
          /\ tx[c].req \in Requests
    BY <1>2, Committing
  <2>2. /\ outbox \in Seq(Event) /\ version \in Nat /\ version' \in Nat
        /\ games \in [Games -> Row] /\ games' \in [Games -> Row]
    BY DEF TypeOK, Event
  <2>3. ASSUME NEW e \in Event, outbox' = Append(outbox, e), version <= version',
               \A g \in Games : games[g].ver <= games'[g].ver,
               e.of \in Games => e.ver = games[e.of].ver + 1 /\ e.ver <= games'[e.of].ver,
               e.of \notin Games => e.ver = version + 1 /\ e.ver <= version'
        PROVE  Spent'
    <3>1. \A g \in Games : games[g].ver \in Nat
      BY <2>2 DEF Row
    <3>2. ~Has(outbox, e)
      <4> SUFFICES ASSUME NEW i \in DOMAIN outbox, outbox[i] = e PROVE FALSE
        BY DEF Has
      <4>1. e.ver <= IF e.of \in Games THEN games[e.of].ver ELSE version
        BY DEF Spent, Reported
      <4>2. e.ver \in Nat
        BY DEF Event
      <4> QED
        BY <2>2, <2>3, <3>1, <4>1, <4>2
    <3>3. Unrepeated(outbox')
      BY <2>2, <2>3, <3>2, NewEvent DEF Spent
    <3>4. Reported(outbox', games', version')
      BY <2>2, <2>3, ReportedAppend DEF Spent
    <3> QED
      BY <3>3, <3>4 DEF Spent
  <2>4. CASE CommitGame(c)
    <3> DEFINE g == tx[c].req.game
               e == [of |-> g, ver |-> games[g].ver + 1]
    <3>1. /\ g \in Games /\ games'[g].ver = games[g].ver + 1
          /\ \A h \in Games \ {g} : games'[h] = games[h]
          /\ outbox' = Append(outbox, e) /\ version' \in {version, version + 1}
      BY <2>4, GameEvent
    <3>2. \A h \in Games : games[h].ver \in Nat
      BY <2>2 DEF Row
    <3>3. e \in Event /\ e.of = g /\ e.ver = games[g].ver + 1
      BY <3>1, <3>2 DEF Event
    <3>4. version <= version' /\ \A h \in Games : games[h].ver <= games'[h].ver
      <4>1. version <= version'
        BY <2>2, <3>1
      <4>2. games[g].ver <= games'[g].ver
        BY <3>1, <3>2
      <4>3. \A h \in Games \ {g} : games[h].ver <= games'[h].ver
        BY <3>1, <3>2
      <4> HIDE DEF g
      <4> QED
        BY <4>1, <4>2, <4>3
    <3>5. e.ver <= games'[g].ver
      BY <3>1, <3>2
    <3> HIDE DEF e, g
    <3> QED
      BY <2>3, <3>1, <3>3, <3>4, <3>5
  <2>5. CASE CommitAbsent(c)
    <3> DEFINE e == [of |-> "absent", ver |-> version + 1]
    <3>1. games' = games /\ outbox' = Append(outbox, e) /\ version' = version + 1
      BY <2>5 DEF CommitAbsent, WithEvent
    <3>2. e \in Event /\ e.of \notin Games /\ e.ver = version + 1
      BY <2>2, NamesAssumption DEF Event
    <3>3. version <= version' /\ e.ver <= version' /\ \A h \in Games : games[h].ver <= games'[h].ver
      BY <2>2, <3>1 DEF Row
    <3> HIDE DEF e
    <3> QED
      BY <2>3, <3>1, <3>2, <3>3
  <2>6. CASE CommitSwap(c)
    <3> DEFINE e == [of |-> "session", ver |-> version + 1]
    <3>1. games' = Swapped(games, tx[c].req) /\ outbox' = Append(outbox, e) /\ version' = version + 1
      BY <2>6 DEF CommitSwap, WithEvent
    <3>2. e \in Event /\ e.of \notin Games /\ e.ver = version + 1
      BY <2>2, NamesAssumption DEF Event
    <3>3. tx[c].req \in RequestType /\ tx[c].req.op \in {"swapPlayer", "swapTeam"}
      BY <2>1, <2>6 DEF CommitSwap, At, VersionsOnlyRise, SwapOps, TypeOK, Tx
    <3>4. version <= version' /\ e.ver <= version' /\ \A h \in Games : games[h].ver <= games'[h].ver
      BY <2>2, <3>1, <3>3, SwapRaises DEF NoneLower
    <3> HIDE DEF e
    <3> QED
      BY <2>3, <3>1, <3>2, <3>4
  <2>7. CASE CommitUnlock(c)
    <3>1. games' = games /\ outbox' = outbox /\ version' \in {version, version + 1}
      BY <2>7 DEF CommitUnlock
    <3> SUFFICES ASSUME NEW i \in DOMAIN outbox
                 PROVE  outbox[i].ver <= IF outbox[i].of \in Games THEN games[outbox[i].of].ver ELSE version'
      BY <3>1 DEF Spent, Reported
    <3>2. outbox[i] \in Event
      BY <2>2
    <3>3. outbox[i].ver \in Nat /\ (outbox[i].of \in Games => games[outbox[i].of] \in Row)
      BY <2>2, <3>2 DEF Event
    <3>4. outbox[i].ver <= IF outbox[i].of \in Games THEN games[outbox[i].of].ver ELSE version
      BY DEF Spent, Reported
    <3> QED
      BY <2>2, <3>1, <3>3, <3>4
  <2>8. CASE CommitDelete(c)
    <3>1. outbox' = <<>>
      BY <2>8 DEF CommitDelete
    <3> QED
      BY <3>1 DEF Spent, Reported, Unrepeated
  <2>9. CASE CommitSave(c)
    BY <2>1, <2>9 DEF CommitSave, At, VersionsOnlyRise
  <2> QED
    BY <2>1, <2>4, <2>5, <2>6, <2>7, <2>8, <2>9
<1> QED
  BY <1>1, <1>2

\* A request takes effect at most once, however often it is repeated after
\* lost answers, crashes and evictions and whatever keys it carries, as long as
\* nothing starts versions again.
THEOREM VersionsSpentOnce == ASSUME VersionsOnlyRise PROVE Spec => []VersionSpentOnce
<1>1. Init => Spent
  BY DEF Init, Spent, Reported, Unrepeated
<1>2. TypeOK /\ TypeOK' /\ Inv /\ Decisions /\ Spent /\ [Next]_vars => Spent'
  BY SpentStep
<1>3. Spent => VersionSpentOnce
  BY DEF Spent, Unrepeated, VersionSpentOnce
<1> QED
  BY <1>1, <1>2, <1>3, InvariantAndDecisions, PTL DEF Spec
=============================================================================
