---------------------------- MODULE SessionStore ----------------------------
(***************************************************************************)
(* The write paths of one live session: PUT / PATCH / lock (Save), the     *)
(* granular game operations (SetGameScore, SetGamePlayed, SetGameSkipped), *)
(* SetAbsentPlayers, SwapMembers, Unlock and Delete, as transactions that  *)
(* run concurrently against PostgreSQL at READ COMMITTED.                  *)
(*                                                                         *)
(* A request is a sequence of steps, one per SQL statement whose place in  *)
(* the interleaving matters.  Writes are private until the commit step,    *)
(* which is where they are applied to the committed rows: the row locks    *)
(* held in between make the two the same, which GameCheckHolds and         *)
(* SessionCheckHolds state and SessionStoreProofs proves.                  *)
(***************************************************************************)
EXTENDS SessionRows

CONSTANTS
  Clients,      \* concurrent HTTP requests: each runs one request at a time
  MaxRequests   \* bound: requests per client

ASSUME BoundAssumption == MaxRequests \in Nat

\* A game key is "slot-court": no game is called like another aggregate.
ASSUME NamesAssumption == "absent" \notin Games /\ "session" \notin Games

VARIABLES
  status,   \* sessions.status, "none" when there is no row
  uuid,     \* sessions.id: how many times the row has been inserted
  version,  \* sessions.version
  absent,   \* session_players.is_absent
  games,    \* scheduled_games with their players, by game key
  outbox,   \* outbox_events in commit order
  idem,     \* idempotency_keys of the session: response by key
  cache,    \* in-memory responses of PUT by key (handler/session.go)
  past,     \* the session's date is before today (WIB)
  tx,       \* the transaction each client's request runs
  view,     \* the snapshot each client last received
  left      \* requests each client may still send

db == <<status, uuid, version, absent, games, outbox, idem>>
vars == <<status, uuid, version, absent, games, outbox, idem, cache, past, tx, view, left>>

\* Load: one REPEATABLE READ transaction, so one step.  A CloudSnapshot has
\* the session's version and no game's version (ver is only presence here).
LoadSnap ==
  [version |-> version, locked |-> status # "draft", absent |-> absent,
   games |-> [g \in Games |-> [games[g] EXCEPT !.ver = IF @ > 0 THEN 1 ELSE 0]]]

-----------------------------------------------------------------------------
(* PostgreSQL's locks, as the code uses them *)

Modes == {"none", "keyShare", "noKeyUpdate", "update"}

\* Row-level lock conflicts: FOR UPDATE with all, FOR NO KEY UPDATE with
\* itself, FOR KEY SHARE (a foreign key's check) only with FOR UPDATE.
Conflict(m, n) ==
  \/ m = "update" /\ n # "none"
  \/ n = "update" /\ m # "none"
  \/ m = "noKeyUpdate" /\ n = "noKeyUpdate"

\* Mutant of GameFree: the game's row is read without FOR UPDATE.
GameReadUnlocked(c, g) == TRUE

SessionFree(c, m) == \A d \in Clients \ {c} : ~Conflict(m, tx[d].row)

GameFree(c, g) == \A d \in Clients \ {c} : g \notin tx[d].games

Advisories == {"none", "publish_session", "unlock_session", "swap"}

AdvisoryFree(c, a) == \A d \in Clients \ {c} : tx[d].adv # a

-----------------------------------------------------------------------------
(* Requests and transactions *)

Labels == {"idle", "load", "begin", "idem", "game", "outbox", "count", "autolock",
           "games", "rows", "commit", "broken", "respond", "saveIdem"}

NoRequest ==
  [op |-> "none", game |-> CHOOSE g \in Games : TRUE, other |-> CHOOSE g \in Games : TRUE,
   at |-> "A0", with |-> "A0", score |-> NoScore, on |-> FALSE, refs |-> {}, exp |-> 0, key |-> NoKey]

\* sid, seen: the session id and the status it read; body: the snapshot Save
\* writes, later the response SaveIdempotency keeps; lock: it sets status =
\* 'locked'; told: it has inserted its game's event; row, games, adv: the
\* locks it holds on the session's row, on game rows, and its advisory lock.
Tx == [pc : Labels, req : RequestType, sid : Nat, seen : Statuses, body : Snapshot,
       lock : BOOLEAN, told : BOOLEAN, row : Modes, games : SUBSET Games, adv : Advisories]

IdleTx == [pc |-> "idle", req |-> NoRequest, sid |-> 0, seen |-> "none", body |-> NoSnap,
           lock |-> FALSE, told |-> FALSE, row |-> "none", games |-> {}, adv |-> "none"]

\* Mutant of Finish: an error path that forgets the rollback.
FinishLeaking(c) == tx' = [tx EXCEPT ![c].pc = "idle"]

\* Return with the transaction rolled back (or after it committed): the
\* connection, and every lock with it, is given back.
Finish(c) == tx' = [tx EXCEPT ![c] = IdleTx]

At(c, ops, label) == tx[c].pc = label /\ tx[c].req.op \in ops

\* The session the transaction resolved is still the one there is.
SameSession(c) == status # "none" /\ uuid = tx[c].sid

-----------------------------------------------------------------------------
\* Save locks when the snapshot says so, or (an update only) by itself when
\* the whole schedule is scored or the date has passed.
SaveLocks(c) ==
  \/ tx[c].body.locked
  \/ /\ status = "draft"
     /\ \/ past
        \/ /\ AllScored(tx[c].body.games)
           /\ \E g \in Games : Present(tx[c].body.games[g])

-----------------------------------------------------------------------------
(* Initial states: no such session, or one just created by a PUT *)

Init ==
  /\ \/ /\ status = "none" /\ uuid = 0 /\ version = 0
        /\ games = [g \in Games |-> NoGame(g)]
     \/ /\ status = "draft" /\ uuid = 1 /\ version = 1
        /\ games = [g \in Games |-> FreshRow(g)]
  /\ absent = {} /\ outbox = <<>>
  /\ idem = [k \in Keys |-> NoSnap] /\ cache = [k \in Keys |-> NoSnap]
  /\ past = FALSE
  /\ tx = [c \in Clients |-> IdleTx]
  /\ view = [c \in Clients |-> NoSnap]
  /\ left = [c \in Clients |-> MaxRequests]

-----------------------------------------------------------------------------
(* Handlers, up to the store's transaction *)

\* GET /sessions/{id}; a session that is not there leaves the client as it is.
Get(c) ==
  /\ tx[c].pc = "idle"
  /\ IF status = "none" THEN UNCHANGED view
                         ELSE view' = [view EXCEPT ![c] = LoadSnap]
  /\ UNCHANGED <<db, cache, past, tx, left>>

\* The operations whose handler looks the key up in the in-memory cache.
CachedOps == PutOps \cup GameOps \cup SwapOps \cup {"absent"}

\* A request that passes its handler's own checks: If-Match is required for
\* every granular operation, and a score must be a valid one.
Acceptable(r) ==
  /\ r.op \in GameOps \cup SwapOps \cup {"absent"} => r.exp > 0
  /\ r.op = "score" => r.score \in Scores

Issue(c, r) ==
  /\ tx[c].pc = "idle" /\ left[c] > 0 /\ Acceptable(r)
  /\ ~(r.op \in CachedOps /\ r.key \in Keys /\ cache[r.key] # NoSnap)
  /\ tx' = [tx EXCEPT ![c] = [IdleTx EXCEPT !.req = r,
                                 !.pc = IF r.op \in SaveOps THEN "load" ELSE "begin"]]
  /\ left' = [left EXCEPT ![c] = @ - 1]
  /\ UNCHANGED <<db, cache, past, view>>

\* Answered from the in-memory cache without touching the store.
IssueCached(c, r) ==
  /\ tx[c].pc = "idle" /\ left[c] > 0 /\ Acceptable(r)
  /\ r.op \in CachedOps /\ r.key \in Keys
  /\ cache[r.key] # NoSnap
  /\ view' = [view EXCEPT ![c] = cache[r.key]]
  /\ left' = [left EXCEPT ![c] = @ - 1]
  /\ UNCHANGED <<db, cache, past, tx>>

\* The snapshot a PUT carries: the client's last one (or a fresh schedule)
\* with one game edited, or with one game left out.
PutBody(c, r) ==
  LET base == IF view[c] = NoSnap THEN FreshSnap ELSE view[c]
      row  == [base.games[r.game] EXCEPT !.ver = 1, !.score = r.score, !.played = r.on]
  IN  IF r.op = "put" THEN [base EXCEPT !.games[r.game] = row, !.absent = r.refs]
                      ELSE [base EXCEPT !.games[r.game] = NoGame(r.game)]

\* Put: an existing session may not be updated without a version.
PutLoad(c) ==
  /\ At(c, PutOps, "load")
  /\ IF status # "none" /\ tx[c].req.exp = 0
       THEN Finish(c)
       ELSE tx' = [tx EXCEPT ![c].pc = "begin", ![c].body = PutBody(c, tx[c].req)]
  /\ UNCHANGED <<db, cache, past, view, left>>

\* mutate (Patch, Lock): load, require If-Match, transform.
MutateLoad(c) ==
  /\ At(c, {"patch", "lock"}, "load")
  /\ IF status = "none" \/ tx[c].req.exp = 0
       THEN Finish(c)
       ELSE tx' = [tx EXCEPT ![c].pc = "begin",
                             ![c].body = IF tx[c].req.op = "lock"
                                           THEN [LoadSnap EXCEPT !.locked = TRUE]
                                           ELSE LoadSnap]
  /\ UNCHANGED <<db, cache, past, view, left>>

-----------------------------------------------------------------------------
(* SetGameScore, SetGamePlayed, SetGameSkipped *)

\* Resolve the session and read its status, without locking its row.
ReadStatus(c) ==
  /\ At(c, GameOps, "begin")
  /\ LET next == IF tx[c].req.key # NoKey THEN "idem" ELSE "game"
     IN  IF status = "none" \/ (next = "game" /\ status # "draft")
           THEN Finish(c)
           ELSE tx' = [tx EXCEPT ![c].pc = next, ![c].sid = uuid, ![c].seen = status]
  /\ UNCHANGED <<db, cache, past, view, left>>

IdemHit(c) == SameSession(c) /\ tx[c].req.key \in Keys /\ idem[tx[c].req.key] # NoSnap

\* CheckIdempotency comes before the check of the status read earlier.
CheckIdempotency(c) ==
  /\ At(c, GameOps, "idem")
  /\ \/ /\ IdemHit(c)
        /\ view' = [view EXCEPT ![c] = idem[tx[c].req.key]]
        /\ Finish(c)
     \/ /\ ~IdemHit(c) /\ tx[c].seen # "draft"
        /\ Finish(c) /\ UNCHANGED view
     \/ /\ ~IdemHit(c) /\ tx[c].seen = "draft"
        /\ tx' = [tx EXCEPT ![c].pc = "game"] /\ UNCHANGED view
  /\ UNCHANGED <<db, cache, past, left>>

\* Mutant of GameUsable: If-Match is not compared.
UsableAtAnyVersion(c) ==
  LET r == tx[c].req
  IN  SameSession(c) /\ Present(games[r.game]) /\ GameFree(c, r.game) /\ r.refs \subseteq Players

\* The game row exists, is free and has the If-Match version.
GameUsable(c) ==
  LET r == tx[c].req
  IN  /\ SameSession(c) /\ Present(games[r.game])
      /\ GameFree(c, r.game)
      /\ games[r.game].ver = r.exp
      /\ r.op = "skip" => r.refs \subseteq Players

\* SELECT ... FOR UPDATE NOWAIT, the version check and the UPDATE.
LockGame(c) ==
  LET r == tx[c].req
  IN  /\ At(c, GameOps, "game")
      /\ \/ /\ ~GameUsable(c)
            /\ Finish(c) /\ UNCHANGED view
         \/ /\ GameUsable(c) /\ GameNoop(games[r.game], r)
            /\ view' = [view EXCEPT ![c] = LoadSnap]
            /\ Finish(c)
         \/ /\ GameUsable(c) /\ ~GameNoop(games[r.game], r)
            /\ tx' = [tx EXCEPT ![c].pc = "outbox", ![c].games = {r.game}]
            /\ UNCHANGED view
      /\ UNCHANGED <<db, cache, past, left>>

AfterOutbox(c) == IF tx[c].req.op = "score" THEN "count" ELSE "commit"

\* InsertOutbox: the foreign key's check waits for a FOR UPDATE holder.
InsertOutbox(c) ==
  /\ At(c, GameOps, "outbox")
  /\ SessionFree(c, "keyShare")
  /\ tx' = [tx EXCEPT ![c].row = "keyShare", ![c].told = TRUE, ![c].pc = AfterOutbox(c)]
  /\ UNCHANGED <<db, cache, past, view, left>>

\* A failed statement aborts the transaction, which gives back its locks; the
\* request does not know and goes on.
Break(c) == tx' = [tx EXCEPT ![c] = [IdleTx EXCEPT !.pc = "broken", !.req = tx[c].req]]

\* InsertOutbox is about to run: the next step of a game operation, the last
\* statement of a swap or an absence (which holds the row, so waits for nobody).
AtOutbox(c) == At(c, GameOps, "outbox") \/ At(c, SwapOps \cup {"absent"}, "commit")

\* Mutant of OutboxFails: the ignored error leaves the transaction usable (a
\* savepoint around InsertOutbox).
OutboxFailsAlone(c) ==
  /\ AtOutbox(c)
  /\ IF tx[c].req.op \in GameOps THEN tx' = [tx EXCEPT ![c].pc = AfterOutbox(c)] ELSE Break(c)
  /\ UNCHANGED <<db, cache, past, view, left>>

\* InsertOutbox fails, and its error is ignored.
OutboxFails(c) ==
  /\ AtOutbox(c)
  /\ Break(c)
  /\ UNCHANGED <<db, cache, past, view, left>>

\* What an aborted transaction runs next fails: allGamesScored for a score,
\* the commit, which rolls back, for the others.
BrokenGoesOn(c) ==
  /\ tx[c].pc = "broken"
  /\ Finish(c)
  /\ UNCHANGED <<db, cache, past, view, left>>

\* allGamesScored: what is committed now, and the transaction's own write.
CountScored(c) ==
  LET r == tx[c].req
  IN  /\ At(c, {"score"}, "count")
      /\ tx' = [tx EXCEPT ![c].pc =
                   IF AllScored([games EXCEPT ![r.game] = GameUpdate(@, r)])
                     THEN "autolock" ELSE "commit"]
      /\ UNCHANGED <<db, cache, past, view, left>>

\* Mutant of AutoLock: without WHERE status = 'draft'.
AutoLockAgain(c) ==
  /\ At(c, {"score"}, "autolock")
  /\ SessionFree(c, "noKeyUpdate")
  /\ tx' = [tx EXCEPT ![c].pc = "commit", ![c].row = "noKeyUpdate", ![c].lock = TRUE]
  /\ UNCHANGED <<db, cache, past, view, left>>

\* UPDATE sessions ... WHERE status = 'draft': nothing to update when it is
\* locked already, else it waits for another game's auto-lock and looks again.
AutoLock(c) ==
  /\ At(c, {"score"}, "autolock")
  /\ \/ /\ status # "draft"
        /\ tx' = [tx EXCEPT ![c].pc = "commit"]
     \/ /\ status = "draft" /\ SessionFree(c, "noKeyUpdate")
        /\ tx' = [tx EXCEPT ![c].pc = "commit", ![c].row = "noKeyUpdate", ![c].lock = TRUE]
  /\ UNCHANGED <<db, cache, past, view, left>>

\* Give the locks back and go on to Load and Broadcast.
Committed(c) ==
  tx' = [tx EXCEPT ![c] = [@ EXCEPT !.pc = "respond", !.row = "none", !.games = {},
                                    !.adv = "none", !.lock = FALSE, !.told = FALSE,
                                    !.body = NoSnap]]

\* The outbox with the event of one write appended.
WithEvent(of, ver) == Append(outbox, [of |-> of, ver |-> ver])

CommitGame(c) ==
  LET r == tx[c].req
  IN  /\ At(c, GameOps, "commit")
      /\ games' = [games EXCEPT ![r.game] = GameUpdate(@, r)]
      /\ outbox' = IF tx[c].told THEN WithEvent(r.game, r.exp + 1) ELSE outbox
      /\ IF tx[c].lock THEN status' = "locked" /\ version' = version + 1
                        ELSE UNCHANGED <<status, version>>
      /\ Committed(c)
      /\ UNCHANGED <<uuid, absent, idem, cache, past, view, left>>

-----------------------------------------------------------------------------
(* Operations that lock the session's row: FOR UPDATE NOWAIT *)

AdvisoryOf(op) ==
  CASE op \in SaveOps -> "publish_session"
    [] op = "unlock"  -> "unlock_session"
    [] op = "swapSlots" -> "swap"
    [] OTHER -> "none"

\* Mutant of SessionLockable: the row is read without FOR UPDATE.
AdvisoryOnly(c) ==
  AdvisoryOf(tx[c].req.op) # "none" => AdvisoryFree(c, AdvisoryOf(tx[c].req.op))

\* The row (if there is one) and the advisory lock can be had at once; the
\* operations never wait for them (ErrContention).
SessionLockable(c) ==
  /\ status # "none" => SessionFree(c, "update")
  /\ AdvisoryOf(tx[c].req.op) # "none" => AdvisoryFree(c, AdvisoryOf(tx[c].req.op))

VersionMatches(r) == r.exp = version

\* Mutant of SaveAllowed: a locked session is written too.
SaveLockedToo(c) ==
  /\ SessionLockable(c)
  /\ IF status = "none" THEN tx[c].req.exp = 0
                         ELSE tx[c].req.exp = 0 \/ VersionMatches(tx[c].req)
  /\ ValidSnapshot(tx[c].body)

\* Save on an existing row: draft, and the version (when there is one in the
\* request) current.  Without a row only a request without a version creates.
SaveAllowed(c) ==
  /\ SessionLockable(c)
  /\ IF status = "none" THEN tx[c].req.exp = 0
                         ELSE status = "draft" /\ (tx[c].req.exp = 0 \/ VersionMatches(tx[c].req))
  /\ ValidSnapshot(tx[c].body)

\* Save, steps 1-6: advisory lock, row lock, checks, upsert of sessions.
SaveBegin(c) ==
  /\ At(c, SaveOps, "begin")
  /\ IF SaveAllowed(c)
       THEN tx' = [tx EXCEPT ![c].pc = "rows", ![c].sid = uuid, ![c].seen = status,
                             ![c].adv = "publish_session",
                             ![c].row = IF status = "none" THEN "none" ELSE "update"]
       ELSE Finish(c)
  /\ UNCHANGED <<db, cache, past, view, left>>

\* Delete refuses a session that is not a draft.
DeleteBegin(c) ==
  /\ At(c, {"delete"}, "begin")
  /\ IF status = "draft" /\ SessionLockable(c)
       THEN tx' = [tx EXCEPT ![c].pc = "rows", ![c].sid = uuid, ![c].seen = status, ![c].row = "update"]
       ELSE Finish(c)
  /\ UNCHANGED <<db, cache, past, view, left>>

\* Games still to be deleted by Save (DELETE FROM scheduled_games) or by the
\* cascade of Delete.
RowsLeft(c) == {g \in Games : status # "none" /\ Present(games[g])} \ tx[c].games

\* The DELETE locks row after row, in a scan order nobody fixes, and waits
\* for a game operation that holds one.
DeleteRow(c, g) ==
  /\ At(c, SaveOps \cup {"delete"}, "rows")
  /\ g \in RowsLeft(c) /\ GameFree(c, g)
  /\ tx' = [tx EXCEPT ![c].games = @ \cup {g}]
  /\ UNCHANGED <<db, cache, past, view, left>>

\* All rows deleted; Save inserts the new ones and decides on the auto-lock.
RowsDeleted(c) ==
  /\ At(c, SaveOps \cup {"delete"}, "rows") /\ RowsLeft(c) = {}
  /\ tx' = [tx EXCEPT ![c].pc = "commit",
                       ![c].lock = tx[c].req.op \in SaveOps /\ SaveLocks(c)]
  /\ UNCHANGED <<db, cache, past, view, left>>

\* Mutant of SavedVersion: the save that locks does not bump.
SavedVersionOfDrafts(c) ==
  IF status = "none" THEN 1 ELSE IF tx[c].lock THEN version ELSE version + 1

SavedVersion(c) == IF status = "none" THEN 1 ELSE version + 1

CommitSave(c) ==
  /\ At(c, SaveOps, "commit")
  /\ status' = IF tx[c].lock THEN "locked" ELSE "draft"
  /\ uuid' = IF status = "none" THEN uuid + 1 ELSE uuid
  /\ version' = SavedVersion(c)
  /\ absent' = tx[c].body.absent
  /\ games' = SyncedRows(tx[c].body)
  /\ Committed(c)
  /\ UNCHANGED <<outbox, idem, cache, past, view, left>>

\* ON DELETE CASCADE takes the games, the events and the idempotency keys.
CommitDelete(c) ==
  /\ At(c, {"delete"}, "commit")
  /\ status' = "none" /\ version' = 0 /\ absent' = {} /\ outbox' = <<>>
  /\ games' = [g \in Games |-> NoGame(g)]
  /\ idem' = [k \in Keys |-> NoSnap]
  /\ Finish(c)
  /\ UNCHANGED <<uuid, cache, past, view, left>>

\* Unlock: without If-Match, and without a bump when it is a draft already.
UnlockBegin(c) ==
  /\ At(c, {"unlock"}, "begin")
  /\ IF status # "none" /\ SessionLockable(c)
       THEN tx' = [tx EXCEPT ![c].pc = "commit", ![c].sid = uuid, ![c].seen = status,
                             ![c].row = "update", ![c].adv = "unlock_session"]
       ELSE Finish(c)
  /\ UNCHANGED <<db, cache, past, view, left>>

CommitUnlock(c) ==
  /\ At(c, {"unlock"}, "commit")
  /\ status' = "draft"
  /\ version' = IF status = "draft" THEN version ELSE version + 1
  /\ Committed(c)
  /\ UNCHANGED <<uuid, absent, games, outbox, idem, cache, past, view, left>>

\* Mutant of GranularAllowed: a locked session is written too.
GranularLockedToo(r) == VersionMatches(r) /\ (r.op = "absent" => r.refs \subseteq Players)

GranularAllowed(r) ==
  status = "draft" /\ VersionMatches(r) /\ (r.op = "absent" => r.refs \subseteq Players)

\* SetAbsentPlayers and SwapMembers: the row lock, then the idempotency
\* check (nobody can write a key of a session locked FOR UPDATE), then
\* status, version and, for the absent list, the refs.
GranularBegin(c) ==
  LET r == tx[c].req
      hit == r.key \in Keys /\ idem[r.key] # NoSnap
      ok  == GranularAllowed(r)
  IN  /\ At(c, SwapOps \cup {"absent"}, "begin")
      /\ \/ /\ status = "none" \/ ~SessionLockable(c) \/ (~hit /\ ~ok)
            /\ Finish(c) /\ UNCHANGED view
         \/ /\ status # "none" /\ SessionLockable(c) /\ hit
            /\ view' = [view EXCEPT ![c] = idem[r.key]]
            /\ Finish(c)
         \/ /\ status # "none" /\ SessionLockable(c) /\ ~hit /\ ok
            /\ tx' = [tx EXCEPT ![c].pc = IF r.op = "absent" THEN "commit" ELSE "games",
                                 ![c].sid = uuid, ![c].seen = status, ![c].row = "update",
                                 ![c].adv = AdvisoryOf(r.op)]
            /\ UNCHANGED view
      /\ UNCHANGED <<db, cache, past, left>>

\* Mutant of CommitAbsent: no bump.
CommitAbsentUnbumped(c) ==
  /\ At(c, {"absent"}, "commit")
  /\ absent' = tx[c].req.refs
  /\ outbox' = WithEvent("absent", version)
  /\ Committed(c)
  /\ UNCHANGED <<status, uuid, version, games, idem, cache, past, view, left>>

CommitAbsent(c) ==
  /\ At(c, {"absent"}, "commit")
  /\ absent' = tx[c].req.refs
  /\ version' = version + 1
  /\ outbox' = WithEvent("absent", version + 1)
  /\ Committed(c)
  /\ UNCHANGED <<status, uuid, games, idem, cache, past, view, left>>

\* lockTwoGames (or the one game): NOWAIT, both rows must exist, and no
\* statement of the swap may put a player twice into a game.
LockTwoGames(c) ==
  LET r == tx[c].req
  IN  /\ At(c, SwapOps, "games")
      /\ IF GameFree(c, r.game) /\ GameFree(c, r.other) /\ CanSwap(games, r)
           THEN tx' = [tx EXCEPT ![c].pc = "commit", ![c].games = {r.game, r.other}]
           ELSE Finish(c)
      /\ UNCHANGED <<db, cache, past, view, left>>

CommitSwap(c) ==
  /\ At(c, SwapOps, "commit")
  /\ games' = Swapped(games, tx[c].req)
  /\ version' = version + 1
  /\ outbox' = WithEvent("session", version + 1)
  /\ Committed(c)
  /\ UNCHANGED <<status, uuid, absent, idem, cache, past, view, left>>

-----------------------------------------------------------------------------
(* After the commit, and the environment *)

\* Load, Broadcast, answer.  PUT puts the answer into the in-memory cache;
\* the granular operations go on to SaveIdempotency.
Respond(c) ==
  LET r == tx[c].req
      keyed == r.key \in Keys /\ status # "none"
  IN  /\ tx[c].pc = "respond"
      /\ IF status = "none" THEN UNCHANGED view
                            ELSE view' = [view EXCEPT ![c] = LoadSnap]
      /\ IF keyed /\ r.op \in PutOps THEN cache' = [cache EXCEPT ![r.key] = LoadSnap]
                                      ELSE UNCHANGED cache
      /\ IF keyed /\ r.op \in CachedOps \ PutOps
           THEN tx' = [tx EXCEPT ![c].pc = "saveIdem", ![c].body = LoadSnap]
           ELSE Finish(c)
      /\ UNCHANGED <<db, past, left>>

\* SaveIdempotency, a statement of its own: ON CONFLICT DO NOTHING; a session
\* deleted meanwhile fails the foreign key, which is ignored.
SaveIdempotency(c) ==
  LET k == tx[c].req.key
  IN  /\ tx[c].pc = "saveIdem"
      /\ SessionFree(c, "keyShare")
      /\ IF SameSession(c) /\ idem[k] = NoSnap
           THEN idem' = [idem EXCEPT ![k] = tx[c].body]
           ELSE UNCHANGED idem
      /\ Finish(c)
      /\ UNCHANGED <<status, uuid, version, absent, games, outbox, cache, past, view, left>>

\* c waits for the session's row, held by d, and d for a game row of c.
Deadlocked(c, d) ==
  /\ At(c, GameOps, "outbox") /\ tx[d].row = "update"
  /\ tx[d].pc = "rows" /\ RowsLeft(d) \cap tx[c].games # {}

\* PostgreSQL aborts one transaction of a cycle: Save and Delete return the
\* error, a game operation ignores it (InsertOutbox's).
DeadlockAbort(c) ==
  /\ \E d \in Clients \ {c} : Deadlocked(c, d) \/ Deadlocked(d, c)
  /\ IF AtOutbox(c) THEN Break(c) ELSE Finish(c)
  /\ UNCHANGED <<db, cache, past, view, left>>

\* Midnight in Jakarta.
DayPasses ==
  /\ ~past /\ past' = TRUE
  /\ UNCHANGED <<db, cache, tx, view, left>>

\* The 24 hours of a cached response end, or the cache is full.
CacheEvict(k) ==
  /\ cache[k] # NoSnap
  /\ cache' = [cache EXCEPT ![k] = NoSnap]
  /\ UNCHANGED <<db, past, tx, view, left>>

\* The server process dies: open transactions are rolled back, memory is lost.
Restart ==
  /\ \E c \in Clients : tx[c] # IdleTx
  /\ tx' = [c \in Clients |-> IdleTx]
  /\ cache' = [k \in Keys |-> NoSnap]
  /\ UNCHANGED <<db, past, view, left>>

-----------------------------------------------------------------------------
\* The server's own steps: those a request cannot be kept from taking.
ServerStep(c) ==
  \/ PutLoad(c) \/ MutateLoad(c)
  \/ ReadStatus(c) \/ CheckIdempotency(c) \/ LockGame(c) \/ InsertOutbox(c)
  \/ BrokenGoesOn(c) \/ CountScored(c) \/ AutoLock(c) \/ CommitGame(c)
  \/ SaveBegin(c) \/ DeleteBegin(c) \/ (\E g \in Games : DeleteRow(c, g)) \/ RowsDeleted(c)
  \/ CommitSave(c) \/ CommitDelete(c)
  \/ UnlockBegin(c) \/ CommitUnlock(c)
  \/ GranularBegin(c) \/ CommitAbsent(c) \/ LockTwoGames(c) \/ CommitSwap(c)
  \/ Respond(c) \/ SaveIdempotency(c)

UserStep(c) == Get(c) \/ \E r \in Requests : Issue(c, r) \/ IssueCached(c, r)

Next ==
  \/ \E c \in Clients : ServerStep(c) \/ UserStep(c) \/ OutboxFails(c) \/ DeadlockAbort(c)
  \/ DayPasses
  \/ \E k \in Keys : CacheEvict(k)
  \/ Restart

Spec == Init /\ [][Next]_vars

\* Every request's goroutine keeps running, and PostgreSQL resolves deadlocks
\* (deadlock_timeout); users, failures, midnight and crashes are not forced.
FairSpec == Spec /\ \A c \in Clients : WF_vars(ServerStep(c)) /\ WF_vars(DeadlockAbort(c))

-----------------------------------------------------------------------------
(* Properties *)

Event == [of : Games \cup {"absent", "session"}, ver : Nat]

TypeOK ==
  /\ status \in Statuses /\ uuid \in Nat /\ version \in Nat
  /\ absent \subseteq Players
  /\ games \in [Games -> Row]
  /\ outbox \in Seq(Event)
  /\ idem \in [Keys -> Snapshot] /\ cache \in [Keys -> Snapshot]
  /\ past \in BOOLEAN
  /\ tx \in [Clients -> Tx]
  /\ view \in [Clients -> Snapshot]
  /\ left \in [Clients -> Nat]

\* A game operation past its lock and version check, and an operation on the
\* session's row past its.
GameWriter(c) ==
  tx[c].req.op \in GameOps /\ tx[c].pc \in {"outbox", "count", "autolock", "commit"}

SessionWriter(c) ==
  tx[c].req.op \in SessionOps /\ tx[c].pc \in {"games", "rows", "commit"}

GameCheck(c) ==
  GameWriter(c) => SameSession(c) /\ games[tx[c].req.game].ver = tx[c].req.exp

\* Optimistic concurrency of the game operations: from its version check to
\* its commit, the committed row a game operation is about to overwrite still
\* has the version of the request's If-Match, in the same session.
GameCheckHolds == \A c \in Clients : GameCheck(c)

SessionCheck(c) ==
  SessionWriter(c) =>
    /\ status = tx[c].seen /\ uuid = tx[c].sid
    /\ tx[c].req.op \in SwapOps \cup {"absent"} => VersionMatches(tx[c].req)
    /\ tx[c].req.op \in SaveOps =>
         IF status = "none" THEN tx[c].req.exp = 0
                            ELSE tx[c].req.exp = 0 \/ VersionMatches(tx[c].req)

\* The same for the operations on the session's row: from the check to the
\* commit its id, status and version are what was checked.
SessionCheckHolds == \A c \in Clients : SessionCheck(c)

\* A committed score belongs to a played game: neither PUT, unplaying a game
\* nor a score that arrives meanwhile leaves the one without the other.
ScoredIsPlayed == \A g \in Games : games[g].score # NoScore => games[g].played

\* No game ever seats a player twice, whatever swaps and publishes interleave.
SeatsDistinct == \A g \in Games : Present(games[g]) => Distinct(games[g].seat)

Continues == status # "none" /\ status' # "none" /\ uuid' = uuid

\* One bump per commit: within one session's life the version goes up by at
\* most one per step, and exactly one whenever the status, the absent list or
\* who sits where changes, so a stale If-Match on the session cannot miss it.
OneBumpPerChange ==
  [][Continues =>
       /\ version' \in {version, version + 1}
       /\ \/ status' # status \/ absent' # absent
          \/ \E g \in Games : games'[g].seat # games[g].seat
          => version' = version + 1]_vars

\* While a session stays locked nothing of its structure changes (the absent
\* list, the seats, the schedule, the version), and a locked session is not
\* deleted by DELETE /sessions/{id}.
LockedStructureFrozen ==
  [][status = "locked" =>
       /\ status' # "none"
       /\ status' = "locked" =>
            /\ version' = version /\ absent' = absent
            /\ \A g \in Games : /\ games'[g].seat = games[g].seat
                                /\ Present(games'[g]) = Present(games[g])]_vars

\* A game changed other than by a publish (which starts its version again at
\* 1) has an event: its own with its new version, or the session's.
ToldChanges ==
  \A g \in Games : games'[g] # games[g] /\ games'[g].ver > 1 =>
    outbox' \in {Append(outbox, [of |-> g, ver |-> games'[g].ver]),
                Append(outbox, [of |-> "session", ver |-> version'])}

\* A new event reports a version this very step made.
ToldVersions ==
  \A i \in DOMAIN outbox' \ DOMAIN outbox :
    LET e == outbox'[i]
    IN  IF e.of \in Games THEN games[e.of].ver + 1 = e.ver /\ games'[e.of].ver = e.ver
                          ELSE version + 1 = e.ver /\ version' = e.ver

\* In one session's life the durable events and the changes of its games are
\* committed together: no score, unplay, skip or swap without its event, no
\* event of a version nobody made, whether InsertOutbox fails (its error is
\* ignored), a transaction is aborted or the server dies.
EventsTellChanges == [][Continues => ToldChanges /\ ToldVersions]_vars

\* A request is applied at most once, however often it is repeated after lost
\* answers, crashes and evictions, with one Idempotency-Key for several
\* requests too: no two events of a session report the same version of the
\* same thing.  (A Save would restart the versions of games.)
VersionSpentOnce ==
  \A i, j \in DOMAIN outbox : i # j => outbox[i] # outbox[j]

\* No request hangs: NOWAIT, the waits for a foreign key check and for a
\* DELETE, and the deadlocks between the two all end.
RequestsEnd == \A c \in Clients : tx[c].pc # "idle" ~> tx[c].pc = "idle"
=============================================================================
