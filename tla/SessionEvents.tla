---------------------------- MODULE SessionEvents ----------------------------
(***************************************************************************)
(* The outbox of one session and GET /sessions/{id}/events?since=&limit=.  *)
(* An event takes its id from a sequence when it is inserted and is seen   *)
(* when its transaction commits, so ids are not committed in order.  The   *)
(* module has the locks that decide how much, for the two kinds of         *)
(* transactions that write events (see SessionStore): game operations and  *)
(* operations on the session's row; the id handed out here is the one      *)
(* thing SessionStore abstracts (its outbox is in commit order).           *)
(***************************************************************************)
EXTENDS Naturals, Sequences, FiniteSets

CONSTANTS
  Writers,   \* concurrent requests
  Games,     \* game keys
  Session,   \* aggregate of SetAbsentPlayers and SwapMembers
  Limit,     \* events per answer
  MaxId      \* bound: ids handed out

ASSUME SessionAssumption == Session \notin Games
ASSUME LimitAssumption == Limit \in Nat \ {0}
ASSUME BoundAssumption == MaxId \in Nat

VARIABLES
  lastId,   \* outbox_events_id_seq: the last id handed out
  tx,       \* each writer's step, the aggregate it writes, its event's id
  log,      \* outbox_events of the session, in commit order
  since,    \* the reader's since, from the nextSince of the last answer
  seen      \* ids of the events the reader was given

vars == <<lastId, tx, log, since, seen>>

Aggregates == Games \cup {Session}

IdleTx == [at |-> "idle", of |-> Session, id |-> 0]

Init ==
  /\ lastId = 0 /\ tx = [w \in Writers |-> IdleTx] /\ log = <<>>
  /\ since = 0 /\ seen = {}

-----------------------------------------------------------------------------
(* Writers *)

\* FOR UPDATE on the game's row, FOR UPDATE on the session's row, and the
\* FOR KEY SHARE on the session's row that the event's foreign key takes.
GameLocked(g) == \E w \in Writers : tx[w].of = g /\ tx[w].at \in {"locked", "inserting", "inserted"}
SessionLocked == \E w \in Writers : tx[w].of = Session /\ tx[w].at # "idle"
KeyShared     == \E w \in Writers : tx[w].of # Session /\ tx[w].at = "inserted"

\* Mutant of LockGame: the game's row is read without FOR UPDATE.
LockNoGame(w, g) ==
  /\ tx[w].at = "idle"
  /\ tx' = [tx EXCEPT ![w] = [at |-> "locked", of |-> g, id |-> 0]]
  /\ UNCHANGED <<lastId, log, since, seen>>

\* A game operation has locked its row and passed its checks (NOWAIT: the
\* requests that do not get that far change nothing).
LockGame(w, g) ==
  /\ tx[w].at = "idle" /\ ~GameLocked(g)
  /\ tx' = [tx EXCEPT ![w] = [at |-> "locked", of |-> g, id |-> 0]]
  /\ UNCHANGED <<lastId, log, since, seen>>

\* The same for an operation on the session's row.
LockSession(w) ==
  /\ tx[w].at = "idle" /\ ~SessionLocked /\ ~KeyShared
  /\ tx' = [tx EXCEPT ![w] = [at |-> "locked", of |-> Session, id |-> 0]]
  /\ UNCHANGED <<lastId, log, since, seen>>

\* InsertOutbox: the id is taken first, the foreign key checked after.
InsertOutbox(w) ==
  /\ tx[w].at = "locked" /\ lastId < MaxId
  /\ lastId' = lastId + 1
  /\ tx' = [tx EXCEPT ![w].at = IF tx[w].of = Session THEN "inserted" ELSE "inserting",
                       ![w].id = lastId + 1]
  /\ UNCHANGED <<log, since, seen>>

\* Mutant of CheckForeignKey: the event references no session.
SkipForeignKey(w) ==
  /\ tx[w].at = "inserting"
  /\ tx' = [tx EXCEPT ![w].at = "inserted"]
  /\ UNCHANGED <<lastId, log, since, seen>>

\* The foreign key's check waits for a FOR UPDATE on the session's row.
CheckForeignKey(w) ==
  /\ tx[w].at = "inserting" /\ ~SessionLocked
  /\ tx' = [tx EXCEPT ![w].at = "inserted"]
  /\ UNCHANGED <<lastId, log, since, seen>>

Commit(w) ==
  /\ tx[w].at = "inserted"
  /\ log' = Append(log, [id |-> tx[w].id, of |-> tx[w].of])
  /\ tx' = [tx EXCEPT ![w] = IdleTx]
  /\ UNCHANGED <<lastId, since, seen>>

\* An error, a deadlock or a crash: the id is never used.
Rollback(w) ==
  /\ tx[w].at # "idle"
  /\ tx' = [tx EXCEPT ![w] = IdleTx]
  /\ UNCHANGED <<lastId, log, since, seen>>

-----------------------------------------------------------------------------
(* ListEvents *)

Ids == {log[i].id : i \in DOMAIN log}

\* ORDER BY id LIMIT: the events after since that have fewer than Limit others
\* before them.
Page == {e \in Ids : since < e /\ Cardinality({d \in Ids : since < d /\ d < e}) < Limit}

\* Mutant of NextSince: the last id handed out.
SinceLast == IF Page = {} THEN since ELSE lastId

\* nextSince is the last id of the answer, the old since when it is empty.
NextSince == IF Page = {} THEN since ELSE CHOOSE e \in Page : \A d \in Page : d <= e

Poll ==
  /\ since' = NextSince
  /\ seen' = seen \cup Page
  /\ UNCHANGED <<lastId, tx, log>>

-----------------------------------------------------------------------------
Next ==
  \/ \E w \in Writers : \/ \E g \in Games : LockGame(w, g)
                        \/ LockSession(w) \/ InsertOutbox(w) \/ CheckForeignKey(w)
                        \/ Commit(w) \/ Rollback(w)
  \/ Poll

Spec == Init /\ [][Next]_vars

-----------------------------------------------------------------------------
(* Properties *)

TypeOK ==
  /\ lastId \in Nat /\ since \in Nat /\ seen \subseteq Nat
  /\ tx \in [Writers -> [at : {"idle", "locked", "inserting", "inserted"}, of : Aggregates, id : Nat]]
  /\ log \in Seq([id : Nat, of : Aggregates])

\* An event is overtaken, committed after one with a higher id, only when it
\* is a game's and the other is not of the same game: the row locks are taken
\* before the id.  Sorted by id, the events of a game are in commit order.
OnlyOthersOvertake ==
  \A i, j \in DOMAIN log : i < j /\ log[i].id > log[j].id =>
    log[j].of \in Games /\ log[i].of # log[j].of

\* A reader that follows nextSince never misses an absence or a swap: their
\* transactions keep game events from being committed.
SessionEventsDelivered ==
  \A i \in DOMAIN log : log[i].of = Session /\ log[i].id <= since => log[i].id \in seen

\* What the reader misses was committed after something it was given.
MissedWereLate ==
  \A j \in DOMAIN log : log[j].id <= since /\ log[j].id \notin seen =>
    \E i \in 1..(j - 1) : log[i].id > log[j].id /\ log[i].id \in seen

=============================================================================
