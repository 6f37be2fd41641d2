--------------------------- MODULE TournamentStore ---------------------------
(***************************************************************************)
(* One tournament: PUT, POST, PATCH, GET and the admin's delete as they    *)
(* run concurrently against PostgreSQL.  Saves are READ COMMITTED and      *)
(* never wait for the tournament (an advisory lock, then FOR UPDATE        *)
(* NOWAIT); the delete is REPEATABLE READ and does wait.  The loads run    *)
(* their statements one by one, without a transaction.                     *)
(*                                                                         *)
(* What a snapshot says is one member of Contents: a save replaces every   *)
(* child table of its own format and no table of the other.                *)
(***************************************************************************)
EXTENDS Naturals, Sequences

CONSTANTS
  Clients,      \* concurrent HTTP requests: each runs one request at a time
  Contents,     \* what the child tables of a tournament can hold
  Complete,     \* the contents in which every match has its scores
  NoContent,    \* empty child tables
  MaxRequests   \* bound: requests of all clients together

ASSUME ContentAssumption == Complete \subseteq Contents /\ NoContent \notin Contents
ASSUME BoundAssumption == MaxRequests \in Nat

VARIABLES
  born,      \* tournaments inserted so far
  uuid,      \* tournaments.id: its number among those inserted, 0 without a row
  version,   \* tournaments.version
  format,    \* tournaments.format
  tables,    \* the child tables of each format, and the version that wrote them
  sources,   \* its rows in rating_sources: the lookup they are kept under, the kind
  tx,        \* what each client's request is doing
  view,      \* the snapshot each client last received
  left       \* requests the clients may still send

row == <<born, uuid, version, format>>
db == <<row, tables, sources>>
vars == <<db, tx, view, left>>

Formats == {"classic", "team"}
Empty == [content |-> NoContent, at |-> 0]
NoTables == [f \in Formats |-> Empty]
TableSet == [content : Contents \cup {NoContent}, at : Nat]

\* What a path can name the tournament by: its share code, which lasts, or the
\* uuid of one of its rows, written as that row's number.
ShareCode == 0
Source == [key : Nat, kind : Formats]

\* rating_sources has a row under this lookup.
Listed(key) == \E s \in sources : s.key = key

-----------------------------------------------------------------------------
(* Requests *)

Labels == {"idle", "check", "lock", "source", "commit", "header", "read",
           "find", "sources", "row", "end"}

\* by: the lookup of the path; format, content: the snapshot a save writes;
\* expected: its version, 0 when it has none; id, ver: the row the request found
\* and its version; rated: a delete's snapshot has a source under the share
\* code; parts: what a load has read; locked: it holds the tournament's row (a
\* save also the advisory lock); took: it has deleted that source.
Request == [pc : Labels, op : {"none", "put", "create", "patch", "get", "delete"}, by : Nat,
            format : Formats, content : Contents \cup {NoContent}, expected : Nat,
            id : Nat, ver : Nat, rated : BOOLEAN, parts : Seq(TableSet),
            locked : BOOLEAN, took : BOOLEAN]

Idle == [pc |-> "idle", op |-> "none", by |-> ShareCode, format |-> "classic",
         content |-> NoContent, expected |-> 0, id |-> 0, ver |-> 0, rated |-> FALSE, parts |-> <<>>,
         locked |-> FALSE, took |-> FALSE]

\* A snapshot as a client has it: the header's row and version, and the child
\* tables in the order the load read them.
View == [id : Nat, version : Nat, format : Formats, parts : Seq(TableSet)]
NoView == [id |-> 0, version |-> 0, format |-> "classic", parts |-> <<>>]

At(c, label) == tx[c].pc = label
Saving(c, f) == tx[c].op \in {"put", "create", "patch"} /\ tx[c].format = f

\* Mutant of Finish: an error path without the rollback.
FinishLeaking(c) == tx' = [tx EXCEPT ![c] = [Idle EXCEPT !.locked = tx[c].locked, !.took = tx[c].took]]

\* The request ends; an open transaction is rolled back with its locks.
Finish(c) == tx' = [tx EXCEPT ![c] = Idle]

\* No such tournament, or one just created.
Init ==
  /\ \/ /\ born = 0 /\ uuid = 0 /\ version = 0 /\ format = "classic"
        /\ tables = NoTables /\ sources = {}
     \/ /\ born = 1 /\ uuid = 1 /\ version = 1 /\ format \in Formats
        /\ \E x \in Contents :
             /\ tables = [NoTables EXCEPT ![format] = [content |-> x, at |-> 1]]
             /\ sources = IF x \in Complete THEN {[key |-> ShareCode, kind |-> format]} ELSE {}
  /\ tx = [c \in Clients |-> Idle]
  /\ view = [c \in Clients |-> NoView]
  /\ left = MaxRequests

-----------------------------------------------------------------------------
(* Handlers, up to the store *)

Issue(c, request) ==
  /\ At(c, "idle") /\ left > 0
  /\ tx' = [tx EXCEPT ![c] = request]
  /\ left' = left - 1
  /\ UNCHANGED <<db, view>>

\* The lookup a client can use: the share code, or the uuid of the tournament
\* it was shown (which no response carries: it has it from elsewhere).
Lookups(c) == {ShareCode, view[c].id}

\* With the version of its snapshot, or none.  (A PUT without a version under
\* the uuid of no row makes another tournament, whose share code it is.)
Targets(c) == {t \in [by : Lookups(c), expected : {0, view[c].version}] :
                 t.by = ShareCode \/ t.expected # 0}

SendPut(c) ==
  \E f \in Formats, x \in Contents, t \in Targets(c) :
    Issue(c, [Idle EXCEPT !.pc = "check", !.op = "put", !.by = t.by, !.format = f,
                          !.content = x, !.expected = t.expected])

SendCreate(c) ==
  \E f \in Formats, x \in Contents :
    Issue(c, [Idle EXCEPT !.pc = "check", !.op = "create", !.format = f, !.content = x])

\* The body of a PATCH is decoded as a classic snapshot.
SendPatch(c) ==
  \E x \in Contents, t \in Targets(c) :
    Issue(c, [Idle EXCEPT !.pc = "check", !.op = "patch", !.by = t.by,
                          !.content = x, !.expected = t.expected])

SendGet(c) ==
  \E by \in Lookups(c) : Issue(c, [Idle EXCEPT !.pc = "check", !.op = "get", !.by = by])

SendDelete(c) ==
  \E by \in Lookups(c) : Issue(c, [Idle EXCEPT !.pc = "find", !.op = "delete", !.by = by])

\* The lookup finds the row there is.
Here(c) == uuid # 0 /\ tx[c].by \in {ShareCode, uuid}

Proceed(c, to) == tx' = [tx EXCEPT ![c].pc = to]

\* Mutant of PutAccepted: the format is not compared.
PutAcceptedAnyFormat(c) == Here(c) => tx[c].expected # 0

\* Put: of an existing tournament the format must agree and a version is
\* required.  This is read before the transaction begins.
PutAccepted(c) == Here(c) => format = tx[c].format /\ tx[c].expected # 0

CheckPut(c) ==
  /\ At(c, "check") /\ tx[c].op = "put"
  /\ IF PutAccepted(c) THEN Proceed(c, "lock") ELSE Finish(c)
  /\ UNCHANGED <<db, view, left>>

\* allocateTournamentID: an id that is taken is given up for another one.
CheckCreate(c) ==
  /\ At(c, "check") /\ tx[c].op = "create"
  /\ IF uuid = 0 THEN Proceed(c, "lock") ELSE Finish(c)
  /\ UNCHANGED <<db, view, left>>

\* Patch: the tournament must exist and If-Match is required.
CheckPatch(c) ==
  /\ At(c, "check") /\ tx[c].op = "patch"
  /\ IF Here(c) /\ tx[c].expected # 0 THEN Proceed(c, "lock") ELSE Finish(c)
  /\ UNCHANGED <<db, view, left>>

\* Get: the format decides which of the two loads runs.
CheckGet(c) ==
  /\ At(c, "check") /\ tx[c].op = "get"
  /\ IF Here(c) THEN tx' = [tx EXCEPT ![c].pc = "header", ![c].format = format]
                ELSE Finish(c)
  /\ UNCHANGED <<db, view, left>>

-----------------------------------------------------------------------------
(* Save and TeamSave *)

\* Mutant of Lockable: the row is read without FOR UPDATE and the advisory
\* lock is not asked for.
LockableAlways(c) == TRUE

\* Nobody else has the advisory lock of the same lookup or the row: both are
\* had at once or the save is refused (ErrContention).
Lockable(c) == \A d \in Clients \ {c} : ~tx[d].locked

\* A row is there with the expected version, if one is expected; without a
\* row none may be expected.
VersionHolds(c) ==
  \/ Here(c) /\ tx[c].expected \in {0, version}
  \/ ~Here(c) /\ tx[c].expected = 0

\* BEGIN, the advisory lock, SELECT ... FOR UPDATE NOWAIT and the version.
LockTournament(c) ==
  IF Lockable(c) /\ VersionHolds(c)
    THEN tx' = [tx EXCEPT ![c].pc = "source", ![c].id = uuid, ![c].ver = version,
                          ![c].locked = TRUE]
    ELSE Finish(c)

LockForSave(c) ==
  /\ At(c, "lock") /\ Saving(c, "classic")
  /\ LockTournament(c)
  /\ UNCHANGED <<db, view, left>>

LockForTeamSave(c) ==
  /\ At(c, "lock") /\ Saving(c, "team")
  /\ LockTournament(c)
  /\ UNCHANGED <<db, view, left>>

\* autoCreateRatingSource: INSERT ... ON CONFLICT DO NOTHING under the lookup
\* waits for a delete that has removed that row and not committed.
AutoCreateRatingSource(c) ==
  /\ At(c, "source")
  /\ tx[c].content \in Complete /\ tx[c].by = ShareCode => \A d \in Clients \ {c} : ~tx[d].took
  /\ Proceed(c, "commit")
  /\ UNCHANGED <<db, view, left>>

\* The header, one version after the one found.  Save leaves the format of an
\* existing row alone; TeamSave sets it.
WriteHeader(c, f) ==
  IF tx[c].id = 0
    THEN born' = born + 1 /\ uuid' = born + 1 /\ version' = 1 /\ format' = f
    ELSE /\ version' = tx[c].ver + 1 /\ UNCHANGED <<born, uuid>>
         /\ format' = IF f = "team" THEN "team" ELSE format

\* Commit: the rows written since the lock become visible, the source of a
\* complete tournament under the save's lookup; then the load, by that lookup,
\* that makes the response.
CommitTables(c, f) ==
  /\ WriteHeader(c, f)
  /\ tables' = [tables EXCEPT ![f] = [content |-> tx[c].content, at |-> version']]
  /\ sources' = sources \cup {s \in {[key |-> tx[c].by, kind |-> f]} :
                               tx[c].content \in Complete /\ ~Listed(s.key)}
  /\ tx' = [tx EXCEPT ![c] = [Idle EXCEPT !.pc = "header", !.op = "get", !.format = f,
                                          !.by = tx[c].by]]
  /\ UNCHANGED <<view, left>>

CommitSave(c) == At(c, "commit") /\ Saving(c, "classic") /\ CommitTables(c, "classic")
CommitTeamSave(c) == At(c, "commit") /\ Saving(c, "team") /\ CommitTables(c, "team")

-----------------------------------------------------------------------------
(* Load and TeamLoad *)

\* The id is resolved and the header read: from here on the rows are looked
\* up by the id, and the version is what the client will send back.
Header(c) ==
  /\ At(c, "header")
  /\ IF Here(c)
       THEN tx' = [tx EXCEPT ![c].pc = "read", ![c].id = uuid, ![c].ver = version]
       ELSE Finish(c)
  /\ UNCHANGED <<db, view, left>>

\* The child tables of the row the load found.
Rows(c) == IF uuid = tx[c].id THEN tables[tx[c].format] ELSE Empty

\* Mutant of Received: the version is read with the last table.
ReceivedWithNewestVersion(c, parts) ==
  /\ view' = [view EXCEPT ![c] = [id |-> tx[c].id, version |-> version,
                                  format |-> tx[c].format, parts |-> parts]]
  /\ Finish(c)

\* The snapshot the client gets: the header's version, then the tables.
Received(c, parts) ==
  /\ view' = [view EXCEPT ![c] = [id |-> tx[c].id, version |-> tx[c].ver,
                                  format |-> tx[c].format, parts |-> parts]]
  /\ Finish(c)

\* One more statement, of Statements in all.
ReadTable(c, found, Statements) ==
  LET parts == Append(tx[c].parts, found)
  IN  IF Len(parts) = Statements
        THEN Received(c, parts)
        ELSE tx' = [tx EXCEPT ![c].parts = parts] /\ UNCHANGED view

\* Load: pairs, groups joined with pairs, matches joined with pairs.
LoadTable(c) ==
  /\ At(c, "read") /\ tx[c].format = "classic"
  /\ ReadTable(c, Rows(c), 3)
  /\ UNCHANGED <<db, left>>

\* The load keeps a player only of a team it has read, and a game only of a
\* match it has read: every save gives teams and matches new ids.
Joined(c) ==
  LET n == Len(tx[c].parts)
  IN  IF n \in {1, 3} /\ tx[c].parts[n].at # Rows(c).at THEN Empty ELSE Rows(c)

\* TeamLoad: teams, their players, matches, their games.
TeamLoadTable(c) ==
  /\ At(c, "read") /\ tx[c].format = "team"
  /\ ReadTable(c, Joined(c), 4)
  /\ UNCHANGED <<db, left>>

-----------------------------------------------------------------------------
(* AdminDeleteTournament *)

\* The first SELECT fixes the snapshot the transaction keeps.
FindTournament(c) ==
  /\ At(c, "find")
  /\ IF Here(c)
       THEN tx' = [tx EXCEPT ![c].pc = "sources", ![c].id = uuid, ![c].ver = version,
                             ![c].rated = Listed(ShareCode)]
       ELSE Finish(c)
  /\ UNCHANGED <<db, view, left>>

\* DELETE FROM rating_events, rating_sources: the rows of the snapshot under
\* the share code, whatever the lookup.  It waits for another delete of them,
\* and fails when that one committed.
DeleteSources(c) ==
  /\ At(c, "sources")
  /\ tx[c].rated => \A d \in Clients \ {c} : ~tx[d].took
  /\ IF tx[c].rated /\ uuid # tx[c].id
       THEN Finish(c)
       ELSE tx' = [tx EXCEPT ![c].pc = "row", ![c].took = tx[c].rated]
  /\ UNCHANGED <<db, view, left>>

\* Mutant of SnapshotHolds: READ COMMITTED, which deletes the newest row.
RowIsThere(c) == uuid = tx[c].id

\* REPEATABLE READ: a row written since the snapshot cannot be deleted.
SnapshotHolds(c) == uuid = tx[c].id /\ version = tx[c].ver

\* DELETE FROM tournaments waits for a save or a delete that holds the row.
DeleteRow(c) ==
  /\ At(c, "row") /\ Lockable(c)
  /\ IF SnapshotHolds(c) THEN tx' = [tx EXCEPT ![c].pc = "end", ![c].locked = TRUE]
                         ELSE Finish(c)
  /\ UNCHANGED <<db, view, left>>

\* Commit; the child tables go with the row, and the source this transaction
\* deleted.  A source under the uuid stays.
CommitDelete(c) ==
  /\ At(c, "end")
  /\ uuid' = 0 /\ version' = 0 /\ format' = "classic" /\ UNCHANGED born
  /\ tables' = NoTables
  /\ sources' = {s \in sources : tx[c].took => s.key # ShareCode}
  /\ Finish(c)
  /\ UNCHANGED <<view, left>>

-----------------------------------------------------------------------------
(* Failures *)

\* A statement fails, the client leaves, or the process dies: PostgreSQL rolls
\* an open transaction back.
Fail(c) == ~At(c, "idle") /\ Finish(c) /\ UNCHANGED <<db, view, left>>

\* A save that holds the row waits for a delete that waits for the row:
\* PostgreSQL's deadlock detector rolls one of the two back.
Deadlocked(c, d) ==
  /\ At(c, "source") /\ tx[c].content \in Complete /\ tx[c].by = ShareCode /\ tx[c].locked
  /\ At(d, "row") /\ tx[d].took

BreakDeadlock ==
  \E c, d \in Clients :
    /\ Deadlocked(c, d)
    /\ Finish(c) \/ Finish(d)
    /\ UNCHANGED <<db, view, left>>

-----------------------------------------------------------------------------

Send(c) == SendPut(c) \/ SendCreate(c) \/ SendPatch(c) \/ SendGet(c) \/ SendDelete(c)

Work(c) ==
  \/ CheckPut(c) \/ CheckCreate(c) \/ CheckPatch(c) \/ CheckGet(c)
  \/ LockForSave(c) \/ LockForTeamSave(c) \/ AutoCreateRatingSource(c)
  \/ CommitSave(c) \/ CommitTeamSave(c)
  \/ Header(c) \/ LoadTable(c) \/ TeamLoadTable(c)
  \/ FindTournament(c) \/ DeleteSources(c) \/ DeleteRow(c) \/ CommitDelete(c)

Next == (\E c \in Clients : Send(c) \/ Work(c) \/ Fail(c)) \/ BreakDeadlock

Spec == Init /\ [][Next]_vars

\* A request runs to its end and PostgreSQL looks for deadlocks; nobody has to
\* send one, and nothing has to fail.
FairSpec == Spec /\ (\A c \in Clients : WF_vars(Work(c))) /\ WF_vars(BreakDeadlock)

-----------------------------------------------------------------------------
(* Properties *)

\* The variables have their types.
TypeOK ==
  /\ born \in Nat /\ uuid \in 0..born /\ version \in Nat /\ format \in Formats
  /\ tables \in [Formats -> TableSet] /\ sources \subseteq Source
  /\ tx \in [Clients -> Request] /\ view \in [Clients -> View]
  /\ left \in 0..MaxRequests

\* What a save found stays true until it commits: the same tournament (or
\* still none, when it creates one) at the version it was sent with.
CheckHolds ==
  \A c \in Clients :
    tx[c].pc \in {"source", "commit"} => uuid = tx[c].id /\ VersionHolds(c)

\* Saves next to deletes leave no rating source under the share code of a
\* deleted tournament, whichever lookup the delete came by.  (One that a save
\* by uuid made is left: AdminDeleteTournament looks for the share code only.)
SourceHasTournament == Listed(ShareCode) => uuid # 0

\* A save that is accepted with a version replaces exactly what its client had
\* been shown, although the load read its tables one by one: no update is
\* lost and no torn read is written back.  (Not so for a tournament deleted
\* and created again meanwhile, whose versions start again.)
ReplacesWhatWasSeen ==
  [][\A c \in Clients :
       (/\ CommitSave(c) \/ CommitTeamSave(c)
        /\ tx[c].expected # 0 /\ view[c].id = uuid)
         => \A i \in DOMAIN view[c].parts : view[c].parts[i] = tables[view[c].format]]_vars

\* A PUT with a version writes the format the tournament has, although the
\* format is checked before the transaction.  (Same exception.)
VersionedPutKeepsFormat ==
  [][\A c \in Clients :
       (/\ CommitSave(c) \/ CommitTeamSave(c)
        /\ tx[c].op = "put" /\ tx[c].expected # 0 /\ view[c].id = uuid)
         => tx[c].format = format]_vars

\* However requests interleave, wait and fail, the tournament changes by whole
\* saves, one version after the other, and by deletes, which take the source
\* of the share code along although they hold no lock when they look for it.
Atomic == INSTANCE TournamentAtomic WITH
  inserted <- born,
  tournament <- [id |-> uuid, version |-> version, format |-> format, tables |-> tables],
  rated <- sources

TakesEffectAtOnce == Atomic!Spec

\* Every request ends, those that wait for each other included.
RequestsEnd == \A c \in Clients : ~At(c, "idle") ~> At(c, "idle")
=============================================================================
