# majadu-api in TLA+

A verification project for the API server of `src/`: what its transactions,
locks, caches and channels do when requests interleave, fail and are repeated.
Every module is translated from the Go code and the SQL in it; PostgreSQL, which
is not part of the repository, is modelled from how the code uses it.

## The system

One Go process serves HTTP from a pool of ten connections to PostgreSQL. It
keeps little in memory: the watchers of each session, a cache of PUT responses,
rate-limiter buckets, metrics. Everything else is in tables, and the
correctness of the program is the correctness of its transactions.

| Part | State | Operations | Hard because |
|---|---|---|---|
| Session write paths (`store/session.go`, `granular.go`, `swap.go`, `idempotency.go`; `handler/session.go`, `granular.go`, `swap.go`) | `sessions`, `scheduled_games` with their players, `session_players`, `outbox_events`, `idempotency_keys`; the in-memory cache of PUT | Create, Put, Patch, Lock, Unlock, Delete; SetGameScore, SetGamePlayed, SetGameSkipped; SetAbsentPlayers; SwapMembers | two kinds of optimistic concurrency (session version, game version) over the same rows, with different locks; reads before locks; retries; a crash between commit and answer |
| Session watch (`store/session.go` 65-112, `handler/session.go` 246-291) | map of channels, one per connection, in a list per name of the session | Subscribe, Unsubscribe, Broadcast, Watch | a mutex, bounded channels, slow and leaving clients, writers that commit, load and broadcast separately |
| Session events (`store/outbox.go`, `handler/granular.go` 22-57) | `outbox_events` and its sequence | InsertOutbox, ListEvents | ids are given out in another order than they are committed |
| Rating pipeline (`store/rating*.go`) | `rating_sources`, `rating_events`, `rating_deltas`, `rating_players`, `seasons`, `rating_config` | ingest, revert, rebuild, finalize, season change, auto-ingest every 30 minutes | REPEATABLE READ next to an advisory lock, chronological order, several commits per operation |
| Rating admin (`store/rating_admin.go`) | the same, and sessions, tournaments, players | delete a session / tournament / player, merge players | delete, commit, then rebuild |
| Tournaments (`store/tournament.go`, `team_tournament.go`, `handler/tournament.go`) | tournament tables of two formats, `rating_sources` | Create, Put, Patch, Load, delete | one id space for two formats; checks before the transaction; Load without a transaction; a delete at another isolation level |
| Players (`store/player.go`, `tournament.go` 463-543, `session.go` 799-940) | `players` and `player_aliases` | register, publish's registration and resolution, rename, set tier | unique keys of uncommitted rows; the first writer wins; several names per transaction |
| Rate limiter (`middleware/ratelimit.go`) | token bucket per address | allow, sweep, evict | bounded map, refill over time |
| Connection pool (`db/db.go`) | ten connections | acquire, release | requests and the ticker hold one connection and ask for a second |
| Server, config, logging, health, reads of ratings and statistics | - | - | plain I/O and queries |

The parts meet in the tables and in three calls: every write path but DELETE
ends in `Load` and `Broadcast`; the rating pipeline reads what the write paths
committed, and only of sessions that are locked, which is why the auto-lock
matters; the players of a snapshot are resolved inside `Save`. Every request first
passes the rate limiter and then competes for a connection.

What makes each part correct:

- write paths: a request is applied to the version it named, at most once, or not
  at all; the structure of a locked session is frozen; the rows keep the
  constraints of a valid snapshot; nobody hangs;
- watch: never a send on a closed channel, no writer waits for a client, what a
  writer could load after its commit is sent to those who watch under its name;
- events: a change is committed with its event and an event with its change, and what a
  reader misses was committed late;
- ratings: the ledger is what replaying the finished sources in order gives, with the
  opponents each event was computed with; each match counts once, an interrupted
  operation is made good by the next;
- tournaments: a versioned save replaces what its client saw, never mixes formats, and a
  deleted tournament leaves no rating source under its share code;
- players: a name is one player's and stays so, a tier is set once;
- admission: an address is let through as its own bucket of tokens would, and
  requests that were let through end.

## Modules

| Module | What it is |
|---|---|
| `SessionRows` | constants, requests, rows and snapshots; what the statements of each operation compute (`GameUpdate`, `SyncedRows`, `Swapped`, `ValidSnapshot`) |
| `SessionStore` | the write paths as transactions: one action per SQL statement whose place in the interleaving matters |
| `SessionInvariant` | the inductive invariant of `SessionStore` |
| `SessionClaims` | sentences of comments that the write paths do not keep |
| `SessionAtomic` | the abstract specification: each request takes effect in one step |
| `SessionRefinement` | `SessionStore` implements `SessionAtomic` (`TakesEffectAtOnce`) |
| `SessionWatch` | watchers, channels, broadcasts |
| `SessionEvents` | outbox ids, commits and the paging reader |
| `RatingLedger` | sources, events and ratings: ingest, revert, rebuild, season, admin deletes, the auto-ingest ticker |
| `SessionStoreProofs` | lemmas about the row operators, and the invariant of `SessionStore` |
| `SessionRefinementProofs` | what follows from it: for the data; that `SessionStore` implements `SessionAtomic`; what a step may do to a version and to a locked session |
| `SessionEventsProofs` | proofs about `SessionEvents` |
| `RatingProofs` | lemmas about replays; no source counts twice, a fingerprint vouches for events, the ledger is a replay |
| `SessionWatchProofs` | proofs about `SessionWatch` |
| `TournamentStore` | the requests on one tournament, statement by statement |
| `TournamentAtomic` | the abstract specification: whole saves and whole deletes |
| `TournamentProofs` | the invariant of `TournamentStore`, its properties and the refinement |
| `PlayerRegistry` | registrations, publishes and renames on `players` and `player_aliases` |
| `PlayerDirectory` | the abstract specification: a directory of names that only grows |
| `PlayerProofs` | the invariant of `PlayerRegistry`, its properties and the refinement |
| `RateLimiter` | the limiter's map of buckets |
| `TokenBucket` | the abstract specification: one bucket for every address, never forgotten |
| `Admission` | the limiter in front of the pool of connections, next to the ticker |
| `AdmissionProofs` | the limiter implements `TokenBucket` |
| `MC...` | instances for TLC: request sets, seats, symmetry |

### SessionStore and the code

The variables `status`, `uuid`, `version`, `absent`, `games`, `outbox` and
`idem` are the committed tables of one session id; `cache` is the map of
`handler/session.go`. `tx[c]` is the request that client `c` has under way: where
it is (`pc`), what it read (`sid`, `seen`), what it will write (`body`, `lock`)
and the locks it holds (`row`, `games`, `adv`). `view[c]` is the snapshot the
client last received, from which it builds its next PUT.

Writes are private until commit, so an operation computes and applies them in its
commit action. That is faithful only if nothing it read under its locks changed
in between, which is what `GameCheckHolds` and `SessionCheckHolds` say and the
proofs establish.

| Code | Actions |
|---|---|
| handlers: body, If-Match, in-memory cache | `Issue`, `IssueCached`, `PutLoad`, `MutateLoad`, `Get` |
| SetGameScore, SetGamePlayed, SetGameSkipped | `ReadStatus`, `CheckIdempotency`, `LockGame`, `InsertOutbox`, `CountScored`, `AutoLock`, `CommitGame` |
| InsertOutbox fails (also in swaps and absences) | `OutboxFails`, then `BrokenGoesOn` |
| Save (PUT, PATCH, lock) | `SaveBegin`, `DeleteRow`, `RowsDeleted`, `CommitSave` |
| Delete, Unlock | `DeleteBegin`, `DeleteRow`, `RowsDeleted`, `CommitDelete`; `UnlockBegin`, `CommitUnlock` |
| SetAbsentPlayers, SwapMembers | `GranularBegin`, `CommitAbsent`; `LockTwoGames`, `CommitSwap` |
| after the commit | `Respond` (Load and answer), `SaveIdempotency` |
| environment | `DeadlockAbort`, `DayPasses`, `CacheEvict`, `Restart` |

PostgreSQL: READ COMMITTED statements are single steps; `FOR UPDATE NOWAIT` fails
at once on a conflict; a plain UPDATE, a DELETE and a foreign key's check wait;
row lock modes conflict as in `Conflict`; an advisory lock is tried, never waited
for; a cycle of waits is broken by aborting either side. `Load` is one
REPEATABLE READ transaction and therefore one step. The order in which a DELETE
locks the rows is left open.

The error of `InsertOutbox` is ignored (`granular.go:168`, `swap.go:138`). PostgreSQL has
aborted the transaction then and released its locks, but the request goes on: `Break` keeps
it in the state `broken` without locks until the next statement, or the commit, fails
(`BrokenGoesOn`). A transaction that is chosen as a deadlock's victim inside `InsertOutbox`
breaks in the same way (`DeadlockAbort`). `told` says that the event was inserted; a commit
appends it only then. That every committed change has its event is therefore a result
(`EventsTellChanges`) and not part of the commit. It says nothing of what a poller gets:
ids are given out before the commit, and `SessionEvents` has what it can miss.

Abstractions: titles, dates, courts, fix matches and `played_order` are left out
(no property depends on them), a date in the past is the flag `past`; the set of
players of the session is fixed; POST is a PUT without a version to an id nobody
else has; a PATCH changes metadata only, so its body is the snapshot it loaded;
the 24 h of a persistent key do not pass, those of the in-memory cache do;
`GET /sessions/{id}/events` casts its path to `sessions.id` (outbox.go:31) although
the other routes also take the share code, and the model has the reader use the id
that works.

### SessionAtomic

What a client may rely on when it looks at the tables only: one step per request,
at a state in which the version in its If-Match is current and, for operations on
the session's row, the session is a draft. It also records what is *not*
promised: a game operation does not need a draft session, an auto-lock does not need all
games scored, a publish restarts the versions of the games. The tables of
both modules have the same names, so the refinement mapping is the identity on
them and hides the rest.

### SessionWatch and the code

A writer is one of the requests above from its commit on: `Commit`, `LoadAfter`,
`BeginBroadcast`, one `Send` per channel, `EndBroadcast`. The load may fail (`LoadFails`): the
session is gone, the request was cancelled, the database does not answer. Nothing is broadcast
then, and no later step makes up for it. `Lookups` are the names of one session in the path, its share
code and its id: `watchers` is keyed by them (`session.go:69-72`, `101`), so a broadcast
reaches the channels of its writer's name only. `loaded` is the newest snapshot the writers of a
name loaded; `NewestIsSent` says that a client of that name was sent it, or something newer, or that
it was dropped on its full channel. It does not say that the newest arrives last.

### RatingLedger and the code

The variables are the tables: `sources` (sessions and tournaments), `events` (with
their deltas), `listed` (`rating_sources`; `fp = 0` is the empty fingerprint),
`ratings`, `tiers`, `season`. `op[w]` is the operation of a client or of the ticker.

| Code | Actions |
|---|---|
| LoadRatingConfig | `Request`, `IngestNext` (the operation keeps `season_start` in `cfg`) |
| BeginTx and the statement that waits for the advisory lock | `TakeSnapshot`, then `Lock` |
| ingest | `Ingest`, `Mark` (every match skipped), `GiveUp` (refused) |
| RebuildAll, RevertSource, CloseAndStartSeason, AdminDelete... | actions of these names; the last two go on with a rebuild |
| AutoIngestLockedSessions and its ticker | `Tick`, `IngestNext` |
| SetSourceFinalized, SetPlayerTier, edits of sessions and tournaments | `SetSourceFinalized`, `SetPlayerTier`, `Score`, `SetLocked`, `DeleteDraft` |

A REPEATABLE READ transaction sees the database as it was at its first statement, which
here is `SELECT pg_advisory_xact_lock(...)`: the snapshot is taken when the wait *begins*.
The lock therefore orders the commits and not what they see. What keeps a stale
operation from doing harm is that PostgreSQL fails it at the first row it writes (or
locks) that was changed since: `raced` collects those rows, `Rows` is what a change
writes, and `Commit` requires that they are disjoint. Each operation computes its
change from its snapshot only (`IngestChange`, `RebuildChange`, ...).

`owed` and `late` are history variables. A rebuild is owed from the commit of a removal (delete,
revert, season change, reconciling ingest) to that of a rebuild whose snapshot is not older than the
removal; `late` are the workers whose snapshot is. A revert rebuilds in its own transaction
and owes nothing, unless it is late itself. A late rebuild writes the old ratings back, or fails.

A rating is a history and not a number: the tier at which the player was formed, then each
event with the opponents' ratings before it and the number of placeholders among them. Two
ratings are equal exactly when the formula is applied to the same things in the same order.

An ingest and a rebuild do not apply it to the same things. An ingest gives every player one
synthetic opponent for each placeholder of the other side (`rating.go:387-394`); a placeholder has no
row in `rating_deltas`, and a rebuild takes the opponents from there (`rating_revert.go:308-318`).
`Play` therefore looks at `e.plain`: whether the deltas of the event were written by a rebuild.
The variable `plain` remembers which, `Computed(events, plain)` are the events as they were computed
last, and `LedgerIsReplay` is about those. That a rebuild reproduces the ratings,
`RebuildReproduces`, is what the run `ClaimReplay` refutes with a placeholder in a match; without
placeholders it is `LedgerIsReplay`.

A source is its place in the order, a number from 1 to `Last`.

Abstractions: one match per source, with fixed players, all registered before it (an ingest
leaves out the players registered later, `rating.go:334-352`, but counts them as opponents, as it does
placeholders, and a rebuild does not; this second difference is not modelled); the order
of sources does not change; deleted sources do not come back; `ingest_locked_only` is TRUE;
`auto_reconcile` is FALSE in the runs, as by default; the archive of a closed
season is left out. DeletePlayer and MergePlayers call SQL functions outside the
repository.

### TournamentStore and the code

The variables are the row of `tournaments` (`born` counts insertions, so a tournament
deleted and created again is another row), `tables`, the child tables of the two
formats, and `sources`, its rows of `rating_sources`, each with the lookup it was made under
(`key`: 0 for the share code, else the number of the row whose uuid it is). What a snapshot says is one value of
`Contents`: a save deletes and inserts all child tables of its format, so nothing finer
can be seen except by a load that reads its tables one by one; `parts` is what such a
load has read, with the version that wrote each.

| Code | Actions |
|---|---|
| handlers, with what they read before the transaction | `SendPut`, `CheckPut`; `SendCreate`, `CheckCreate` (`allocateTournamentID`); `SendPatch`, `CheckPatch`; `SendGet`, `CheckGet`; `SendDelete` |
| Save, TeamSave | `LockForSave`, `LockForTeamSave`, `AutoCreateRatingSource`, `CommitSave`, `CommitTeamSave`, then the load |
| Load, TeamLoad | `Header`, `LoadTable` (3 statements), `TeamLoadTable` (4) |
| AdminDeleteTournament | `FindTournament`, `DeleteSources`, `DeleteRow`, `CommitDelete` |
| environment | `Fail`, `BreakDeadlock` |

A save is READ COMMITTED and refuses to wait for the tournament; the delete is REPEATABLE
READ, waits, and fails at a row changed since its first statement (`SnapshotHolds`). That
is all that keeps a delete from missing a rating source a save created meanwhile: the row
of the tournament has a new version then.

`by` is the lookup of the request's path, the share code or the uuid of a row. A save makes the
rating source under the lookup it came by (`tournament.go:416`, `team_tournament.go:385`), the delete
removes the one of the share code, whatever it came by (`rating_admin.go:197-202`). So a source made
under a uuid stays when the tournament goes; `SourceHasTournament` and `TournamentAtomic` are
about the share code's. No response carries the uuid: the model lets a client use the uuid of
a tournament it was shown, as if it had it from the database.

Abstractions: brackets, standings, names and validation (an invalid snapshot changes
nothing and is not sent); the id is never both a share code and a uuid; a PUT without a version
under the uuid of a deleted row, which would create another tournament with that share code, is not
sent; the rebuild after a
delete is in `RatingLedger`; the players a save registers are in `PlayerRegistry`.

### PlayerRegistry and the code

`name` and `tier` are columns of `players`, `alias` is `player_aliases` with `Normal` in
place of `NormalizePlayerName`. An open transaction's writes are in `tx[c].named`, `tiered`
and `aliased`; another transaction that inserts one of those keys, or writes one of those
rows, waits.

| Code | Actions |
|---|---|
| registerPlayerInTx, for one name after the other | `FindAlias`, `FindCanonical`, `EnsurePlayer` or `UpdateGender`, `InsertAlias`, `FindAgain` |
| Register, EnsurePlayersRegistered (commit) | `CommitRegistration` |
| SetPlayerTierOnRegister | the action of this name |
| Save: resolvePlayerAliases, firstSetPlayerTier | `ResolvePlayerAliases`, `FirstSetPlayerTier`, `CommitSave` |
| RenamePlayer | `ReadName`, `CheckCollision`, `UpdateName`, `KeepOldName`, `CommitRename` |
| environment | `Fail`, `BreakDeadlock` |

`Players` is a bound: a registration that needs a new id waits when there is none. A rename keeps
the old name as an alias if it read the name it replaces and no other player has that key
(`RenameKeepsOldName`).

Abstractions: a gender is only whether it differs; placeholder names do not occur;
`registered_at` goes with the tier; a deadlock is a cycle of two. A tournament's Save
registers its players in its own transaction, with the same statements and one commit.
`merge_players` and `delete_player` are functions of the database and not modelled.

### RateLimiter and Admission

`RateLimiter` keeps `limiter.ips` in `tokens`, `age` and `kept`. Time is a tick;
tokens are counted in parts so that the refill is an integer. `TokenBucket` is what the
middleware promises: every address has its bucket from the beginning. The mapping
refills a kept bucket up to now and takes a missing one for full. It holds because an
idle bucket has had the time to fill (`RateAssumption`, true of the constants in
`ratelimit.go` 15-21 and 72-73), and an overflow forgets only addresses older than `MaxIPs`
others: this is the one thing `TokenBucket!Forget` permits.

`Admission` puts the limiter in front of the pool. `Demands` lists how many connections each
kind of operation has, in order: a request with an Idempotency-Key asks for a second
one inside its transaction (`granular.go:116`), the ticker keeps the rows of its query open
while it ingests (`rating.go:36-57`).

## Runs

Bounds of the session runs: two clients, two games that share a player (`p1`, in
different seats), seven players, one score value, `MaxRequests` requests per
client (2; 1 for some claims). Two clients are enough for
every conflict of the code: a check is invalidated, a lock contended and a
deadlock closed by one other transaction, and two requests each give the other one
a chance to act before, during and after. `Requests` is the set a run's clients
choose from, with current and stale versions, so an interesting order is never
excluded by what a client would know. Both initial states are used: no session, or
one just created. Clients are symmetric (not in the runs with liveness).

| Run | Question | Distinct states |
|---|---|---|
| `SessionLive` | game operations and a swap next to lock and unlock, with failing events: `ScoredIsPlayed`, `EventsTellChanges`, `LockedStructureFrozen`, `TakesEffectAtOnce` | 680 000 |
| `SessionPublish` | PUT, PATCH, lock, DELETE and a score: `TypeOK`, `GameCheckHolds`, `SessionCheckHolds`, `OneBumpPerChange`, ... | 362 000 |
| `SessionSwap` | swaps, absences, a score, a lock: `SeatsDistinct`, `OneBumpPerChange`, ... | 310 000 |
| `SessionRetry` | one Idempotency-Key for a score, an absence and a swap, crashes, DELETE, fairness: `VersionSpentOnce`, `RequestsEnd` | 114 000 |
| `Watch` | two writers, two watchers, two names of the session, capacity 1, three commits, fairness: `NoSendOnClosed`, `NewestIsSent`, `BroadcastsEnd`, `WatchersLeave` | 434 000 |
| `Events` | three writers, two games, pages of two, five ids: `OnlyOthersOvertake`, `SessionEventsDelivered`, `MissedWereLate` | 195 000 |
| `Ratings` | a client and the ticker, three sources (one a tournament, one with a placeholder), three requests, edits or failures, fairness: `LedgerIsReplay`, `FingerprintBacked`, `NewestIsIngested` | 277 000 |
| `Tournaments` | two clients, every kind of request by either lookup, both formats, complete and incomplete contents, three requests, fairness: `CheckHolds`, `SourceHasTournament`, `ReplacesWhatWasSeen`, `VersionedPutKeepsFormat`, `TakesEffectAtOnce`, `RequestsEnd` | 206 000 |
| `Players` | two clients, three spellings of two names, three requests, fairness: `AnswersAgree`, `ChangesByWholeRequests`, `TierIsSticky`, `RenameKeepsOldName`, `RequestsEnd` | 62 000 |
| `Admission` | limiter and pool, fairness: `LimitsByTokens`, `RequestsEnd` | 44 000 |

What four of the properties leave open: `VersionSpentOnce` holds by the version check alone, so it says
nothing of the answer a repeated request is given; `TierIsSticky` is about first tiers, and the
admin's SetPlayerTier (in `RatingLedger`) overwrites them; `RenameKeepsOldName` is about a rename that
read the name it replaces; `RequestsEnd` of `Admission` is about fewer requests than connections.

Three requests are enough in `Tournaments` and `Players`: one to change what two others
have read, or one to create what two others race for. In `Players` a publish names two
players, so that two of them can wait for each other, and a name can be registered by one
and renamed by another. `Tournaments` starts without the tournament or with one of either
format, complete or not. These runs end when the requests are spent, so their deadlock check
is off, and `RequestsEnd` is what says that nobody is left waiting; in `Admission` requests
never run out and the check is on. `Admission` has fewer clients than connections
(`PoolAssumption`): with as many keyed requests as connections each holds one and waits for
another, and only leaving clients free them, since handlers have no deadline.

In `Ratings` sources 1 and 2 share a player, in 1 a placeholder plays on the other side of
one, and 3 has players nobody has rated, so both
kinds of overtaking occur: one that conflicts at a rating row and one that does not. Three
units of `Budget` are enough for a request, an edit and a failure in any order; the
ticker costs nothing and ingests next to all of them. `LedgerIsReplay` is about states
in which no rebuild is owed: after a season change or a delete the ratings are wrong until
the rebuild that follows, and stay wrong if that rebuild fails, because nobody repeats it
(`owed`). The deadlock check is off: without a pending source the system may stop.
With two clients a rebuild that took its snapshot before the other's delete committed may commit
after it, and write the ratings as they were; it does not count as the one that was owed
(`late`). Two clients under fairness are too many for a run of minutes. `Ratings` therefore has
one, and that `LedgerIsReplay` holds for any number is the theorem `LedgerReplays`.

A channel of capacity 1 (4 in the code) is full after one send, so drops occur
with few commits. Five ids let a page be full, an event be overtaken and another
page follow. `Watch` switches the deadlock check off: commits are
bounded and a watcher is used once, so those behaviours end. In the session runs there
is always a `Get` to take, so it is on. `SessionRetry` has every wait of the code in it:
the foreign key behind a DELETE, the DELETE behind a game's row, their deadlock, and
NOWAIT failures; a Save waits for the same rows in the same way (`DeleteRow`).

The runs whose name starts with `Claim` are expected to find a violation. Each checks
one sentence of a comment that the code does not keep:

| Run | Sentence | What happens |
|---|---|---|
| `ClaimLostUpdate` | `handler/session.go:454`: If-Match prevents lost updates | game operations do not raise the session's version; a PATCH overwrites a score |
| `ClaimReplay` | `domain/rating.go:8` and `147-148`, `rating_integration_test.go:181`: a rebuild gives the same ratings | an ingest counted a placeholder as an opponent; the rebuild does not find it in `rating_deltas` |

The models show more sentences not to hold, for which there is no run:

- `granular.go:177`, a session scored game by game gets locked: the last two scores may not see
  each other (`CountScored`);
- `handler/player.go:94`, a name another player has is refused: a rename looks the new name up among
  the aliases (`player.go:142`) and stores none for it, so when one player was renamed to "Citra"
  another can be renamed to "CITRA": `canonical_name` is unique as it is spelled only;
- `outbox.go:15`, without the outbox table the transaction still commits: the failed INSERT has
  aborted it (`OutboxFails`, `BrokenGoesOn`);
- `rating_admin.go:172`, the admin's delete of a tournament clears its rating source: not one that a
  save under the uuid made (`CommitDelete`);
- `session.go:109`, after a dropped snapshot the next broadcast brings the newest: it may bring an
  older one, loaded before (`LoadAfter` and `Send` of two writers);
- `docs/000013_granular_live.sql:5`, the events are a durable replay: an event committed late,
  with a lower id than one already returned, is skipped. `MissedWereLate` and
  `SessionEventsDelivered` say how far the replay goes;
- `rating.go:184`, a source with an empty fingerprint is not tried again every 30 minutes: the
  ticker's query asks for sources without a row whose fingerprint is filled, so a locked
  session without a match that counts is tried at every tick (`Pending`, `Mark`);
- `domain/rating_config.go:38`, matches before `season_start` do not count: an ingest that waited
  for the season change still uses the date it loaded (`cfg`);
- `handler/tournament.go:113`, formats are never mixed: a PUT without a version may race the
  creation in the other format, and PATCH saves a team tournament as a classic one.
  `VersionedPutKeepsFormat` says when the check is enough.

Six more behaviours are in the model of the session, allowed by `SessionAtomic`, and have no run of
their own: two PUTs without a version to a new id race, and the second replaces what
the first created (`handler/session.go:297` says a version is required then); a PATCH of
metadata clears the skipped players of every game (`session.go:1072`); a game operation that read `draft` commits after the lock
(`granular.go:101`); a game is unplayed between the count and the commit of the
auto-lock (`granular.go:184`); a Save restarts the versions of the games, so an old
If-Match matches again (`session.go:1073`); and skipping a player leaves the score,
which `api/openapi.yaml:298` says it clears (`granular.go:495`).

### Fairness

`SessionRetry` assumes that the goroutine of every request goes on
(`WF(ServerStep(c))`), as Go schedules it, and that PostgreSQL aborts one side of a
deadlock (`WF(DeadlockAbort(c))`, its `deadlock_timeout`). Users, midnight, evictions
and crashes are not forced. Weak fairness is enough: a wait for a row ends when its
holder commits, and nobody can take the row again and again, because requests are
bounded and the session's row is only ever taken with NOWAIT.

`Watch` assumes that a writer past its commit and a handler that is
returning go on. Clients are never made to read: `WriteFirst` and `Forward` have no
fairness, since a TCP peer may stall for ever.

`Ratings` assumes that operations go on and that the ticker ticks (`Tick`), as the goroutine
in `main.go` does for the life of the process; requests, edits and failures are not
forced and are bounded by `Budget`, so the ticker is not overtaken for ever.

`Tournaments` and `Players` assume the same as `SessionRetry`: goroutines go on and a
deadlock is broken; requests are bounded, so a wait ends.

`Admission` assumes strong fairness for acquiring a connection, because pgxpool hands
connections out in the order they are asked for, and that the two minutes of a run of
the ticker pass (`main.go:88`). Clients are not made to leave.

### Mutants

Each property of a passing run is paired with a mutation of one definition under
which TLC finds it violated (`PROJECT.json`, "mutants"). The mutated forms stand
next to the originals, marked `Mutant of`; they are bugs one could write: a SELECT without
FOR UPDATE, a forgotten rollback, a bump left out, a send without `default`.

## Proofs

`SessionStoreProofs` proves, for any sets of clients, games, players, scores, keys and
requests that satisfy the ASSUMEs of `SessionRows` and `SessionStore`,

    InvariantHolds == Spec => [](TypeOK /\ Inv)

and from it `TypeOK`, `GameCheckHolds`, `SessionCheckHolds` and that at most one
operation on the session's row is past its checks. `GameCheckHolds` is not
inductive: that nobody changed the row since the check follows from the locks held,
so `Inv` says which ones (`HoldsLocks`), that they exclude (`LocksExclude`), that a
Save, a DELETE or a swap at its commit has the lock of every game row it writes
(`HoldsRows`), and that the inputs are those that were validated (`Validated`,
`Accepted`). The argument turns on `OneSessionWriter`: two operations past
their check both hold FOR UPDATE on the session's row, unless there was none, and then both
are Saves and the advisory lock separates them. A game operation does not take that lock; it is
separated from Saves by the game row, which a Save must lock to delete, and from
DELETE and creation by `HoldsRows` (a present game's row is held by whoever removes it).

`SessionRefinementProofs` proves `ScoredIsPlayed` and `SeatsDistinct` from the invariant: only four
actions write `games` (`GamesWriters`), each writes what its checks allowed, and the
checks still hold at the commit. The row operators are dealt with once, in
lemmas at the head of `SessionStoreProofs`. Two theorems are about the event log:

- `EventsTellChanges`, for any requests. What `Decisions` (below) says of a commit shows that the
  version rises by one and that the event names the new one; that the event is there is the part of
  `Decisions` about `told`: no transaction past `InsertOutbox` is without it, because one whose
  event failed is `broken` and commits nothing.
- `VersionSpentOnce`, for requests without Saves and `swapSlots` (`VersionsOnlyRise`): a Save
  starts game versions again at 1, and `swapSlots` exchanges those of its games. Without them
  no version falls (`NoneLower`), no event names a version still to come (`Reported`), and so
  the next event is new.

`SessionWatchProofs` proves `NoSendOnClosed` and `NewestIsSent`, for any number of writers,
watchers and commits and any capacity. For the first: while a broadcast holds the read
lock its channels are subscribed; a subscribed handler has not reached `close`; a closed
channel's handler is gone. For the second the invariant `Newest` follows, for each handler that
listens, the newest snapshot the writers of its path have loaded: its own load is still to come,
or has that or a newer one; it is in the channel, was sent, or was dropped; or a writer of the path
will still visit the channel with it. A commit whose load failed loads nothing and claims nothing.

Assumptions: those named in the ASSUME clauses (seats are distinct in a fresh schedule,
`NoScore` is no score, ...), all evaluated by TLC in the runs, and the model of
PostgreSQL's locks.

`SessionRefinementProofs` also proves the rest of what the session runs ask of a step:
`TakesEffectAtOnce` (`SessionStore` implements `SessionAtomic`), `OneBumpPerChange` and
`LockedStructureFrozen`. Besides `Inv` it needs what a request has *decided* and still has
in hand at its commit (`Decisions`): the status it found, that a lock request locks, that a
game operation changes its row, and that an auto-lock meets a draft. Each of the commits is
then one step of `SessionAtomic` (`GameRefines`, `SaveRefines`, ...), and every other action
leaves the tables alone (`TableWriters`).

`SessionEventsProofs` proves `OnlyOthersOvertake`, `SessionEventsDelivered` and `MissedWereLate`
for any number of writers, games and events per answer. The invariant: an id handed out
and not committed is in no row (`IdsInv`); two open transactions have different
aggregates, and one on the session's row excludes those past their insert (`LocksInv`); so
only events of games are overtaken (`Overtaken`). That a page goes from `since` to an
event with nothing missing in between rests on the smallest of a set of ids, taken from the
library's fact that `<` is well-founded on the naturals.

`TournamentProofs` proves, for any clients, contents and number of requests, `CheckHolds`,
`SourceHasTournament`, `ReplacesWhatWasSeen`, `VersionedPutKeepsFormat` and
`TakesEffectAtOnce`. The invariant has a part for the rows (`RowInv`: without a tournament there
are no tables and no rating source under the share code), one for the locks (`LockInv`: only the holder of the
row writes) and five for each request: what a save found under its locks (`Found`), what
a delete knows of the source as long as its snapshot is not older than the row (`Deleting`), what
a load has read (`Reading`) and what a client was shown (`Viewed`), table by table as of
their version or torn, and what it sent (`Sent`). `ReplacesWhatWasSeen` needs the last three
together: an answer may be torn, but then its version is old and a PUT with it is refused.

`RatingProofs` proves that no source is counted twice (`CountedOnce`), without
`auto_reconcile` that a fingerprint vouches for events (`FingerprintsVouch`), and with
and without it that the ledger is a replay (`LedgerReplays`), for any
sources, players, clients and requests. The advisory lock gives none of this, since the snapshot is
older than the lock.

The first two follow from the row of the source in `rating_sources`: every operation that adds or
removes events of a source writes that row, so what an operation has seen of a source is
still so unless the row is among those it would conflict on (`Current`). With
`auto_reconcile` the second property fails: `rating.go:147` removes the events of an edited
source, and when none of its matches is left in the season lines 192-201 commit that and keep
the fingerprint.

`LedgerIsReplay` is about the tables as they are and therefore not inductive. An operation
commits what it computed from its snapshot, so `LedgerInv` says of each snapshot what will be so at
that commit:

- `Known`: the players whose `rating_players` row nobody has written since have the ratings the snapshot
  has, and no event it has not seen is theirs. An ingest writes the rows of its
  players, therefore its event, if it commits, is the last of each of them, even when the check of the
  order (`rating.go:203`) was made on the snapshot and later events of other players came meanwhile.
- `Rest`: a rebuild rewrites the players it knows. If none of them was written since, the ratings of
  the others must be the replay of the events it has not seen, since it leaves both alone. And
  a rebuild that is late must fail, or know nobody, when no rebuild is owed.
- `Nested`: of two snapshots one knows the players of the other; with it, the commit of one
  rebuild makes the other conflict.

The lemmas about replays say what these need of `Replay`: the rating of a player depends only on the
events of a set of players closed under opponents (`Locality`), an event of other players does
not touch it (`Bystander`), two events without a common player commute (`Commute`), so an
event whose players have none later may be played last (`Insertion`), and a replay keeps the
tier a player was formed at (`ReplayKeepsTier`). An event is replayed with what is known of its
deltas (`Deltas`, that is `Computed(events, plain)`): an ingest adds one with its placeholders and
leaves the others' as they are, a rebuild makes all it plays plain (`ComputedTogether`,
`SameDeltas`). `Days` is a function over the dates and not a fold
over a sorted sequence so that these can be proved: their induction (`DateInduction`)
is the library's fact that `<` is well-founded on the naturals, applied to the set of
dates for which the claim fails.

`PlayerProofs` proves `AnswersAgree`, `ChangesByWholeRequests`, `TierIsSticky` and
`RenameKeepsOldName`, for any names, clients and requests. The invariant says what an open
transaction has written: rows it has locked, tiers and keys that were free and are still free in the
tables, and names that with the committed ones are distinct (`Writes`); what it knows
at each statement (`Place`); and that two transactions have written different rows, keys and
names (`Apart`), which is what the waiting at a unique index (`KeyPending`, `SpellingPending`)
and the row locks amount to. `AnswersAgree` needs that what a registration has told
before its commit is what the tables will say after it, whoever commits in between (`CommitSeen`).

`AdmissionProofs` proves `LimitsByTokens`, for any addresses, rates and bounds. An address without
a bucket has been idle for longer than the timeout, and `RateAssumption` says that a bucket is
full after that, so forgetting it changes nothing (`Gains`); the buckets that are evicted all the same
are those over `MaxIPs` (`OverflowCrowded`), where the abstract limiter makes the same allowance.

### What is only model-checked

- Liveness (`RequestsEnd` in four runs, `BroadcastsEnd`, `WatchersLeave`, `NewestIsIngested`): the
  rules for fairness need ENABLED, which the prover does not handle.
- The two claims that are expected to fail.

Every invariant, action property and refinement that a passing run checks is also a theorem, two of
them with the hypotheses named above (`VersionsOnlyRise`, no `auto_reconcile`). What stays bounded in them
is named in the modules (`MaxVersion`, `Budget`, `MaxRequests`, ...): the
theorems hold for every value of these bounds.

## Plan

In the order of what they would add:

1. The hazards of `PROJECT.json` without a property: what a Save may lose of what only the game
   operations write (`session.go:947`), and events of sources that are gone (`rating_admin.go:75`),
   stated as what can be relied on in spite of them.
2. `VersionSpentOnce` with Saves, for the part of the events for which it holds.
3. The registered_at gate of an ingest in `RatingLedger`: players who are rated against but not
   rated.
4. DeletePlayer and MergePlayers in `RatingLedger`, if the functions they call are added to the
   repository.

Not modelled and not planned: the numbers of the rating formula (floating point); the
read-only queries of ratings and statistics; brackets, standings and the validation of
tournaments, which are functions of one snapshot; `merge_players` and `delete_player`, whose
bodies are not in `src/`; HTTP plumbing, configuration and logging.
