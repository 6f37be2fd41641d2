---------------------------- MODULE RatingLedger ----------------------------
(***************************************************************************)
(* The rating ledger: sessions and tournaments (sources) become events,    *)
(* events become the players' ratings.  Ingest applies the events of one   *)
(* source to the ratings as they are; a rebuild computes all ratings anew  *)
(* from all events.  Both run at REPEATABLE READ and take an advisory lock *)
(* with their first statement, so that each sees the database as it was    *)
(* BEFORE it waited for the lock, and fails at a row somebody has changed  *)
(* since.                                                                  *)
(*                                                                         *)
(* A source is its place in the order (date, created_at, share_code) and   *)
(* has one match between fixed sides.  A rating is what it was computed    *)
(* from: the tier it was formed at, then each event with the ratings of    *)
(* the opponents, so two ratings are equal when they are computed alike.   *)
(*                                                                         *)
(* An ingest counts the placeholders of the other side as opponents.  They *)
(* are nobody's rating_deltas, so a rebuild does not find them again: the  *)
(* events it has computed are remembered in plain.                         *)
(***************************************************************************)
EXTENDS Naturals, Sequences, FiniteSets

CONSTANTS
  Last,           \* bound: the date of the last source
  Tournaments,    \* those that are tournaments; the others are sessions
  FirstSources,   \* the sessions and tournaments before the first ingest
  Players,        \* players.id
  Sides,          \* who plays whom in a source: the players who are rated
  Placeholders,   \* how many placeholders play with them on each side
  Tiers,          \* values of players.tier
  NoTier,         \* tier IS NULL: formed at initial_rating
  Clients,        \* concurrent requests
  Ticker,         \* the auto-ingest goroutine
  Requests,       \* requests of a run: kind, and the source or the season's date
  Promotions,     \* pairs of a player and a tier an admin may set
  AutoReconcile,  \* rating_config.auto_reconcile
  MaxVersion,     \* bound: how often the scores of a source change
  Budget          \* bound: requests and failures of a behaviour

\* A source is its date.
Sources == 1 .. Last

ASSUME SourcesAssumption == Last \in Nat /\ Tournaments \subseteq Sources
ASSUME FirstAssumption ==
  \A f \in FirstSources :
    /\ f \in [Sources -> [there : {TRUE}, ver : 0 .. MaxVersion, final : BOOLEAN]]
    /\ \A s \in Tournaments : ~f[s].final
ASSUME SidesAssumption ==
  Sides \in [Sources -> [a : SUBSET Players, b : SUBSET Players]] /\
  \A s \in Sources : Sides[s].a # {} /\ Sides[s].b # {} /\ Sides[s].a \cap Sides[s].b = {}
ASSUME PlaceholdersAssumption == Placeholders \in [Sources -> [a : Nat, b : Nat]]
ASSUME WorkersAssumption == Ticker \notin Clients /\ NoTier \notin Tiers
ASSUME ConfigAssumption ==
  /\ Requests \subseteq [kind : {"ingest", "revert", "delete"}, src : Sources] \cup
                      [kind : {"rebuild", "season"}, src : Nat]
  /\ Promotions \subseteq Players \X Tiers
  /\ AutoReconcile \in BOOLEAN /\ MaxVersion \in Nat \ {0} /\ Budget \in Nat

VARIABLES
  sources,   \* sessions and tournaments: there, ver of its scores (0: none), final (status # draft)
  events,    \* rating_events with their rating_deltas: source and version
  plain,     \* those whose deltas a rebuild has written
  listed,    \* rating_sources: row or not, fp (0: ''), finalized
  ratings,   \* rating_players
  tiers,     \* players.tier
  season,    \* rating_config.season_start
  op,        \* each worker's operation
  todo,      \* rows of the ticker's query it has not come to, by date
  owed,      \* history: events were removed, and no rebuild that began since was committed
  late,      \* history: the workers whose snapshot is older than the last removal
  left       \* what is left of Budget

tables == <<sources, events, plain, listed, ratings, tiers, season>>
vars == <<tables, op, todo, owed, late, left>>

Workers == Clients \cup {Ticker}

Unlisted == [row |-> FALSE, fp |-> 0, finalized |-> FALSE]
NoRating == <<>>

Db == [sources |-> sources, events |-> events, listed |-> listed, ratings |-> ratings, tiers |-> tiers]
NoDb == <<>>

(***************************************************************************)
(* An operation: what, of which source or date, the season_start it has    *)
(* loaded, how far it is, its snapshot, and the rows others have changed   *)
(* since the snapshot.                                                     *)
(***************************************************************************)
Idle == [kind |-> "none", src |-> 0, cfg |-> 0, at |-> "idle", snap |-> NoDb, raced |-> {}]

Begun(kind, s) ==
  [kind |-> kind, src |-> s, cfg |-> season, at |-> "begun", snap |-> NoDb, raced |-> {}]

\* The ledger is empty; sessions may have been played before it is used.
Init ==
  /\ sources \in FirstSources
  /\ events = {} /\ plain = {} /\ listed = [s \in Sources |-> Unlisted]
  /\ ratings = [p \in Players |-> NoRating] /\ tiers = [p \in Players |-> NoTier]
  /\ season = 0 /\ op = [w \in Workers |-> Idle] /\ todo = {}
  /\ owed = FALSE /\ late = {} /\ left = Budget

-----------------------------------------------------------------------------
(* Ratings *)

PlayersOf(s) == Sides[s].a \cup Sides[s].b
Opponents(s, p) == IF p \in Sides[s].a THEN Sides[s].b ELSE Sides[s].a

\* The placeholders among p's opponents, each of them at initial_rating.
Unknown(s, p) == IF p \in Sides[s].a THEN Placeholders[s].b ELSE Placeholders[s].a

\* The events with what is known of their deltas: those of rebuilt are plain.
Computed(evs, rebuilt) == {[src |-> e.src, ver |-> e.ver, plain |-> e \in rebuilt] : e \in evs}

\* GlickoUpdate for both sides, from the ratings before the event.  A rebuild
\* has the opponents from rating_deltas; an ingest has the placeholders too.
Play(r, e) ==
  [p \in DOMAIN r |->
    IF p \in PlayersOf(e.src)
    THEN Append(r[p], <<e.src, e.ver, [q \in Opponents(e.src, p) |-> r[q]],
                        IF e.plain THEN 0 ELSE Unknown(e.src, p)>>)
    ELSE r[p]]

\* ORDER BY date, created_at, source_id, game_order, from the ratings base.
\* The events of a source are of one version (OneVersionPerSource).
Days(evs, base) ==
  LET upTo[d \in 0 .. Last] ==
        IF d = 0 THEN base
        ELSE LET today == {e \in evs : e.src = d}
             IN IF today = {} THEN upTo[d - 1] ELSE Play(upTo[d - 1], CHOOSE e \in today : TRUE)
  IN upTo

Replay(evs, base) == Days(evs, base)[Last]

Rated(db) == {p \in Players : db.ratings[p] # NoRating}
PlayersIn(evs) == UNION {PlayersOf(e.src) : e \in evs}

-----------------------------------------------------------------------------
(* What an operation changes, computed from its snapshot *)

\* Rows of a table: none, one, and new ones over the old.
NoRows == [x \in {} |-> {}]
OneRow(x, row) == [y \in {x} |-> row]
Over(new, old) == [x \in DOMAIN new \cup DOMAIN old |-> IF x \in DOMAIN new THEN new[x] ELSE old[x]]

NoChange ==
  [gone |-> {}, new |-> {}, redone |-> {}, ratings |-> NoRows, listed |-> NoRows,
   dropped |-> {}, season |-> {}, rebuilt |-> FALSE]

Own(db, s) == {e \in db.events : e.src = s}

Final(db, s) == IF s \in Tournaments THEN db.listed[s].finalized ELSE db.sources[s].final

\* The source is there and final, and either was never ingested or differs
\* from what was ingested and may be reconciled.
MayIngest(o) ==
  LET s == o.src
      row == o.snap.listed[s]
  IN /\ o.snap.sources[s].there /\ Final(o.snap, s)
     /\ row.fp # 0 => AutoReconcile /\ row.fp # o.snap.sources[s].ver

\* deleteSourceEvents, when it reconciles.
Reconciled(o) == IF o.snap.listed[o.src].fp # 0 THEN Own(o.snap, o.src) ELSE {}

\* It has a scored match, in the season the operation knows of.
Playable(o) == o.snap.sources[o.src].ver > 0 /\ o.src >= o.cfg

\* Mutant of InOrder: only what it has ingested itself is in the way.
InOwnOrder(o) == Own(o.snap, o.src) \ Reconciled(o) = {}

\* The source comes after every event.
InOrder(o) == \A e \in o.snap.events \ Reconciled(o) : e.src < o.src

\* Every match is skipped: the source gets a row with an empty fingerprint.
MarkChange(o) ==
  [NoChange EXCEPT
    !.gone = Reconciled(o),
    !.listed = IF o.snap.listed[o.src].row THEN NoRows
               ELSE OneRow(o.src, [row |-> TRUE, fp |-> 0, finalized |-> Final(o.snap, o.src)])]

IngestChange(o) ==
  LET s == o.src
      e == [src |-> s, ver |-> o.snap.sources[s].ver]
      row == o.snap.listed[s]
      before == [p \in PlayersOf(s) |-> IF o.snap.ratings[p] # NoRating THEN o.snap.ratings[p]
                                        ELSE <<o.snap.tiers[p]>>]
  IN [NoChange EXCEPT
       !.gone = Reconciled(o), !.new = {e},
       !.ratings = Play(before, [src |-> s, ver |-> e.ver, plain |-> FALSE]),
       !.listed = OneRow(s, [row |-> TRUE, fp |-> e.ver,
                             finalized |-> IF row.row THEN row.finalized ELSE Final(o.snap, s)])]

\* rebuildAll: the tiers it knows are those of the players with a rating.  It
\* plays the events anew and writes their deltas.
RebuildChange(o, evs) ==
  LET base == [p \in Players |-> IF p \in Rated(o.snap) THEN <<o.snap.tiers[p]>> ELSE <<NoTier>>]
      after == Replay(Computed(evs, evs), base)
  IN [NoChange EXCEPT
       !.redone = evs, !.rebuilt = TRUE,
       !.ratings = [p \in Rated(o.snap) \cup PlayersIn(evs) |-> after[p]]]

\* Mutant of RevertChange: the fingerprint stays.
RevertKeepsFingerprint(o) ==
  LET own == Own(o.snap, o.src)
  IN [RebuildChange(o, o.snap.events \ own) EXCEPT !.gone = own]

\* deleteSourceEvents, the fingerprint, rebuildAll: one transaction.
RevertChange(o) ==
  LET own == Own(o.snap, o.src)
      row == o.snap.listed[o.src]
  IN [RebuildChange(o, o.snap.events \ own) EXCEPT
       !.gone = own,
       !.listed = IF row.row THEN OneRow(o.src, [row EXCEPT !.fp = 0]) ELSE NoRows]

\* The season's date travels in src.
SeasonChange(o) ==
  [NoChange EXCEPT
    !.gone = {e \in o.snap.events : e.src < o.src}, !.season = {o.src},
    !.listed = [s \in {t \in Sources : o.snap.listed[t].row} |-> [o.snap.listed[s] EXCEPT !.fp = 0]]]

\* The source, its events and its row in rating_sources.
DeleteChange(o) ==
  [NoChange EXCEPT
    !.gone = Own(o.snap, o.src), !.dropped = {o.src},
    !.listed = IF o.snap.listed[o.src].row THEN OneRow(o.src, Unlisted) ELSE NoRows]

-----------------------------------------------------------------------------
(* Transactions *)

Rows(c) ==
  {<<"event", e>> : e \in c.gone \cup c.new \cup c.redone} \cup
  {<<"rating", p>> : p \in DOMAIN c.ratings} \cup {<<"listed", s>> : s \in DOMAIN c.listed} \cup
  {<<"source", s>> : s \in c.dropped} \cup {<<"season", d>> : d \in {0 : x \in c.season}}

\* Operations that hold a snapshot learn which rows a commit has changed.
After(w, next, rows) ==
  [v \in Workers |->
    IF v = w THEN next
    ELSE IF op[v].at \in {"waiting", "running"} THEN [op[v] EXCEPT !.raced = @ \cup rows]
    ELSE op[v]]

\* First committer wins: a row changed since the snapshot fails the operation.
Commit(w, c, next) ==
  /\ op[w].at = "running"
  /\ Rows(c) \cap op[w].raced = {}
  /\ events' = (events \ c.gone) \cup c.new
  /\ plain' = (plain \ (c.gone \cup c.new)) \cup c.redone
  /\ ratings' = Over(c.ratings, ratings)
  /\ listed' = Over(c.listed, listed)
  /\ sources' = [s \in Sources |-> [sources[s] EXCEPT !.there = @ /\ s \notin c.dropped]]
  /\ season' = IF c.season = {} THEN season ELSE CHOOSE d \in c.season : TRUE
  /\ owed' = (~(c.rebuilt /\ w \notin late) /\ (owed \/ c.gone # {}))
  /\ late' = IF c.gone = {} THEN late ELSE Workers
  /\ op' = After(w, next, Rows(c))
  /\ UNCHANGED <<tiers, todo, left>>

Take(w, kind, s) ==
  /\ op[w] = Idle
  /\ op' = [op EXCEPT ![w] = Begun(kind, s)]
  /\ UNCHANGED <<tables, owed, late>>

\* A request of a client: POST /ratings/..., DELETE /admin/...
Request(c, kind, s) ==
  /\ left > 0 /\ left' = left - 1
  /\ Take(c, kind, s)
  /\ UNCHANGED todo

\* The first statement fixes the snapshot.  It is the one that waits for the
\* advisory lock, except in a delete, which takes none.
TakeSnapshot(w) ==
  /\ op[w].at = "begun"
  /\ op' = [op EXCEPT ![w].at = IF op[w].kind = "delete" THEN "running" ELSE "waiting",
                      ![w].snap = Db]
  /\ late' = late \ {w}
  /\ UNCHANGED <<tables, todo, owed, left>>

Lock(w) ==
  /\ op[w].at = "waiting"
  /\ \A v \in Workers : op[v].at = "running" => op[v].kind = "delete"
  /\ op' = [op EXCEPT ![w].at = "running"]
  /\ UNCHANGED <<tables, todo, owed, late, left>>

\* The change is bound, so that TLC computes it once.
Ingest(w) ==
  /\ op[w].kind = "ingest" /\ op[w].at = "running"
  /\ MayIngest(op[w]) /\ Playable(op[w]) /\ InOrder(op[w])
  /\ \E c \in {IngestChange(op[w])} : Commit(w, c, Idle)

Mark(w) ==
  /\ op[w].kind = "ingest" /\ op[w].at = "running"
  /\ MayIngest(op[w]) /\ ~Playable(op[w])
  /\ \E c \in {MarkChange(op[w])} : Commit(w, c, Idle)

RebuildAll(w) ==
  /\ op[w].kind = "rebuild" /\ op[w].at = "running"
  /\ \E c \in {RebuildChange(op[w], op[w].snap.events)} : Commit(w, c, Idle)

RevertSource(w) ==
  /\ op[w].kind = "revert" /\ op[w].at = "running"
  /\ op[w].snap.sources[op[w].src].there /\ Own(op[w].snap, op[w].src) # {}
  /\ \E c \in {RevertChange(op[w])} : Commit(w, c, Idle)

\* Both commit first, and rebuild in a transaction of its own.
CloseAndStartSeason(w) ==
  /\ op[w].kind = "season" /\ op[w].at = "running"
  /\ \E c \in {SeasonChange(op[w])} : Commit(w, c, Begun("rebuild", 0))

AdminDelete(w) ==
  /\ op[w].kind = "delete" /\ op[w].at = "running"
  /\ op[w].snap.sources[op[w].src].there
  /\ \E c \in {DeleteChange(op[w])} : Commit(w, c, Begun("rebuild", 0))

Change(o) ==
  CASE o.kind = "ingest"  -> IF Playable(o) THEN IngestChange(o) ELSE MarkChange(o)
    [] o.kind = "rebuild" -> RebuildChange(o, o.snap.events)
    [] o.kind = "revert"  -> RevertChange(o)
    [] o.kind = "season"  -> SeasonChange(o)
    [] o.kind = "delete"  -> DeleteChange(o)

\* Not found, not final, nothing new, changed, or out of order; a revert of
\* a source without events.
Refused(o) ==
  \/ o.kind = "ingest" /\ ~(MayIngest(o) /\ (Playable(o) => InOrder(o)))
  \/ o.kind = "revert" /\ ~(o.snap.sources[o.src].there /\ Own(o.snap, o.src) # {})
  \/ o.kind = "delete" /\ ~o.snap.sources[o.src].there

\* Refused, or the database reports a serialization failure: nothing is
\* written and nobody tries again.
GiveUp(w) ==
  /\ op[w].at = "running"
  /\ Refused(op[w]) \/ Rows(Change(op[w])) \cap op[w].raced # {}
  /\ op' = [op EXCEPT ![w] = Idle]
  /\ UNCHANGED <<tables, todo, owed, late, left>>

\* A timeout, a lost connection or a crash.
Fail(w) ==
  /\ op[w] # Idle
  /\ left > 0 /\ left' = left - 1
  /\ op' = [op EXCEPT ![w] = Idle]
  /\ todo' = IF w = Ticker THEN {} ELSE todo
  /\ UNCHANGED <<tables, owed, late>>

-----------------------------------------------------------------------------
(* AutoIngestLockedSessions *)

\* Mutant of Pending: a source with a row is done with.
NeverListed ==
  {s \in Sources \ Tournaments :
    sources[s].there /\ sources[s].final /\ s >= season /\ ~listed[s].row}

\* Final sessions of the season without a fingerprint.
Pending ==
  {s \in Sources \ Tournaments :
    sources[s].there /\ sources[s].final /\ s >= season /\ listed[s].fp = 0}

Tick ==
  /\ op[Ticker] = Idle /\ todo = {} /\ Pending # {}
  /\ todo' = Pending
  /\ UNCHANGED <<tables, op, owed, late, left>>

IngestNext ==
  /\ \E s \in todo :
       /\ \A t \in todo : s <= t
       /\ todo' = todo \ {s}
       /\ Take(Ticker, "ingest", s)
  /\ UNCHANGED left

-----------------------------------------------------------------------------
(* What other parts of the program do to the tables *)

Edit(rows) ==
  /\ left > 0 /\ left' = left - 1
  /\ op' = [v \in Workers |-> IF op[v].at \in {"waiting", "running"}
                              THEN [op[v] EXCEPT !.raced = @ \cup rows] ELSE op[v]]
  /\ UNCHANGED <<events, plain, ratings, season, todo, owed, late>>

\* Scores of a draft session, or of a tournament.  A tournament that is
\* complete gets a row, not finalized, if it is saved under its share code.
Score(s) ==
  /\ sources[s].there /\ ~sources[s].final /\ sources[s].ver < MaxVersion
  /\ sources' = [sources EXCEPT ![s].ver = @ + 1]
  /\ \E added \in SUBSET {t \in Tournaments : t = s /\ ~listed[t].row} :
       /\ listed' = [t \in Sources |-> [listed[t] EXCEPT !.row = @ \/ t \in added]]
       /\ Edit({<<"source", s>>} \cup {<<"listed", t>> : t \in added})
  /\ UNCHANGED tiers

\* A session is locked or unlocked.
SetLocked(s, on) ==
  /\ s \notin Tournaments /\ sources[s].there /\ sources[s].final # on
  /\ sources' = [sources EXCEPT ![s].final = on]
  /\ Edit({<<"source", s>>})
  /\ UNCHANGED <<listed, tiers>>

\* DELETE /sessions/{id} of a draft leaves the rating tables alone.
DeleteDraft(s) ==
  /\ s \notin Tournaments /\ sources[s].there /\ ~sources[s].final
  /\ sources' = [sources EXCEPT ![s].there = FALSE]
  /\ Edit({<<"source", s>>})
  /\ UNCHANGED <<listed, tiers>>

\* READ COMMITTED: it writes the row as it finds it.
SetSourceFinalized(s, on) ==
  /\ s \in Tournaments
  /\ listed' = [listed EXCEPT ![s].row = TRUE, ![s].finalized = on]
  /\ Edit({<<"listed", s>>})
  /\ UNCHANGED <<sources, tiers>>

\* The tier is committed, then everything is rebuilt.
SetPlayerTier(c, p, t) ==
  /\ left > 0 /\ left' = left - 1
  /\ op[c] = Idle /\ tiers[p] # t
  /\ tiers' = [tiers EXCEPT ![p] = t]
  /\ op' = [op EXCEPT ![c] = Begun("rebuild", 0)]
  /\ UNCHANGED <<sources, events, plain, listed, ratings, season, todo, owed, late>>

-----------------------------------------------------------------------------

Step(w) ==
  \/ TakeSnapshot(w) \/ Lock(w)
  \/ Ingest(w) \/ Mark(w) \/ RebuildAll(w) \/ RevertSource(w)
  \/ CloseAndStartSeason(w) \/ AdminDelete(w) \/ GiveUp(w)

Next ==
  \/ \E w \in Workers : Step(w) \/ Fail(w)
  \/ \E c \in Clients :
       \/ \E r \in Requests : Request(c, r.kind, r.src)
       \/ \E x \in Promotions : SetPlayerTier(c, x[1], x[2])
  \/ Tick \/ IngestNext
  \/ \E s \in Sources :
       \/ Score(s) \/ DeleteDraft(s)
       \/ \E on \in BOOLEAN : SetLocked(s, on) \/ SetSourceFinalized(s, on)

Spec == Init /\ [][Next]_vars

\* Operations go on, and the ticker ticks.
FairSpec ==
  /\ Spec
  /\ WF_vars(Tick \/ IngestNext \/ Step(Ticker))
  /\ \A c \in Clients : WF_vars(Step(c))

-----------------------------------------------------------------------------
(* Properties *)

\* Whatever was ingested, reverted, deleted and rebuilt next to each other:
\* unless a rebuild is owed, the ratings are the replay of the events in
\* order, each as its deltas were written last, by an ingest or a rebuild, from
\* the tiers the players were formed at (a new tier reaches a rating when it is
\* formed anew).
Formed == [p \in Players |-> IF p \in Rated(Db) THEN <<ratings[p][1]>> ELSE <<NoTier>>]

IsReplay(evs) ==
  LET after == Replay(evs, Formed)
  IN owed \/ \A p \in Players :
               IF p \in Rated(Db) THEN ratings[p] = after[p] ELSE p \notin PlayersIn(events)

LedgerIsReplay == IsReplay(Computed(events, plain))

\* What domain/rating.go:8 and 147-148 and rating_integration_test.go:181 promise:
\* a rebuild of the same events gives the same ratings.  It does not: oppsFor
\* (rating_revert.go:308) does not find the placeholders of an ingest.
RebuildReproduces == IsReplay(Computed(events, events))

\* No source is counted twice, though it may be edited, reverted and ingested
\* by several at once.
OneVersionPerSource == \A d, e \in events : d.src = e.src => d = e

\* A fingerprint vouches for events: without them the source would be taken
\* for ingested for ever.
FingerprintBacked ==
  \A s \in Sources : listed[s].fp # 0 => [src |-> s, ver |-> listed[s].fp] \in events

Ready(s) ==
  /\ sources[s].there /\ sources[s].final
  /\ sources[s].ver > 0 /\ s >= season
  /\ \A e \in events : e.src < s

\* A locked session later than all events does not stay out of the ledger.
NewestIsIngested == \A s \in Sources \ Tournaments : []<>~Ready(s)
=============================================================================
