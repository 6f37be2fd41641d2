------------------------- MODULE SessionStoreProofs -------------------------
(***************************************************************************)
(* Proofs about SessionStore, for any number of clients, games, players,   *)
(* keys and requests.  The inductive invariant is TypeOK /\ Inv.           *)
(***************************************************************************)
EXTENDS SessionInvariant, TLAPS

-----------------------------------------------------------------------------
(* What the operators of SessionRows return *)

\* A fresh row, a missing row and the snapshots made of them are well-formed.
LEMMA RowTypes ==
  /\ \A g \in Games : FreshRow(g) \in Row /\ NoGame(g) \in Row
  /\ NoSnap \in Snapshot /\ FreshSnap \in Snapshot
<1>1. \A g \in Games : FreshRow(g) \in Row /\ NoGame(g) \in Row
  BY SeatsAssumption DEF FreshRow, NoGame, Row
<1>2. QED BY <1>1 DEF NoSnap, FreshSnap, Snapshot

\* The column changes of the game operations and of a PUT keep a row well-formed.
LEMMA RowChange ==
  ASSUME NEW row \in Row, NEW v \in Nat, NEW s \in Scores \cup {NoScore}, NEW b \in BOOLEAN,
         NEW k \in SUBSET Players
  PROVE  /\ [row EXCEPT !.ver = v, !.score = s, !.played = b] \in Row
         /\ [row EXCEPT !.ver = v, !.played = b, !.score = s] \in Row
         /\ [row EXCEPT !.ver = v, !.skip = k] \in Row
  BY DEF Row

\* So does raising the version alone.
LEMMA VersionRaise ==
  ASSUME NEW row \in Row, NEW n \in Nat PROVE [row EXCEPT !.ver = @ + n] \in Row
  BY DEF Row

\* A game operation leaves a well-formed row (skips name players of the session).
LEMMA GameUpdateType ==
  ASSUME NEW row \in Row, NEW r \in RequestType, r.op \in GameOps,
         r.op = "skip" => r.refs \subseteq Players
  PROVE  GameUpdate(row, r) \in Row
<1>1. row.ver + 1 \in Nat /\ row.score \in Scores \cup {NoScore} BY DEF Row
<1>2. r.score \in Scores \cup {NoScore} /\ r.on \in BOOLEAN BY DEF RequestType
<1>3. CASE r.op = "score"
  BY <1>1, <1>2, <1>3, RowChange, TRUE \in BOOLEAN DEF GameUpdate
<1>4. CASE r.op = "played"
  <2>1. (IF r.on THEN row.score ELSE NoScore) \in Scores \cup {NoScore} BY <1>1
  <2> QED BY <1>1, <1>2, <1>4, <2>1, RowChange DEF GameUpdate
<1>5. CASE r.op = "skip"
  BY <1>1, <1>5, RowChange DEF GameUpdate
<1>6. QED BY <1>3, <1>4, <1>5 DEF GameOps

\* Save inserts well-formed rows.
LEMMA SyncedType ==
  ASSUME NEW snap \in Snapshot PROVE SyncedRows(snap) \in [Games -> Row]
<1>1. ASSUME NEW g \in Games
      PROVE  [snap.games[g] EXCEPT !.ver = 1, !.skip = {}] \in Row
  <2>1. snap.games[g] \in Row BY DEF Snapshot
  <2> QED BY <2>1, RowChange
<1>2. QED BY <1>1, RowTypes DEF SyncedRows

\* Bumping the versions of some games keeps the rows well-formed.
LEMMA BumpType ==
  ASSUME NEW rows \in [Games -> Row], NEW S PROVE BumpGames(rows, S) \in [Games -> Row]
<1>1. \A g \in Games : [rows[g] EXCEPT !.ver = @ + 1] \in Row BY DEF Row
<1>2. QED BY <1>1 DEF BumpGames

\* Exchanging two seats, in two games or in one, keeps the rows well-formed.
LEMMA ExchangeType ==
  ASSUME NEW rows \in [Games -> Row], NEW a \in Games, NEW b \in Games, NEW s \in Seats, NEW t \in Seats
  PROVE  ExchangeSeat(rows, a, s, b, t) \in [Games -> Row]
<1> DEFINE one == [rows EXCEPT ![a].seat[s] = rows[b].seat[t]]
<1>1. rows[a].seat[s] \in Players /\ rows[b].seat[t] \in Players BY DEF Row
<1>2. [rows[a] EXCEPT !.seat[s] = rows[b].seat[t]] \in Row BY <1>1 DEF Row
<1>3. one \in [Games -> Row] BY <1>2
<1>4. [one[b] EXCEPT !.seat[t] = rows[a].seat[s]] \in Row BY <1>1, <1>3 DEF Row
<1>5. QED BY <1>3, <1>4 DEF ExchangeSeat

\* Whether a swap can be made depends on the two games' rows only.
LEMMA CanSwapOnItsRows ==
  ASSUME NEW r \in RequestType, NEW rows, NEW after, CanSwap(rows, r),
         after[r.game] = rows[r.game], after[r.other] = rows[r.other]
  PROVE  CanSwap(after, r)
  BY DEF CanSwap, SwapLegal

\* Every kind of swap keeps the rows well-formed.
LEMMA SwappedType ==
  ASSUME NEW rows \in [Games -> Row], NEW r \in RequestType, r.op \in SwapOps
  PROVE  Swapped(rows, r) \in [Games -> Row]
<1>1. r.game \in Games /\ r.other \in Games /\ r.at \in Seats /\ r.with \in Seats
  BY DEF RequestType
<1>3. SwapSlots(rows, r) \in [Games -> Row]
  <2>1. [rows[r.other] EXCEPT !.ver = @ + 1] \in Row /\ [rows[r.game] EXCEPT !.ver = @ + 2] \in Row
    BY <1>1, VersionRaise
  <2> QED BY <1>1, <2>1 DEF SwapSlots
<1>4. SwapPlayer(rows, r) \in [Games -> Row]
  BY <1>1, ExchangeType, BumpType DEF SwapPlayer
<1>5. SwapTeam(rows, r) \in [Games -> Row]
  <2> DEFINE s == TeamSeats(r.at)
             t == IF r.game = r.other THEN TeamSeats(r.with) ELSE s
             first == ExchangeSeat(rows, r.game, s[1], r.other, t[1])
  <2>1. s[1] \in Seats /\ s[2] \in Seats /\ t[1] \in Seats /\ t[2] \in Seats
    BY DEF TeamSeats, Seats
  <2>2. first \in [Games -> Row] BY <1>1, <2>1, ExchangeType
  <2> HIDE DEF first, s, t
  <2>3. ExchangeSeat(first, r.game, s[2], r.other, t[2]) \in [Games -> Row]
    BY <1>1, <2>1, <2>2, ExchangeType
  <2>4. SwapTeam(rows, r) = BumpGames(ExchangeSeat(first, r.game, s[2], r.other, t[2]), {r.game, r.other})
    BY DEF SwapTeam, first, s, t
  <2> QED BY <2>3, <2>4, BumpType
<1>6. QED BY <1>3, <1>4, <1>5 DEF Swapped, SwapOps

\* A swap writes its two games and no other.
LEMMA SwapKeepsOthers ==
  ASSUME NEW rows \in [Games -> Row], NEW r \in RequestType, r.op \in SwapOps,
         NEW g \in Games, g \notin {r.game, r.other}
  PROVE  Swapped(rows, r)[g] = rows[g]
<1>1. r.game \in Games /\ r.other \in Games BY DEF RequestType
<1>2. \A f \in [Games -> Row] : BumpGames(f, {r.game, r.other})[g] = f[g]
  BY DEF BumpGames
<1>3. \A f \in [Games -> Row] : \A s, t \in Seats :
        ExchangeSeat(f, r.game, s, r.other, t)[g] = f[g]
  BY DEF ExchangeSeat
<1>4. SwapSlots(rows, r)[g] = rows[g] BY <1>1 DEF SwapSlots
<1>5. SwapPlayer(rows, r)[g] = rows[g]
  <2>1. r.at \in Seats /\ r.with \in Seats BY DEF RequestType
  <2>2. ExchangeSeat(rows, r.game, r.at, r.other, r.with) \in [Games -> Row]
    BY <1>1, <2>1, ExchangeType
  <2> QED BY <1>1, <1>2, <1>3, <2>1, <2>2 DEF SwapPlayer
<1>6. SwapTeam(rows, r)[g] = rows[g]
  <2> DEFINE s == TeamSeats(r.at)
             t == IF r.game = r.other THEN TeamSeats(r.with) ELSE s
             first == ExchangeSeat(rows, r.game, s[1], r.other, t[1])
             second == ExchangeSeat(first, r.game, s[2], r.other, t[2])
  <2>1. s[1] \in Seats /\ s[2] \in Seats /\ t[1] \in Seats /\ t[2] \in Seats
    BY DEF TeamSeats, Seats
  <2> HIDE DEF s, t
  <2>2. first \in [Games -> Row] /\ first[g] = rows[g] BY <1>1, <1>3, <2>1, ExchangeType
  <2> HIDE DEF first
  <2>3. second \in [Games -> Row] /\ second[g] = first[g] BY <1>1, <1>3, <2>1, <2>2, ExchangeType
  <2>4. SwapTeam(rows, r) = BumpGames(second, {r.game, r.other}) BY DEF SwapTeam, s, t, first
  <2> HIDE DEF second
  <2> QED BY <1>2, <2>2, <2>3, <2>4
<1>7. QED BY <1>4, <1>5, <1>6 DEF Swapped, SwapOps

-----------------------------------------------------------------------------
(* Scores and seats *)

\* Every game with a score is played.
Tallied(rows) == \A g \in Games : rows[g].score # NoScore => rows[g].played

\* No game seats a player twice.
Seated(rows) == \A g \in Games : Present(rows[g]) => Distinct(rows[g].seat)

\* The rows Save inserts are tallied and seated, since the snapshot is valid.
LEMMA SyncedData ==
  ASSUME NEW snap \in Snapshot, ValidSnapshot(snap)
  PROVE  Tallied(SyncedRows(snap)) /\ Seated(SyncedRows(snap))
<1>1. ASSUME NEW g \in Games, Present(snap.games[g])
      PROVE  /\ SyncedRows(snap)[g].score = snap.games[g].score
             /\ SyncedRows(snap)[g].played = snap.games[g].played
             /\ SyncedRows(snap)[g].seat = snap.games[g].seat
  <2>1. snap.games[g] \in Row BY DEF Snapshot
  <2> QED BY <1>1, <2>1 DEF SyncedRows, Row
<1>2. ASSUME NEW g \in Games, ~Present(snap.games[g])
      PROVE  SyncedRows(snap)[g].score = NoScore /\ ~Present(SyncedRows(snap)[g])
  BY <1>2 DEF SyncedRows, NoGame, FreshRow, Present
<1>3. QED BY <1>1, <1>2 DEF ValidSnapshot, Tallied, Seated

\* A game operation keeps its game's score with a played game, and its seats.
LEMMA GameUpdateData ==
  ASSUME NEW row \in Row, NEW r \in RequestType, r.op \in GameOps,
         row.score # NoScore => row.played
  PROVE  /\ GameUpdate(row, r).score # NoScore => GameUpdate(row, r).played
         /\ GameUpdate(row, r).seat = row.seat
<1>1. CASE r.op = "score" BY <1>1 DEF GameUpdate, Row
<1>2. CASE r.op = "played" BY <1>2 DEF GameUpdate, Row
<1>3. CASE r.op = "skip" BY <1>3 DEF GameUpdate, Row
<1>4. QED BY <1>1, <1>2, <1>3 DEF GameOps

\* Bumping versions touches neither scores nor seats, and no presence of a
\* game that is there already.
LEMMA BumpData ==
  ASSUME NEW rows \in [Games -> Row], NEW S, NEW g \in Games
  PROVE  /\ BumpGames(rows, S)[g].score = rows[g].score
         /\ BumpGames(rows, S)[g].played = rows[g].played
         /\ BumpGames(rows, S)[g].seat = rows[g].seat
         /\ g \notin S => BumpGames(rows, S)[g] = rows[g]
<1>1. rows[g] \in Row OBVIOUS
<1>2. QED BY <1>1 DEF BumpGames, Row

\* The seats of a game after two of them are exchanged.
LEMMA ExchangeWithin ==
  ASSUME NEW rows \in [Games -> Row], NEW a \in Games, NEW s \in Seats, NEW t \in Seats
  PROVE  ExchangeSeat(rows, a, s, a, t)[a].seat =
           [rows[a].seat EXCEPT ![s] = rows[a].seat[t], ![t] = rows[a].seat[s]]
<1>1. rows[a] \in Row OBVIOUS
<1>2. QED BY <1>1 DEF ExchangeSeat, Row

\* Exchanging seats leaves the scores.
LEMMA ExchangeScores ==
  ASSUME NEW rows \in [Games -> Row], NEW a \in Games, NEW b \in Games, NEW s \in Seats, NEW t \in Seats,
         NEW g \in Games
  PROVE  /\ ExchangeSeat(rows, a, s, b, t)[g].score = rows[g].score
         /\ ExchangeSeat(rows, a, s, b, t)[g].played = rows[g].played
         /\ ExchangeSeat(rows, a, s, b, t)[g].ver = rows[g].ver
         /\ g \notin {a, b} => ExchangeSeat(rows, a, s, b, t)[g] = rows[g]
<1>1. rows[g] \in Row /\ rows[a] \in Row /\ rows[b] \in Row OBVIOUS
<1>2. QED BY <1>1 DEF ExchangeSeat, Row

\* Exchanging two seats of a game keeps its four players different.
LEMMA ExchangeKeepsDistinct ==
  ASSUME NEW seat \in [Seats -> Players], Distinct(seat), NEW s \in Seats, NEW t \in Seats
  PROVE  Distinct([seat EXCEPT ![s] = seat[t], ![t] = seat[s]])
<1> DEFINE new == [seat EXCEPT ![s] = seat[t], ![t] = seat[s]]
<1>1. new[t] = seat[s] /\ (s # t => new[s] = seat[t]) /\ \A u \in Seats \ {s, t} : new[u] = seat[u]
  OBVIOUS
<1> HIDE DEF new
<1>2. QED BY <1>1 DEF Distinct, new

\* An exchange of two seats keeps every game with a score played, and leaves
\* the games it does not name.
LEMMA ExchangeFrame ==
  ASSUME NEW rows \in [Games -> Row], NEW a \in Games, NEW b \in Games, NEW s \in Seats, NEW t \in Seats
  PROVE  /\ ExchangeSeat(rows, a, s, b, t) \in [Games -> Row]
         /\ Tallied(rows) => Tallied(ExchangeSeat(rows, a, s, b, t))
         /\ \A g \in Games \ {a, b} : ExchangeSeat(rows, a, s, b, t)[g] = rows[g]
<1> DEFINE after == ExchangeSeat(rows, a, s, b, t)
<1>1. after \in [Games -> Row] BY ExchangeType
<1>2. ASSUME NEW g \in Games
      PROVE  /\ after[g].score = rows[g].score /\ after[g].played = rows[g].played
             /\ g \notin {a, b} => after[g] = rows[g]
  BY ExchangeScores
<1> HIDE DEF after
<1>3. QED BY <1>1, <1>2 DEF Tallied, after

\* Bumping versions keeps every game with a score played.
LEMMA BumpTallied ==
  ASSUME NEW rows \in [Games -> Row], NEW S, Tallied(rows) PROVE Tallied(BumpGames(rows, S))
<1>1. ASSUME NEW g \in Games
      PROVE  BumpGames(rows, S)[g].score = rows[g].score /\ BumpGames(rows, S)[g].played = rows[g].played
  BY BumpData
<1>2. QED BY <1>1 DEF Tallied

\* A row with its version raised.
Raised(row, n) == [row EXCEPT !.ver = @ + n]

\* Exchanging the rows of two games (or of one with itself) keeps scores with
\* played games.
LEMMA SlotsTallied ==
  ASSUME NEW rows \in [Games -> Row], Tallied(rows), NEW a \in Games, NEW b \in Games
  PROVE  Tallied([rows EXCEPT ![a] = Raised(rows[b], 1), ![b] = Raised(rows[a], 2)])
<1>1. ASSUME NEW g \in Games, NEW n \in Nat
      PROVE  Raised(rows[g], n).score # NoScore => Raised(rows[g], n).played
  <2>1. rows[g] \in Row /\ (rows[g].score # NoScore => rows[g].played) BY DEF Tallied
  <2> QED BY <2>1 DEF Row, Raised
<1>2. QED BY <1>1 DEF Tallied

\* A swap keeps every game with a score played.
LEMMA SwappedTallied ==
  ASSUME NEW rows \in [Games -> Row], NEW r \in RequestType, r.op \in SwapOps, Tallied(rows)
  PROVE  Tallied(Swapped(rows, r))
<1>1. r.game \in Games /\ r.other \in Games /\ r.at \in Seats /\ r.with \in Seats
  BY DEF RequestType
<1>2. Tallied(SwapSlots(rows, r))
  <2>1. SwapSlots(rows, r) = [rows EXCEPT ![r.game] = Raised(rows[r.other], 1),
                                          ![r.other] = Raised(rows[r.game], 2)]
    BY <1>1 DEF SwapSlots, Raised
  <2>2. Tallied([rows EXCEPT ![r.game] = Raised(rows[r.other], 1), ![r.other] = Raised(rows[r.game], 2)])
    BY <1>1, SlotsTallied
  <2> QED BY <2>1, <2>2
<1>3. Tallied(SwapPlayer(rows, r))
  <2> DEFINE after == ExchangeSeat(rows, r.game, r.at, r.other, r.with)
  <2>1. after \in [Games -> Row] /\ Tallied(after)
    BY <1>1, ExchangeFrame
  <2>2. SwapPlayer(rows, r) = BumpGames(after, {r.game, r.other}) BY DEF SwapPlayer
  <2> HIDE DEF after
  <2> QED BY <2>1, <2>2, BumpTallied
<1>4. Tallied(SwapTeam(rows, r))
  <2> DEFINE s == TeamSeats(r.at)
             t == IF r.game = r.other THEN TeamSeats(r.with) ELSE s
             first == ExchangeSeat(rows, r.game, s[1], r.other, t[1])
             second == ExchangeSeat(first, r.game, s[2], r.other, t[2])
  <2>1. s[1] \in Seats /\ s[2] \in Seats /\ t[1] \in Seats /\ t[2] \in Seats
    BY DEF TeamSeats, Seats
  <2> HIDE DEF s, t
  <2>2. first \in [Games -> Row] /\ Tallied(first)
    BY <1>1, <2>1, ExchangeFrame
  <2> HIDE DEF first
  <2>3. second \in [Games -> Row] /\ Tallied(second)
    BY <1>1, <2>1, <2>2, ExchangeFrame
  <2>4. SwapTeam(rows, r) = BumpGames(second, {r.game, r.other}) BY DEF SwapTeam, s, t, first
  <2> HIDE DEF second
  <2> QED BY <2>3, <2>4, BumpTallied
<1>5. QED BY <1>2, <1>3, <1>4 DEF Swapped, SwapOps

\* Rows that differ from seated ones in two games only are seated when those
\* two are.
LEMMA SeatedButTwo ==
  ASSUME NEW rows \in [Games -> Row], Seated(rows), NEW a \in Games, NEW b \in Games,
         NEW after \in [Games -> Row],
         \A g \in Games \ {a, b} : after[g] = rows[g],
         Distinct(after[a].seat), Distinct(after[b].seat)
  PROVE  Seated(BumpGames(after, {a, b}))
<1>1. ASSUME NEW g \in Games \ {a, b} PROVE BumpGames(after, {a, b})[g] = rows[g]
  BY <1>1, BumpData
<1>2. ASSUME NEW g \in {a, b} PROVE Distinct(BumpGames(after, {a, b})[g].seat)
  <2>1. BumpGames(after, {a, b})[g].seat = after[g].seat BY BumpData
  <2> QED BY <2>1
<1>3. QED BY <1>1, <1>2 DEF Seated

\* Rows after exchanges within one game are seated when they were.
LEMMA SeatedWithin ==
  ASSUME NEW rows \in [Games -> Row], NEW a \in Games, NEW s \in Seats, NEW t \in Seats,
         Distinct(rows[a].seat)
  PROVE  Distinct(ExchangeSeat(rows, a, s, a, t)[a].seat)
<1>1. rows[a].seat \in [Seats -> Players]
  <2>1. rows[a] \in Row OBVIOUS
  <2> QED BY <2>1 DEF Row
<1>2. Distinct([rows[a].seat EXCEPT ![s] = rows[a].seat[t], ![t] = rows[a].seat[s]])
  BY <1>1, ExchangeKeepsDistinct
<1>3. QED BY <1>2, ExchangeWithin

\* A seating with player p on seat s.
Put(seat, s, p) == [seat EXCEPT ![s] = p]

\* The seats after one exchange between two games.
LEMMA SeatsApart ==
  ASSUME NEW rows \in [Games -> Row], NEW a \in Games, NEW b \in Games, a # b,
         NEW s \in Seats, NEW t \in Seats
  PROVE  /\ ExchangeSeat(rows, a, s, b, t)[a].seat = Put(rows[a].seat, s, rows[b].seat[t])
         /\ ExchangeSeat(rows, a, s, b, t)[b].seat = Put(rows[b].seat, t, rows[a].seat[s])
<1>1. ASSUME NEW row \in Row, NEW u \in Seats, NEW p
      PROVE  [row EXCEPT !.seat[u] = p].seat = Put(row.seat, u, p)
  BY DEF Row, Put
<1>2. rows[a] \in Row /\ rows[b] \in Row OBVIOUS
<1>3. /\ ExchangeSeat(rows, a, s, b, t)[a] = [rows[a] EXCEPT !.seat[s] = rows[b].seat[t]]
      /\ ExchangeSeat(rows, a, s, b, t)[b] = [rows[b] EXCEPT !.seat[t] = rows[a].seat[s]]
  BY DEF ExchangeSeat
<1>4. /\ [rows[a] EXCEPT !.seat[s] = rows[b].seat[t]].seat = Put(rows[a].seat, s, rows[b].seat[t])
      /\ [rows[b] EXCEPT !.seat[t] = rows[a].seat[s]].seat = Put(rows[b].seat, t, rows[a].seat[s])
  BY SMTT(60), <1>1, <1>2
<1>5. QED BY <1>3, <1>4

\* Two exchanges one after the other.
LEMMA ExchangeTwice ==
  ASSUME NEW rows \in [Games -> Row], NEW a \in Games, NEW b \in Games,
         NEW s \in Seats, NEW t \in Seats, NEW u \in Seats, NEW v \in Seats
  PROVE  LET first == ExchangeSeat(rows, a, s, b, t)
             second == ExchangeSeat(first, a, u, b, v)
         IN  /\ first \in [Games -> Row] /\ second \in [Games -> Row]
             /\ \A g \in Games \ {a, b} : second[g] = rows[g]
<1> DEFINE first == ExchangeSeat(rows, a, s, b, t)
           second == ExchangeSeat(first, a, u, b, v)
<1>1. first \in [Games -> Row] /\ \A g \in Games \ {a, b} : first[g] = rows[g]
  BY ExchangeFrame
<1> HIDE DEF first
<1>2. second \in [Games -> Row] BY <1>1, ExchangeType
<1>3. ASSUME NEW g \in Games \ {a, b} PROVE second[g] = first[g]
  BY <1>1, ExchangeFrame
<1> HIDE DEF second
<1>4. QED BY <1>1, <1>2, <1>3 DEF first, second

\* Exchanging two teams of one game.
LEMMA TeamsWithin ==
  ASSUME NEW rows \in [Games -> Row], Seated(rows), NEW a \in Games, Distinct(rows[a].seat),
         NEW s \in Seats, NEW t \in Seats, NEW u \in Seats, NEW v \in Seats
  PROVE  Seated(BumpGames(ExchangeSeat(ExchangeSeat(rows, a, s, a, t), a, u, a, v), {a, a}))
<1> DEFINE first == ExchangeSeat(rows, a, s, a, t)
           second == ExchangeSeat(first, a, u, a, v)
<1>1. /\ first \in [Games -> Row] /\ second \in [Games -> Row]
      /\ \A g \in Games \ {a, a} : second[g] = rows[g]
  BY SMTT(60), ExchangeTwice
<1>2. Distinct(first[a].seat) BY SeatedWithin
<1> HIDE DEF first
<1>3. Distinct(second[a].seat) BY <1>1, <1>2, SeatedWithin
<1> HIDE DEF second
<1>4. Seated(BumpGames(second, {a, a})) BY <1>1, <1>3, SeatedButTwo
<1>5. QED BY <1>4 DEF first, second

\* Exchanging two teams of different games, position by position.
LEMMA TeamsApart ==
  ASSUME NEW rows \in [Games -> Row], Seated(rows), NEW a \in Games, NEW b \in Games, a # b,
         NEW s \in Seats, NEW u \in Seats, s # u,
         Distinct(Put(Put(rows[a].seat, s, rows[b].seat[s]), u, rows[b].seat[u])),
         Distinct(Put(Put(rows[b].seat, s, rows[a].seat[s]), u, rows[a].seat[u]))
  PROVE  Seated(BumpGames(ExchangeSeat(ExchangeSeat(rows, a, s, b, s), a, u, b, u), {a, b}))
<1> DEFINE first == ExchangeSeat(rows, a, s, b, s)
           second == ExchangeSeat(first, a, u, b, u)
<1>1. /\ first \in [Games -> Row] /\ second \in [Games -> Row]
      /\ \A g \in Games \ {a, b} : second[g] = rows[g]
  BY ExchangeTwice
<1>2. /\ first[a].seat = Put(rows[a].seat, s, rows[b].seat[s])
      /\ first[b].seat = Put(rows[b].seat, s, rows[a].seat[s])
  BY SeatsApart
<1>3. rows[a].seat \in [Seats -> Players] /\ rows[b].seat \in [Seats -> Players]
  <2>1. rows[a] \in Row /\ rows[b] \in Row OBVIOUS
  <2> QED BY <2>1 DEF Row
<1> HIDE DEF first
<1>4. first[a].seat[u] = rows[a].seat[u] /\ first[b].seat[u] = rows[b].seat[u]
  BY <1>2, <1>3 DEF Put
<1>5. /\ second[a].seat = Put(first[a].seat, u, first[b].seat[u])
      /\ second[b].seat = Put(first[b].seat, u, first[a].seat[u])
  BY <1>1, SeatsApart
<1> HIDE DEF second
<1>6. Distinct(second[a].seat) /\ Distinct(second[b].seat) BY <1>2, <1>4, <1>5
<1>7. Seated(BumpGames(second, {a, b})) BY <1>1, <1>6, SeatedButTwo
<1>8. QED BY <1>7 DEF first, second

\* Exchanging one player between two games.
LEMMA PlayersApart ==
  ASSUME NEW rows \in [Games -> Row], Seated(rows), NEW a \in Games, NEW b \in Games, a # b,
         NEW s \in Seats, NEW t \in Seats,
         Distinct(Put(rows[a].seat, s, rows[b].seat[t])),
         Distinct(Put(rows[b].seat, t, rows[a].seat[s]))
  PROVE  Seated(BumpGames(ExchangeSeat(rows, a, s, b, t), {a, b}))
<1> DEFINE after == ExchangeSeat(rows, a, s, b, t)
<1>1. after \in [Games -> Row] /\ \A g \in Games \ {a, b} : after[g] = rows[g]
  BY ExchangeFrame
<1>2. Distinct(after[a].seat) /\ Distinct(after[b].seat) BY SeatsApart
<1> HIDE DEF after
<1>3. Seated(BumpGames(after, {a, b})) BY <1>1, <1>2, SeatedButTwo
<1>4. QED BY <1>3 DEF after

\* Exchanging two players of one game.
LEMMA PlayersWithin ==
  ASSUME NEW rows \in [Games -> Row], Seated(rows), NEW a \in Games, Distinct(rows[a].seat),
         NEW s \in Seats, NEW t \in Seats
  PROVE  Seated(BumpGames(ExchangeSeat(rows, a, s, a, t), {a, a}))
<1> DEFINE after == ExchangeSeat(rows, a, s, a, t)
<1>1. after \in [Games -> Row] /\ \A g \in Games \ {a, a} : after[g] = rows[g]
  BY ExchangeFrame
<1>2. Distinct(after[a].seat) BY SeatedWithin
<1> HIDE DEF after
<1>3. Seated(BumpGames(after, {a, a})) BY <1>1, <1>2, SeatedButTwo
<1>4. QED BY <1>3 DEF after

\* Exchanging the rows of two games.
LEMMA SlotsSeated ==
  ASSUME NEW rows \in [Games -> Row], Seated(rows), NEW a \in Games, NEW b \in Games, a # b,
         Present(rows[a]), Present(rows[b])
  PROVE  Seated([rows EXCEPT ![a] = Raised(rows[b], 1), ![b] = Raised(rows[a], 2)])
<1>1. \A g \in Games : \A n \in Nat : Raised(rows[g], n).seat = rows[g].seat
  <2> SUFFICES ASSUME NEW g \in Games, NEW n \in Nat PROVE Raised(rows[g], n).seat = rows[g].seat
    OBVIOUS
  <2>1. rows[g] \in Row OBVIOUS
  <2> QED BY <2>1 DEF Row, Raised
<1>2. Distinct(rows[a].seat) /\ Distinct(rows[b].seat) BY DEF Seated
<1>3. Distinct(Raised(rows[b], 1).seat) /\ Distinct(Raised(rows[a], 2).seat) BY <1>1, <1>2
<1>4. QED BY <1>3 DEF Seated

\* A swap that can be made seats no player twice.
LEMMA SwappedSeated ==
  ASSUME NEW rows \in [Games -> Row], NEW r \in RequestType, r.op \in SwapOps,
         CanSwap(rows, r), Seated(rows)
  PROVE  Seated(Swapped(rows, r))
<1>1. r.game \in Games /\ r.other \in Games /\ r.at \in Seats /\ r.with \in Seats
  BY DEF RequestType
<1>2. /\ Present(rows[r.game]) /\ Present(rows[r.other]) /\ SwapLegal(rows, r)
      /\ Distinct(rows[r.game].seat) /\ Distinct(rows[r.other].seat)
  BY <1>1 DEF CanSwap, Seated
<1>3. CASE r.op = "swapSlots"
  <2>1. r.game # r.other BY <1>2, <1>3 DEF SwapLegal
  <2>2. Swapped(rows, r) = [rows EXCEPT ![r.game] = Raised(rows[r.other], 1),
                                        ![r.other] = Raised(rows[r.game], 2)]
    BY <1>1, <1>3 DEF Swapped, SwapSlots, Raised
  <2>3. Seated([rows EXCEPT ![r.game] = Raised(rows[r.other], 1), ![r.other] = Raised(rows[r.game], 2)])
    BY <1>1, <1>2, <2>1, SlotsSeated
  <2> QED BY <2>2, <2>3
<1>4. CASE r.op = "swapPlayer"
  <2>1. Swapped(rows, r) =
          BumpGames(ExchangeSeat(rows, r.game, r.at, r.other, r.with), {r.game, r.other})
    BY <1>4 DEF Swapped, SwapPlayer
  <2>2. CASE r.game = r.other
    <3>1. Seated(BumpGames(ExchangeSeat(rows, r.game, r.at, r.game, r.with), {r.game, r.game}))
      BY <1>1, <1>2, PlayersWithin
    <3> QED BY <2>1, <2>2, <3>1
  <2>3. CASE r.game # r.other
    <3>1. /\ Distinct(Put(rows[r.game].seat, r.at, rows[r.other].seat[r.with]))
          /\ Distinct(Put(rows[r.other].seat, r.with, rows[r.game].seat[r.at]))
      BY <1>2, <1>4, <2>3 DEF SwapLegal, Put
    <3> QED BY <1>1, <2>1, <2>3, <3>1, PlayersApart
  <2> QED BY <2>2, <2>3
<1>5. CASE r.op = "swapTeam"
  <2> DEFINE s == TeamSeats(r.at)
             t == TeamSeats(r.with)
  <2>1. /\ s[1] \in Seats /\ s[2] \in Seats /\ t[1] \in Seats /\ t[2] \in Seats
        /\ s[1] # s[2]
    BY DEF TeamSeats, Seats
  <2>2. CASE r.game = r.other
    <3>1. Swapped(rows, r) =
            BumpGames(ExchangeSeat(ExchangeSeat(rows, r.game, s[1], r.game, t[1]),
                                   r.game, s[2], r.game, t[2]), {r.game, r.game})
      BY <1>5, <2>2 DEF Swapped, SwapTeam
    <3> HIDE DEF s, t
    <3> QED BY <1>1, <1>2, <2>1, <3>1, TeamsWithin
  <2>3. CASE r.game # r.other
    <3>1. Swapped(rows, r) =
            BumpGames(ExchangeSeat(ExchangeSeat(rows, r.game, s[1], r.other, s[1]),
                                   r.game, s[2], r.other, s[2]), {r.game, r.other})
      BY <1>5, <2>3 DEF Swapped, SwapTeam
    <3>2. /\ Distinct(Put(Put(rows[r.game].seat, s[1], rows[r.other].seat[s[1]]),
                          s[2], rows[r.other].seat[s[2]]))
          /\ Distinct(Put(Put(rows[r.other].seat, s[1], rows[r.game].seat[s[1]]),
                          s[2], rows[r.game].seat[s[2]]))
      BY <1>2, <1>5, <2>3 DEF SwapLegal, Put
    <3> HIDE DEF s, t
    <3> QED BY SMTT(60), <1>1, <2>1, <2>3, <3>1, <3>2, TeamsApart
  <2> QED BY <2>2, <2>3
<1>6. QED BY <1>3, <1>4, <1>5 DEF SwapOps

-----------------------------------------------------------------------------
(* Facts about transactions and locks *)

\* Replacing one client's transaction leaves the others.
LEMMA Replace ==
  ASSUME NEW c \in Clients, NEW t, tx \in [Clients -> Tx], tx' = [tx EXCEPT ![c] = t]
  PROVE  tx'[c] = t /\ \A d \in Clients \ {c} : tx'[d] = tx[d]
  OBVIOUS

\* Lock compatibility of two transactions does not depend on their order.
LEMMA CompatibleSymmetric ==
  ASSUME NEW t, NEW u, Compatible(t, u) PROVE Compatible(u, t)
  BY DEF Compatible, Conflict

\* Two operations on the session's row are never both past their check: the
\* row lock excludes updates, the advisory lock two creations, and a creation
\* saw no row.
LEMMA OneSessionWriter ==
  ASSUME Inv, NEW c \in Clients, NEW d \in Clients, c # d, SessionWriter(c), SessionWriter(d)
  PROVE  FALSE
<1>1. status = tx[c].seen /\ status = tx[d].seen
  BY DEF Inv, Local, SessionCheck
<1>2. CASE status # "none"
  BY <1>1, <1>2 DEF Inv, Local, HoldsLocks, LocksExclude, Compatible, Conflict
<1>3. CASE status = "none"
  BY ZenonT(60), <1>1, <1>3 DEF Inv, Local, HoldsLocks, LocksExclude, Compatible
<1>4. QED BY <1>2, <1>3

\* Two game operations past their version check never hold the same game.
LEMMA OneGameWriter ==
  ASSUME Inv, NEW c \in Clients, NEW d \in Clients, c # d, GameWriter(c), GameWriter(d)
  PROVE  tx[c].req.game # tx[d].req.game
  BY DEF Inv, Local, HoldsLocks, LocksExclude, Compatible

\* What a transaction relies on is its own record and four of the tables.
LEMMA LocalKept ==
  ASSUME UNCHANGED <<status, uuid, version, games>>, NEW d \in Clients, tx'[d] = tx[d], Local(d)
  PROVE  Local(d)'
<1>1. (GameWriter(d)' <=> GameWriter(d)) /\ (SessionWriter(d)' <=> SessionWriter(d))
  BY DEF GameWriter, SessionWriter
<1>2. Accepted(d)' BY DEF Local, Accepted
<1>3. HoldsLocks(d)' BY <1>1 DEF Local, HoldsLocks
<1>4. RowsLeft(d)' = RowsLeft(d) BY DEF RowsLeft
<1>5. HoldsRows(d)' BY <1>1, <1>4 DEF Local, HoldsRows
<1>6. Validated(d)' BY <1>1 DEF Local, Validated
<1>7. GameCheck(d)' BY <1>1 DEF Local, GameCheck, SameSession
<1>8. SessionCheck(d)' BY <1>1 DEF Local, SessionCheck, VersionMatches
<1>9. QED BY <1>2, <1>3, <1>5, <1>6, <1>7, <1>8 DEF Local

\* A step that only moves one client's transaction on keeps the invariant if
\* that client's part of it holds and its new locks are compatible.
LEMMA QuietStep ==
  ASSUME Inv, UNCHANGED <<status, uuid, version, games>>, NEW c \in Clients,
         \A d \in Clients \ {c} : tx'[d] = tx[d],
         Local(c)',
         \A d \in Clients \ {c} : Compatible(tx'[c], tx[d])
  PROVE  Inv'
<1>1. LocksExclude'
  BY CompatibleSymmetric DEF Inv, LocksExclude
<1>2. ASSUME NEW d \in Clients \ {c} PROVE Local(d)'
  BY LocalKept DEF Inv
<1>3. QED BY <1>1, <1>2 DEF Inv

\* Ending a request without a commit.
LEMMA FinishStep ==
  ASSUME TypeOK, Inv, UNCHANGED <<status, uuid, version, games>>, NEW c \in Clients, Finish(c)
  PROVE  Inv'
<1>1. tx'[c] = IdleTx /\ \A d \in Clients \ {c} : tx'[d] = tx[d]
  BY DEF TypeOK, Finish
<1>2. Local(c)'
  <2>1. (Accepted(c) /\ ~tx[c].lock /\ ~GameWriter(c) /\ ~SessionWriter(c))'
    BY <1>1 DEF Accepted, GameWriter, SessionWriter, IdleTx
  <2> QED BY <2>1 DEF Local, HoldsLocks, HoldsRows, Validated, GameCheck, SessionCheck
<1>3. \A d \in Clients \ {c} : Compatible(tx'[c], tx[d])
  BY <1>1 DEF Compatible, Conflict, IdleTx
<1>4. QED BY <1>1, <1>2, <1>3, QuietStep

\* A commit by an operation on the session's row keeps the invariant when it
\* leaves the session and every game row a game operation has checked.
LEMMA SessionCommit ==
  ASSUME Inv, NEW c \in Clients, SessionWriter(c),
         \A d \in Clients \ {c} : tx'[d] = tx[d],
         tx'[c].pc \in {"idle", "respond"}, Accepted(c)', tx'[c].lock = FALSE,
         tx'[c].row = "none", tx'[c].games = {}, tx'[c].adv = "none",
         \A d \in Clients \ {c} : GameWriter(d) =>
           status' # "none" /\ uuid' = uuid /\ games'[tx[d].req.game].ver = games[tx[d].req.game].ver
  PROVE  Inv'
<1>1. LocksExclude'
  <2>1. \A d \in Clients \ {c} : Compatible(tx'[c], tx[d])
    BY DEF Compatible, Conflict
  <2> QED BY <2>1, CompatibleSymmetric DEF Inv, LocksExclude
<1>2. Local(c)'
  BY DEF Local, HoldsLocks, HoldsRows, Validated, GameCheck, SessionCheck, GameWriter, SessionWriter
<1>3. ASSUME NEW d \in Clients \ {c} PROVE Local(d)'
  <2>1. Local(d) /\ tx'[d] = tx[d] BY DEF Inv
  <2>2. ~SessionWriter(d) BY OneSessionWriter
  <2>3. Accepted(d)' /\ HoldsLocks(d)'
    BY <2>1 DEF Local, Accepted, HoldsLocks, GameWriter, SessionWriter
  <2>4. ~SessionWriter(d)' BY <2>1, <2>2 DEF SessionWriter
  <2>5. HoldsRows(d)' /\ SessionCheck(d)' BY <2>4 DEF HoldsRows, SessionCheck
  <2>6. Validated(d)' /\ GameCheck(d)'
    BY <2>1, <2>4 DEF Local, Validated, GameCheck, GameWriter, SameSession, Present
  <2> QED BY <2>3, <2>5, <2>6 DEF Local
<1>4. QED BY <1>1, <1>2, <1>3 DEF Inv

-----------------------------------------------------------------------------
(* Types *)

\* A client without a transaction is well-formed.
LEMMA IdleType == IdleTx \in Tx
<1>1. \A g \in Games : FreshRow(g) \in Row /\ NoGame(g) \in Row
  BY SeatsAssumption DEF FreshRow, NoGame, Row
<1>2. NoSnap \in Snapshot
  BY <1>1 DEF NoSnap, Snapshot
<1>3. NoRequest \in RequestType
  <2>1. (CHOOSE g \in Games : TRUE) \in Games BY GamesAssumption
  <2> QED BY <2>1 DEF NoRequest, RequestType, Seats
<1>4. QED BY <1>2, <1>3 DEF IdleTx, Tx, Labels, Statuses, Modes, Advisories

\* Load returns a well-formed snapshot.
LEMMA LoadType == ASSUME TypeOK PROVE LoadSnap \in Snapshot
<1>1. \A g \in Games : [games[g] EXCEPT !.ver = IF @ > 0 THEN 1 ELSE 0] \in Row
  BY DEF TypeOK, Row
<1>2. QED BY <1>1 DEF TypeOK, LoadSnap, Snapshot

\* A PUT carries a well-formed snapshot.
LEMMA PutBodyType ==
  ASSUME TypeOK, NEW c \in Clients PROVE PutBody(c, tx[c].req) \in Snapshot
<1> DEFINE r == tx[c].req
           base == IF view[c] = NoSnap THEN FreshSnap ELSE view[c]
           row == [base.games[r.game] EXCEPT !.ver = 1, !.score = r.score, !.played = r.on]
<1>1. r \in RequestType BY DEF TypeOK, Tx
<1>2. base \in Snapshot BY RowTypes DEF TypeOK
<1>3. base.games \in [Games -> Row] /\ r.game \in Games
  BY <1>1, <1>2 DEF Snapshot, RequestType
<1>4. row \in Row
  <2>1. base.games[r.game] \in Row BY <1>3
  <2>2. r.score \in Scores \cup {NoScore} /\ r.on \in BOOLEAN BY <1>1 DEF RequestType
  <2> QED BY ZenonT(60), <2>1, <2>2, RowChange
<1>5. NoGame(r.game) \in Row BY <1>3, RowTypes
<1>6. [base EXCEPT !.games[r.game] = row, !.absent = r.refs] \in Snapshot
  BY <1>1, <1>2, <1>3, <1>4 DEF Snapshot, RequestType
<1>7. [base EXCEPT !.games[r.game] = NoGame(r.game)] \in Snapshot
  BY <1>2, <1>3, <1>5 DEF Snapshot
<1>8. QED BY <1>6, <1>7 DEF PutBody

\* Ending a request keeps the transactions well-formed.
LEMMA FinishType ==
  ASSUME TypeOK, NEW c \in Clients, Finish(c) PROVE tx' \in [Clients -> Tx]
  BY IdleType DEF TypeOK, Finish

\* So does going on to the answer after the commit.
LEMMA CommittedType ==
  ASSUME TypeOK, NEW c \in Clients, Committed(c) PROVE tx' \in [Clients -> Tx]
<1> DEFINE t == [tx[c] EXCEPT !.pc = "respond", !.row = "none", !.games = {},
                              !.adv = "none", !.lock = FALSE, !.told = FALSE, !.body = NoSnap]
<1>1. tx \in [Clients -> Tx] BY DEF TypeOK
<1>2. t \in Tx
  BY ZenonT(60), <1>1, RowTypes DEF Tx, Labels, Modes, Advisories
<1>3. tx' = [tx EXCEPT ![c] = t] BY DEF Committed
<1> HIDE DEF t
<1>4. QED BY <1>1, <1>2, <1>3

\* And so does a failed statement.
LEMMA BreakType ==
  ASSUME TypeOK, NEW c \in Clients, Break(c) PROVE tx' \in [Clients -> Tx]
<1>1. [IdleTx EXCEPT !.pc = "broken", !.req = tx[c].req] \in Tx
  BY IdleType DEF TypeOK, Tx, Labels
<1>2. QED BY <1>1 DEF TypeOK, Break

\* The initial states are well-formed.
LEMMA InitType == Init => TypeOK
<1> SUFFICES ASSUME Init PROVE TypeOK OBVIOUS
<1>1. games \in [Games -> Row] BY RowTypes DEF Init
<1>2. tx \in [Clients -> Tx] BY IdleType DEF Init
<1>3. status \in Statuses /\ uuid \in Nat /\ version \in Nat /\ absent \subseteq Players
  BY DEF Init, Statuses
<1>7. past \in BOOLEAN BY DEF Init
<1>4. outbox \in Seq(Event)
  BY DEF Init
<1>5. /\ idem \in [Keys -> Snapshot] /\ cache \in [Keys -> Snapshot]
      /\ view \in [Clients -> Snapshot] /\ left \in [Clients -> Nat]
  BY RowTypes, BoundAssumption DEF Init
<1>6. QED BY <1>1, <1>2, <1>3, <1>4, <1>5, <1>7 DEF TypeOK

\* The type invariant is kept by every step; the checks made under the locks
\* are needed where a step writes a request's input to the database.
LEMMA TypeStep == ASSUME TypeOK, Inv, [Next]_vars PROVE TypeOK'
<1> USE DEF TypeOK
<1>a. ASSUME NEW c \in Clients PROVE tx \in [Clients -> Tx] /\ tx[c] \in Tx
  OBVIOUS
<1>b. ASSUME NEW c \in Clients, NEW t \in Tx, tx' = [tx EXCEPT ![c] = t] PROVE tx' \in [Clients -> Tx]
  BY <1>b
<1>0. CASE UNCHANGED vars BY <1>0 DEF vars
<1>1. ASSUME NEW c \in Clients, Get(c) PROVE TypeOK'
  BY <1>1, LoadType DEF Get, db
<1>2. ASSUME NEW c \in Clients, NEW r \in Requests, Issue(c, r) PROVE TypeOK'
  <2>1. r \in RequestType BY RequestAssumption
  <2>2. [IdleTx EXCEPT !.req = r, !.pc = IF r.op \in SaveOps THEN "load" ELSE "begin"] \in Tx
    BY <2>1, IdleType DEF Tx, Labels
  <2>3. tx' \in [Clients -> Tx] BY <1>2, <2>2 DEF Issue
  <2>4. left' \in [Clients -> Nat] BY <1>2 DEF Issue
  <2> QED BY <1>2, <2>3, <2>4 DEF Issue, db
<1>3. ASSUME NEW c \in Clients, NEW r \in Requests, IssueCached(c, r) PROVE TypeOK'
  <2>1. view' \in [Clients -> Snapshot] BY <1>3 DEF IssueCached
  <2>2. left' \in [Clients -> Nat] BY <1>3 DEF IssueCached
  <2> QED BY <1>3, <2>1, <2>2 DEF IssueCached, db
<1>4. ASSUME NEW c \in Clients, PutLoad(c) PROVE TypeOK'
  <2>1. PutBody(c, tx[c].req) \in Snapshot BY PutBodyType
  <2>2. [tx[c] EXCEPT !.pc = "begin", !.body = PutBody(c, tx[c].req)] \in Tx
    BY ZenonT(60), <1>a, <2>1 DEF Tx, Labels
  <2>3. tx' \in [Clients -> Tx] BY <1>4, <1>b, <2>2, FinishType DEF PutLoad
  <2> QED BY <1>4, <2>3 DEF PutLoad, db
<1>5. ASSUME NEW c \in Clients, MutateLoad(c) PROVE TypeOK'
  <2>1. LoadSnap \in Snapshot /\ [LoadSnap EXCEPT !.locked = TRUE] \in Snapshot
    BY LoadType DEF Snapshot
  <2>2. \A b \in Snapshot : [tx[c] EXCEPT !.pc = "begin", !.body = b] \in Tx
    BY ZenonT(60), <1>a DEF Tx, Labels
  <2>3. tx' \in [Clients -> Tx] BY ZenonT(60), <1>5, <1>b, <2>1, <2>2, FinishType DEF MutateLoad
  <2> QED BY <1>5, <2>3 DEF MutateLoad, db
<1>6. ASSUME NEW c \in Clients, ReadStatus(c) PROVE TypeOK'
  <2>1. \A p \in {"idem", "game"} : [tx[c] EXCEPT !.pc = p, !.sid = uuid, !.seen = status] \in Tx
    BY ZenonT(60), <1>a DEF Tx, Labels
  <2>2. tx' \in [Clients -> Tx]
    <3>1. CASE Finish(c) BY <3>1, FinishType
    <3>2. ASSUME NEW p \in {"idem", "game"},
                 tx' = [tx EXCEPT ![c].pc = p, ![c].sid = uuid, ![c].seen = status]
          PROVE  tx' \in [Clients -> Tx]
      <4>1. [tx[c] EXCEPT !.pc = p, !.sid = uuid, !.seen = status] \in Tx BY <2>1
      <4> QED BY <1>b, <3>2, <4>1
    <3> QED BY <1>6, <3>1, <3>2 DEF ReadStatus
  <2> QED BY <1>6, <2>2 DEF ReadStatus, db
<1>7. ASSUME NEW c \in Clients, CheckIdempotency(c) PROVE TypeOK'
  <2>a. [tx[c] EXCEPT !.pc = "game"] \in Tx BY ZenonT(60), <1>a DEF Tx, Labels
  <2>1. tx' \in [Clients -> Tx] BY <1>7, <1>b, <2>a, FinishType DEF CheckIdempotency
  <2>2. view' \in [Clients -> Snapshot]
    <3>2. IdemHit(c) => idem[tx[c].req.key] \in Snapshot
      BY DEF IdemHit
    <3> QED BY <1>7, <3>2 DEF CheckIdempotency
  <2> QED BY <1>7, <2>1, <2>2 DEF CheckIdempotency, db
<1>8. ASSUME NEW c \in Clients, LockGame(c) PROVE TypeOK'
  <2>1. {tx[c].req.game} \in SUBSET Games BY <1>a DEF Tx, RequestType
  <2>a. [tx[c] EXCEPT !.pc = "outbox", !.games = {tx[c].req.game}] \in Tx
    BY ZenonT(60), <1>a, <2>1 DEF Tx, Labels
  <2>2. tx' \in [Clients -> Tx] BY <1>8, <1>b, <2>a, FinishType DEF LockGame
  <2>3. view' \in [Clients -> Snapshot] BY <1>8, LoadType DEF LockGame
  <2> QED BY <1>8, <2>2, <2>3 DEF LockGame, db
<1>9. ASSUME NEW c \in Clients, InsertOutbox(c) PROVE TypeOK'
  <2>a. \A p \in {"count", "commit"} : [tx[c] EXCEPT !.row = "keyShare", !.told = TRUE, !.pc = p] \in Tx
    BY ZenonT(60), <1>a DEF Tx, Labels, Modes
  <2>b. AfterOutbox(c) \in {"count", "commit"} BY DEF AfterOutbox
  <2>1. tx' \in [Clients -> Tx] BY <1>9, <1>b, <2>a, <2>b DEF InsertOutbox
  <2> QED BY <1>9, <2>1 DEF InsertOutbox, db
<1>10. ASSUME NEW c \in Clients, CountScored(c) PROVE TypeOK'
  <2>a. \A p \in {"autolock", "commit"} : [tx[c] EXCEPT !.pc = p] \in Tx
    BY ZenonT(60), <1>a DEF Tx, Labels
  <2>1. tx' \in [Clients -> Tx] BY <1>10, <1>b, <2>a DEF CountScored
  <2> QED BY <1>10, <2>1 DEF CountScored, db
<1>11. ASSUME NEW c \in Clients, AutoLock(c) PROVE TypeOK'
  <2>a. [tx[c] EXCEPT !.pc = "commit"] \in Tx BY ZenonT(60), <1>a DEF Tx, Labels
  <2>b. [tx[c] EXCEPT !.pc = "commit", !.row = "noKeyUpdate", !.lock = TRUE] \in Tx
    BY ZenonT(60), <1>a DEF Tx, Labels, Modes
  <2>1. tx' \in [Clients -> Tx] BY ZenonT(60), <1>11, <1>b, <2>a, <2>b DEF AutoLock
  <2> QED BY <1>11, <2>1 DEF AutoLock, db
<1>12. ASSUME NEW c \in Clients, CommitGame(c) PROVE TypeOK'
  <2> DEFINE r == tx[c].req
  <2>1. r \in RequestType /\ r.op \in GameOps /\ r.game \in Games
    BY <1>12 DEF CommitGame, At, Tx, RequestType
  <2>2. r.op = "skip" => r.refs \subseteq Players
    BY <1>12, <2>1 DEF Inv, Local, Validated, GameWriter, CommitGame, At
  <2>3. games' \in [Games -> Row]
    BY <1>12, <2>1, <2>2, GameUpdateType DEF CommitGame
  <2>4. tx' \in [Clients -> Tx] BY <1>12, CommittedType DEF CommitGame
  <2>5. status' \in Statuses /\ version' \in Nat BY <1>12 DEF CommitGame, Statuses
  <2>6. outbox' \in Seq(Event)
    <3>1. [of |-> r.game, ver |-> r.exp + 1] \in Event
      BY <2>1 DEF RequestType, Event
    <3>2. WithEvent(r.game, r.exp + 1) \in Seq(Event)
      BY <3>1 DEF WithEvent
    <3> QED BY <1>12, <3>2 DEF CommitGame
  <2> QED BY <1>12, <2>3, <2>4, <2>5, <2>6 DEF CommitGame

<1>13. ASSUME NEW c \in Clients, SaveBegin(c) PROVE TypeOK'
  <2>a. \A m \in {"none", "update"} :
          [tx[c] EXCEPT !.pc = "rows", !.sid = uuid, !.seen = status,
                        !.adv = "publish_session", !.row = m] \in Tx
    BY ZenonT(60), <1>a DEF Tx, Labels, Modes, Advisories
  <2>1. tx' \in [Clients -> Tx]
    <3>1. CASE ~SaveAllowed(c) BY <1>13, <3>1, FinishType DEF SaveBegin
    <3>2. CASE SaveAllowed(c)
      <4> DEFINE m == IF status = "none" THEN "none" ELSE "update"
      <4>1. [tx[c] EXCEPT !.pc = "rows", !.sid = uuid, !.seen = status,
                          !.adv = "publish_session", !.row = m] \in Tx
        BY <2>a
      <4>2. tx' = [tx EXCEPT ![c].pc = "rows", ![c].sid = uuid, ![c].seen = status,
                             ![c].adv = "publish_session", ![c].row = m]
        BY <1>13, <3>2 DEF SaveBegin
      <4> HIDE DEF m
      <4> QED BY <1>b, <4>1, <4>2
    <3> QED BY <3>1, <3>2
  <2> QED BY <1>13, <2>1 DEF SaveBegin, db
<1>14. ASSUME NEW c \in Clients, DeleteBegin(c) PROVE TypeOK'
  <2>a. [tx[c] EXCEPT !.pc = "rows", !.sid = uuid, !.seen = status, !.row = "update"] \in Tx
    BY ZenonT(60), <1>a DEF Tx, Labels, Modes
  <2>1. tx' \in [Clients -> Tx]
    <3>1. CASE Finish(c) BY <3>1, FinishType
    <3>2. CASE tx' = [tx EXCEPT ![c].pc = "rows", ![c].sid = uuid, ![c].seen = status,
                                ![c].row = "update"]
      BY <1>b, <2>a, <3>2
    <3> QED BY <1>14, <3>1, <3>2 DEF DeleteBegin
  <2> QED BY <1>14, <2>1 DEF DeleteBegin, db
<1>15. ASSUME NEW c \in Clients, NEW g \in Games, DeleteRow(c, g) PROVE TypeOK'
  <2>1. tx' \in [Clients -> Tx] BY ZenonT(60), <1>15 DEF DeleteRow, Tx
  <2> QED BY <1>15, <2>1 DEF DeleteRow, db
<1>16. ASSUME NEW c \in Clients, RowsDeleted(c) PROVE TypeOK'
  <2>1. (tx[c].req.op \in SaveOps /\ SaveLocks(c)) \in BOOLEAN OBVIOUS
  <2>a. \A k \in BOOLEAN : [tx[c] EXCEPT !.pc = "commit", !.lock = k] \in Tx
    BY ZenonT(60), <1>a DEF Tx, Labels
  <2>2. tx' \in [Clients -> Tx] BY <1>16, <1>b, <2>1, <2>a DEF RowsDeleted
  <2> QED BY <1>16, <2>2 DEF RowsDeleted, db
<1>17. ASSUME NEW c \in Clients, CommitSave(c) PROVE TypeOK'
  <2>1. absent' \subseteq Players
    BY <1>17 DEF Inv, Local, Validated, SessionWriter, CommitSave, At, SaveOps, PutOps,
       SessionOps, ValidSnapshot
  <2>2. tx[c].body \in Snapshot BY DEF Tx
  <2>3. games' \in [Games -> Row] BY <1>17, <2>2, SyncedType DEF CommitSave
  <2>4. tx' \in [Clients -> Tx] BY <1>17, CommittedType DEF CommitSave
  <2>5. status' \in Statuses /\ uuid' \in Nat /\ version' \in Nat
    BY <1>17 DEF CommitSave, SavedVersion, Statuses
  <2> QED BY <1>17, <2>1, <2>3, <2>4, <2>5 DEF CommitSave
<1>18. ASSUME NEW c \in Clients, CommitDelete(c) PROVE TypeOK'
  <2>1. tx' \in [Clients -> Tx] BY <1>18, FinishType DEF CommitDelete
  <2>2. games' \in [Games -> Row] /\ idem' \in [Keys -> Snapshot]
    BY <1>18, RowTypes DEF CommitDelete
  <2>3. status' \in Statuses /\ version' \in Nat /\ absent' \subseteq Players
    BY <1>18 DEF CommitDelete, Statuses
  <2>4. outbox' \in Seq(Event)
    BY <1>18 DEF CommitDelete
  <2> QED BY <1>18, <2>1, <2>2, <2>3, <2>4 DEF CommitDelete
<1>19. ASSUME NEW c \in Clients, UnlockBegin(c) PROVE TypeOK'
  <2>a. [tx[c] EXCEPT !.pc = "commit", !.sid = uuid, !.seen = status,
                      !.row = "update", !.adv = "unlock_session"] \in Tx
    BY ZenonT(60), <1>a DEF Tx, Labels, Modes, Advisories
  <2>1. tx' \in [Clients -> Tx]
    <3>1. CASE Finish(c) BY <3>1, FinishType
    <3>2. CASE tx' = [tx EXCEPT ![c].pc = "commit", ![c].sid = uuid, ![c].seen = status,
                                ![c].row = "update", ![c].adv = "unlock_session"]
      BY <1>b, <2>a, <3>2
    <3> QED BY <1>19, <3>1, <3>2 DEF UnlockBegin
  <2> QED BY <1>19, <2>1 DEF UnlockBegin, db
<1>20. ASSUME NEW c \in Clients, CommitUnlock(c) PROVE TypeOK'
  <2>1. tx' \in [Clients -> Tx] BY <1>20, CommittedType DEF CommitUnlock
  <2>2. status' \in Statuses /\ version' \in Nat BY <1>20 DEF CommitUnlock, Statuses
  <2> QED BY <1>20, <2>1, <2>2 DEF CommitUnlock
<1>21. ASSUME NEW c \in Clients, GranularBegin(c) PROVE TypeOK'
  <2>1. AdvisoryOf(tx[c].req.op) \in Advisories BY DEF AdvisoryOf, Advisories
  <2>2. tx' \in [Clients -> Tx]
    <3>1. CASE Finish(c) BY <3>1, FinishType
    <3>2. ASSUME NEW p \in {"commit", "games"},
                 tx' = [tx EXCEPT ![c].pc = p, ![c].sid = uuid, ![c].seen = status,
                                  ![c].row = "update", ![c].adv = AdvisoryOf(tx[c].req.op)]
          PROVE  tx' \in [Clients -> Tx]
      <4>1. p \in Labels /\ "update" \in Modes BY DEF Labels, Modes
      <4>2. [tx[c] EXCEPT !.pc = p, !.sid = uuid, !.seen = status, !.row = "update",
                          !.adv = AdvisoryOf(tx[c].req.op)] \in Tx
        BY <1>a, <2>1, <4>1 DEF Tx
      <4> QED BY <1>b, <3>2, <4>2
    <3> QED BY <1>21, <3>1, <3>2 DEF GranularBegin
  <2>3. view' \in [Clients -> Snapshot] BY <1>21 DEF GranularBegin
  <2> QED BY <1>21, <2>2, <2>3 DEF GranularBegin, db
<1>22. ASSUME NEW c \in Clients, CommitAbsent(c) PROVE TypeOK'
  <2>1. tx' \in [Clients -> Tx] BY <1>22, CommittedType DEF CommitAbsent
  <2>2. absent' \subseteq Players
    BY <1>22 DEF Inv, Local, Validated, SessionWriter, CommitAbsent, At, SessionOps
  <2>3. version' \in Nat BY <1>22 DEF CommitAbsent
  <2>4. outbox' \in Seq(Event)
    BY <1>22 DEF CommitAbsent, WithEvent, Event
  <2> QED BY <1>22, <2>1, <2>2, <2>3, <2>4 DEF CommitAbsent
<1>23. ASSUME NEW c \in Clients, LockTwoGames(c) PROVE TypeOK'
  <2>1. {tx[c].req.game, tx[c].req.other} \in SUBSET Games BY DEF Tx, RequestType
  <2>a. [tx[c] EXCEPT !.pc = "commit", !.games = {tx[c].req.game, tx[c].req.other}] \in Tx
    BY ZenonT(60), <1>a, <2>1 DEF Tx, Labels
  <2>2. tx' \in [Clients -> Tx] BY <1>23, <1>b, <2>a, FinishType DEF LockTwoGames
  <2> QED BY <1>23, <2>2 DEF LockTwoGames, db
<1>24. ASSUME NEW c \in Clients, CommitSwap(c) PROVE TypeOK'
  <2>1. tx' \in [Clients -> Tx] BY <1>24, CommittedType DEF CommitSwap
  <2>2. games' \in [Games -> Row]
    BY <1>24, SwappedType DEF CommitSwap, At, Tx
  <2>3. version' \in Nat BY <1>24 DEF CommitSwap
  <2>4. outbox' \in Seq(Event)
    BY <1>24 DEF CommitSwap, WithEvent, Event
  <2> QED BY <1>24, <2>1, <2>2, <2>3, <2>4 DEF CommitSwap
<1>25. ASSUME NEW c \in Clients, Respond(c) PROVE TypeOK'
  <2>1. LoadSnap \in Snapshot BY LoadType
  <2>2. view' \in [Clients -> Snapshot] BY <1>25, <2>1 DEF Respond
  <2>3. cache' \in [Keys -> Snapshot] BY <1>25, <2>1 DEF Respond
  <2>a. [tx[c] EXCEPT !.pc = "saveIdem", !.body = LoadSnap] \in Tx
    BY ZenonT(60), <1>a, <2>1 DEF Tx, Labels
  <2>4. tx' \in [Clients -> Tx] BY <1>25, <1>b, <2>a, FinishType DEF Respond
  <2> QED BY <1>25, <2>2, <2>3, <2>4 DEF Respond, db
<1>26. ASSUME NEW c \in Clients, SaveIdempotency(c) PROVE TypeOK'
  <2>1. tx[c].body \in Snapshot BY DEF Tx
  <2>2. idem' \in [Keys -> Snapshot] BY <1>26, <2>1 DEF SaveIdempotency
  <2>3. tx' \in [Clients -> Tx] BY <1>26, FinishType DEF SaveIdempotency
  <2> QED BY <1>26, <2>2, <2>3 DEF SaveIdempotency
<1>27. ASSUME NEW c \in Clients, DeadlockAbort(c) PROVE TypeOK'
  <2>1. tx' \in [Clients -> Tx] BY <1>27, FinishType, BreakType DEF DeadlockAbort
  <2> QED BY <1>27, <2>1 DEF DeadlockAbort, db
<1>28. CASE DayPasses
  <2>1. past' \in BOOLEAN BY <1>28 DEF DayPasses
  <2> QED BY <1>28, <2>1 DEF DayPasses, db
<1>29. ASSUME NEW k \in Keys, CacheEvict(k) PROVE TypeOK'
  BY <1>29, RowTypes DEF CacheEvict, db
<1>30. CASE Restart
  <2>1. tx' \in [Clients -> Tx] BY <1>30, IdleType DEF Restart
  <2>2. cache' \in [Keys -> Snapshot] BY <1>30, RowTypes DEF Restart
  <2> QED BY <1>30, <2>1, <2>2 DEF Restart, db
<1>31. ASSUME NEW c \in Clients, OutboxFails(c) PROVE TypeOK'
  <2>1. tx' \in [Clients -> Tx] BY <1>31, BreakType DEF OutboxFails
  <2> QED BY <1>31, <2>1 DEF OutboxFails, db
<1>32. ASSUME NEW c \in Clients, BrokenGoesOn(c) PROVE TypeOK'
  <2>1. tx' \in [Clients -> Tx] BY <1>32, FinishType DEF BrokenGoesOn
  <2> QED BY <1>32, <2>1 DEF BrokenGoesOn, db
<1>33. QED
  BY <1>0, <1>1, <1>2, <1>3, <1>4, <1>5, <1>6, <1>7, <1>8, <1>9, <1>10, <1>11, <1>12, <1>13, <1>14,
     <1>15, <1>16, <1>17, <1>18, <1>19, <1>20, <1>21, <1>22, <1>23, <1>24, <1>25, <1>26, <1>27,
     <1>28, <1>29, <1>30, <1>31, <1>32 DEF Next, ServerStep, UserStep

-----------------------------------------------------------------------------
(* The inductive invariant *)

\* The initial states satisfy the invariant: nobody holds a lock.
LEMMA InitInv == Init => Inv
<1> SUFFICES ASSUME Init PROVE Inv OBVIOUS
<1>1. \A c \in Clients : tx[c] = IdleTx BY DEF Init
<1>2. LocksExclude BY <1>1 DEF LocksExclude, Compatible, Conflict, IdleTx
<1>3. \A c \in Clients : Local(c)
  BY <1>1 DEF Local, Accepted, HoldsLocks, HoldsRows, Validated, GameCheck, SessionCheck,
     GameWriter, SessionWriter, IdleTx
<1>4. QED BY <1>2, <1>3 DEF Inv

\* After its commit a request holds no lock, and the others are as before.
LEMMA CommittedFields ==
  ASSUME TypeOK, NEW c \in Clients, Committed(c)
  PROVE  /\ \A d \in Clients \ {c} : tx'[d] = tx[d]
         /\ tx'[c].pc = "respond" /\ tx'[c].req = tx[c].req
         /\ tx'[c].row = "none" /\ tx'[c].games = {} /\ tx'[c].adv = "none" /\ tx'[c].lock = FALSE
<1>1. tx \in [Clients -> Tx] /\ tx[c] \in Tx BY DEF TypeOK
<1>2. QED BY <1>1 DEF Committed, Tx

\* A committed game operation disturbs nobody: others hold other games, and
\* it changes the session only with a row lock an operation on the session
\* would conflict with.
LEMMA GameCommit == ASSUME TypeOK, Inv, NEW c \in Clients, CommitGame(c) PROVE Inv'
<1>1. GameWriter(c) /\ Committed(c) BY DEF CommitGame, At, GameWriter
<1>2. /\ \A d \in Clients \ {c} : tx'[d] = tx[d]
      /\ tx'[c].pc = "respond" /\ tx'[c].req = tx[c].req
      /\ tx'[c].row = "none" /\ tx'[c].games = {} /\ tx'[c].adv = "none" /\ tx'[c].lock = FALSE
  BY <1>1, CommittedFields
<1>3. status # "none" /\ status' # "none" /\ uuid' = uuid
  BY <1>1 DEF Inv, Local, GameCheck, SameSession, CommitGame
<1>4. \A g \in Games : g # tx[c].req.game => games'[g] = games[g]
  BY DEF TypeOK, CommitGame
<1>5. \A g \in Games : Present(games'[g]) => Present(games[g])
  BY <1>1, <1>4 DEF Inv, Local, Validated
<1>6. LocksExclude'
  <2>1. \A d \in Clients \ {c} : Compatible(tx'[c], tx[d])
    BY <1>2 DEF Compatible, Conflict
  <2> QED BY <1>2, <2>1, CompatibleSymmetric DEF Inv, LocksExclude
<1>7. Local(c)'
  <2>1. Accepted(c)' BY <1>1, <1>2 DEF Inv, Local, Accepted, GameWriter
  <2> QED BY <1>2, <2>1 DEF Local, HoldsLocks, HoldsRows, Validated, GameCheck, SessionCheck,
      GameWriter, SessionWriter
<1>8. ASSUME NEW d \in Clients \ {c} PROVE Local(d)'
  <2>1. Local(d) /\ tx'[d] = tx[d] BY <1>2 DEF Inv
  <2>2. Accepted(d)' /\ HoldsLocks(d)'
    BY <2>1 DEF Local, Accepted, HoldsLocks, GameWriter, SessionWriter
  <2>3. CASE GameWriter(d)
    <3>1. tx[d].req.game # tx[c].req.game BY <1>1, <2>3, OneGameWriter
    <3>2. tx[d].req.game \in Games BY DEF TypeOK, Tx, RequestType
    <3>3. games'[tx[d].req.game] = games[tx[d].req.game] BY <1>4, <3>1, <3>2
    <3>4. Validated(d)' /\ GameCheck(d)'
      BY <1>3, <2>1, <2>3, <3>3 DEF Local, Validated, GameCheck, GameWriter, SessionWriter, SameSession,
         GameOps, SessionOps, SwapOps, SaveOps, PutOps
    <3>5. ~SessionWriter(d)'
      BY <2>1, <2>3 DEF GameWriter, SessionWriter, GameOps, SessionOps, SwapOps, SaveOps, PutOps
    <3> QED BY <2>2, <3>4, <3>5 DEF Local, HoldsRows, SessionCheck
  <2>4. CASE SessionWriter(d)
    <3>1. tx[d].row = "update"
      BY <1>3, <2>1, <2>4 DEF Local, SessionCheck, HoldsLocks
    <3>2. ~tx[c].lock
      BY <1>1, <3>1 DEF Inv, Local, HoldsLocks, LocksExclude, Compatible, Conflict
    <3>3. status' = status /\ version' = version BY <3>2 DEF CommitGame
    <3>4. SessionCheck(d)'
      BY <1>3, <2>1, <3>3 DEF Local, SessionCheck, SessionWriter, VersionMatches
    <3>5. HoldsRows(d)'
      BY <1>3, <1>5, <2>1, <3>3 DEF Local, HoldsRows, SessionWriter, RowsLeft
    <3>6. ~GameWriter(d)'
      BY <2>1, <2>4 DEF GameWriter, SessionWriter, GameOps, SessionOps, SwapOps, SaveOps, PutOps
    <3>7. tx[d].pc = "commit" /\ tx[d].req.op \in SwapOps => CanSwap(games', tx[d].req)
      <4> SUFFICES ASSUME tx[d].pc = "commit", tx[d].req.op \in SwapOps
                   PROVE  CanSwap(games', tx[d].req)
        OBVIOUS
      <4>1. CanSwap(games, tx[d].req) /\ {tx[d].req.game, tx[d].req.other} \subseteq tx[d].games
        BY <2>1, <2>4 DEF Local, Validated, HoldsRows
      <4>2. tx[c].req.game \notin tx[d].games
        BY <1>1 DEF Inv, Local, HoldsLocks, LocksExclude, Compatible
      <4>3. tx[d].req \in RequestType /\ tx[d].req.game \in Games /\ tx[d].req.other \in Games
        BY DEF TypeOK, Tx, RequestType
      <4>4. games'[tx[d].req.game] = games[tx[d].req.game] /\ games'[tx[d].req.other] = games[tx[d].req.other]
        BY <1>4, <4>1, <4>2, <4>3
      <4> QED BY <4>1, <4>3, <4>4, CanSwapOnItsRows
    <3>8. Validated(d)' /\ GameCheck(d)'
      BY <2>1, <3>6, <3>7 DEF Local, Validated, GameCheck, SessionWriter
    <3> QED BY <2>2, <3>4, <3>5, <3>8 DEF Local
  <2>5. CASE ~GameWriter(d) /\ ~SessionWriter(d)
    <3>1. ~GameWriter(d)' /\ ~SessionWriter(d)' BY <2>1, <2>5 DEF GameWriter, SessionWriter
    <3> QED BY <2>2, <3>1 DEF Local, HoldsRows, Validated, GameCheck, SessionCheck
  <2> QED BY <2>3, <2>4, <2>5
<1>9. QED BY <1>6, <1>7, <1>8 DEF Inv

\* QuietStep for a transaction that is not past its check afterwards.
LEMMA OutsideStep ==
  ASSUME Inv, UNCHANGED <<status, uuid, version, games>>, NEW c \in Clients,
         \A d \in Clients \ {c} : tx'[d] = tx[d],
         Accepted(c)', ~tx'[c].lock, ~GameWriter(c)', ~SessionWriter(c)',
         \A d \in Clients \ {c} : Compatible(tx'[c], tx[d])
  PROVE  Inv'
<1>1. Local(c)'
  BY DEF Local, HoldsLocks, HoldsRows, Validated, GameCheck, SessionCheck
<1>2. QED BY <1>1, QuietStep

\* A request that moves on before its check, or after its commit.
LEMMA MoveStep ==
  ASSUME TypeOK, Inv, UNCHANGED <<status, uuid, version, games>>, NEW c \in Clients,
         tx[c].pc \notin {"idle", "commit"},
         \A d \in Clients \ {c} : tx'[d] = tx[d],
         tx'[c].req = tx[c].req, tx'[c].lock = tx[c].lock, tx'[c].row = tx[c].row,
         tx'[c].games = tx[c].games, tx'[c].adv = tx[c].adv,
         tx'[c].pc \in {"begin", "idem", "saveIdem"} \/ (tx'[c].pc = "game")
  PROVE  Inv'
<1>1. Accepted(c)' BY DEF Inv, Local, Accepted
<1>2. ~tx'[c].lock BY DEF Inv, Local, HoldsLocks
<1>3. ~GameWriter(c)' /\ ~SessionWriter(c)' BY DEF GameWriter, SessionWriter
<1>4. \A d \in Clients \ {c} : Compatible(tx'[c], tx[d])
  BY DEF Inv, LocksExclude, Compatible
<1>5. QED BY <1>1, <1>2, <1>3, <1>4, OutsideStep

\* A statement of a request fails: the locks are gone, and nothing is written.
LEMMA BreakStep ==
  ASSUME TypeOK, Inv, UNCHANGED <<status, uuid, version, games>>, NEW c \in Clients,
         tx[c].pc # "idle", Break(c)
  PROVE  Inv'
<1>1. /\ tx'[c] = [IdleTx EXCEPT !.pc = "broken", !.req = tx[c].req]
      /\ \A d \in Clients \ {c} : tx'[d] = tx[d]
  BY DEF TypeOK, Break
<1>2. /\ tx'[c].pc = "broken" /\ tx'[c].req = tx[c].req /\ ~tx'[c].lock
      /\ tx'[c].row = "none" /\ tx'[c].games = {} /\ tx'[c].adv = "none"
  BY <1>1 DEF IdleTx
<1>3. Accepted(c)' /\ ~GameWriter(c)' /\ ~SessionWriter(c)'
  BY <1>2 DEF Inv, Local, Accepted, GameWriter, SessionWriter
<1>4. \A d \in Clients \ {c} : Compatible(tx'[c], tx[d])
  BY <1>2 DEF Compatible, Conflict
<1>5. QED BY <1>1, <1>2, <1>3, <1>4, OutsideStep

\* Every step keeps the inductive invariant.
LEMMA InvStep == ASSUME TypeOK, Inv, [Next]_vars PROVE Inv'
<1> DEFINE Rest(c) == \A d \in Clients \ {c} : tx'[d] = tx[d]
<1>a. ASSUME NEW c \in Clients PROVE tx \in [Clients -> Tx] /\ tx[c] \in Tx
  BY DEF TypeOK
<1>b. UNCHANGED <<status, uuid, version, games, tx>> => Inv'
  <2> SUFFICES ASSUME UNCHANGED <<status, uuid, version, games, tx>> PROVE Inv' OBVIOUS
  <2>1. ASSUME NEW d \in Clients PROVE Local(d)' BY LocalKept DEF Inv
  <2>2. LocksExclude' BY DEF Inv, LocksExclude
  <2> QED BY <2>1, <2>2 DEF Inv
<1>0. CASE UNCHANGED vars BY <1>0, <1>b DEF vars
<1>1. ASSUME NEW c \in Clients, Get(c) PROVE Inv'
  BY <1>1, <1>b DEF Get, db
<1>2. ASSUME NEW c \in Clients, NEW r \in Requests, Issue(c, r) PROVE Inv'
  <2>1. r.op # "none" /\ Acceptable(r) BY <1>2, RequestAssumption DEF Issue
  <2>2. /\ Rest(c)
        /\ tx'[c].req = r /\ tx'[c].pc \in {"load", "begin"} /\ tx'[c].lock = FALSE
        /\ tx'[c].row = "none" /\ tx'[c].games = {} /\ tx'[c].adv = "none"
    BY <1>2, <1>a, IdleType DEF Issue, Tx, IdleTx
  <2>3. Accepted(c)' BY <2>1, <2>2 DEF Accepted
  <2>4. ~GameWriter(c)' /\ ~SessionWriter(c)' BY <2>2 DEF GameWriter, SessionWriter
  <2>5. \A d \in Clients \ {c} : Compatible(tx'[c], tx[d]) BY <2>2 DEF Compatible, Conflict
  <2> QED BY <1>2, <2>2, <2>3, <2>4, <2>5, OutsideStep DEF Issue, db
<1>3. ASSUME NEW c \in Clients, NEW r \in Requests, IssueCached(c, r) PROVE Inv'
  BY <1>3, <1>b DEF IssueCached, db
<1>4. ASSUME NEW c \in Clients, PutLoad(c) PROVE Inv'
  <2>1. CASE Finish(c) BY <1>4, <2>1, FinishStep DEF PutLoad, db
  <2>2. CASE tx' = [tx EXCEPT ![c].pc = "begin", ![c].body = PutBody(c, tx[c].req)]
    <3>1. tx[c].pc = "load" /\ UNCHANGED <<status, uuid, version, games>>
      BY <1>4 DEF PutLoad, At, db
    <3>2. /\ Rest(c) /\ tx'[c].pc = "begin"
          /\ tx'[c].req = tx[c].req /\ tx'[c].lock = tx[c].lock /\ tx'[c].row = tx[c].row
          /\ tx'[c].games = tx[c].games /\ tx'[c].adv = tx[c].adv
      BY <2>2, <1>a DEF Tx
    <3> QED BY <3>1, <3>2, MoveStep
  <2> QED BY <1>4, <2>1, <2>2 DEF PutLoad
<1>5. ASSUME NEW c \in Clients, MutateLoad(c) PROVE Inv'
  <2>1. CASE Finish(c) BY <1>5, <2>1, FinishStep DEF MutateLoad, db
  <2>2. ASSUME NEW b, tx' = [tx EXCEPT ![c].pc = "begin", ![c].body = b] PROVE Inv'
    <3>1. tx[c].pc = "load" /\ UNCHANGED <<status, uuid, version, games>>
      BY <1>5 DEF MutateLoad, At, db
    <3>2. /\ Rest(c) /\ tx'[c].pc = "begin"
          /\ tx'[c].req = tx[c].req /\ tx'[c].lock = tx[c].lock /\ tx'[c].row = tx[c].row
          /\ tx'[c].games = tx[c].games /\ tx'[c].adv = tx[c].adv
      BY <2>2, <1>a DEF Tx
    <3> QED BY <3>1, <3>2, MoveStep
  <2> QED BY <1>5, <2>1, <2>2 DEF MutateLoad
<1>6. ASSUME NEW c \in Clients, ReadStatus(c) PROVE Inv'
  <2>1. CASE Finish(c) BY <1>6, <2>1, FinishStep DEF ReadStatus, db
  <2>2. ASSUME NEW p \in {"idem", "game"},
               tx' = [tx EXCEPT ![c].pc = p, ![c].sid = uuid, ![c].seen = status]
        PROVE  Inv'
    <3>1. tx[c].pc = "begin" /\ UNCHANGED <<status, uuid, version, games>>
      BY <1>6 DEF ReadStatus, At, db
    <3>2. /\ Rest(c) /\ tx'[c].pc = p
          /\ tx'[c].req = tx[c].req /\ tx'[c].lock = tx[c].lock /\ tx'[c].row = tx[c].row
          /\ tx'[c].games = tx[c].games /\ tx'[c].adv = tx[c].adv
      BY <2>2, <1>a DEF Tx
    <3> QED BY <3>1, <3>2, MoveStep
  <2> QED BY <1>6, <2>1, <2>2 DEF ReadStatus
<1>7. ASSUME NEW c \in Clients, CheckIdempotency(c) PROVE Inv'
  <2>1. CASE Finish(c) BY <1>7, <2>1, FinishStep DEF CheckIdempotency, db
  <2>2. CASE tx' = [tx EXCEPT ![c].pc = "game"]
    <3>1. tx[c].pc = "idem" /\ UNCHANGED <<status, uuid, version, games>>
      BY <1>7 DEF CheckIdempotency, At, db
    <3>2. /\ Rest(c) /\ tx'[c].pc = "game"
          /\ tx'[c].req = tx[c].req /\ tx'[c].lock = tx[c].lock /\ tx'[c].row = tx[c].row
          /\ tx'[c].games = tx[c].games /\ tx'[c].adv = tx[c].adv
      BY <2>2, <1>a DEF Tx
    <3> QED BY <3>1, <3>2, MoveStep
  <2> QED BY <1>7, <2>1, <2>2 DEF CheckIdempotency
<1>8. ASSUME NEW c \in Clients, LockGame(c) PROVE Inv'
  <2>1. CASE Finish(c) BY <1>8, <2>1, FinishStep DEF LockGame, db
  <2>2. CASE GameUsable(c) /\ tx' = [tx EXCEPT ![c].pc = "outbox", ![c].games = {tx[c].req.game}]
    <3>1. /\ At(c, GameOps, "game") /\ UNCHANGED <<status, uuid, version, games>>
      BY <1>8 DEF LockGame, db
    <3>2. /\ Rest(c) /\ tx'[c].pc = "outbox" /\ tx'[c].games = {tx[c].req.game}
          /\ tx'[c].req = tx[c].req /\ tx'[c].lock = tx[c].lock /\ tx'[c].row = tx[c].row
          /\ tx'[c].sid = tx[c].sid /\ tx'[c].adv = tx[c].adv
      BY <2>2, <1>a DEF Tx
    <3>3. ~tx'[c].lock BY <3>1, <3>2 DEF Inv, Local, HoldsLocks, At
    <3>4. GameWriter(c)' /\ ~SessionWriter(c)' BY <3>1, <3>2 DEF GameWriter, SessionWriter, At
    <3>5. Accepted(c)' BY <3>1, <3>2 DEF Inv, Local, Accepted, At
    <3>6. Local(c)'
      BY <2>2, <3>1, <3>2, <3>3, <3>4, <3>5 DEF Local, HoldsLocks, HoldsRows, Validated, GameCheck,
         SessionCheck, GameUsable, SameSession
    <3>7. ASSUME NEW d \in Clients \ {c} PROVE Compatible(tx'[c], tx[d])
      <4>1. Compatible(tx[c], tx[d]) BY DEF Inv, LocksExclude
      <4>2. tx[c].req.game \notin tx[d].games BY <2>2 DEF GameUsable, GameFree
      <4> QED BY <3>2, <4>1, <4>2 DEF Compatible
    <3> QED BY <3>1, <3>2, <3>6, <3>7, QuietStep
  <2> QED BY <1>8, <2>1, <2>2 DEF LockGame
<1>9. ASSUME NEW c \in Clients, InsertOutbox(c) PROVE Inv'
  <2>1. At(c, GameOps, "outbox") /\ UNCHANGED <<status, uuid, version, games>>
    BY <1>9 DEF InsertOutbox, db
  <2>2. /\ Rest(c) /\ tx'[c].pc \in {"count", "commit"} /\ tx'[c].row = "keyShare"
        /\ tx'[c].req = tx[c].req /\ tx'[c].lock = tx[c].lock /\ tx'[c].games = tx[c].games
        /\ tx'[c].sid = tx[c].sid /\ tx'[c].adv = tx[c].adv
    BY <1>9, <1>a DEF InsertOutbox, AfterOutbox, Tx
  <2>3. ~tx'[c].lock BY <2>1, <2>2 DEF Inv, Local, HoldsLocks, At
  <2>4. GameWriter(c) /\ GameWriter(c)' /\ ~SessionWriter(c)'
    BY <2>1, <2>2 DEF GameWriter, SessionWriter, At, GameOps, SessionOps, SwapOps, SaveOps, PutOps
  <2>5. Local(c)'
    BY <2>1, <2>2, <2>3, <2>4 DEF Inv, Local, Accepted, HoldsLocks, HoldsRows, Validated, GameCheck,
       SessionCheck, SameSession, At
  <2>6. \A d \in Clients \ {c} : Compatible(tx'[c], tx[d])
    BY ZenonT(60), <1>9, <2>2 DEF Inv, LocksExclude, Compatible, InsertOutbox, SessionFree
  <2> QED BY <2>1, <2>2, <2>5, <2>6, QuietStep
<1>10. ASSUME NEW c \in Clients, CountScored(c) PROVE Inv'
  <2>1. At(c, GameOps, "count") /\ UNCHANGED <<status, uuid, version, games>>
    BY <1>10 DEF CountScored, At, GameOps, db
  <2>2. /\ Rest(c) /\ tx'[c].pc \in {"autolock", "commit"} /\ tx'[c].row = tx[c].row
        /\ tx'[c].req = tx[c].req /\ tx'[c].lock = tx[c].lock /\ tx'[c].games = tx[c].games
        /\ tx'[c].sid = tx[c].sid /\ tx'[c].adv = tx[c].adv
    BY <1>10, <1>a DEF CountScored, Tx
  <2>3. ~tx'[c].lock BY <2>1, <2>2 DEF Inv, Local, HoldsLocks, At
  <2>4. GameWriter(c) /\ GameWriter(c)' /\ ~SessionWriter(c)'
    BY <2>1, <2>2 DEF GameWriter, SessionWriter, At, GameOps, SessionOps, SwapOps, SaveOps, PutOps
  <2>5. Local(c)'
    BY <2>1, <2>2, <2>3, <2>4 DEF Inv, Local, Accepted, HoldsLocks, HoldsRows, Validated, GameCheck,
       SessionCheck, SameSession, At
  <2>6. \A d \in Clients \ {c} : Compatible(tx'[c], tx[d])
    BY <2>2 DEF Inv, LocksExclude, Compatible
  <2> QED BY <2>1, <2>2, <2>5, <2>6, QuietStep
<1>11. ASSUME NEW c \in Clients, AutoLock(c) PROVE Inv'
  <2>1. At(c, GameOps, "autolock") /\ UNCHANGED <<status, uuid, version, games>>
    BY <1>11 DEF AutoLock, At, GameOps, db
  <2>2. /\ Rest(c) /\ tx'[c].pc = "commit" /\ tx'[c].req = tx[c].req
        /\ tx'[c].games = tx[c].games /\ tx'[c].sid = tx[c].sid /\ tx'[c].adv = tx[c].adv
        /\ \/ tx'[c].row = tx[c].row /\ tx'[c].lock = tx[c].lock
           \/ tx'[c].row = "noKeyUpdate" /\ tx'[c].lock = TRUE /\ SessionFree(c, "noKeyUpdate")
    BY <1>11, <1>a DEF AutoLock, Tx
  <2>3. ~tx[c].lock BY <2>1, <2>2 DEF Inv, Local, HoldsLocks, At
  <2>4. GameWriter(c) /\ GameWriter(c)' /\ ~SessionWriter(c)'
    BY <2>1, <2>2 DEF GameWriter, SessionWriter, At, GameOps, SessionOps, SwapOps, SaveOps, PutOps
  <2>5. Local(c)'
    BY <2>1, <2>2, <2>3, <2>4 DEF Inv, Local, Accepted, HoldsLocks, HoldsRows, Validated, GameCheck,
       SessionCheck, SameSession, At
  <2>6. \A d \in Clients \ {c} : Compatible(tx'[c], tx[d])
    BY <2>2 DEF Inv, LocksExclude, Compatible, SessionFree
  <2> QED BY <2>1, <2>2, <2>5, <2>6, QuietStep
<1>12. ASSUME NEW c \in Clients, CommitGame(c) PROVE Inv'
  BY <1>12, GameCommit
<1>13. ASSUME NEW c \in Clients, SaveBegin(c) PROVE Inv'
  <2>1. CASE ~SaveAllowed(c) BY <1>13, <2>1, FinishStep DEF SaveBegin, db
  <2>2. CASE SaveAllowed(c)
    <3>1. At(c, SaveOps, "begin") /\ UNCHANGED <<status, uuid, version, games>>
      BY <1>13 DEF SaveBegin, db
    <3>2. /\ Rest(c) /\ tx'[c].pc = "rows" /\ tx'[c].adv = "publish_session"
          /\ tx'[c].row = (IF status = "none" THEN "none" ELSE "update")
          /\ tx'[c].req = tx[c].req /\ tx'[c].lock = tx[c].lock /\ tx'[c].games = tx[c].games
          /\ tx'[c].sid = uuid /\ tx'[c].seen = status /\ tx'[c].body = tx[c].body
      BY <1>13, <2>2, <1>a DEF SaveBegin, Tx
    <3>3. ~tx'[c].lock BY <3>1, <3>2 DEF Inv, Local, HoldsLocks, At
    <3>4. SessionWriter(c)' /\ ~GameWriter(c)'
      BY <3>1, <3>2 DEF GameWriter, SessionWriter, At, SessionOps
    <3>5. Accepted(c)' BY <3>1, <3>2 DEF Inv, Local, Accepted, At
    <3>6. Local(c)'
      <4>1. HoldsLocks(c)' /\ HoldsRows(c)'
        BY <3>1, <3>2, <3>3, <3>4 DEF HoldsLocks, HoldsRows, At
      <4>2. Validated(c)'
        BY <2>2, <3>1, <3>2, <3>4 DEF Validated, SaveAllowed, At, SaveOps, PutOps
      <4>3. SessionCheck(c)'
        BY <2>2, <3>1, <3>2 DEF SessionCheck, SaveAllowed, VersionMatches, At, SaveOps, PutOps, SwapOps
      <4> QED BY <3>4, <3>5, <4>1, <4>2, <4>3 DEF Local, GameCheck
    <3>7. ASSUME NEW d \in Clients \ {c} PROVE Compatible(tx'[c], tx[d])
      <4>1. Compatible(tx[c], tx[d]) BY DEF Inv, LocksExclude
      <4>2. AdvisoryOf(tx[c].req.op) = "publish_session" 
        BY <3>1 DEF AdvisoryOf, At, SaveOps, PutOps
      <4>3. tx[d].adv # "publish_session"
        BY <2>2, <4>2 DEF SaveAllowed, SessionLockable, AdvisoryFree
      <4>4. ~Conflict(tx'[c].row, tx[d].row)
        BY <2>2, <3>2 DEF SaveAllowed, SessionLockable, SessionFree, Conflict
      <4> QED BY <3>2, <4>1, <4>3, <4>4 DEF Compatible
    <3> QED BY <3>1, <3>2, <3>6, <3>7, QuietStep
  <2> QED BY <2>1, <2>2
<1>14. ASSUME NEW c \in Clients, DeleteBegin(c) PROVE Inv'
  <2>1. CASE Finish(c) BY <1>14, <2>1, FinishStep DEF DeleteBegin, db
  <2>2. CASE /\ status = "draft" /\ SessionLockable(c)
             /\ tx' = [tx EXCEPT ![c].pc = "rows", ![c].sid = uuid, ![c].seen = status, ![c].row = "update"]
    <3>1. At(c, {"delete"}, "begin") /\ UNCHANGED <<status, uuid, version, games>>
      BY <1>14 DEF DeleteBegin, db
    <3>2. /\ Rest(c) /\ tx'[c].pc = "rows" /\ tx'[c].adv = tx[c].adv /\ tx'[c].row = "update"
          /\ tx'[c].req = tx[c].req /\ tx'[c].lock = tx[c].lock /\ tx'[c].games = tx[c].games
          /\ tx'[c].sid = uuid /\ tx'[c].seen = status
      BY <2>2, <1>a DEF Tx
    <3>3. ~tx'[c].lock BY <3>1, <3>2 DEF Inv, Local, HoldsLocks, At
    <3>4. SessionWriter(c)' /\ ~GameWriter(c)'
      BY <3>1, <3>2 DEF GameWriter, SessionWriter, At, SessionOps, GameOps
    <3>5. Local(c)'
      BY <2>2, <3>1, <3>2, <3>3, <3>4 DEF Inv, Local, Accepted, HoldsLocks, HoldsRows, Validated,
         GameCheck, SessionCheck, At, SaveOps, PutOps, SwapOps
    <3>6. ASSUME NEW d \in Clients \ {c} PROVE Compatible(tx'[c], tx[d])
      <4>1. Compatible(tx[c], tx[d]) BY DEF Inv, LocksExclude
      <4>2. ~Conflict("update", tx[d].row) BY <2>2 DEF SessionLockable, SessionFree
      <4> QED BY <3>2, <4>1, <4>2 DEF Compatible
    <3> QED BY <3>1, <3>2, <3>5, <3>6, QuietStep
  <2> QED BY <1>14, <2>1, <2>2 DEF DeleteBegin
<1>15. ASSUME NEW c \in Clients, NEW g \in Games, DeleteRow(c, g) PROVE Inv'
  <2>1. /\ At(c, SaveOps \cup {"delete"}, "rows") /\ GameFree(c, g)
        /\ UNCHANGED <<status, uuid, version, games>>
    BY <1>15 DEF DeleteRow, db
  <2>2. /\ Rest(c) /\ tx'[c].pc = "rows" /\ tx'[c].games = tx[c].games \cup {g}
        /\ tx'[c].req = tx[c].req /\ tx'[c].lock = tx[c].lock /\ tx'[c].row = tx[c].row
        /\ tx'[c].adv = tx[c].adv /\ tx'[c].sid = tx[c].sid /\ tx'[c].seen = tx[c].seen
        /\ tx'[c].body = tx[c].body
    BY <1>15, <2>1, <1>a DEF DeleteRow, At, Tx
  <2>3. ~tx'[c].lock BY <2>1, <2>2 DEF Inv, Local, HoldsLocks, At
  <2>4. SessionWriter(c) /\ SessionWriter(c)' /\ ~GameWriter(c)'
    BY <2>1, <2>2 DEF GameWriter, SessionWriter, At, SessionOps
  <2>5. Local(c)'
    BY <2>1, <2>2, <2>3, <2>4 DEF Inv, Local, Accepted, HoldsLocks, HoldsRows, Validated, GameCheck,
       SessionCheck, VersionMatches, At
  <2>6. ASSUME NEW d \in Clients \ {c} PROVE Compatible(tx'[c], tx[d])
    <3>1. Compatible(tx[c], tx[d]) BY DEF Inv, LocksExclude
    <3>2. g \notin tx[d].games BY <2>1 DEF GameFree
    <3> QED BY <2>2, <3>1, <3>2 DEF Compatible
  <2> QED BY <2>1, <2>2, <2>5, <2>6, QuietStep
<1>16. ASSUME NEW c \in Clients, RowsDeleted(c) PROVE Inv'
  <2>1. /\ At(c, SaveOps \cup {"delete"}, "rows") /\ RowsLeft(c) = {}
        /\ UNCHANGED <<status, uuid, version, games>>
    BY <1>16 DEF RowsDeleted, db
  <2>2. /\ Rest(c) /\ tx'[c].pc = "commit" /\ tx'[c].games = tx[c].games
        /\ tx'[c].req = tx[c].req /\ tx'[c].row = tx[c].row
        /\ tx'[c].adv = tx[c].adv /\ tx'[c].sid = tx[c].sid /\ tx'[c].seen = tx[c].seen
        /\ tx'[c].body = tx[c].body
    BY <1>16, <1>a DEF RowsDeleted, Tx
  <2>3. SessionWriter(c) /\ SessionWriter(c)' /\ ~GameWriter(c)'
    BY <2>1, <2>2 DEF GameWriter, SessionWriter, At, SessionOps, SaveOps, PutOps, GameOps
  <2>4. RowsLeft(c)' = {} BY <2>1, <2>2 DEF RowsLeft
  <2>5. HoldsRows(c)'
    BY <2>1, <2>2, <2>4 DEF HoldsRows, At, SaveOps, PutOps, SwapOps
  <2>6. Local(c)'
    BY <2>1, <2>2, <2>3, <2>5 DEF Inv, Local, Accepted, HoldsLocks, Validated, GameCheck,
       SessionCheck, VersionMatches, At, SaveOps, PutOps, SwapOps
  <2>7. \A d \in Clients \ {c} : Compatible(tx'[c], tx[d])
    BY <2>2 DEF Inv, LocksExclude, Compatible
  <2> QED BY <2>1, <2>2, <2>6, <2>7, QuietStep
<1>17. ASSUME NEW c \in Clients, CommitSave(c) PROVE Inv'
  <2>1. SessionWriter(c) /\ tx[c].pc = "commit" /\ tx[c].req.op \in SaveOps
    BY <1>17 DEF CommitSave, At, SessionWriter, SessionOps
  <2>2. RowsLeft(c) = {} BY <2>1 DEF Inv, Local, HoldsRows
  <2>3. ASSUME NEW d \in Clients \ {c}, GameWriter(d) PROVE FALSE
    <3>1. /\ status # "none" /\ Present(games[tx[d].req.game])
          /\ tx[d].req.game \in tx[d].games
      BY <2>3 DEF Inv, Local, GameCheck, SameSession, Validated, HoldsLocks
    <3>2. tx[d].req.game \in Games BY DEF TypeOK, Tx, RequestType
    <3>3. tx[d].req.game \in tx[c].games BY <2>2, <3>1, <3>2 DEF RowsLeft
    <3> QED BY <3>1, <3>3 DEF Inv, LocksExclude, Compatible
  <2>4. Accepted(c)' /\ Rest(c) /\ tx'[c].pc = "respond" /\ tx'[c].lock = FALSE
        /\ tx'[c].row = "none" /\ tx'[c].games = {} /\ tx'[c].adv = "none"
    BY <1>17, <2>1, CommittedFields DEF CommitSave, Inv, Local, Accepted
  <2> QED BY <2>1, <2>3, <2>4, SessionCommit
<1>18. ASSUME NEW c \in Clients, CommitDelete(c) PROVE Inv'
  <2>1. SessionWriter(c) /\ tx[c].pc = "commit" /\ tx[c].req.op = "delete"
    BY <1>18 DEF CommitDelete, At, SessionWriter, SessionOps
  <2>2. RowsLeft(c) = {} BY <2>1 DEF Inv, Local, HoldsRows
  <2>3. ASSUME NEW d \in Clients \ {c}, GameWriter(d) PROVE FALSE
    <3>1. /\ status # "none" /\ Present(games[tx[d].req.game])
          /\ tx[d].req.game \in tx[d].games
      BY <2>3 DEF Inv, Local, GameCheck, SameSession, Validated, HoldsLocks
    <3>2. tx[d].req.game \in Games BY DEF TypeOK, Tx, RequestType
    <3>3. tx[d].req.game \in tx[c].games BY <2>2, <3>1, <3>2 DEF RowsLeft
    <3> QED BY <3>1, <3>3 DEF Inv, LocksExclude, Compatible
  <2>4. Rest(c) /\ tx'[c] = IdleTx BY <1>18, <1>a DEF CommitDelete, Finish
  <2>5. Accepted(c)' /\ tx'[c].pc = "idle" /\ tx'[c].lock = FALSE
        /\ tx'[c].row = "none" /\ tx'[c].games = {} /\ tx'[c].adv = "none"
    BY <2>4 DEF Accepted, IdleTx
  <2> QED BY <2>1, <2>3, <2>4, <2>5, SessionCommit
<1>19. ASSUME NEW c \in Clients, UnlockBegin(c) PROVE Inv'
  <2>1. CASE Finish(c) BY <1>19, <2>1, FinishStep DEF UnlockBegin, db
  <2>2. CASE /\ status # "none" /\ SessionLockable(c)
             /\ tx' = [tx EXCEPT ![c].pc = "commit", ![c].sid = uuid, ![c].seen = status,
                                 ![c].row = "update", ![c].adv = "unlock_session"]
    <3>1. At(c, {"unlock"}, "begin") /\ UNCHANGED <<status, uuid, version, games>>
      BY <1>19 DEF UnlockBegin, db
    <3>2. /\ Rest(c) /\ tx'[c].pc = "commit" /\ tx'[c].adv = "unlock_session" /\ tx'[c].row = "update"
          /\ tx'[c].req = tx[c].req /\ tx'[c].lock = tx[c].lock /\ tx'[c].games = tx[c].games
          /\ tx'[c].sid = uuid /\ tx'[c].seen = status
      BY <2>2, <1>a DEF Tx
    <3>3. ~tx'[c].lock BY <3>1, <3>2 DEF Inv, Local, HoldsLocks, At
    <3>4. SessionWriter(c)' /\ ~GameWriter(c)'
      BY <3>1, <3>2 DEF GameWriter, SessionWriter, At, SessionOps, GameOps
    <3>5. Local(c)'
      BY <2>2, <3>1, <3>2, <3>3, <3>4 DEF Inv, Local, Accepted, HoldsLocks, HoldsRows, Validated,
         GameCheck, SessionCheck, At, SaveOps, PutOps, SwapOps
    <3>6. ASSUME NEW d \in Clients \ {c} PROVE Compatible(tx'[c], tx[d])
      <4>1. Compatible(tx[c], tx[d]) BY DEF Inv, LocksExclude
      <4>2. ~Conflict("update", tx[d].row) BY <2>2 DEF SessionLockable, SessionFree
      <4>3. AdvisoryOf(tx[c].req.op) = "unlock_session"
        BY <3>1 DEF AdvisoryOf, At, SaveOps, PutOps
      <4>4. tx[d].adv # "unlock_session" BY <2>2, <4>3 DEF SessionLockable, AdvisoryFree
      <4> QED BY <3>2, <4>1, <4>2, <4>4 DEF Compatible
    <3> QED BY <3>1, <3>2, <3>5, <3>6, QuietStep
  <2> QED BY <1>19, <2>1, <2>2 DEF UnlockBegin
<1>20. ASSUME NEW c \in Clients, CommitUnlock(c) PROVE Inv'
  <2>1. SessionWriter(c) /\ tx[c].pc = "commit"
    BY <1>20 DEF CommitUnlock, At, SessionWriter, SessionOps
  <2>2. Accepted(c)' /\ Rest(c) /\ tx'[c].pc = "respond" /\ tx'[c].lock = FALSE
        /\ tx'[c].row = "none" /\ tx'[c].games = {} /\ tx'[c].adv = "none"
    BY <1>20, <2>1, CommittedFields DEF CommitUnlock, Inv, Local, Accepted
  <2>3. status' # "none" /\ uuid' = uuid /\ games' = games BY <1>20 DEF CommitUnlock
  <2> QED BY <2>1, <2>2, <2>3, SessionCommit
<1>21. ASSUME NEW c \in Clients, GranularBegin(c) PROVE Inv'
  <2>1. CASE Finish(c) BY <1>21, <2>1, FinishStep DEF GranularBegin, db
  <2>2. CASE /\ status # "none" /\ SessionLockable(c) /\ GranularAllowed(tx[c].req)
             /\ tx' = [tx EXCEPT ![c].pc = IF tx[c].req.op = "absent" THEN "commit" ELSE "games",
                                 ![c].sid = uuid, ![c].seen = status, ![c].row = "update",
                                 ![c].adv = AdvisoryOf(tx[c].req.op)]
    <3>1. At(c, SwapOps \cup {"absent"}, "begin") /\ UNCHANGED <<status, uuid, version, games>>
      BY <1>21 DEF GranularBegin, db
    <3>2. /\ Rest(c) /\ tx'[c].pc = (IF tx[c].req.op = "absent" THEN "commit" ELSE "games")
          /\ tx'[c].adv = AdvisoryOf(tx[c].req.op) /\ tx'[c].row = "update"
          /\ tx'[c].req = tx[c].req /\ tx'[c].lock = tx[c].lock /\ tx'[c].games = tx[c].games
          /\ tx'[c].sid = uuid /\ tx'[c].seen = status
      BY ZenonT(60), <2>2, <1>a DEF Tx
    <3>3. ~tx'[c].lock BY <3>1, <3>2 DEF Inv, Local, HoldsLocks, At
    <3>4. SessionWriter(c)' /\ ~GameWriter(c)'
      BY <3>1, <3>2 DEF GameWriter, SessionWriter, At, SessionOps, GameOps, SwapOps
    <3>5. Accepted(c)' BY <3>1, <3>2 DEF Inv, Local, Accepted, At
    <3>6. Local(c)'
      <4>1. tx[c].req.op \notin SaveOps \cup {"delete"}
        BY <3>1 DEF At, SaveOps, PutOps, SwapOps
      <4>2. HoldsLocks(c)' BY <2>2, <3>2, <3>3, <3>4, <4>1 DEF HoldsLocks
      <4>3. HoldsRows(c)'
        BY <3>1, <3>2, <4>1 DEF HoldsRows, At, SwapOps
      <4>4. tx'[c].pc = "commit" => tx'[c].req.op \notin SwapOps
        BY <3>2 DEF SwapOps
      <4>5. Validated(c)' BY <2>2, <3>2, <3>4, <4>1, <4>4 DEF Validated, GranularAllowed
      <4>6. SessionCheck(c)'
        BY <2>2, <3>1, <3>2, <4>1 DEF SessionCheck, GranularAllowed, VersionMatches
      <4> QED BY <3>4, <3>5, <4>2, <4>3, <4>5, <4>6 DEF Local, GameCheck
    <3>7. ASSUME NEW d \in Clients \ {c} PROVE Compatible(tx'[c], tx[d])
      <4>1. Compatible(tx[c], tx[d]) BY DEF Inv, LocksExclude
      <4>2. ~Conflict("update", tx[d].row) BY <2>2 DEF SessionLockable, SessionFree
      <4>3. tx'[c].adv # "none" => tx'[c].adv # tx[d].adv
        BY <2>2, <3>2 DEF SessionLockable, AdvisoryFree
      <4> QED BY <3>2, <4>1, <4>2, <4>3 DEF Compatible
    <3> QED BY <3>1, <3>2, <3>6, <3>7, QuietStep
  <2> QED BY <1>21, <2>1, <2>2 DEF GranularBegin
<1>22. ASSUME NEW c \in Clients, CommitAbsent(c) PROVE Inv'
  <2>1. SessionWriter(c) /\ tx[c].pc = "commit"
    BY <1>22 DEF CommitAbsent, At, SessionWriter, SessionOps
  <2>2. Accepted(c)' /\ Rest(c) /\ tx'[c].pc = "respond" /\ tx'[c].lock = FALSE
        /\ tx'[c].row = "none" /\ tx'[c].games = {} /\ tx'[c].adv = "none"
    BY <1>22, <2>1, CommittedFields DEF CommitAbsent, Inv, Local, Accepted
  <2>3. status' = status /\ uuid' = uuid /\ games' = games BY <1>22 DEF CommitAbsent
  <2>4. \A d \in Clients \ {c} : GameWriter(d) => status # "none"
    BY DEF Inv, Local, GameCheck, SameSession
  <2> QED BY <2>1, <2>2, <2>3, <2>4, SessionCommit
<1>23. ASSUME NEW c \in Clients, LockTwoGames(c) PROVE Inv'
  <2>1. CASE Finish(c) BY <1>23, <2>1, FinishStep DEF LockTwoGames, db
  <2>2. CASE /\ GameFree(c, tx[c].req.game) /\ GameFree(c, tx[c].req.other) /\ CanSwap(games, tx[c].req)
             /\ tx' = [tx EXCEPT ![c].pc = "commit", ![c].games = {tx[c].req.game, tx[c].req.other}]
    <3>1. At(c, SwapOps, "games") /\ UNCHANGED <<status, uuid, version, games>>
      BY <1>23 DEF LockTwoGames, db
    <3>2. /\ Rest(c) /\ tx'[c].pc = "commit"
          /\ tx'[c].games = {tx[c].req.game, tx[c].req.other}
          /\ tx'[c].req = tx[c].req /\ tx'[c].lock = tx[c].lock /\ tx'[c].row = tx[c].row
          /\ tx'[c].adv = tx[c].adv /\ tx'[c].sid = tx[c].sid /\ tx'[c].seen = tx[c].seen
      BY <2>2, <1>a DEF Tx
    <3>3. ~tx'[c].lock BY <3>1, <3>2 DEF Inv, Local, HoldsLocks, At
    <3>4. SessionWriter(c) /\ SessionWriter(c)' /\ ~GameWriter(c)'
      BY <3>1, <3>2 DEF GameWriter, SessionWriter, At, SessionOps, GameOps, SwapOps
    <3>5. Local(c)'
      BY ZenonT(60), <2>2, <3>1, <3>2, <3>3, <3>4 DEF Inv, Local, Accepted, HoldsLocks, HoldsRows, Validated,
         GameCheck, SessionCheck, VersionMatches, At, SaveOps, PutOps, SwapOps
    <3>6. ASSUME NEW d \in Clients \ {c} PROVE Compatible(tx'[c], tx[d])
      <4>1. Compatible(tx[c], tx[d]) BY DEF Inv, LocksExclude
      <4>2. tx[c].req.game \notin tx[d].games /\ tx[c].req.other \notin tx[d].games
        BY <2>2 DEF GameFree
      <4> QED BY <3>2, <4>1, <4>2 DEF Compatible
    <3> QED BY <3>1, <3>2, <3>5, <3>6, QuietStep
  <2> QED BY <1>23, <2>1, <2>2 DEF LockTwoGames
<1>24. ASSUME NEW c \in Clients, CommitSwap(c) PROVE Inv'
  <2> DEFINE r == tx[c].req
  <2>1. SessionWriter(c) /\ tx[c].pc = "commit" /\ r.op \in SwapOps
    BY <1>24 DEF CommitSwap, At, SessionWriter, SessionOps
  <2>2. Accepted(c)' /\ Rest(c) /\ tx'[c].pc = "respond" /\ tx'[c].lock = FALSE
        /\ tx'[c].row = "none" /\ tx'[c].games = {} /\ tx'[c].adv = "none"
    BY <1>24, <2>1, CommittedFields DEF CommitSwap, Inv, Local, Accepted
  <2>3. ASSUME NEW d \in Clients \ {c}, GameWriter(d)
        PROVE  games'[tx[d].req.game] = games[tx[d].req.game] /\ status # "none"
    <3>1. tx[d].req.game \in tx[d].games /\ status # "none"
      BY <2>3 DEF Inv, Local, HoldsLocks, GameCheck, SameSession
    <3>2. {r.game, r.other} \subseteq tx[c].games BY <2>1 DEF Inv, Local, HoldsRows
    <3>3. tx[d].req.game \notin {r.game, r.other}
      BY <3>1, <3>2 DEF Inv, LocksExclude, Compatible
    <3>4. tx[d].req.game \in Games /\ r \in RequestType /\ games \in [Games -> Row]
      BY DEF TypeOK, Tx, RequestType
    <3>5. games' = Swapped(games, r) BY <1>24 DEF CommitSwap
    <3> QED BY <2>1, <3>1, <3>3, <3>4, <3>5, SwapKeepsOthers
  <2>4. status' = status /\ uuid' = uuid BY <1>24 DEF CommitSwap
  <2> QED BY <2>1, <2>2, <2>3, <2>4, SessionCommit
<1>25. ASSUME NEW c \in Clients, Respond(c) PROVE Inv'
  <2>1. CASE Finish(c) BY <1>25, <2>1, FinishStep DEF Respond, db
  <2>2. CASE tx' = [tx EXCEPT ![c].pc = "saveIdem", ![c].body = LoadSnap]
    <3>1. tx[c].pc = "respond" /\ UNCHANGED <<status, uuid, version, games>>
      BY <1>25 DEF Respond, db
    <3>2. /\ Rest(c) /\ tx'[c].pc = "saveIdem"
          /\ tx'[c].req = tx[c].req /\ tx'[c].lock = tx[c].lock /\ tx'[c].row = tx[c].row
          /\ tx'[c].games = tx[c].games /\ tx'[c].adv = tx[c].adv
      BY <2>2, <1>a DEF Tx
    <3> QED BY <3>1, <3>2, MoveStep
  <2> QED BY <1>25, <2>1, <2>2 DEF Respond
<1>26. ASSUME NEW c \in Clients, SaveIdempotency(c) PROVE Inv'
  BY <1>26, FinishStep DEF SaveIdempotency
<1>27. ASSUME NEW c \in Clients, DeadlockAbort(c) PROVE Inv'
  <2>1. UNCHANGED <<status, uuid, version, games>> BY <1>27 DEF DeadlockAbort, db
  <2>2. AtOutbox(c) => tx[c].pc # "idle" BY DEF AtOutbox, At
  <2> QED BY <1>27, <2>1, <2>2, FinishStep, BreakStep DEF DeadlockAbort
<1>28. CASE DayPasses BY <1>28, <1>b DEF DayPasses, db
<1>29. ASSUME NEW k \in Keys, CacheEvict(k) PROVE Inv' BY <1>29, <1>b DEF CacheEvict, db
<1>30. CASE Restart
  <2>1. \A c \in Clients : tx'[c] = IdleTx BY <1>30 DEF Restart
  <2>2. LocksExclude' BY <2>1 DEF LocksExclude, Compatible, Conflict, IdleTx
  <2>3. \A c \in Clients : Local(c)'
    BY <2>1 DEF Local, Accepted, HoldsLocks, HoldsRows, Validated, GameCheck, SessionCheck,
       GameWriter, SessionWriter, IdleTx
  <2> QED BY <2>2, <2>3 DEF Inv
<1>31. ASSUME NEW c \in Clients, OutboxFails(c) PROVE Inv'
  BY <1>31, BreakStep DEF OutboxFails, AtOutbox, At, db
<1>32. ASSUME NEW c \in Clients, BrokenGoesOn(c) PROVE Inv'
  BY <1>32, FinishStep DEF BrokenGoesOn, db
<1>33. QED
  BY <1>0, <1>1, <1>2, <1>3, <1>4, <1>5, <1>6, <1>7, <1>8, <1>9, <1>10, <1>11, <1>12, <1>13, <1>14,
     <1>15, <1>16, <1>17, <1>18, <1>19, <1>20, <1>21, <1>22, <1>23, <1>24, <1>25, <1>26, <1>27,
     <1>28, <1>29, <1>30, <1>31, <1>32 DEF Next, ServerStep, UserStep

-----------------------------------------------------------------------------
(* The theorems *)

\* Every reachable state satisfies the inductive invariant.
THEOREM InvariantHolds == Spec => [](TypeOK /\ Inv)
<1>1. Init => TypeOK /\ Inv BY InitType, InitInv
<1>2. TypeOK /\ Inv /\ [Next]_vars => TypeOK' /\ Inv' BY TypeStep, InvStep
<1>3. QED BY <1>1, <1>2, PTL DEF Spec

\* Type correctness: a snapshot, a row or a request of the wrong shape never
\* reaches the database, an absent list of strangers included.
THEOREM TypeCorrect == Spec => []TypeOK
BY InvariantHolds, PTL

\* No lost update on a game: whatever the clients, games and requests, the
\* row a game operation overwrites has the version its If-Match named.
THEOREM GameUpdatesAreChecked == Spec => []GameCheckHolds
<1>1. Inv => GameCheckHolds BY DEF Inv, Local, GameCheckHolds
<1>2. QED BY <1>1, InvariantHolds, PTL

\* No lost update on a session's row, and no double creation: what an
\* operation on the session's row checked is still so when it commits.
THEOREM SessionUpdatesAreChecked == Spec => []SessionCheckHolds
<1>1. Inv => SessionCheckHolds BY DEF Inv, Local, SessionCheckHolds
<1>2. QED BY <1>1, InvariantHolds, PTL

\* Two operations on the session's row are never both past their check.
THEOREM SessionWritersExclude ==
  Spec => [](\A c, d \in Clients : SessionWriter(c) /\ SessionWriter(d) => c = d)
<1>1. Inv => \A c, d \in Clients : SessionWriter(c) /\ SessionWriter(d) => c = d
  BY OneSessionWriter
<1>2. QED BY <1>1, InvariantHolds, PTL
=============================================================================
