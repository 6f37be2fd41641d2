----------------------------- MODULE SessionRows -----------------------------
(***************************************************************************)
(* The data of one live session: requests, game rows, snapshots, and what  *)
(* the statements of each operation make of them.  SessionStore runs the   *)
(* operations as transactions, SessionAtomic as single steps.              *)
(***************************************************************************)
EXTENDS Naturals, Sequences, FiniteSets

CONSTANTS
  Games,        \* game keys "slot-court" of the session
  Players,      \* player refs of the session; fixed, see README
  FirstSeats,   \* who sits where in a freshly generated schedule
  Scores,       \* valid score pairs
  NoScore,      \* score_a IS NULL
  Keys,         \* Idempotency-Key header values
  NoKey,        \* no Idempotency-Key header
  Requests      \* the requests the clients of a run may send

Seats == {"A0", "A1", "B0", "B1"}

GameOps == {"score", "played", "skip"}
SwapOps == {"swapSlots", "swapPlayer", "swapTeam"}
PutOps == {"put", "putWithout"}
SaveOps == PutOps \cup {"patch", "lock"}
SessionOps == SwapOps \cup SaveOps \cup {"absent", "unlock", "delete"}

(***************************************************************************)
(* One record type for all requests; an operation reads the fields it has. *)
(* exp is the If-Match version, 0 when the header is missing; refs may     *)
(* name a player the session does not know ("stranger").                   *)
(***************************************************************************)
RequestType ==
  [op : GameOps \cup SessionOps \cup {"none"}, game : Games, other : Games,
   at : Seats, with : Seats, score : Scores \cup {NoScore}, on : BOOLEAN,
   refs : SUBSET (Players \cup {"stranger"}), exp : Nat, key : Keys \cup {NoKey}]

ASSUME SeatsAssumption == FirstSeats \in [Games -> [Seats -> Players]]
ASSUME ScoreAssumption == NoScore \notin Scores
ASSUME KeyAssumption == NoKey \notin Keys
ASSUME RequestAssumption == Requests \subseteq {r \in RequestType : r.op # "none"}
ASSUME GamesAssumption == Games # {}

-----------------------------------------------------------------------------
(* Rows and snapshots *)

Row == [ver : Nat, score : Scores \cup {NoScore}, played : BOOLEAN,
        skip : SUBSET Players, seat : [Seats -> Players]]

FreshRow(g) == [ver |-> 1, score |-> NoScore, played |-> FALSE, skip |-> {}, seat |-> FirstSeats[g]]

NoGame(g) == [FreshRow(g) EXCEPT !.ver = 0]

Present(row) == row.ver > 0

Snapshot == [version : Nat, locked : BOOLEAN, absent : SUBSET (Players \cup {"stranger"}),
             games : [Games -> Row]]

NoSnap == [version |-> 0, locked |-> FALSE, absent |-> {}, games |-> [g \in Games |-> NoGame(g)]]

FreshSnap == [version |-> 0, locked |-> FALSE, absent |-> {}, games |-> [g \in Games |-> FreshRow(g)]]

Statuses == {"none", "draft", "locked"}

-----------------------------------------------------------------------------
(* What the statements of an operation compute *)

Distinct(seat) == \A s, t \in Seats : s # t => seat[s] # seat[t]

ASSUME FirstSeatsAssumption == \A g \in Games : Distinct(FirstSeats[g])

\* Mutant of ValidSnapshot: unknown absent players are let through.
ValidButStrangers(snap) ==
  \A g \in Games : Present(snap.games[g]) =>
    /\ Distinct(snap.games[g].seat)
    /\ snap.games[g].score # NoScore => snap.games[g].played

\* ValidateSnapshot, for the fields modelled.
ValidSnapshot(snap) ==
  /\ snap.absent \subseteq Players
  /\ \A g \in Games : Present(snap.games[g]) =>
       /\ Distinct(snap.games[g].seat)
       /\ snap.games[g].score # NoScore => snap.games[g].played

AllScored(rows) == \A g \in Games : Present(rows[g]) => rows[g].score # NoScore

\* syncSessionTables: every game row is deleted and inserted again, so its
\* version is the column's DEFAULT 1 and its skips the DEFAULT '{}'.
SyncedRows(snap) ==
  [g \in Games |-> IF Present(snap.games[g])
                     THEN [snap.games[g] EXCEPT !.ver = 1, !.skip = {}]
                     ELSE NoGame(g)]

\* A game operation that would change nothing is answered without a write.
GameNoop(row, r) ==
  \/ r.op = "played" /\ row.played = r.on
  \/ r.op = "skip" /\ row.skip = r.refs

\* Mutant of GameUpdate: unplaying a game leaves its score.
UpdateKeepingScore(row, r) ==
  CASE r.op = "score"  -> [row EXCEPT !.ver = @ + 1, !.score = r.score, !.played = TRUE]
    [] r.op = "played" -> [row EXCEPT !.ver = @ + 1, !.played = r.on]
    [] r.op = "skip"   -> [row EXCEPT !.ver = @ + 1, !.skip = r.refs]

GameUpdate(row, r) ==
  CASE r.op = "score"  -> [row EXCEPT !.ver = @ + 1, !.score = r.score, !.played = TRUE]
    [] r.op = "played" -> [row EXCEPT !.ver = @ + 1, !.played = r.on,
                                      !.score = IF r.on THEN @ ELSE NoScore]
    [] r.op = "skip"   -> [row EXCEPT !.ver = @ + 1, !.skip = r.refs]

\* The seats one team swap writes: position by position, B's seat first.
TeamSeats(team) == IF team \in {"A0", "A1"} THEN <<"A0", "A1">> ELSE <<"B0", "B1">>

\* swapSlots moves rows between keys: a is updated twice (through the
\* temporary slot), b once.
SwapSlots(rows, r) ==
  [rows EXCEPT ![r.game] = [rows[r.other] EXCEPT !.ver = @ + 1],
               ![r.other] = [rows[r.game] EXCEPT !.ver = @ + 2]]

\* The seats of games a and b after exchanging a's seat s with b's seat t.
ExchangeSeat(rows, a, s, b, t) ==
  [rows EXCEPT ![a].seat[s] = rows[b].seat[t], ![b].seat[t] = rows[a].seat[s]]

BumpGames(rows, S) == [g \in Games |-> IF g \in S THEN [rows[g] EXCEPT !.ver = @ + 1] ELSE rows[g]]

SwapPlayer(rows, r) == BumpGames(ExchangeSeat(rows, r.game, r.at, r.other, r.with), {r.game, r.other})

\* Across games the team letter is a's; within a game the teams change sides.
SwapTeam(rows, r) ==
  LET s == TeamSeats(r.at)
      t == IF r.game = r.other THEN TeamSeats(r.with) ELSE s
      first == ExchangeSeat(rows, r.game, s[1], r.other, t[1])
  IN  BumpGames(ExchangeSeat(first, r.game, s[2], r.other, t[2]), {r.game, r.other})

Swapped(rows, r) ==
  CASE r.op = "swapSlots"  -> SwapSlots(rows, r)
    [] r.op = "swapPlayer" -> SwapPlayer(rows, r)
    [] r.op = "swapTeam"   -> SwapTeam(rows, r)

\* Mutant of SwapLegal: no UNIQUE(game, player).
SwapUnchecked(rows, r) == TRUE

\* UNIQUE(game, player): the statements of a swap across games update B's
\* seat, then A's, and each must leave four different players; within a game
\* the rows are deleted first, so only the outcome counts.
SwapLegal(rows, r) ==
  LET a == rows[r.game].seat
      b == rows[r.other].seat
      s == TeamSeats(r.at)
      b1 == [b EXCEPT ![s[1]] = a[s[1]]]
      a1 == [a EXCEPT ![s[1]] = b[s[1]]]
  IN  CASE r.op = "swapSlots" -> r.game # r.other
        [] r.op = "swapPlayer" /\ r.game = r.other -> r.at # r.with
        [] r.op = "swapPlayer" /\ r.game # r.other ->
             /\ Distinct([b EXCEPT ![r.with] = a[r.at]])
             /\ Distinct([a EXCEPT ![r.at] = b[r.with]])
        [] r.op = "swapTeam" /\ r.game = r.other -> TeamSeats(r.at) # TeamSeats(r.with)
        [] r.op = "swapTeam" /\ r.game # r.other ->
             /\ s = TeamSeats(r.with)
             /\ Distinct(b1) /\ Distinct(a1)
             /\ Distinct([b1 EXCEPT ![s[2]] = a[s[2]]])
             /\ Distinct([a1 EXCEPT ![s[2]] = b[s[2]]])

\* Both games of the swap exist, and no statement of it violates a constraint.
CanSwap(rows, r) == Present(rows[r.game]) /\ Present(rows[r.other]) /\ SwapLegal(rows, r)
=============================================================================
