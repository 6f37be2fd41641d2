--------------------------- MODULE MCSessionStore ---------------------------
(* Instances of SessionStore for TLC. *)
EXTENDS SessionRefinement, TLC

R(op, g, exp) ==
  [op |-> op, game |-> g, other |-> g, at |-> "A0", with |-> "A0", score |-> NoScore,
   on |-> FALSE, refs |-> {}, exp |-> exp, key |-> NoKey]

Seating(a0, a1, b0, b1) ==
  [s \in Seats |-> CASE s = "A0" -> a0 [] s = "A1" -> a1 [] s = "B0" -> b0 [] s = "B1" -> b1]

\* Two games that share player p1, in different seats.
MCSeats == ("g1" :> Seating("p1", "p2", "p3", "p4")) @@ ("g2" :> Seating("p5", "p1", "p6", "p7"))

Score(g, exp) == [R("score", g, exp) EXCEPT !.score = "s1"]
Unplay(g, exp) == R("played", g, exp)
Play(g, exp) == [R("played", g, exp) EXCEPT !.on = TRUE]
Skip(g, exp, who) == [R("skip", g, exp) EXCEPT !.refs = who]
Put(exp, score, on) == [R("put", "g1", exp) EXCEPT !.score = score, !.on = on]
Absent(exp, who) == [R("absent", "g1", exp) EXCEPT !.refs = who]
Swap(op, exp, g, at, h, with) ==
  [R(op, g, exp) EXCEPT !.other = h, !.at = at, !.with = with]
Keyed(r) == [r EXCEPT !.key = "k1"]

\* Live operations on a session somebody also locks and unlocks, and a swap
\* that exchanges the versions of the two games.
LiveRequests ==
  {Score("g1", 1), Score("g2", 1), Score("g2", 2), Unplay("g1", 2), Play("g1", 1),
   Skip("g1", 1, {"p1"}), Skip("g2", 2, {"stranger"}), R("lock", "g1", 1), R("unlock", "g1", 0),
   Swap("swapSlots", 1, "g1", "A0", "g2", "A0")}

\* Publishing next to live operations: creation, full updates (one with a
\* score for a game not played, one with an unknown absent player, one that
\* drops a game), metadata, lock and delete.
PublishRequests ==
  {Put(0, NoScore, FALSE), Keyed(Put(1, "s1", TRUE)), Put(1, "s1", FALSE),
   [Put(1, NoScore, FALSE) EXCEPT !.refs = {"stranger"}],
   R("putWithout", "g2", 1), R("patch", "g1", 1), R("lock", "g1", 2), R("delete", "g1", 0),
   Score("g1", 1)}

\* Swaps of every kind, legal and not, next to scores, absences and a lock.
SwapRequests ==
  {Swap("swapSlots", e, "g1", "A0", "g2", "A0") : e \in {1, 2}} \cup
  {Swap("swapPlayer", 1, "g1", "A0", "g2", "A0"), Swap("swapPlayer", 1, "g1", "B0", "g2", "A0"),
   Swap("swapPlayer", 2, "g1", "A0", "g1", "B0"), Swap("swapTeam", 1, "g1", "A0", "g2", "A1"),
   Swap("swapTeam", 2, "g1", "B0", "g2", "B0"), Swap("swapTeam", 1, "g1", "A0", "g1", "B0"),
   Absent(1, {"p1"}), Absent(2, {"stranger"}), Score("g1", 1), R("lock", "g1", 1)}

\* Retries with one Idempotency-Key (also used for different operations),
\* over crashes and lost answers, next to a DELETE that takes the same rows.
RetryRequests ==
  {Keyed(Score("g1", 1)), Keyed(Absent(1, {"p1"})),
   Keyed(Swap("swapPlayer", 1, "g1", "A0", "g1", "B0")), R("delete", "g1", 0)}

\* For the claim: a PATCH next to a score.
MutateRequests == {Score("g1", 1), R("patch", "g1", 1)}

ClientSymmetry == Permutations(Clients)
=============================================================================
