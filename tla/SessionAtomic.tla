---------------------------- MODULE SessionAtomic ----------------------------
(***************************************************************************)
(* What the write paths of a live session promise, seen from the tables:   *)
(* every request takes effect in one step, at a state that satisfies the   *)
(* conditions its transaction checked earlier.  SessionRefinement has      *)
(* SessionStore implement this.                                            *)
(*                                                                         *)
(* It also says what is not promised.  A game operation does not need a    *)
(* draft, nor an auto-lock a schedule that is all scored: both are decided *)
(* on what was read before.  A publish may bring back any valid schedule,  *)
(* and restarts the version of every game.                                 *)
(***************************************************************************)
EXTENDS SessionRows

VARIABLES status, uuid, version, absent, games, outbox

tables == <<status, uuid, version, absent, games, outbox>>

Event(of, ver) == outbox' = Append(outbox, [of |-> of, ver |-> ver])

Init ==
  /\ \/ /\ status = "none" /\ uuid = 0 /\ version = 0
        /\ games = [g \in Games |-> NoGame(g)]
     \/ /\ status = "draft" /\ uuid = 1 /\ version = 1
        /\ games = [g \in Games |-> FreshRow(g)]
  /\ absent = {} /\ outbox = <<>>

\* A game operation on the version its If-Match names; a score may lock.
Play(r) ==
  /\ r.op \in GameOps
  /\ status # "none" /\ Present(games[r.game])
  /\ games[r.game].ver = r.exp /\ ~GameNoop(games[r.game], r)
  /\ r.op = "skip" => r.refs \subseteq Players
  /\ games' = [games EXCEPT ![r.game] = GameUpdate(@, r)]
  /\ Event(r.game, r.exp + 1)
  /\ \/ UNCHANGED <<status, version>>
     \/ r.op = "score" /\ status = "draft" /\ status' = "locked" /\ version' = version + 1
  /\ UNCHANGED <<uuid, absent>>

\* The tables after a publish hold a valid schedule with fresh versions.
Published ==
  /\ absent' \subseteq Players
  /\ games' \in [Games -> Row]
  /\ \A g \in Games :
       /\ games'[g].ver \in {0, 1} /\ games'[g].skip = {}
       /\ games'[g].score # NoScore => games'[g].played
       /\ Present(games'[g]) => Distinct(games'[g].seat)

Publish(r) ==
  /\ r.op \in SaveOps
  /\ \/ /\ status = "none" /\ r.exp = 0
        /\ uuid' = uuid + 1 /\ version' = 1
     \/ /\ status = "draft" /\ r.exp \in {0, version}
        /\ uuid' = uuid /\ version' = version + 1
  /\ status' \in {"draft", "locked"}
  /\ r.op = "lock" => status' = "locked"
  /\ Published
  /\ UNCHANGED outbox

SetAbsent(r) ==
  /\ r.op = "absent" /\ status = "draft" /\ r.exp = version
  /\ r.refs \subseteq Players
  /\ absent' = r.refs /\ version' = version + 1
  /\ Event("absent", version + 1)
  /\ UNCHANGED <<status, uuid, games>>

Swap(r) ==
  /\ r.op \in SwapOps /\ status = "draft" /\ r.exp = version
  /\ CanSwap(games, r)
  /\ games' = Swapped(games, r) /\ version' = version + 1
  /\ Event("session", version + 1)
  /\ UNCHANGED <<status, uuid, absent>>

Unlock(r) ==
  /\ r.op = "unlock" /\ status = "locked"
  /\ status' = "draft" /\ version' = version + 1
  /\ UNCHANGED <<uuid, absent, games, outbox>>

Delete(r) ==
  /\ r.op = "delete" /\ status = "draft"
  /\ status' = "none" /\ version' = 0 /\ absent' = {} /\ outbox' = <<>>
  /\ games' = [g \in Games |-> NoGame(g)]
  /\ UNCHANGED uuid

Next ==
  \E r \in Requests :
    Play(r) \/ Publish(r) \/ SetAbsent(r) \/ Swap(r) \/ Unlock(r) \/ Delete(r)

Spec == Init /\ [][Next]_tables
=============================================================================
