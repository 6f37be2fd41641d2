---------------------------- MODULE PlayerDirectory ----------------------------
(***************************************************************************)
(* What the registry of players promises: a directory that only grows.     *)
(* PlayerRegistry implements this.                                         *)
(***************************************************************************)
CONSTANTS Keys, Players, None

VARIABLES
  names,     \* the player of each name, or None
  called     \* the canonical name of each player, or None

directory == <<names, called>>

Init == names = [k \in Keys |-> None] /\ called = [p \in Players |-> None]

\* Every name belongs to a player there is, and no two are spelled alike.
Sound ==
  /\ \A k \in Keys : names[k] # None => called[names[k]] # None
  /\ \A p, q \in Players : called[p] = called[q] /\ called[p] # None => p = q

\* No name moves to another player.
NamesStay == \A k \in Keys : names[k] # None => names'[k] = names[k]

\* A registration adds names and players.
Register ==
  /\ NamesStay
  /\ \A p \in Players : called[p] # None => called'[p] = called[p]
  /\ Sound'

\* A rename changes one player's name and adds at most one name of that player.
Rename(p) ==
  /\ called[p] # None /\ called'[p] # None
  /\ \A q \in Players \ {p} : called'[q] = called[q]
  /\ \/ UNCHANGED names
     \/ \E k \in Keys : names[k] = None /\ names' = [names EXCEPT ![k] = p]
  /\ Sound'

Next == Register \/ \E p \in Players : Rename(p)

Spec == Init /\ [][Next]_directory
=============================================================================
