--------------------------- MODULE TournamentAtomic ---------------------------
(***************************************************************************)
(* What the write paths of a tournament promise: every save and every      *)
(* delete takes effect in one step, a save raises the version by one, and  *)
(* the rating source kept under the share code goes with the tournament.   *)
(* TournamentStore implements this.                                        *)
(***************************************************************************)
EXTENDS Naturals

CONSTANTS Contents, Complete, NoContent

VARIABLES
  inserted,     \* tournaments inserted so far
  tournament,   \* its id (0: there is none), version, format and child tables
  rated         \* its rating sources: the lookup each is kept under, and its kind

register == <<inserted, tournament, rated>>

Formats == {"classic", "team"}
None == [id |-> 0, version |-> 0, format |-> "classic",
         tables |-> [f \in Formats |-> [content |-> NoContent, at |-> 0]]]

\* The tournament after a save of content x in format f, under the given id.
Saved(f, x, id) ==
  [id      |-> id,
   version |-> tournament.version + 1,
   format  |-> IF f = "team" \/ tournament.id = 0 THEN f ELSE tournament.format,
   tables  |-> [tournament.tables EXCEPT ![f] = [content |-> x, at |-> tournament.version + 1]]]

Init ==
  \/ inserted = 0 /\ tournament = None /\ rated = {}
  \/ /\ inserted = 1
     /\ \E f \in Formats, x \in Contents :
          /\ tournament = [id |-> 1, version |-> 1, format |-> f,
                          tables |-> [None.tables EXCEPT ![f] = [content |-> x, at |-> 1]]]
          /\ rated = IF x \in Complete THEN {[key |-> 0, kind |-> f]} ELSE {}

\* A save by a lookup (0: the share code, else the id): a complete tournament
\* gets its source under that lookup, unless there is one.
Save(f, x, by) ==
  /\ by \in {0, tournament.id}
  /\ IF tournament.id = 0
       THEN inserted' = inserted + 1 /\ tournament' = Saved(f, x, inserted')
       ELSE tournament' = Saved(f, x, tournament.id) /\ UNCHANGED inserted
  /\ rated' = IF x \in Complete /\ \A s \in rated : s.key # by
                THEN rated \cup {[key |-> by, kind |-> f]}
                ELSE rated

\* The source of the share code goes along; one under the id does not.
Delete ==
  /\ tournament.id # 0
  /\ tournament' = None /\ rated' = {s \in rated : s.key # 0}
  /\ UNCHANGED inserted

Next ==
  \/ \E f \in Formats, x \in Contents, by \in {0, tournament.id} : Save(f, x, by)
  \/ Delete

Spec == Init /\ [][Next]_register
=============================================================================
