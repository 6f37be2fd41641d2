-------------------------- MODULE SessionEventsProofs --------------------------
(***************************************************************************)
(* For any number of writers, games and events per answer: how far events  *)
(* are committed out of the order of their ids, and that a reader of the   *)
(* outbox misses no event of the session itself.                           *)
(***************************************************************************)
EXTENDS SessionEvents, FiniteSetTheorems, WellFoundedInduction, TLAPS

Pending(w) == tx[w].at \in {"inserting", "inserted"}

\* Ids are handed out once.
IdsInv ==
  /\ \A i \in DOMAIN log : log[i].id \in 1..lastId
  /\ \A w \in Writers : Pending(w) =>
       tx[w].id \in 1..lastId /\ \A i \in DOMAIN log : log[i].id # tx[w].id
  /\ \A v, w \in Writers : Pending(v) /\ Pending(w) /\ tx[v].id = tx[w].id => v = w

\* Two transactions have different aggregates, and while one has the session's
\* row no event of a game is about to be committed.
LocksInv ==
  \A v, w \in Writers : v # w /\ tx[v].at # "idle" /\ tx[w].at # "idle" =>
    /\ tx[v].of # tx[w].of
    /\ ~(tx[v].of = Session /\ tx[w].at = "inserted")

\* What has overtaken an event that is not committed yet.
Overtaken ==
  \A w \in Writers, i \in DOMAIN log : Pending(w) /\ log[i].id > tx[w].id =>
    tx[w].of \in Games /\ log[i].of # tx[w].of

\* The reader goes on from an event it was given.
ReaderInv == since = 0 \/ (since \in Ids /\ since \in seen)

IInv == IdsInv /\ LocksInv /\ Overtaken /\ ReaderInv

Props == OnlyOthersOvertake /\ SessionEventsDelivered /\ MissedWereLate

-----------------------------------------------------------------------------
(* A page of events *)

Less == {p \in Nat \X Nat : p[1] < p[2]}

\* The library's fact with the relation written out.
LEMMA LessWellFounded == IsWellFoundedOn(Less, Nat)
BY NatLessThanWellFounded, SMT DEF OpToRel, Less

\* Ids that are bounded have a last one.
LEMMA LastExists ==
  ASSUME NEW S \in SUBSET Nat, NEW n \in Nat, \A e \in S : e <= n, S # {}
  PROVE  \E e \in S : \A d \in S : d <= e
<1> DEFINE T == {k \in Nat : \E e \in S : k = n - e}
<1>1. T \subseteq Nat /\ T # {}
  <2>1. PICK e \in S : TRUE
    OBVIOUS
  <2>2. n - e \in T
    BY <2>1
  <2> QED
    BY <2>2
<1>2. PICK x \in T : \A y \in T : ~(<<y, x>> \in Less)
  <2> HIDE DEF T
  <2> QED
    BY <1>1, LessWellFounded, WFMin
<1>3. PICK e \in S : x = n - e
  BY <1>2
<1>4. ASSUME NEW d \in S PROVE d <= e
  <2>1. n - d \in T /\ n - d \in Nat /\ x \in Nat
    BY <1>1
  <2>2. ~(n - d < x)
    BY <1>2, <2>1 DEF Less
  <2> QED
    BY <1>3, <2>2
<1> QED
  BY <1>4, <1>3

\* nextSince is the last id of the answer, and the answer has every event
\* committed by now between the two.
LEMMA PageFacts ==
  ASSUME TypeOK, IdsInv
  PROVE  /\ Ids \in SUBSET Nat /\ Page \in SUBSET Ids
         /\ NextSince \in Nat /\ since <= NextSince
         /\ IF Page = {} THEN NextSince = since ELSE NextSince \in Page
         /\ \A e \in Ids : since < e /\ e <= NextSince => e \in Page
<1>1. Ids \in SUBSET Nat /\ lastId \in Nat /\ since \in Nat /\ \A e \in Ids : e <= lastId
  BY DEF TypeOK, IdsInv, Ids
<1>2. Page \in SUBSET Ids
  BY DEF Page
<1>3. CASE Page = {}
  BY <1>1, <1>2, <1>3 DEF NextSince
<1>4. CASE Page # {}
  <2>1. \E e \in Page : \A d \in Page : d <= e
    <3>1. Page \in SUBSET Nat /\ \A e \in Page : e <= lastId
      BY <1>1, <1>2
    <3> HIDE DEF Page
    <3> QED
      BY <1>1, <1>4, <3>1, LastExists
  <2>2. NextSince \in Page
    BY <1>4, <2>1 DEF NextSince
  <2>3. NextSince \in Nat /\ since < NextSince
    BY <1>1, <1>2, <2>2 DEF Page
  <2>4. ASSUME NEW e \in Ids, since < e, e <= NextSince PROVE e \in Page
    <3> DEFINE Before(x) == {d \in Ids : since < d /\ d < x}
    <3>1. Before(NextSince) \in SUBSET Nat /\ \A d \in Before(NextSince) : d <= lastId
      BY <1>1
    <3>2. IsFiniteSet(Before(NextSince))
      <4> HIDE DEF Before
      <4> QED
        BY <1>1, <3>1, FS_BoundedSetOfNaturals
    <3>3. Before(e) \in SUBSET Before(NextSince)
      <4>1. e \in Nat
        BY <1>1
      <4>2. \A d \in Ids : d \in Nat /\ (d < e => d < NextSince)
        BY <1>1, <2>3, <2>4, <4>1
      <4> QED
        BY <4>2
    <3>4. /\ Cardinality(Before(e)) <= Cardinality(Before(NextSince))
          /\ Cardinality(Before(e)) \in Nat /\ Cardinality(Before(NextSince)) \in Nat
      <4> HIDE DEF Before
      <4> QED
        BY <3>2, <3>3, FS_Subset, FS_CardinalityType
    <3>5. Cardinality(Before(NextSince)) < Limit
      BY <2>2 DEF Page
    <3>6. Cardinality(Before(e)) < Limit
      <4> HIDE DEF Before
      <4> QED
        BY <3>4, <3>5, LimitAssumption
    <3> QED
      BY <2>4, <3>6 DEF Page
  <2> QED
    BY <1>1, <1>2, <1>4, <2>2, <2>3, <2>4
<1> QED
  BY <1>3, <1>4

-----------------------------------------------------------------------------
(* Steps *)

\* A writer's own step that takes no id and commits nothing.
LEMMA QuietStep ==
  ASSUME TypeOK, IInv, Props, UNCHANGED <<lastId, log, since, seen>>,
         TypeOK', LocksInv', \A w \in Writers : Pending(w)' => Pending(w) /\ tx'[w].id = tx[w].id /\ tx'[w].of = tx[w].of
  PROVE  IInv' /\ Props'
<1>1. IdsInv'
  BY DEF IInv, IdsInv, TypeOK
<1>2. Overtaken'
  BY DEF IInv, Overtaken, TypeOK
<1>3. ReaderInv' /\ Props'
  BY DEF IInv, ReaderInv, Ids, Props, OnlyOthersOvertake, SessionEventsDelivered, MissedWereLate
<1> QED
  BY <1>1, <1>2, <1>3 DEF IInv

LEMMA LockGameStep ==
  ASSUME TypeOK, IInv, Props, NEW w \in Writers, NEW g \in Games, LockGame(w, g)
  PROVE  TypeOK' /\ IInv' /\ Props'
<1>1. TypeOK'
  BY DEF TypeOK, LockGame, Aggregates
<1>2. LocksInv'
  BY SessionAssumption DEF IInv, LocksInv, LockGame, GameLocked, TypeOK
<1>3. \A v \in Writers : Pending(v)' => Pending(v) /\ tx'[v].id = tx[v].id /\ tx'[v].of = tx[v].of
  BY DEF Pending, LockGame, TypeOK
<1> QED
  BY <1>1, <1>2, <1>3, QuietStep DEF LockGame

LEMMA LockSessionStep ==
  ASSUME TypeOK, IInv, Props, NEW w \in Writers, LockSession(w)
  PROVE  TypeOK' /\ IInv' /\ Props'
<1>1. TypeOK'
  BY DEF TypeOK, LockSession, Aggregates
<1>2. LocksInv'
  BY SessionAssumption DEF IInv, LocksInv, LockSession, SessionLocked, KeyShared, TypeOK
<1>3. \A v \in Writers : Pending(v)' => Pending(v) /\ tx'[v].id = tx[v].id /\ tx'[v].of = tx[v].of
  BY DEF Pending, LockSession, TypeOK
<1> QED
  BY <1>1, <1>2, <1>3, QuietStep DEF LockSession

LEMMA CheckForeignKeyStep ==
  ASSUME TypeOK, IInv, Props, NEW w \in Writers, CheckForeignKey(w)
  PROVE  TypeOK' /\ IInv' /\ Props'
<1>1. TypeOK'
  BY DEF TypeOK, CheckForeignKey
<1>2. LocksInv'
  BY DEF IInv, LocksInv, CheckForeignKey, SessionLocked, TypeOK
<1>3. \A v \in Writers : Pending(v)' => Pending(v) /\ tx'[v].id = tx[v].id /\ tx'[v].of = tx[v].of
  BY DEF Pending, CheckForeignKey, TypeOK
<1> QED
  BY <1>1, <1>2, <1>3, QuietStep DEF CheckForeignKey

LEMMA RollbackStep ==
  ASSUME TypeOK, IInv, Props, NEW w \in Writers, Rollback(w)
  PROVE  TypeOK' /\ IInv' /\ Props'
<1>1. TypeOK'
  BY DEF TypeOK, Rollback, IdleTx, Aggregates
<1>2. LocksInv'
  BY DEF IInv, LocksInv, Rollback, IdleTx, TypeOK
<1>3. \A v \in Writers : Pending(v)' => Pending(v) /\ tx'[v].id = tx[v].id /\ tx'[v].of = tx[v].of
  BY DEF Pending, Rollback, IdleTx, TypeOK
<1> QED
  BY <1>1, <1>2, <1>3, QuietStep DEF Rollback

\* The id is above every other.
LEMMA InsertStep ==
  ASSUME TypeOK, IInv, Props, NEW w \in Writers, InsertOutbox(w)
  PROVE  TypeOK' /\ IInv' /\ Props'
<1>1. TypeOK'
  <2> DEFINE step == IF tx[w].of = Session THEN "inserted" ELSE "inserting"
             r == [tx[w] EXCEPT !.at = step, !.id = lastId + 1]
  <2>1. /\ tx[w] \in [at : {"idle", "locked", "inserting", "inserted"}, of : Aggregates, id : Nat]
        /\ step \in {"idle", "locked", "inserting", "inserted"} /\ lastId + 1 \in Nat
    BY DEF TypeOK
  <2>2. tx' = [tx EXCEPT ![w] = r]
    BY DEF InsertOutbox, TypeOK
  <2>3. r \in [at : {"idle", "locked", "inserting", "inserted"}, of : Aggregates, id : Nat]
    <3> HIDE DEF step
    <3> QED
      BY <2>1
  <2>4. lastId' \in Nat /\ UNCHANGED <<log, since, seen>>
    BY <2>1 DEF InsertOutbox
  <2> HIDE DEF r
  <2> QED
    BY <2>2, <2>3, <2>4 DEF TypeOK
<1>2. LocksInv'
  BY DEF IInv, LocksInv, InsertOutbox, TypeOK
<1>3. /\ lastId \in Nat /\ lastId' = lastId + 1 /\ UNCHANGED <<log, since, seen>>
      /\ tx'[w].id = lastId + 1 /\ \A v \in Writers \ {w} : tx'[v] = tx[v]
  BY DEF TypeOK, InsertOutbox
<1>4. \A i \in DOMAIN log : log[i].id \in 1..lastId
  BY DEF IInv, IdsInv
<1>5. \A v \in Writers : Pending(v) => tx[v].id \in 1..lastId
  BY DEF IInv, IdsInv
<1>6. IdsInv'
  BY <1>3, <1>4, <1>5 DEF IInv, IdsInv, Pending
<1>7. Overtaken'
  <2> SUFFICES ASSUME NEW v \in Writers, NEW i \in DOMAIN log, Pending(v)', log[i].id > tx'[v].id
               PROVE  tx'[v].of \in Games /\ log[i].of # tx'[v].of
    BY <1>3 DEF Overtaken
  <2>1. v # w
    BY <1>3, <1>4
  <2> QED
    BY <1>3, <2>1 DEF IInv, Overtaken, Pending
<1>8. ReaderInv' /\ Props'
  BY <1>3 DEF IInv, ReaderInv, Ids, Props, OnlyOthersOvertake, SessionEventsDelivered, MissedWereLate
<1> QED
  BY <1>1, <1>2, <1>6, <1>7, <1>8 DEF IInv

\* The event joins the log; what it was overtaken by is there already.
LEMMA CommitStep ==
  ASSUME TypeOK, IInv, Props, NEW w \in Writers, Commit(w)
  PROVE  TypeOK' /\ IInv' /\ Props'
<1> DEFINE n == Len(log) + 1
           x == tx[w].id
<1>1. /\ UNCHANGED <<lastId, since, seen>> /\ Pending(w)
      /\ tx[w].at = "inserted" /\ ~Pending(w)' /\ tx'[w].at = "idle"
      /\ \A v \in Writers \ {w} : tx'[v] = tx[v]
  BY DEF Commit, TypeOK, Pending, IdleTx
<1>2. /\ Len(log) \in Nat /\ DOMAIN log = 1..Len(log) /\ DOMAIN log' = 1..n
      /\ log'[n] = [id |-> x, of |-> tx[w].of]
      /\ \A i \in 1..Len(log) : log'[i] = log[i]
  BY DEF Commit, TypeOK
<1>3. TypeOK'
  <2>1. [id |-> x, of |-> tx[w].of] \in [id : Nat, of : Aggregates]
    BY DEF TypeOK
  <2>2. log' \in Seq([id : Nat, of : Aggregates])
    BY <2>1 DEF Commit, TypeOK
  <2> QED
    BY <2>2 DEF Commit, TypeOK, IdleTx, Aggregates
<1>4. /\ x \in 1..lastId /\ lastId \in Nat /\ x \in Nat
      /\ \A i \in 1..Len(log) : log[i].id # x /\ log[i].id \in 1..lastId
  BY <1>1, <1>2 DEF IInv, IdsInv, TypeOK
<1>5. \A i \in 1..n : i \in 1..Len(log) \/ i = n
  BY <1>2
<1>6. LocksInv'
  BY <1>1 DEF IInv, LocksInv
<1>7. \A v \in Writers : Pending(v)' => v # w /\ Pending(v) /\ tx'[v] = tx[v] /\ tx[v].id # x
  BY <1>1 DEF IInv, IdsInv, Pending
<1>8. IdsInv'
  <2>1. \A i \in 1..n : log'[i].id \in 1..lastId
    BY <1>2, <1>4, <1>5
  <2>2. \A v \in Writers : Pending(v)' => tx[v].id \in 1..lastId /\ \A i \in 1..n : log'[i].id # tx[v].id
    BY <1>2, <1>5, <1>7 DEF IInv, IdsInv
  <2>3. \A u, v \in Writers : Pending(u)' /\ Pending(v)' /\ tx'[u].id = tx'[v].id => u = v
    BY <1>7 DEF IInv, IdsInv
  <2> QED
    BY <1>1, <1>2, <1>7, <2>1, <2>2, <2>3 DEF IdsInv
<1>9. Overtaken'
  <2> SUFFICES ASSUME NEW v \in Writers, NEW i \in 1..n, Pending(v)', log'[i].id > tx'[v].id
               PROVE  tx'[v].of \in Games /\ log'[i].of # tx'[v].of
    BY <1>2 DEF Overtaken
  <2>1. v # w /\ Pending(v) /\ tx'[v] = tx[v] /\ tx[v].at # "idle"
    BY <1>7 DEF Pending
  <2>2. CASE i \in 1..Len(log)
    BY <1>2, <2>1, <2>2 DEF IInv, Overtaken
  <2>3. CASE i = n
    <3>1. tx[v].of # tx[w].of /\ tx[v].of # Session
      BY <1>1, <2>1 DEF IInv, LocksInv
    <3>2. tx[v].of \in Aggregates
      BY DEF TypeOK
    <3> QED
      BY <1>2, <2>1, <2>3, <3>1, <3>2 DEF Aggregates
  <2> QED
    BY <1>5, <2>2, <2>3
<1>10. ReaderInv'
  BY <1>1, <1>2 DEF IInv, ReaderInv, Ids
\* What the reader goes on from is above the new event, if that is missed.
<1>11. ASSUME x <= since
       PROVE  \E k \in 1..Len(log) : log[k].id > x /\ log[k].id \in seen
  <2>1. since # 0 /\ since \in Nat
    BY <1>4, <1>11 DEF TypeOK
  <2>2. PICK k \in 1..Len(log) : log[k].id = since /\ since \in seen
    BY <1>2, <2>1 DEF IInv, ReaderInv, Ids
  <2> QED
    BY <1>4, <1>11, <2>1, <2>2
<1>12. \A k \in 1..Len(log) : log[k].id > x => tx[w].of \in Games /\ log[k].of # tx[w].of
  BY <1>1, <1>2 DEF IInv, Overtaken
<1>13. OnlyOthersOvertake'
  <2> SUFFICES ASSUME NEW i \in 1..n, NEW j \in 1..n, i < j, log'[i].id > log'[j].id
               PROVE  log'[j].of \in Games /\ log'[i].of # log'[j].of
    BY <1>2 DEF OnlyOthersOvertake
  <2>1. i \in 1..Len(log)
    BY <1>2
  <2>2. CASE j \in 1..Len(log)
    BY <1>2, <2>1, <2>2 DEF Props, OnlyOthersOvertake
  <2>3. CASE j = n
    BY <1>2, <1>12, <2>1, <2>3
  <2> QED
    BY <1>5, <2>2, <2>3
<1>14. SessionEventsDelivered'
  <2> SUFFICES ASSUME NEW i \in 1..n, log'[i].of = Session, log'[i].id <= since
               PROVE  log'[i].id \in seen
    BY <1>1, <1>2 DEF SessionEventsDelivered
  <2>1. CASE i \in 1..Len(log)
    BY <1>2, <2>1 DEF Props, SessionEventsDelivered
  <2>2. CASE i = n
    BY <1>2, <1>11, <1>12, <2>2, SessionAssumption
  <2> QED
    BY <1>5, <2>1, <2>2
<1>15. MissedWereLate'
  <2> SUFFICES ASSUME NEW j \in 1..n, log'[j].id <= since, log'[j].id \notin seen
               PROVE  \E i \in 1..(j - 1) : log'[i].id > log'[j].id /\ log'[i].id \in seen
    BY <1>1, <1>2 DEF MissedWereLate
  <2>1. CASE j \in 1..Len(log)
    <3>1. PICK i \in 1..(j - 1) : log[i].id > log[j].id /\ log[i].id \in seen
      BY <1>2, <2>1 DEF Props, MissedWereLate
    <3>2. i \in 1..Len(log)
      BY <1>2, <2>1
    <3> QED
      BY <1>2, <2>1, <3>1, <3>2
  <2>2. CASE j = n
    <3>1. PICK k \in 1..Len(log) : log[k].id > x /\ log[k].id \in seen
      BY <1>2, <1>11, <2>2
    <3>2. k \in 1..(j - 1)
      BY <1>2, <2>2
    <3> QED
      BY <1>2, <2>2, <3>1, <3>2
  <2> QED
    BY <1>5, <2>1, <2>2
<1> QED
  BY <1>3, <1>6, <1>8, <1>9, <1>10, <1>13, <1>14, <1>15 DEF IInv, Props

\* Of the events up to nextSince, those the reader has not seen were there to
\* be missed before.
LEMMA PollStep ==
  ASSUME TypeOK, IInv, Props, Poll
  PROVE  TypeOK' /\ IInv' /\ Props'
<1>1. /\ Ids \in SUBSET Nat /\ Page \in SUBSET Ids
      /\ NextSince \in Nat /\ since <= NextSince
      /\ IF Page = {} THEN NextSince = since ELSE NextSince \in Page
      /\ \A e \in Ids : since < e /\ e <= NextSince => e \in Page
  BY PageFacts DEF IInv
<1>2. /\ since' = NextSince /\ seen' = seen \cup Page /\ UNCHANGED <<lastId, tx, log>>
      /\ Ids' = Ids /\ since \in Nat
  BY DEF Poll, Ids, TypeOK
<1>3. TypeOK'
  BY <1>1, <1>2 DEF TypeOK
<1>4. IdsInv' /\ LocksInv' /\ Overtaken'
  BY <1>2 DEF IInv, IdsInv, LocksInv, Overtaken, Pending
<1>5. ReaderInv'
  BY <1>1, <1>2 DEF IInv, ReaderInv
<1>6. \A j \in DOMAIN log : log[j].id <= since' => log[j].id <= since \/ log[j].id \in seen'
  BY <1>1, <1>2 DEF Ids
<1>7. Props'
  <2>1. OnlyOthersOvertake'
    BY <1>2 DEF Props, OnlyOthersOvertake
  <2>2. SessionEventsDelivered'
    BY <1>2, <1>6 DEF Props, SessionEventsDelivered
  <2>3. MissedWereLate'
    BY <1>2, <1>6 DEF Props, MissedWereLate
  <2> QED
    BY <2>1, <2>2, <2>3 DEF Props
<1> QED
  BY <1>3, <1>4, <1>5, <1>7 DEF IInv

-----------------------------------------------------------------------------
(* Theorems *)

\* The invariant holds at first and every step keeps it.
LEMMA Invariance == Spec => [](TypeOK /\ IInv /\ Props)
<1>1. Init => TypeOK /\ IInv /\ Props
  BY DEF Init, TypeOK, IInv, IdsInv, LocksInv, Overtaken, ReaderInv, Props, Pending, IdleTx, Aggregates,
     OnlyOthersOvertake, SessionEventsDelivered, MissedWereLate
<1>2. TypeOK /\ IInv /\ Props /\ [Next]_vars => (TypeOK /\ IInv /\ Props)'
  <2> SUFFICES ASSUME TypeOK, IInv, Props, [Next]_vars PROVE TypeOK' /\ IInv' /\ Props'
    OBVIOUS
  <2>1. ASSUME NEW w \in Writers, NEW g \in Games, LockGame(w, g) PROVE TypeOK' /\ IInv' /\ Props'
    BY <2>1, LockGameStep
  <2>2. ASSUME NEW w \in Writers, LockSession(w) PROVE TypeOK' /\ IInv' /\ Props'
    BY <2>2, LockSessionStep
  <2>3. ASSUME NEW w \in Writers, InsertOutbox(w) PROVE TypeOK' /\ IInv' /\ Props'
    BY <2>3, InsertStep
  <2>4. ASSUME NEW w \in Writers, CheckForeignKey(w) PROVE TypeOK' /\ IInv' /\ Props'
    BY <2>4, CheckForeignKeyStep
  <2>5. ASSUME NEW w \in Writers, Commit(w) PROVE TypeOK' /\ IInv' /\ Props'
    BY <2>5, CommitStep
  <2>6. ASSUME NEW w \in Writers, Rollback(w) PROVE TypeOK' /\ IInv' /\ Props'
    BY <2>6, RollbackStep
  <2>7. CASE Poll
    BY <2>7, PollStep
  <2>8. CASE UNCHANGED vars
    BY <2>8 DEF vars, TypeOK, IInv, IdsInv, LocksInv, Overtaken, ReaderInv, Props, Pending, Ids,
       OnlyOthersOvertake, SessionEventsDelivered, MissedWereLate
  <2> QED
    BY <2>1, <2>2, <2>3, <2>4, <2>5, <2>6, <2>7, <2>8 DEF Next
<1> QED
  BY <1>1, <1>2, PTL DEF Spec

\* The state of the outbox, its writers and its reader has its types.
THEOREM TypeCorrect == Spec => []TypeOK
BY Invariance, PTL

\* Only a game's event is overtaken, never by one of its own game (LockGame
\* before InsertOutbox).
THEOREM OvertakenOnlyByOthers == Spec => []OnlyOthersOvertake
BY Invariance, PTL DEF Props

\* A reader that follows nextSince is given every absence and swap.
THEOREM ReaderGetsSessionEvents == Spec => []SessionEventsDelivered
BY Invariance, PTL DEF Props

\* What a reader misses was committed after an event it was given before.
THEOREM MissesOnlyLate == Spec => []MissedWereLate
BY Invariance, PTL DEF Props

=============================================================================
