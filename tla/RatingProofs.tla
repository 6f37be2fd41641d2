---------------------------- MODULE RatingProofs ----------------------------
(***************************************************************************)
(* Proofs about RatingLedger: no source is counted twice, a fingerprint    *)
(* vouches for events, and the ratings are the replay of the events.  None *)
(* of it follows from the advisory lock, which comes after the snapshot:   *)
(* an operation may compute from tables that have changed while it waited. *)
(* The first two follow from the row of the source in rating_sources,      *)
(* which everything writes that ingests, reverts or removes the source:    *)
(* what an operation has seen of a source is still so when nobody has      *)
(* written that row since.  The third follows from the rows of             *)
(* rating_players in the same way, one player at a time.  It is of the      *)
(* deltas as they were written last, with the placeholders an ingest has   *)
(* counted and without those a rebuild has not found.                      *)
(***************************************************************************)
EXTENDS RatingLedger, WellFoundedInduction, TLAPS

-----------------------------------------------------------------------------
(* Replays: what one event after the other makes of the ratings.  The      *)
(* provers have no induction of their own; that a set of numbers with a    *)
(* member less than all others has one serves for it.                      *)

LEMMA DateInduction ==
  ASSUME NEW S, 0 \in S, \A d \in Sources : d - 1 \in S => d \in S
  PROVE  0 .. Last \subseteq S
<1> DEFINE Less == {ss \in Nat \X Nat : ss[1] < ss[2]}
           T == (0 .. Last) \ S
<1> SUFFICES ASSUME T # {} PROVE FALSE
  OBVIOUS
<1>1. IsWellFoundedOn(Less, Nat)
  BY NatLessThanWellFounded DEF OpToRel
<1>2. T \subseteq Nat
  BY SourcesAssumption
<1>3. PICK d \in T : \A c \in T : ~(<<c, d>> \in Less)
  <2> HIDE DEF Less, T
  <2> QED
    BY <1>1, <1>2, WFMin
<1>4. d \in Sources /\ d - 1 \in 0 .. Last /\ <<d - 1, d>> \in Less
  BY SourcesAssumption DEF Sources
<1>5. d - 1 \in S
  BY <1>3, <1>4
<1> QED
  BY <1>4, <1>5

\* What one day makes of the ratings.
Day(r, evs, d) ==
  LET today == {e \in evs : e.src = d}
  IN IF today = {} THEN r ELSE Play(r, CHOOSE e \in today : TRUE)

\* The recursive definition has a solution.
LEMMA DaysDefined ==
  ASSUME NEW evs, NEW base
  PROVE  Days(evs, base) =
           [d \in 0 .. Last |-> IF d = 0 THEN base ELSE Day(Days(evs, base)[d - 1], evs, d)]
<1> DEFINE Up(f, n) == f = [d \in 0 .. n |-> IF d = 0 THEN base ELSE Day(f[d - 1], evs, d)]
           S == {n \in 0 .. Last : \E f : Up(f, n)}
<1>1. 0 \in S
  <2>1. 0 \in 0 .. Last
    BY SourcesAssumption
  <2>2. Up([d \in 0 .. 0 |-> base], 0)
    OBVIOUS
  <2> QED
    BY <2>1, <2>2
<1>2. ASSUME NEW n \in Sources, n - 1 \in S PROVE n \in S
  <2>1. n \in Nat /\ n - 1 \in Nat /\ n # 0 /\ n \in 0 .. Last
    BY SourcesAssumption DEF Sources
  <2>2. PICK f : Up(f, n - 1)
    BY <1>2
  <2> DEFINE g == [d \in 0 .. n |-> IF d = n THEN Day(f[n - 1], evs, n) ELSE f[d]]
  <2>3. ASSUME NEW d \in 0 .. n
        PROVE  g[d] = IF d = 0 THEN base ELSE Day(g[d - 1], evs, d)
    <3>1. CASE d = 0
      BY <2>1, <2>2, <3>1
    <3>2. CASE d # 0 /\ d # n
      <4>1. d \in 0 .. n - 1 /\ d - 1 \in 0 .. n /\ d - 1 # n
        BY <2>1, <3>2
      <4> QED
        BY <2>2, <3>2, <4>1
    <3>3. CASE d = n
      <4>1. n - 1 \in 0 .. n /\ n - 1 # n
        BY <2>1
      <4> QED
        BY <2>1, <3>3, <4>1
    <3> QED
      BY <3>1, <3>2, <3>3
  <2>4. Up(g, n)
    BY <2>3
  <2> QED
    BY <2>1, <2>4
<1>3. \E f : Up(f, Last)
  <2> HIDE DEF Up
  <2>1. 0 .. Last \subseteq S
    BY <1>1, <1>2, DateInduction
  <2> QED
    BY <2>1, SourcesAssumption
<1> QED
  BY <1>3 DEF Days, Day

LEMMA DayByDay ==
  ASSUME NEW evs, NEW base
  PROVE  /\ Days(evs, base)[0] = base
         /\ \A d \in Sources : Days(evs, base)[d] = Day(Days(evs, base)[d - 1], evs, d)
<1>1. 0 \in 0 .. Last /\ \A d \in Sources : d \in 0 .. Last /\ d # 0
  BY SourcesAssumption DEF Sources
<1> DEFINE f == Days(evs, base)
<1>2. f = [d \in 0 .. Last |-> IF d = 0 THEN base ELSE Day(f[d - 1], evs, d)]
  BY DaysDefined
<1> HIDE DEF f
<1>3. \A d \in 0 .. Last : f[d] = IF d = 0 THEN base ELSE Day(f[d - 1], evs, d)
  BY <1>2
<1> QED
  BY <1>1, <1>3 DEF f

\* Events of the sources, one version of each.
Single(evs) ==
  /\ \A e \in evs : e.src \in Sources
  /\ \A d, e \in evs : d.src = e.src => d = e

LEMMA OneADay ==
  ASSUME NEW evs, Single(evs), NEW r
  PROVE  /\ \A e \in evs : Day(r, evs, e.src) = Play(r, e)
         /\ \A d : (\A e \in evs : e.src # d) => Day(r, evs, d) = r
<1>1. ASSUME NEW e \in evs PROVE Day(r, evs, e.src) = Play(r, e)
  <2>1. {d \in evs : d.src = e.src} = {e}
    BY DEF Single
  <2> QED
    BY <2>1 DEF Day
<1>2. ASSUME NEW d, \A e \in evs : e.src # d PROVE Day(r, evs, d) = r
  BY <1>2 DEF Day
<1> QED
  BY <1>1, <1>2

\* Ratings of all players.
Table(r) == r = [p \in Players |-> r[p]]

\* What is added to a player's rating.
Entry(r, e, p) ==
  <<e.src, e.ver, [q \in Opponents(e.src, p) |-> r[q]], IF e.plain THEN 0 ELSE Unknown(e.src, p)>>

\* What an event does to one player.
LEMMA PlayOne ==
  ASSUME NEW r, Table(r), NEW e, e.src \in Sources
  PROVE  /\ Table(Play(r, e))
         /\ PlayersOf(e.src) \subseteq Players /\ PlayersOf(e.src) # {}
         /\ \A p \in PlayersOf(e.src) : Opponents(e.src, p) \subseteq PlayersOf(e.src)
         /\ \A p \in PlayersOf(e.src) :
              Play(r, e)[p] = Append(r[p], Entry(r, e, p))
         /\ \A p \in Players \ PlayersOf(e.src) : Play(r, e)[p] = r[p]
<1>1. PlayersOf(e.src) \subseteq Players /\ PlayersOf(e.src) # {}
  BY SidesAssumption DEF PlayersOf
<1>2. \A p \in PlayersOf(e.src) : Opponents(e.src, p) \subseteq PlayersOf(e.src)
  BY DEF PlayersOf, Opponents
<1>3. DOMAIN r = Players
  BY DEF Table
<1>4. Play(r, e) = [p \in Players |-> IF p \in PlayersOf(e.src)
              THEN Append(r[p], Entry(r, e, p)) ELSE r[p]]
  BY <1>3 DEF Play, Entry
<1>5. Table(Play(r, e))
  BY <1>4 DEF Table
<1> QED
  BY <1>1, <1>2, <1>4, <1>5

LEMMA DayIsTable ==
  ASSUME NEW r, Table(r), NEW evs, Single(evs), NEW d
  PROVE  Table(Day(r, evs, d))
<1>1. CASE \A e \in evs : e.src # d
  BY <1>1, OneADay
<1>2. CASE \E e \in evs : e.src = d
  BY <1>2, OneADay, PlayOne DEF Single
<1> QED
  BY <1>1, <1>2

LEMMA DaysAreTables ==
  ASSUME NEW base, Table(base), NEW evs, Single(evs)
  PROVE  \A d \in 0 .. Last : Table(Days(evs, base)[d])
<1> DEFINE S == {d \in 0 .. Last : Table(Days(evs, base)[d])}
<1>1. 0 \in S
  BY DayByDay, SourcesAssumption
<1>2. ASSUME NEW d \in Sources, d - 1 \in S PROVE d \in S
  <2>1. Days(evs, base)[d] = Day(Days(evs, base)[d - 1], evs, d)
    BY DayByDay
  <2>2. d \in 0 .. Last
    BY SourcesAssumption DEF Sources
  <2> QED
    BY <1>2, <2>1, <2>2, DayIsTable
<1> HIDE DEF S
<1>3. 0 .. Last \subseteq S
  BY <1>1, <1>2, DateInduction
<1> QED
  BY <1>3 DEF S

LEMMA LastDay ==
  ASSUME NEW base, NEW evs
  PROVE  Replay(evs, base) = Days(evs, base)[Last] /\ Last \in 0 .. Last
BY SourcesAssumption DEF Replay

\* Players who meet only each other are rated by the events of their own.
LEMMA Locality ==
  ASSUME NEW X, Single(X), NEW Y, Y \subseteq X, NEW Q, Q \subseteq Players,
         \A e \in Y : PlayersOf(e.src) \subseteq Q,
         \A e \in X \ Y : PlayersOf(e.src) \cap Q = {},
         NEW b, Table(b), NEW c, Table(c), \A p \in Q : b[p] = c[p]
  PROVE  \A p \in Q : Replay(X, b)[p] = Replay(Y, c)[p]
<1> DEFINE S == {d \in 0 .. Last : \A p \in Q : Days(X, b)[d][p] = Days(Y, c)[d][p]}
<1>1. 0 \in S
  BY DayByDay, SourcesAssumption
<1>2. ASSUME NEW d \in Sources, d - 1 \in S PROVE d \in S
  <2> DEFINE r == Days(X, b)[d - 1]
             t == Days(Y, c)[d - 1]
  <2>1. d \in 0 .. Last /\ d - 1 \in 0 .. Last
    BY SourcesAssumption DEF Sources
  <2>2. Days(X, b)[d] = Day(r, X, d) /\ Days(Y, c)[d] = Day(t, Y, d)
    BY DayByDay
  <2>3. Single(Y)
    BY DEF Single
  <2>4. Table(r) /\ Table(t)
    BY <2>1, <2>3, DaysAreTables
  <2>5. \A p \in Q : r[p] = t[p]
    BY <1>2
  <2> HIDE DEF r, t
  <2>6. ASSUME NEW p \in Q PROVE Day(r, X, d)[p] = Day(t, Y, d)[p]
    <3>1. CASE \A e \in X : e.src # d
      BY <2>3, <2>5, <3>1, OneADay
    <3>2. CASE \E e \in Y : e.src = d
      <4>1. PICK e \in Y : e.src = d
        BY <3>2
      <4>2. Day(r, X, d) = Play(r, e) /\ Day(t, Y, d) = Play(t, e) /\ e.src \in Sources
        BY <2>3, <4>1, OneADay DEF Single
      <4>3. CASE p \in PlayersOf(e.src)
        <5>1. Opponents(e.src, p) \subseteq Q
          BY <2>4, <4>2, <4>3, PlayOne
        <5>2. Entry(r, e, p) = Entry(t, e, p)
          BY <2>5, <5>1 DEF Entry
        <5>3. /\ Play(r, e)[p] = Append(r[p], Entry(r, e, p))
              /\ Play(t, e)[p] = Append(t[p], Entry(t, e, p))
          BY <2>4, <4>2, <4>3, PlayOne
        <5> QED
          BY <2>5, <4>2, <5>2, <5>3
      <4>4. CASE p \notin PlayersOf(e.src)
        <5>1. Play(r, e)[p] = r[p] /\ Play(t, e)[p] = t[p]
          BY <2>4, <4>2, <4>4, PlayOne
        <5> QED
          BY <2>5, <4>2, <5>1
      <4> QED
        BY <4>3, <4>4
    <3>3. CASE \E e \in X \ Y : e.src = d
      <4>1. PICK e \in X \ Y : e.src = d
        BY <3>3
      <4>2. \A f \in Y : f.src # d
        BY <4>1 DEF Single
      <4>3. Day(r, X, d) = Play(r, e) /\ Day(t, Y, d) = t /\ e.src \in Sources
        BY <2>3, <4>1, <4>2, OneADay DEF Single
      <4>4. p \notin PlayersOf(e.src)
        BY <4>1
      <4>5. Play(r, e)[p] = r[p]
        BY <2>4, <4>3, <4>4, PlayOne
      <4> QED
        BY <2>5, <4>3, <4>5
    <3> QED
      BY <3>1, <3>2, <3>3
  <2> QED
    BY <2>1, <2>2, <2>6
<1> HIDE DEF S
<1>3. 0 .. Last \subseteq S
  BY <1>1, <1>2, DateInduction
<1> QED
  BY <1>3, LastDay DEF S

LEMMA SameBase ==
  ASSUME NEW X, Single(X), NEW Q, Q \subseteq Players,
         \A e \in X : PlayersOf(e.src) \subseteq Q,
         NEW b, Table(b), NEW c, Table(c), \A p \in Q : b[p] = c[p]
  PROVE  \A p \in Q : Replay(X, b)[p] = Replay(X, c)[p]
<1> DEFINE Y == X
<1>1. /\ Y \subseteq X /\ \A e \in X \ Y : PlayersOf(e.src) \cap Q = {}
      /\ \A e \in Y : PlayersOf(e.src) \subseteq Q
  OBVIOUS
<1> HIDE DEF Y
<1>2. \A p \in Q : Replay(X, b)[p] = Replay(Y, c)[p]
  BY <1>1, Locality
<1> QED
  BY <1>2 DEF Y

\* Who has no event keeps the rating of the base.
LEMMA Bystander ==
  ASSUME NEW X, Single(X), NEW b, Table(b), NEW p \in Players, p \notin PlayersIn(X)
  PROVE  Replay(X, b)[p] = b[p]
<1> DEFINE S == {d \in 0 .. Last : Days(X, b)[d][p] = b[p]}
<1>1. 0 \in S
  BY DayByDay, SourcesAssumption
<1>2. ASSUME NEW d \in Sources, d - 1 \in S PROVE d \in S
  <2>1. d \in 0 .. Last /\ Days(X, b)[d] = Day(Days(X, b)[d - 1], X, d)
    BY DayByDay, SourcesAssumption DEF Sources
  <2>2. Table(Days(X, b)[d - 1])
    BY DaysAreTables, <1>2
  <2>3. CASE \A e \in X : e.src # d
    BY <1>2, <2>1, <2>3, OneADay
  <2>4. CASE \E e \in X : e.src = d
    <3>1. PICK e \in X : e.src = d
      BY <2>4
    <3>2. Days(X, b)[d] = Play(Days(X, b)[d - 1], e) /\ e.src \in Sources
      BY <2>1, <3>1, OneADay DEF Single
    <3>3. p \notin PlayersOf(e.src)
      BY <3>1 DEF PlayersIn
    <3> DEFINE r == Days(X, b)[d - 1]
    <3>4. Play(r, e)[p] = r[p]
      <4> HIDE DEF r
      <4> QED
        BY <2>2, <3>2, <3>3, PlayOne DEF r
    <3> QED
      BY <1>2, <2>1, <3>2, <3>4
  <2> QED
    BY <2>3, <2>4
<1> HIDE DEF S
<1>3. 0 .. Last \subseteq S
  BY <1>1, <1>2, DateInduction
<1> QED
  BY <1>3, LastDay DEF S

\* Events whose players do not meet may be played in either order.
LEMMA Commute ==
  ASSUME NEW r, Table(r), NEW d, d.src \in Sources, NEW e, e.src \in Sources,
         PlayersOf(d.src) \cap PlayersOf(e.src) = {}
  PROVE  Play(Play(r, d), e) = Play(Play(r, e), d)
<1> DEFINE rd == Play(r, d)
           re == Play(r, e)
<1>1. /\ Table(rd) /\ Table(re) /\ Table(Play(rd, e)) /\ Table(Play(re, d))
  BY PlayOne
<1> HIDE DEF rd, re
<1>2. ASSUME NEW p \in Players PROVE Play(rd, e)[p] = Play(re, d)[p]
  <2>1. CASE p \in PlayersOf(d.src)
    <3>1. p \notin PlayersOf(e.src)
      BY <2>1
    <3>2. re[p] = r[p] /\ Play(rd, e)[p] = rd[p]
      BY <1>1, <3>1, PlayOne DEF re
    <3>3. rd[p] = Append(r[p], Entry(r, d, p)) /\ Play(re, d)[p] = Append(re[p], Entry(re, d, p))
      <4>1. rd[p] = Append(r[p], Entry(r, d, p))
        BY <2>1, PlayOne DEF rd
      <4>2. Play(re, d)[p] = Append(re[p], Entry(re, d, p))
        BY <1>1, <2>1, PlayOne
      <4> QED
        BY <4>1, <4>2
    <3>4. \A q \in Opponents(d.src, p) : re[q] = r[q]
      BY <2>1, PlayOne DEF re
    <3>5. Entry(re, d, p) = Entry(r, d, p)
      BY <3>4 DEF Entry
    <3> QED
      BY <3>2, <3>3, <3>5
  <2>2. CASE p \in PlayersOf(e.src)
    <3>1. p \notin PlayersOf(d.src)
      BY <2>2
    <3>2. rd[p] = r[p] /\ Play(re, d)[p] = re[p]
      BY <1>1, <3>1, PlayOne DEF rd
    <3>3. re[p] = Append(r[p], Entry(r, e, p)) /\ Play(rd, e)[p] = Append(rd[p], Entry(rd, e, p))
      <4>1. re[p] = Append(r[p], Entry(r, e, p))
        BY <2>2, PlayOne DEF re
      <4>2. Play(rd, e)[p] = Append(rd[p], Entry(rd, e, p))
        BY <1>1, <2>2, PlayOne
      <4> QED
        BY <4>1, <4>2
    <3>4. \A q \in Opponents(e.src, p) : rd[q] = r[q]
      BY <2>2, PlayOne DEF rd
    <3>5. Entry(rd, e, p) = Entry(r, e, p)
      BY <3>4 DEF Entry
    <3> QED
      BY <3>2, <3>3, <3>5
  <2>3. CASE p \notin PlayersOf(d.src) /\ p \notin PlayersOf(e.src)
    <3>1. rd[p] = r[p] /\ re[p] = r[p]
      BY <2>3, PlayOne DEF rd, re
    <3>2. Play(rd, e)[p] = rd[p] /\ Play(re, d)[p] = re[p]
      BY <1>1, <2>3, PlayOne
    <3> QED
      BY <3>1, <3>2
  <2> QED
    BY <2>1, <2>2, <2>3
<1>3. Play(rd, e) = Play(re, d)
  BY <1>1, <1>2 DEF Table
<1> QED
  BY <1>3 DEF rd, re

\* An event may be played after later ones whose players it does not know.
LEMMA Insertion ==
  ASSUME NEW X, Single(X), NEW e, e.src \in Sources,
         \A d \in X : d.src # e.src,
         \A d \in X : d.src > e.src => PlayersOf(d.src) \cap PlayersOf(e.src) = {},
         NEW b, Table(b)
  PROVE  Replay(X \cup {e}, b) = Play(Replay(X, b), e)
<1> DEFINE Y == X \cup {e}
           f == Days(X, b)
           g == Days(Y, b)
           S == {d \in 0 .. Last : g[d] = IF d < e.src THEN f[d] ELSE Play(f[d], e)}
<1>1. Single(Y)
  BY DEF Single
<1>2. /\ f[0] = b /\ g[0] = b
      /\ \A d \in Sources : f[d] = Day(f[d - 1], X, d) /\ g[d] = Day(g[d - 1], Y, d)
  BY DayByDay
<1>3. \A d \in 0 .. Last : Table(f[d])
  BY DaysAreTables
<1>4. e.src \in Nat /\ 0 < e.src /\ e.src <= Last /\ Last \in Nat
  BY SourcesAssumption DEF Sources
<1> HIDE DEF Y, f, g
<1>5. 0 \in S
  BY <1>2, <1>4
<1>6. ASSUME NEW d \in Sources, d - 1 \in S PROVE d \in S
  <2>1. d \in 0 .. Last /\ d - 1 \in 0 .. Last /\ d \in Nat
    BY SourcesAssumption DEF Sources
  <2>2. f[d] = Day(f[d - 1], X, d) /\ g[d] = Day(g[d - 1], Y, d) /\ Table(f[d - 1])
    BY <1>2, <1>3, <2>1
  <2>3. CASE d = e.src
    <3>1. g[d - 1] = f[d - 1]
      BY <1>4, <1>6, <2>3
    <3>2. g[d] = Play(g[d - 1], e)
      BY <1>1, <2>2, <2>3, OneADay DEF Y
    <3>3. f[d] = f[d - 1]
      BY <2>2, <2>3, OneADay
    <3> QED
      BY <1>4, <2>1, <2>3, <3>1, <3>2, <3>3
  <2>4. CASE d # e.src /\ \A x \in X : x.src # d
    <3>1. \A x \in Y : x.src # d
      BY <2>4 DEF Y
    <3>2. g[d] = g[d - 1] /\ f[d] = f[d - 1]
      BY <1>1, <2>2, <2>4, <3>1, OneADay
    <3>3. (d - 1 < e.src) <=> (d < e.src)
      BY <1>4, <2>1, <2>4
    <3> QED
      BY <1>6, <2>1, <3>2, <3>3
  <2>5. CASE \E x \in X : x.src = d
    <3>1. PICK x \in X : x.src = d
      BY <2>5
    <3>2. g[d] = Play(g[d - 1], x) /\ f[d] = Play(f[d - 1], x) /\ x \in Y /\ x.src \in Sources
      <4>1. x \in Y
        BY DEF Y
      <4> QED
        BY <1>1, <2>2, <3>1, <4>1, OneADay DEF Single
    <3>3. CASE d < e.src
      <4>1. d - 1 < e.src
        BY <1>4, <2>1, <3>3
      <4> QED
        BY <1>6, <2>1, <3>2, <3>3, <4>1
    <3>4. CASE ~(d < e.src)
      <4>1. d > e.src /\ ~(d - 1 < e.src)
        BY <1>4, <2>1, <3>1, <3>4
      <4>2. g[d - 1] = Play(f[d - 1], e)
        BY <1>6, <4>1
      <4>3. PlayersOf(x.src) \cap PlayersOf(e.src) = {}
        BY <3>1, <4>1
      <4>4. Play(Play(f[d - 1], e), x) = Play(Play(f[d - 1], x), e)
        BY <2>2, <3>2, <4>3, Commute
      <4> QED
        BY <2>1, <3>2, <3>4, <4>2, <4>4
    <3> QED
      BY <3>3, <3>4
  <2> QED
    BY <2>3, <2>4, <2>5
<1> HIDE DEF S
<1>7. 0 .. Last \subseteq S
  BY <1>5, <1>6, DateInduction
<1>8. g[Last] = Play(f[Last], e)
  BY <1>4, <1>7 DEF S
<1> QED
  BY <1>8, LastDay DEF Y, f, g

\* A rating that has been formed.
IsRating(s) == s # <<>> /\ \E R : s \in Seq(R)

LEMMA AppendRating ==
  ASSUME NEW s, IsRating(s), NEW x
  PROVE  IsRating(Append(s, x)) /\ Append(s, x)[1] = s[1]
<1> PICK R : s \in Seq(R)
  BY DEF IsRating
<1>1. s \in Seq(R \cup {x})
  OBVIOUS
<1>2. Append(s, x) \in Seq(R \cup {x}) /\ Append(s, x) # <<>>
  BY <1>1
<1>3. Len(s) \in Nat /\ Len(s) # 0
  BY DEF IsRating
<1> QED
  BY <1>1, <1>2, <1>3 DEF IsRating

\* A replay keeps what the players were formed at.
LEMMA ReplayKeepsTier ==
  ASSUME NEW X, Single(X), NEW b, Table(b), \A p \in Players : IsRating(b[p])
  PROVE  /\ Table(Replay(X, b))
         /\ \A p \in Players : IsRating(Replay(X, b)[p]) /\ Replay(X, b)[p][1] = b[p][1]
<1> DEFINE Kept(r) == \A p \in Players : IsRating(r[p]) /\ r[p][1] = b[p][1]
           S == {d \in 0 .. Last : Kept(Days(X, b)[d])}
<1>1. 0 \in S
  BY DayByDay, SourcesAssumption
<1>2. ASSUME NEW d \in Sources, d - 1 \in S PROVE d \in S
  <2> DEFINE r == Days(X, b)[d - 1]
  <2>1. d \in 0 .. Last /\ Days(X, b)[d] = Day(r, X, d)
    BY DayByDay, SourcesAssumption DEF Sources
  <2>2. Table(r) /\ Kept(r)
    BY DaysAreTables, <1>2
  <2> HIDE DEF r
  <2>3. CASE \A e \in X : e.src # d
    BY <2>1, <2>2, <2>3, OneADay
  <2>4. CASE \E e \in X : e.src = d
    <3>1. PICK e \in X : e.src = d
      BY <2>4
    <3>2. Days(X, b)[d] = Play(r, e) /\ e.src \in Sources
      BY <2>1, <3>1, OneADay DEF Single
    <3>3. ASSUME NEW p \in Players PROVE IsRating(Play(r, e)[p]) /\ Play(r, e)[p][1] = b[p][1]
      <4>1. IsRating(r[p]) /\ r[p][1] = b[p][1]
        BY <2>2
      <4>2. Play(r, e)[p] = r[p] \/ Play(r, e)[p] = Append(r[p], Entry(r, e, p))
        BY <2>2, <3>2, PlayOne
      <4> QED
        BY <4>1, <4>2, AppendRating
    <3> QED
      BY <2>1, <3>2, <3>3
  <2> QED
    BY <2>3, <2>4
<1> HIDE DEF S
<1>3. 0 .. Last \subseteq S
  BY <1>1, <1>2, DateInduction
<1>4. Kept(Replay(X, b))
  BY <1>3, LastDay DEF S
<1> QED
  BY <1>4, LastDay, DaysAreTables

-----------------------------------------------------------------------------
(* Ratings that are a replay *)

\* What a player with a rating was formed at.
Base(r) == [p \in Players |-> IF r[p] # NoRating THEN <<r[p][1]>> ELSE <<NoTier>>]

\* As far as the players Q go, the ratings r are the replay of the events.
Exact(r, evs, Q) ==
  \A p \in Q : IF r[p] # NoRating THEN r[p] = Replay(evs, Base(r))[p] ELSE p \notin PlayersIn(evs)

LEMMA Singleton ==
  ASSUME NEW x
  PROVE  IsRating(<<x>>) /\ <<x>>[1] = x
<1>1. <<x>> \in Seq({x}) /\ <<x>> # <<>>
  OBVIOUS
<1> QED
  BY <1>1 DEF IsRating

LEMMA BaseTable ==
  ASSUME NEW r
  PROVE  Table(Base(r)) /\ \A p \in Players : IsRating(Base(r)[p])
BY Singleton DEF Base, Table

LEMMA ExactIsLocal ==
  ASSUME NEW r, NEW t, NEW X, Single(X), NEW Y, Y \subseteq X, NEW Q, Q \subseteq Players,
         \A p \in Q : t[p] = r[p],
         \A e \in Y : PlayersOf(e.src) \subseteq Q,
         \A e \in X \ Y : PlayersOf(e.src) \cap Q = {},
         Exact(r, Y, Q)
  PROVE  Exact(t, X, Q)
<1> SUFFICES ASSUME NEW p \in Q
             PROVE  IF t[p] # NoRating THEN t[p] = Replay(X, Base(t))[p] ELSE p \notin PlayersIn(X)
  BY DEF Exact
<1>1. IF r[p] # NoRating THEN r[p] = Replay(Y, Base(r))[p] ELSE p \notin PlayersIn(Y)
  BY DEF Exact
<1>2. t[p] = r[p]
  OBVIOUS
<1>3. \A q \in Q : Base(t)[q] = Base(r)[q]
  BY DEF Base
<1>4. Replay(X, Base(t))[p] = Replay(Y, Base(r))[p]
  <2> DEFINE bt == Base(t)
             br == Base(r)
  <2>1. Table(bt) /\ Table(br)
    BY BaseTable
  <2>2. \A q \in Q : bt[q] = br[q]
    BY <1>3
  <2> HIDE DEF bt, br
  <2>3. \A q \in Q : Replay(X, bt)[q] = Replay(Y, br)[q]
    BY <2>1, <2>2, Locality
  <2> QED
    BY <2>3 DEF bt, br
<1>5. p \notin PlayersIn(Y) => p \notin PlayersIn(X)
  BY DEF PlayersIn
<1> QED
  BY <1>1, <1>2, <1>4, <1>5

\* Two sets of events whose players do not meet.
LEMMA ExactTogether ==
  ASSUME NEW r, NEW Y, NEW Z, Single(Y \cup Z), NEW Q, Q \subseteq Players,
         PlayersIn(Y) \subseteq Q, PlayersIn(Z) \subseteq Players \ Q,
         Exact(r, Y, Q), Exact(r, Z, Players \ Q)
  PROVE  Exact(r, Y \cup Z, Players)
<1>1. \A e \in Y : PlayersOf(e.src) \subseteq Q
  BY DEF PlayersIn
<1>2. \A e \in Z : PlayersOf(e.src) \subseteq Players \ Q
  BY DEF PlayersIn
<1>3. Exact(r, Y \cup Z, Q)
  <2>1. Y \subseteq Y \cup Z /\ \A e \in (Y \cup Z) \ Y : PlayersOf(e.src) \cap Q = {}
    BY <1>2
  <2> QED
    BY <1>1, <2>1, ExactIsLocal
<1>4. Exact(r, Y \cup Z, Players \ Q)
  <2>1. Z \subseteq Y \cup Z /\ \A e \in (Y \cup Z) \ Z : PlayersOf(e.src) \cap (Players \ Q) = {}
    BY <1>1
  <2> QED
    BY <1>2, <2>1, ExactIsLocal
<1> QED
  BY <1>3, <1>4 DEF Exact

\* One more event: u are the ratings r with new players formed.
LEMMA ExactAfterEvent ==
  ASSUME NEW r, NEW u, Table(u), NEW e, e.src \in Sources, NEW X, Single(X),
         NEW Q, PlayersOf(e.src) \subseteq Q, Q \subseteq Players, Exact(r, X, Q),
         \A d \in X : d.src # e.src,
         \A d \in X : d.src > e.src => PlayersOf(d.src) \cap PlayersOf(e.src) = {},
         \A p \in PlayersIn(X) : r[p] # NoRating,
         \A p \in Players : u[p] # NoRating => IsRating(u[p]),
         \A p \in Players : \/ u[p] = r[p] /\ (p \in PlayersOf(e.src) => r[p] # NoRating)
                            \/ r[p] = NoRating /\ p \in PlayersOf(e.src) /\ \E x : u[p] = <<x>>
  PROVE  Exact(Play(u, e), X \cup {e}, Q)
<1> DEFINE t == Play(u, e)
           z == Replay(X, Base(u))
           K == {p \in Players : r[p] # NoRating}
<1>1. /\ Table(t) /\ PlayersOf(e.src) \subseteq Players
      /\ \A p \in PlayersOf(e.src) : Opponents(e.src, p) \subseteq PlayersOf(e.src)
      /\ \A p \in PlayersOf(e.src) : t[p] = Append(u[p], Entry(u, e, p))
      /\ \A p \in Players \ PlayersOf(e.src) : t[p] = u[p]
  <2>1. Table(u) /\ e.src \in Sources
    OBVIOUS
  <2> QED
    BY ONLY <2>1, PlayOne
<1>2. \A p \in Players : u[p] = NoRating => r[p] = NoRating /\ p \notin PlayersOf(e.src)
  BY Singleton DEF IsRating, NoRating
<1> HIDE DEF t
<1>3. \A p \in Players : /\ u[p] # NoRating => t[p] # NoRating /\ t[p][1] = u[p][1]
                         /\ u[p] = NoRating => t[p] = NoRating
  BY <1>1, <1>2, AppendRating DEF IsRating, NoRating
<1>4. Base(t) = Base(u)
  BY <1>3 DEF Base
<1>5. \A p \in Q : u[p] # NoRating => z[p] = u[p]
  <2> SUFFICES ASSUME NEW p \in Q, u[p] # NoRating PROVE z[p] = u[p]
    OBVIOUS
  <2>1. CASE r[p] # NoRating
    <3>1. u[p] = r[p] /\ \A q \in K : u[q] = r[q]
      BY <2>1
    <3>2. r[p] = Replay(X, Base(r))[p]
      BY <2>1 DEF Exact
    <3>3. \A q \in K : Base(u)[q] = Base(r)[q]
      BY <3>1 DEF Base
    <3>4. \A d \in X : PlayersOf(d.src) \subseteq K
      <4>1. \A d \in X : PlayersOf(d.src) \subseteq Players
        BY SidesAssumption DEF PlayersOf, Single
      <4> QED
        BY <4>1 DEF PlayersIn
    <3>5. p \in K
      BY <2>1
    <3> HIDE DEF K
    <3>6. z[p] = Replay(X, Base(r))[p]
      <4>1. K \subseteq Players
        BY DEF K
      <4>2. Table(Base(u)) /\ Table(Base(r))
        BY BaseTable
      <4>3. \A q \in K : Replay(X, Base(u))[q] = Replay(X, Base(r))[q]
        BY <3>3, <3>4, <4>1, <4>2, SameBase
      <4> QED
        BY <3>5, <4>3 DEF z
    <3> QED
      BY <3>1, <3>2, <3>6
  <2>2. CASE r[p] = NoRating
    <3>1. PICK x : u[p] = <<x>>
      BY <2>2
    <3>2. Base(u)[p] = u[p]
      BY <3>1, Singleton DEF Base
    <3>3. z[p] = Base(u)[p]
      BY <2>2, BaseTable, Bystander
    <3> QED
      BY <3>2, <3>3
  <2> QED
    BY <2>1, <2>2
<1>6. Replay(X \cup {e}, Base(t)) = Play(z, e)
  BY <1>4, BaseTable, Insertion
<1>7. /\ \A p \in PlayersOf(e.src) : Play(z, e)[p] = Append(z[p], Entry(z, e, p))
      /\ \A p \in Players \ PlayersOf(e.src) : Play(z, e)[p] = z[p]
  <2>1. Table(z)
    BY BaseTable, LastDay, DaysAreTables
  <2> HIDE DEF z
  <2> QED
    BY <2>1, PlayOne
<1> HIDE DEF z, K
<1>8. ASSUME NEW p \in Q
      PROVE  IF t[p] # NoRating THEN t[p] = Play(z, e)[p] ELSE p \notin PlayersIn(X \cup {e})
  <2>1. CASE p \in PlayersOf(e.src)
    <3>1. \A q \in PlayersOf(e.src) : z[q] = u[q]
      BY <1>2, <1>5
    <3>2. Entry(z, e, p) = Entry(u, e, p)
      BY <1>1, <2>1, <3>1 DEF Entry
    <3>3. t[p] # NoRating
      BY <1>2, <1>3, <2>1
    <3>4. t[p] = Append(u[p], Entry(u, e, p)) /\ Play(z, e)[p] = Append(z[p], Entry(z, e, p)) /\ z[p] = u[p]
      BY <1>1, <1>7, <2>1, <3>1
    <3> QED
      BY <3>2, <3>3, <3>4
  <2>2. CASE p \notin PlayersOf(e.src) /\ u[p] # NoRating
    BY <1>1, <1>3, <1>5, <1>7, <2>2
  <2>3. CASE p \notin PlayersOf(e.src) /\ u[p] = NoRating
    <3>1. t[p] = NoRating /\ r[p] = NoRating
      BY <1>2, <1>3, <2>3
    <3> QED
      BY <2>3, <3>1 DEF PlayersIn
  <2> QED
    BY <2>1, <2>2, <2>3
<1> QED
  BY <1>6, <1>8 DEF Exact, t

\* A rebuild of the players K from their tiers.
LEMMA ExactAfterRebuild ==
  ASSUME NEW t, NEW X, Single(X), NEW K, K \subseteq Players, PlayersIn(X) \subseteq K,
         NEW b, Table(b), \A p \in Players : b[p] = <<b[p][1]>>,
         \A p \in K : t[p] = Replay(X, b)[p]
  PROVE  Exact(t, X, K) /\ \A p \in K : IsRating(t[p])
<1>1. \A p \in Players : IsRating(b[p]) /\ b[p] = <<b[p][1]>>
  BY Singleton
<1>2. \A p \in K : IsRating(t[p]) /\ t[p][1] = b[p][1]
  BY <1>1, ReplayKeepsTier
<1>3. \A p \in K : Base(t)[p] = b[p]
  BY <1>1, <1>2 DEF Base, IsRating, NoRating
<1>4. \A e \in X : PlayersOf(e.src) \subseteq K
  BY DEF PlayersIn
<1>5. \A p \in K : Replay(X, Base(t))[p] = Replay(X, b)[p]
  <2>1. Table(Base(t))
    BY BaseTable
  <2> QED
    BY <1>3, <1>4, <2>1, SameBase
<1> QED
  BY <1>2, <1>5 DEF Exact, IsRating, NoRating

-----------------------------------------------------------------------------
(* Events and their deltas *)

\* The events with their deltas as the ledger has them.
Deltas(evs) == Computed(evs, plain)

LEMMA ComputedKeeps ==
  ASSUME NEW X, NEW b
  PROVE  /\ PlayersIn(Computed(X, b)) = PlayersIn(X)
         /\ Single(X) => Single(Computed(X, b))
         /\ \A d \in Computed(X, b) : \E e \in X : d.src = e.src
<1>1. \A d \in Computed(X, b) : \E e \in X : d = [src |-> e.src, ver |-> e.ver, plain |-> e \in b]
  BY DEF Computed
<1>2. \A e \in X : [src |-> e.src, ver |-> e.ver, plain |-> e \in b] \in Computed(X, b)
  BY DEF Computed
<1>3. PlayersIn(Computed(X, b)) = PlayersIn(X)
  <2>1. ASSUME NEW p \in PlayersIn(X) PROVE p \in PlayersIn(Computed(X, b))
    <3>1. PICK e \in X : p \in PlayersOf(e.src)
      BY <2>1 DEF PlayersIn
    <3>2. PICK d \in Computed(X, b) : d = [src |-> e.src, ver |-> e.ver, plain |-> e \in b]
      BY <1>2
    <3>3. p \in PlayersOf(d.src)
      <4>1. d.src = e.src
        BY ONLY <3>2
      <4> QED
        BY <3>1, <4>1
    <3> QED
      BY <3>3 DEF PlayersIn
  <2>2. ASSUME NEW p \in PlayersIn(Computed(X, b)) PROVE p \in PlayersIn(X)
    <3>1. PICK d \in Computed(X, b) : p \in PlayersOf(d.src)
      BY <2>2 DEF PlayersIn
    <3> QED
      BY <1>1, <3>1 DEF PlayersIn
  <2> QED
    BY <2>1, <2>2
<1>4. Single(X) => Single(Computed(X, b))
  BY <1>1 DEF Single
<1> QED
  BY <1>1, <1>3, <1>4

LEMMA ComputedTogether ==
  ASSUME NEW X, NEW Y, NEW b
  PROVE  Computed(X \cup Y, b) = Computed(X, b) \cup Computed(Y, b)
BY DEF Computed

\* Deltas nobody has written.
LEMMA SameDeltas ==
  ASSUME NEW X, NEW b, NEW c, \A e \in X : e \in b <=> e \in c
  PROVE  Computed(X, b) = Computed(X, c)
<1>1. \A e \in X : (e \in b) = (e \in c)
  OBVIOUS
<1> QED
  BY <1>1 DEF Computed

-----------------------------------------------------------------------------
(* The invariant of the tables *)

\* Tables whose events belong to sources that have a row.
Sound(db) ==
  /\ db.sources \in [Sources -> [there : BOOLEAN, ver : Nat, final : BOOLEAN]]
  /\ db.listed \in [Sources -> [row : BOOLEAN, fp : Nat, finalized : BOOLEAN]]
  /\ db.events \subseteq [src : Sources, ver : Nat]
  /\ \A e \in db.events : db.listed[e.src].row

Shape(o) ==
  /\ o = [kind |-> o.kind, src |-> o.src, cfg |-> o.cfg, at |-> o.at, snap |-> o.snap, raced |-> o.raced]
  /\ o.kind \in {"ingest", "revert", "delete"} => o.src \in Sources

OpsInv ==
  /\ op = [w \in Workers |-> op[w]]
  /\ \A w \in Workers : Shape(op[w])
  /\ todo \subseteq Sources

Holding(o) == o.at \in {"waiting", "running"}

\* What is still so of a source whose row nobody has written.
Current(o, s) == o.snap.listed[s] = listed[s] /\ \A e \in events : e.src = s => e \in o.snap.events

SeenInv ==
  \A w \in Workers : Holding(op[w]) =>
    /\ Sound(op[w].snap)
    /\ \A s \in Sources : <<"listed", s>> \notin op[w].raced => Current(op[w], s)

Backed == ~AutoReconcile => FingerprintBacked

IInv == Sound(Db) /\ OpsInv /\ SeenInv /\ OneVersionPerSource /\ Backed

-----------------------------------------------------------------------------

LEMMA InitIInv == Init => IInv
<1> SUFFICES ASSUME Init PROVE IInv
  OBVIOUS
<1>1. sources \in [Sources -> [there : BOOLEAN, ver : Nat, final : BOOLEAN]]
  <2>1. sources \in [Sources -> [there : {TRUE}, ver : 0 .. MaxVersion, final : BOOLEAN]]
    BY FirstAssumption DEF Init
  <2>2. [there : {TRUE}, ver : 0 .. MaxVersion, final : BOOLEAN]
          \subseteq [there : BOOLEAN, ver : Nat, final : BOOLEAN]
    <3>1. 0 .. MaxVersion \subseteq Nat
      BY ConfigAssumption
    <3>2. {TRUE} \subseteq BOOLEAN
      OBVIOUS
    <3> QED
      BY <3>1, <3>2, Zenon
  <2> QED
    BY <2>1, <2>2
<1>2. Sound(Db)
  BY <1>1 DEF Init, Sound, Db, Unlisted
<1>3. OpsInv /\ SeenInv
  BY DEF Init, OpsInv, SeenInv, Shape, Holding, Idle
<1>4. OneVersionPerSource /\ Backed
  BY DEF Init, OneVersionPerSource, Backed, FingerprintBacked, Unlisted
<1> QED
  BY <1>2, <1>3, <1>4 DEF IInv

-----------------------------------------------------------------------------
(* What a commit leaves *)

\* A change writes the row of a source whose events it adds.
Fitting(c) ==
  /\ DOMAIN c.listed \subseteq Sources
  /\ \A s \in DOMAIN c.listed : c.listed[s] \in [row : BOOLEAN, fp : Nat, finalized : BOOLEAN]
  /\ c.new \subseteq [src : Sources, ver : Nat]
  /\ \A e \in c.new : e.src \in DOMAIN c.listed

\* An operation with one field changed.
LEMMA WithAt ==
  ASSUME NEW o, Shape(o), NEW x
  PROVE  /\ Shape([o EXCEPT !.at = x]) /\ [o EXCEPT !.at = x].at = x
         /\ [o EXCEPT !.at = x].snap = o.snap /\ [o EXCEPT !.at = x].raced = o.raced
BY DEF Shape

LEMMA WithSnap ==
  ASSUME NEW o, Shape(o), NEW x
  PROVE  Shape([o EXCEPT !.snap = x]) /\ [o EXCEPT !.snap = x].snap = x
BY DEF Shape

LEMMA WithRaced ==
  ASSUME NEW o, Shape(o), NEW x
  PROVE  /\ Shape([o EXCEPT !.raced = @ \cup x])
         /\ [o EXCEPT !.raced = @ \cup x].raced = o.raced \cup x
         /\ [o EXCEPT !.raced = @ \cup x].at = o.at /\ [o EXCEPT !.raced = @ \cup x].snap = o.snap
BY DEF Shape

\* The tables keep their shape, and the others learn of the rows written.
LEMMA CommitKeeps ==
  ASSUME IInv, NEW w \in Workers, NEW c, NEW next, Fitting(c), Commit(w, c, next),
         Shape(next), ~Holding(next)
  PROVE  /\ sources' \in [Sources -> [there : BOOLEAN, ver : Nat, final : BOOLEAN]]
         /\ listed' \in [Sources -> [row : BOOLEAN, fp : Nat, finalized : BOOLEAN]]
         /\ events' \subseteq [src : Sources, ver : Nat]
         /\ \A s \in Sources : listed'[s] = IF s \in DOMAIN c.listed THEN c.listed[s] ELSE listed[s]
         /\ OpsInv' /\ SeenInv'
<1>1. sources' \in [Sources -> [there : BOOLEAN, ver : Nat, final : BOOLEAN]]
  <2>1. sources \in [Sources -> [there : BOOLEAN, ver : Nat, final : BOOLEAN]]
    BY DEF IInv, Sound, Db
  <2>2. sources' = [s \in Sources |-> [sources[s] EXCEPT !.there = @ /\ s \notin c.dropped]]
    BY DEF Commit
  <2> QED
    BY <2>1, <2>2
<1>2. events' = (events \ c.gone) \cup c.new /\ events' \subseteq [src : Sources, ver : Nat]
  BY DEF Commit, IInv, Sound, Db, Fitting
<1>3. \A s \in Sources : listed'[s] = IF s \in DOMAIN c.listed THEN c.listed[s] ELSE listed[s]
  <2>1. DOMAIN listed = Sources /\ listed' = Over(c.listed, listed)
    BY DEF Commit, IInv, Sound, Db
  <2> QED
    BY <2>1 DEF Over
<1>4. listed' \in [Sources -> [row : BOOLEAN, fp : Nat, finalized : BOOLEAN]]
  <2>1. DOMAIN listed' = Sources /\ listed' = [s \in DOMAIN listed' |-> listed'[s]]
    <3>1. DOMAIN listed = Sources /\ listed' = Over(c.listed, listed) /\ DOMAIN c.listed \subseteq Sources
      BY DEF Commit, IInv, Sound, Db, Fitting
    <3> QED
      BY <3>1 DEF Over
  <2>2. \A s \in Sources : listed'[s] \in [row : BOOLEAN, fp : Nat, finalized : BOOLEAN]
    BY <1>3 DEF IInv, Sound, Db, Fitting
  <2> QED
    BY <2>1, <2>2
<1>5. op' = After(w, next, Rows(c))
  BY DEF Commit
<1>6. OpsInv'
  <2>1. ASSUME NEW v \in Workers PROVE Shape(op'[v])
    BY <1>5, WithRaced DEF After, IInv, OpsInv
  <2>2. op' = [v \in Workers |-> op'[v]]
    BY <1>5 DEF After
  <2> QED
    BY <2>1, <2>2 DEF OpsInv, IInv, Commit, Shape
<1>7. SeenInv'
  <2> SUFFICES ASSUME NEW v \in Workers, Holding(op'[v])
               PROVE  /\ Sound(op'[v].snap)
                      /\ \A s \in Sources : <<"listed", s>> \notin op'[v].raced => Current(op[v], s)'
    BY DEF SeenInv, Sound, Holding
  <2>1. v # w /\ Holding(op[v]) /\ op'[v].snap = op[v].snap /\ op'[v].raced = op[v].raced \cup Rows(c)
    <3>1. /\ v # w /\ op[v].at \in {"waiting", "running"}
          /\ op'[v] = [op[v] EXCEPT !.raced = @ \cup Rows(c)]
      BY <1>5 DEF After, Holding
    <3> QED
      BY <3>1, WithRaced DEF Holding, IInv, OpsInv
  <2>2. Sound(op[v].snap) /\ \A s \in Sources : <<"listed", s>> \notin op[v].raced => Current(op[v], s)
    BY <2>1 DEF IInv, SeenInv
  <2>3. ASSUME NEW s \in Sources, <<"listed", s>> \notin op'[v].raced
        PROVE  Current(op[v], s)'
    <3>1. s \notin DOMAIN c.listed
      BY <2>1, <2>3 DEF Rows
    <3>2. Current(op[v], s)
      BY <2>1, <2>2, <2>3
    <3>3. listed'[s] = listed[s]
      BY <1>3, <3>1
    <3>4. \A e \in events' : e.src = s => e \in events
      BY <1>2, <3>1 DEF Fitting
    <3> QED
      BY <2>1, <3>2, <3>3, <3>4 DEF Current
  <2> QED
    BY <2>1, <2>2, <2>3
<1> QED
  BY <1>1, <1>2, <1>3, <1>4, <1>6, <1>7

-----------------------------------------------------------------------------
(* The operations *)

\* A commit preserves the invariant when it leaves rows for the events,
\* one version of a source, and events for the fingerprints.
LEMMA CommitSuffices ==
  ASSUME IInv, NEW w \in Workers, NEW c, NEW next, Fitting(c), Commit(w, c, next),
         Shape(next), ~Holding(next),
         \A e \in events' : listed'[e.src].row, OneVersionPerSource', Backed'
  PROVE  IInv'
BY CommitKeeps DEF IInv, Sound, Db

\* What an operation at its commit knows.
LEMMA AtCommit ==
  ASSUME IInv, NEW w \in Workers, op[w].at = "running"
  PROVE  /\ Sound(op[w].snap) /\ Shape(op[w])
         /\ \A s \in Sources : <<"listed", s>> \notin op[w].raced => Current(op[w], s)
BY DEF IInv, SeenInv, OpsInv, Holding

LEMMA NextOps ==
  /\ Shape(Idle) /\ ~Holding(Idle)
  /\ Shape(Begun("rebuild", 0)) /\ ~Holding(Begun("rebuild", 0))
BY DEF Shape, Holding, Idle, Begun

LEMMA IngestStep ==
  ASSUME IInv, NEW w \in Workers, Ingest(w)
  PROVE  IInv'
<1> DEFINE o == op[w]
           s == o.src
           c == IngestChange(o)
           e == [src |-> s, ver |-> o.snap.sources[s].ver]
           row == [row |-> TRUE, fp |-> e.ver,
                   finalized |-> IF o.snap.listed[s].row THEN o.snap.listed[s].finalized ELSE Final(o.snap, s)]
<1>1. /\ Sound(o.snap) /\ s \in Sources
      /\ <<"listed", s>> \notin o.raced => Current(o, s)
  BY AtCommit DEF Ingest, Shape
<1>2. /\ c.gone = Reconciled(o) /\ c.new = {e}
      /\ DOMAIN c.listed = {s} /\ c.listed[s] = row
  BY DEF IngestChange, NoChange, OneRow
<1>3. row \in [row : BOOLEAN, fp : Nat, finalized : BOOLEAN] /\ e \in [src : Sources, ver : Nat]
  BY <1>1 DEF Sound, Final
<1>4. Fitting(c)
  <2>1. e.src = s
    OBVIOUS
  <2> HIDE DEF c, e, row
  <2> QED
    BY <1>1, <1>2, <1>3, <2>1 DEF Fitting
<1>5. Commit(w, c, Idle)
  BY DEF Ingest
<1>6. Current(o, s)
  <2>1. <<"listed", s>> \in Rows(c)
    BY <1>2 DEF Rows
  <2> QED
    BY <1>1, <1>5, <2>1 DEF Commit
<1>7. events' = (events \ Reconciled(o)) \cup {e}
  BY <1>2, <1>5 DEF Commit
<1>8. \A d \in Reconciled(o) : d.src = s
  BY DEF Reconciled, Own
<1>9. \A d \in events \ Reconciled(o) : d.src # s /\ d.src \in Sources
  <2>1. \A d \in o.snap.events \ Reconciled(o) : d.src < s
    BY DEF Ingest, InOrder
  <2>2. s \in Nat
    BY <1>1, SourcesAssumption DEF Sources
  <2> QED
    BY <1>6, <2>1, <2>2 DEF Current, IInv, Sound, Db
<1>10. \A t \in Sources : listed'[t] = IF t = s THEN row ELSE listed[t]
  <2> HIDE DEF c, row
  <2>1. \A t \in Sources : listed'[t] = IF t \in DOMAIN c.listed THEN c.listed[t] ELSE listed[t]
    BY <1>4, <1>5, CommitKeeps, NextOps
  <2> QED
    BY <1>2, <2>1
<1>11. \A d \in events' : listed'[d.src].row
  <2> HIDE DEF row
  <2>1. row.row /\ e.src = s
    BY DEF row
  <2>2. listed'[s].row
    BY <1>1, <1>10, <2>1
  <2>3. ASSUME NEW d \in events \ Reconciled(o) PROVE listed'[d.src].row
    BY <1>9, <1>10 DEF IInv, Sound, Db
  <2> QED
    BY <1>7, <2>1, <2>2, <2>3
<1>12. OneVersionPerSource'
  BY <1>7, <1>9 DEF OneVersionPerSource, IInv
<1>13. Backed'
  <2> SUFFICES ASSUME ~AutoReconcile, NEW t \in Sources, listed'[t].fp # 0
               PROVE  [src |-> t, ver |-> listed'[t].fp] \in events'
    BY DEF Backed, FingerprintBacked
  <2>1. CASE t = s
    BY <1>7, <1>10, <2>1
  <2>2. CASE t # s
    <3>1. [src |-> t, ver |-> listed[t].fp] \in events
      BY <1>10, <2>2 DEF IInv, Backed, FingerprintBacked
    <3> QED
      BY <1>7, <1>8, <1>10, <2>2, <3>1
  <2> QED
    BY <2>1, <2>2
<1> QED
  BY <1>4, <1>5, <1>11, <1>12, <1>13, CommitSuffices, NextOps

\* Without reconciliation nothing is removed: there was no fingerprint.
LEMMA MarkStep ==
  ASSUME IInv, NEW w \in Workers, Mark(w)
  PROVE  IInv'
<1> DEFINE o == op[w]
           s == o.src
           c == MarkChange(o)
           row == [row |-> TRUE, fp |-> 0, finalized |-> Final(o.snap, s)]
<1>1. Sound(o.snap) /\ s \in Sources
  BY AtCommit DEF Mark, Shape
<1>2. c.gone = Reconciled(o) /\ c.new = {}
  BY DEF MarkChange, NoChange
<1>3. /\ DOMAIN c.listed \subseteq {s} /\ \A t \in DOMAIN c.listed : c.listed[t] = row
  BY DEF MarkChange, NoChange, NoRows, OneRow
<1>4. row \in [row : BOOLEAN, fp : Nat, finalized : BOOLEAN]
  BY <1>1 DEF Sound, Final
<1>5. Fitting(c)
  BY <1>1, <1>2, <1>3, <1>4 DEF Fitting
<1>6. Commit(w, c, Idle)
  BY DEF Mark
<1>7. events' = events \ Reconciled(o)
  BY <1>2, <1>6 DEF Commit
<1>8. \A t \in Sources : listed'[t] = row \/ listed'[t] = listed[t]
  BY <1>3, <1>5, <1>6, CommitKeeps, NextOps
<1>9. \A d \in events' : listed'[d.src].row
  BY <1>7, <1>8 DEF IInv, Sound, Db
<1>10. OneVersionPerSource'
  BY <1>7 DEF OneVersionPerSource, IInv
<1>11. Backed'
  <2> SUFFICES ASSUME ~AutoReconcile PROVE FingerprintBacked'
    BY DEF Backed
  <2>1. Reconciled(o) = {}
    BY DEF Mark, MayIngest, Reconciled
  <2> QED
    BY <1>7, <1>8, <2>1 DEF FingerprintBacked, Backed, IInv
<1> QED
  BY <1>5, <1>6, <1>9, <1>10, <1>11, CommitSuffices, NextOps

LEMMA RebuildStep ==
  ASSUME IInv, NEW w \in Workers, RebuildAll(w)
  PROVE  IInv'
<1> DEFINE c == RebuildChange(op[w], op[w].snap.events)
<1>1. c.gone = {} /\ c.new = {} /\ DOMAIN c.listed = {}
  BY DEF RebuildChange, NoChange, NoRows
<1>2. Fitting(c)
  BY <1>1 DEF Fitting
<1>3. Commit(w, c, Idle)
  BY DEF RebuildAll
<1>4. events' = events /\ \A t \in Sources : listed'[t] = listed[t]
  BY <1>1, <1>2, <1>3, CommitKeeps, NextOps DEF Commit
<1>5. (\A d \in events' : listed'[d.src].row) /\ OneVersionPerSource' /\ Backed'
  BY <1>4 DEF IInv, Sound, Db, OneVersionPerSource, Backed, FingerprintBacked
<1> QED
  BY <1>2, <1>3, <1>5, CommitSuffices, NextOps

\* An operation that removes events and clears the fingerprints, or the rows,
\* of the sources it has seen events of.
LEMMA Removal ==
  ASSUME IInv, NEW w \in Workers, NEW c, NEW next, Fitting(c), Commit(w, c, next),
         Shape(next), ~Holding(next), c.new = {},
         \A e \in c.gone : e.src \in DOMAIN c.listed,
         \A s \in DOMAIN c.listed : c.listed[s].fp = 0,
         \A e \in events \ c.gone : e.src \in DOMAIN c.listed => c.listed[e.src].row
  PROVE  IInv'
<1>1. events' = events \ c.gone
  BY DEF Commit
<1>2. \A s \in Sources : listed'[s] = IF s \in DOMAIN c.listed THEN c.listed[s] ELSE listed[s]
  BY CommitKeeps
<1>3. \A e \in events' : listed'[e.src].row
  BY <1>1, <1>2 DEF IInv, Sound, Db
<1>4. OneVersionPerSource'
  BY <1>1 DEF IInv, OneVersionPerSource
<1>5. Backed'
  <2> SUFFICES ASSUME ~AutoReconcile, NEW t \in Sources, listed'[t].fp # 0
               PROVE  [src |-> t, ver |-> listed'[t].fp] \in events'
    BY DEF Backed, FingerprintBacked
  <2>1. t \notin DOMAIN c.listed /\ listed'[t] = listed[t]
    BY <1>2
  <2>2. [src |-> t, ver |-> listed[t].fp] \in events
    BY <2>1 DEF IInv, Backed, FingerprintBacked
  <2> QED
    BY <1>1, <2>1, <2>2
<1> QED
  BY <1>3, <1>4, <1>5, CommitSuffices

LEMMA RevertStep ==
  ASSUME IInv, NEW w \in Workers, RevertSource(w)
  PROVE  IInv'
<1> DEFINE o == op[w]
           s == o.src
           c == RevertChange(o)
           row == [o.snap.listed[s] EXCEPT !.fp = 0]
<1>1. Sound(o.snap) /\ s \in Sources
  BY AtCommit DEF RevertSource, Shape
<1>2. o.snap.listed[s].row
  BY <1>1 DEF RevertSource, Own, Sound
<1>3. /\ c.gone = Own(o.snap, s) /\ c.new = {}
      /\ DOMAIN c.listed = {s} /\ c.listed[s] = row
  BY <1>2 DEF RevertChange, RebuildChange, NoChange, OneRow
<1>4. row \in [row : BOOLEAN, fp : Nat, finalized : BOOLEAN] /\ row.fp = 0 /\ row.row
  BY <1>1, <1>2 DEF Sound
<1>5. Fitting(c)
  BY <1>1, <1>3, <1>4 DEF Fitting
<1>6. \A e \in c.gone : e.src \in DOMAIN c.listed
  BY <1>3 DEF Own
<1>7. Commit(w, c, Idle)
  BY DEF RevertSource
<1> QED
  BY <1>3, <1>4, <1>5, <1>6, <1>7, Removal, NextOps

LEMMA SeasonStep ==
  ASSUME IInv, NEW w \in Workers, CloseAndStartSeason(w)
  PROVE  IInv'
<1> DEFINE o == op[w]
           c == SeasonChange(o)
<1>1. Sound(o.snap)
  BY AtCommit DEF CloseAndStartSeason
<1>2. c.gone \subseteq o.snap.events /\ c.new = {}
  BY DEF SeasonChange, NoChange
<1>3. /\ DOMAIN c.listed = {t \in Sources : o.snap.listed[t].row}
      /\ \A t \in DOMAIN c.listed : c.listed[t] = [o.snap.listed[t] EXCEPT !.fp = 0]
  BY DEF SeasonChange, NoChange
<1>4. ASSUME NEW t \in DOMAIN c.listed
      PROVE  /\ c.listed[t] \in [row : BOOLEAN, fp : Nat, finalized : BOOLEAN]
             /\ c.listed[t].fp = 0 /\ c.listed[t].row
  <2> HIDE DEF c
  <2>1. o.snap.listed[t] \in [row : BOOLEAN, fp : Nat, finalized : BOOLEAN] /\ o.snap.listed[t].row
    BY <1>1, <1>3 DEF Sound
  <2>2. c.listed[t] = [o.snap.listed[t] EXCEPT !.fp = 0]
    BY <1>3
  <2> QED
    BY <2>1, <2>2
<1>5. Fitting(c)
  BY <1>2, <1>3, <1>4 DEF Fitting
<1>6. \A e \in c.gone : e.src \in DOMAIN c.listed
  BY <1>1, <1>2, <1>3 DEF Sound
<1>7. Commit(w, c, Begun("rebuild", 0))
  BY DEF CloseAndStartSeason
<1> QED
  BY <1>2, <1>4, <1>5, <1>6, <1>7, Removal, NextOps

\* Its row conflicts with an ingest that came in between.
LEMMA DeleteStep ==
  ASSUME IInv, NEW w \in Workers, AdminDelete(w)
  PROVE  IInv'
<1> DEFINE o == op[w]
           s == o.src
           c == DeleteChange(o)
<1>1. /\ Sound(o.snap) /\ s \in Sources
      /\ <<"listed", s>> \notin o.raced => Current(o, s)
  BY AtCommit DEF AdminDelete, Shape
<1>2. c.gone = Own(o.snap, s) /\ c.new = {}
  BY DEF DeleteChange, NoChange
<1>3. /\ DOMAIN c.listed = IF o.snap.listed[s].row THEN {s} ELSE {}
      /\ \A t \in DOMAIN c.listed : c.listed[t] = Unlisted
  BY DEF DeleteChange, NoChange, OneRow, NoRows
<1>4. Fitting(c)
  <2>1. Unlisted \in [row : BOOLEAN, fp : Nat, finalized : BOOLEAN]
    BY DEF Unlisted
  <2> HIDE DEF c
  <2> QED
    BY <1>1, <1>2, <1>3, <2>1 DEF Fitting
<1>5. \A e \in c.gone : e.src \in DOMAIN c.listed
  BY <1>1, <1>2, <1>3 DEF Own, Sound
<1>6. Commit(w, c, Begun("rebuild", 0))
  BY DEF AdminDelete
<1>7. \A e \in events \ c.gone : e.src \notin DOMAIN c.listed
  <2> SUFFICES ASSUME NEW e \in events, e.src \in DOMAIN c.listed
               PROVE  e \in c.gone
    OBVIOUS
  <2>1. e.src = s
    BY <1>3
  <2>2. <<"listed", s>> \in Rows(c)
    BY <2>1 DEF Rows
  <2>3. Current(o, s)
    BY <1>1, <1>6, <2>2 DEF Commit
  <2> QED
    BY <1>2, <2>1, <2>3 DEF Current, Own
<1>8. \A t \in DOMAIN c.listed : c.listed[t].fp = 0
  BY <1>3 DEF Unlisted
<1> QED
  BY <1>2, <1>4, <1>5, <1>6, <1>7, <1>8, Removal, NextOps

-----------------------------------------------------------------------------
(* Steps that write no table of the ledger *)

\* Operations change, and none takes a snapshot.
LEMMA OpsOnly ==
  ASSUME IInv, UNCHANGED tables, OpsInv',
         \A v \in Workers : Holding(op'[v]) =>
           Holding(op[v]) /\ op'[v].snap = op[v].snap /\ op[v].raced \subseteq op'[v].raced
  PROVE  IInv'
<1>1. SeenInv'
  BY DEF IInv, SeenInv, Current, tables, Sound
<1>2. Sound(Db)' /\ OneVersionPerSource' /\ Backed'
  BY DEF IInv, Sound, Db, tables, OneVersionPerSource, Backed, FingerprintBacked
<1> QED
  BY <1>1, <1>2 DEF IInv

LEMMA Settings ==
  ASSUME IInv, NEW w \in Workers, NEW o, Shape(o), ~Holding(o), UNCHANGED tables,
         op' = [op EXCEPT ![w] = o], todo' \subseteq Sources
  PROVE  IInv'
<1>1. \A v \in Workers : op'[v] = IF v = w THEN o ELSE op[v]
  BY DEF IInv, OpsInv
<1>2. op' = [v \in Workers |-> op'[v]]
  BY DEF IInv, OpsInv
<1>3. OpsInv'
  BY <1>1, <1>2 DEF IInv, OpsInv, Shape
<1> QED
  BY <1>1, <1>3, OpsOnly

LEMMA SnapshotStep ==
  ASSUME IInv, NEW w \in Workers, TakeSnapshot(w)
  PROVE  IInv'
<1>1. \A v \in Workers : v # w => op'[v] = op[v]
  BY DEF TakeSnapshot, IInv, OpsInv
<1>2. /\ Shape(op'[w]) /\ op'[w].snap = Db
  <2> DEFINE at == IF op[w].kind = "delete" THEN "running" ELSE "waiting"
             a == [op[w] EXCEPT !.at = at]
  <2>1. op'[w] = [op[w] EXCEPT !.at = at, !.snap = Db]
    BY DEF TakeSnapshot, IInv, OpsInv
  <2>2. [op[w] EXCEPT !.at = at, !.snap = Db] = [[op[w] EXCEPT !.at = at] EXCEPT !.snap = Db]
    OBVIOUS
  <2>3. Shape(a)
    BY WithAt DEF IInv, OpsInv
  <2>4. op'[w] = [a EXCEPT !.snap = Db]
    BY <2>1, <2>2
  <2> HIDE DEF a
  <2> QED
    BY <2>3, <2>4, WithSnap
<1>3. OpsInv'
  BY <1>1, <1>2 DEF TakeSnapshot, IInv, OpsInv, Shape
<1>4. Sound(Db)' /\ OneVersionPerSource' /\ Backed' /\ listed' = listed /\ events' = events
  BY DEF TakeSnapshot, IInv, Sound, Db, tables, OneVersionPerSource, Backed, FingerprintBacked
<1>5. SeenInv'
  <2> SUFFICES ASSUME NEW v \in Workers, Holding(op'[v])
               PROVE  /\ Sound(op'[v].snap)
                      /\ \A s \in Sources : <<"listed", s>> \notin op'[v].raced => Current(op[v], s)'
    BY DEF SeenInv, Sound, Holding
  <2>1. CASE v = w
    BY <1>2, <1>4, <2>1 DEF IInv, Sound, Db, Current
  <2>2. CASE v # w
    BY <1>1, <1>4, <2>2 DEF IInv, SeenInv, Current
  <2> QED
    BY <2>1, <2>2
<1> QED
  BY <1>3, <1>4, <1>5 DEF IInv

LEMMA LockStep ==
  ASSUME IInv, NEW w \in Workers, Lock(w)
  PROVE  IInv'
<1>1. \A v \in Workers : op'[v] = IF v = w THEN [op[w] EXCEPT !.at = "running"] ELSE op[v]
  BY DEF Lock, IInv, OpsInv
<1>2. \A v \in Workers : Shape(op'[v])
  BY <1>1 DEF IInv, OpsInv, Shape
<1>3. op' = [v \in Workers |-> op'[v]]
  BY DEF Lock, IInv, OpsInv
<1>4. OpsInv'
  BY <1>2, <1>3 DEF Lock, IInv, OpsInv, Shape
<1>5. \A v \in Workers : op'[v].snap = op[v].snap /\ op'[v].raced = op[v].raced
  BY <1>1 DEF IInv, OpsInv, Shape
<1>6. \A v \in Workers : Holding(op'[v]) => Holding(op[v])
  BY <1>1 DEF Lock, Holding
<1> QED
  BY <1>4, <1>5, <1>6, OpsOnly DEF Lock

LEMMA WorkerSteps ==
  ASSUME IInv, NEW w \in Workers, Step(w) \/ Fail(w)
  PROVE  IInv'
<1>1. CASE GiveUp(w)
  BY <1>1, Settings, NextOps DEF GiveUp, IInv, OpsInv
<1>2. CASE Fail(w)
  BY <1>2, Settings, NextOps DEF Fail, IInv, OpsInv
<1> QED
  BY <1>1, <1>2, SnapshotStep, LockStep, IngestStep, MarkStep, RebuildStep, RevertStep,
     SeasonStep, DeleteStep DEF Step

LEMMA BegunShape ==
  ASSUME NEW kind, NEW s, kind \in {"ingest", "revert", "delete"} => s \in Sources
  PROVE  Shape(Begun(kind, s)) /\ ~Holding(Begun(kind, s))
BY DEF Shape, Holding, Begun, Idle

LEMMA RequestStep ==
  ASSUME IInv, NEW c \in Clients, NEW r \in Requests, Request(c, r.kind, r.src)
  PROVE  IInv'
<1>1. r.kind \in {"ingest", "revert", "delete"} => r.src \in Sources
  BY ConfigAssumption
<1>2. c \in Workers /\ UNCHANGED tables /\ op' = [op EXCEPT ![c] = Begun(r.kind, r.src)]
  BY DEF Workers, Request, Take
<1>3. todo' \subseteq Sources
  BY DEF Request, IInv, OpsInv
<1> QED
  BY <1>1, <1>2, <1>3, BegunShape, Settings

LEMMA TickerSteps ==
  ASSUME IInv, Tick \/ IngestNext
  PROVE  IInv'
<1>1. CASE Tick
  <2>1. OpsInv'
    BY <1>1 DEF Tick, Pending, IInv, OpsInv, Shape
  <2> QED
    BY <1>1, <2>1, OpsOnly DEF Tick
<1>2. CASE IngestNext
  <2> PICK s \in todo : todo' = todo \ {s} /\ Take(Ticker, "ingest", s)
    BY <1>2 DEF IngestNext
  <2>1. s \in Sources /\ todo' \subseteq Sources /\ Ticker \in Workers
    BY DEF IInv, OpsInv, Workers
  <2>2. UNCHANGED tables /\ op' = [op EXCEPT ![Ticker] = Begun("ingest", s)]
    BY DEF Take
  <2> QED
    BY <2>1, <2>2, BegunShape, Settings
<1> QED
  BY <1>1, <1>2

LEMMA TierStep ==
  ASSUME IInv, NEW c \in Clients, NEW p, NEW t, SetPlayerTier(c, p, t)
  PROVE  IInv'
<1> DEFINE o == Begun("rebuild", 0)
<1>1. c \in Workers
  BY DEF Workers
<1>2. \A v \in Workers : op'[v] = IF v = c THEN o ELSE op[v]
  BY <1>1 DEF SetPlayerTier, IInv, OpsInv
<1>3. op' = [v \in Workers |-> op'[v]]
  BY DEF SetPlayerTier, IInv, OpsInv
<1>4. OpsInv'
  BY <1>2, <1>3, NextOps DEF SetPlayerTier, IInv, OpsInv, Shape
<1>5. sources' = sources /\ listed' = listed /\ events' = events
  BY DEF SetPlayerTier
<1>6. SeenInv'
  BY <1>2, <1>5, NextOps DEF IInv, SeenInv, Current, Sound
<1>7. Sound(Db)' /\ OneVersionPerSource' /\ Backed'
  BY <1>5 DEF IInv, Sound, Db, OneVersionPerSource, Backed, FingerprintBacked
<1> QED
  BY <1>4, <1>6, <1>7 DEF IInv

-----------------------------------------------------------------------------
(* Edits: a row of rating_sources may get finalized, or be added *)

LEMMA EditKeeps ==
  ASSUME IInv, NEW rows, Edit(rows),
         sources' \in [Sources -> [there : BOOLEAN, ver : Nat, final : BOOLEAN]],
         listed' \in [Sources -> [row : BOOLEAN, fp : Nat, finalized : BOOLEAN]],
         \A s \in Sources : /\ listed'[s].fp = listed[s].fp
                            /\ listed[s].row => listed'[s].row
                            /\ <<"listed", s>> \notin rows => listed'[s] = listed[s]
  PROVE  IInv'
<1>1. events' = events /\ todo' = todo
  BY DEF Edit
<1>2. op' = [v \in Workers |-> IF Holding(op[v]) THEN [op[v] EXCEPT !.raced = @ \cup rows] ELSE op[v]]
  BY DEF Edit, Holding
<1>3. \A v \in Workers :
        /\ Shape(op'[v])
        /\ Holding(op'[v]) => /\ Holding(op[v]) /\ op'[v].snap = op[v].snap
                              /\ op'[v].raced = op[v].raced \cup rows
  <2> SUFFICES ASSUME NEW v \in Workers
               PROVE  /\ Shape(op'[v])
                      /\ Holding(op'[v]) => /\ Holding(op[v]) /\ op'[v].snap = op[v].snap
                                            /\ op'[v].raced = op[v].raced \cup rows
    OBVIOUS
  <2>1. CASE Holding(op[v])
    <3>1. op'[v] = [op[v] EXCEPT !.raced = @ \cup rows]
      BY <1>2, <2>1
    <3>2. Shape(op[v])
      BY DEF IInv, OpsInv
    <3>3. /\ op'[v].snap = op[v].snap
          /\ op'[v].raced = op[v].raced \cup rows
      BY <3>1, <3>2 DEF Shape
    <3>4. Shape(op'[v])
      BY <3>1, <3>2 DEF Shape
    <3> QED
      BY <2>1, <3>3, <3>4
  <2>2. CASE ~Holding(op[v])
    BY <1>2, <2>2 DEF IInv, OpsInv
  <2> QED
    BY <2>1, <2>2
<1>4. OpsInv'
  BY <1>1, <1>2, <1>3 DEF IInv, OpsInv, Shape
<1>5. SeenInv'
  <2> SUFFICES ASSUME NEW v \in Workers, Holding(op'[v])
               PROVE  /\ Sound(op'[v].snap)
                      /\ \A s \in Sources : <<"listed", s>> \notin op'[v].raced => Current(op[v], s)'
    BY DEF SeenInv, Sound, Holding
  <2>1. Holding(op[v]) /\ op'[v].snap = op[v].snap /\ op'[v].raced = op[v].raced \cup rows
    BY <1>3
  <2>2. Sound(op[v].snap) /\ \A s \in Sources : <<"listed", s>> \notin op[v].raced => Current(op[v], s)
    BY <2>1 DEF IInv, SeenInv
  <2>3. ASSUME NEW s \in Sources, <<"listed", s>> \notin op'[v].raced PROVE Current(op[v], s)'
    BY <1>1, <2>1, <2>2, <2>3 DEF Current
  <2> QED
    BY <2>1, <2>2, <2>3
<1>6. Sound(Db)' /\ OneVersionPerSource' /\ Backed'
  BY <1>1 DEF IInv, Sound, Db, OneVersionPerSource, Backed, FingerprintBacked
<1> QED
  BY <1>4, <1>5, <1>6 DEF IInv

LEMMA EditSteps ==
  ASSUME IInv, NEW s \in Sources, NEW on \in BOOLEAN,
         Score(s) \/ DeleteDraft(s) \/ SetLocked(s, on) \/ SetSourceFinalized(s, on)
  PROVE  IInv'
<1> USE DEF IInv, Sound, Db
<1>1. CASE Score(s)
  <2>0. PICK added \in SUBSET {t \in Tournaments : t = s /\ ~listed[t].row} :
          /\ listed' = [t \in Sources |-> [listed[t] EXCEPT !.row = @ \/ t \in added]]
          /\ Edit({<<"source", s>>} \cup {<<"listed", t>> : t \in added})
    BY <1>1 DEF Score
  <2> DEFINE rows == {<<"source", s>>} \cup {<<"listed", t>> : t \in added}
  <2>1. Edit(rows)
    BY <2>0
  <2>2. sources' \in [Sources -> [there : BOOLEAN, ver : Nat, final : BOOLEAN]]
    BY <1>1 DEF Score
  <2>3. ASSUME NEW t \in Sources
        PROVE  /\ listed'[t] \in [row : BOOLEAN, fp : Nat, finalized : BOOLEAN]
               /\ listed'[t].fp = listed[t].fp
               /\ listed[t].row => listed'[t].row
               /\ t \notin added => listed'[t] = listed[t]
    <3>1. listed[t] \in [row : BOOLEAN, fp : Nat, finalized : BOOLEAN]
      OBVIOUS
    <3>2. listed'[t] = [listed[t] EXCEPT !.row = @ \/ t \in added]
      BY <2>0
    <3>3. t \in added => ~listed[t].row
      BY <2>0
    <3> DEFINE l == listed[t]
               has == l.row \/ t \in added
    <3>4. has \in BOOLEAN /\ listed'[t] = [l EXCEPT !.row = has]
      BY <3>2
    <3>5. (l.row => has) /\ (t \notin added => has = l.row)
      BY <3>1
    <3>6. l \in [row : BOOLEAN, fp : Nat, finalized : BOOLEAN]
      BY <3>1
    <3> HIDE DEF l, has
    <3>7. /\ listed'[t] \in [row : BOOLEAN, fp : Nat, finalized : BOOLEAN]
          /\ listed'[t].fp = l.fp /\ listed'[t].row = has
          /\ has = l.row => listed'[t] = l
      BY ONLY <3>4, <3>6
    <3> QED
      BY <3>5, <3>7 DEF l
  <2>4. listed' \in [Sources -> [row : BOOLEAN, fp : Nat, finalized : BOOLEAN]]
    BY <2>0, <2>3
  <2>5. \A t \in Sources : <<"listed", t>> \notin rows => t \notin added
    OBVIOUS
  <2> HIDE DEF rows
  <2> QED
    BY <2>1, <2>2, <2>3, <2>4, <2>5, EditKeeps
<1>2. CASE DeleteDraft(s) \/ SetLocked(s, on)
  <2>1. /\ Edit({<<"source", s>>}) /\ listed' = listed
        /\ \/ sources' = [sources EXCEPT ![s].there = FALSE]
           \/ sources' = [sources EXCEPT ![s].final = on]
    BY <1>2 DEF DeleteDraft, SetLocked
  <2>2. sources' \in [Sources -> [there : BOOLEAN, ver : Nat, final : BOOLEAN]]
    <3>1. sources[s] \in [there : BOOLEAN, ver : Nat, final : BOOLEAN]
      OBVIOUS
    <3>2. CASE sources' = [sources EXCEPT ![s].there = FALSE]
      <4>1. [sources[s] EXCEPT !.there = FALSE] \in [there : BOOLEAN, ver : Nat, final : BOOLEAN]
        BY <3>1
      <4> QED
        BY <3>2, <4>1
    <3>3. CASE sources' = [sources EXCEPT ![s].final = on]
      <4>1. [sources[s] EXCEPT !.final = on] \in [there : BOOLEAN, ver : Nat, final : BOOLEAN]
        BY <3>1
      <4> QED
        BY <3>3, <4>1
    <3> QED
      BY <2>1, <3>2, <3>3
  <2> QED
    BY <2>1, <2>2, EditKeeps
<1>3. CASE SetSourceFinalized(s, on)
  <2>1. /\ Edit({<<"listed", s>>}) /\ sources' = sources
        /\ listed' = [listed EXCEPT ![s].row = TRUE, ![s].finalized = on]
    BY <1>3 DEF SetSourceFinalized
  <2>2. ASSUME NEW t \in Sources
        PROVE  /\ listed'[t] \in [row : BOOLEAN, fp : Nat, finalized : BOOLEAN]
               /\ listed'[t].fp = listed[t].fp /\ (listed[t].row => listed'[t].row)
               /\ t # s => listed'[t] = listed[t]
    <3>1. listed[t] \in [row : BOOLEAN, fp : Nat, finalized : BOOLEAN]
      OBVIOUS
    <3>2. listed'[t] = IF t = s THEN [listed[t] EXCEPT !.row = TRUE, !.finalized = on] ELSE listed[t]
      BY <2>1
    <3> QED
      BY <3>1, <3>2
  <2>3. listed' \in [Sources -> [row : BOOLEAN, fp : Nat, finalized : BOOLEAN]]
    BY <2>1, <2>2
  <2>4. \A t \in Sources : <<"listed", t>> \notin {<<"listed", s>>} => t # s
    OBVIOUS
  <2> QED
    BY <2>1, <2>2, <2>3, <2>4, EditKeeps
<1> QED
  BY <1>1, <1>2, <1>3

-----------------------------------------------------------------------------

LEMMA StepIInv == IInv /\ [Next]_vars => IInv'
<1> SUFFICES ASSUME IInv, [Next]_vars PROVE IInv'
  OBVIOUS
<1>1. CASE UNCHANGED vars
  <2>1. OpsInv'
    BY <1>1 DEF vars, IInv, OpsInv, Shape
  <2> QED
    BY <1>1, <2>1, OpsOnly DEF vars
<1>2. CASE \E w \in Workers : Step(w) \/ Fail(w)
  BY <1>2, WorkerSteps
<1>3. CASE \E c \in Clients : \/ \E r \in Requests : Request(c, r.kind, r.src)
                              \/ \E x \in Promotions : SetPlayerTier(c, x[1], x[2])
  BY <1>3, RequestStep, TierStep
<1>4. CASE Tick \/ IngestNext
  BY <1>4, TickerSteps
<1>5. CASE \E s \in Sources : \/ Score(s) \/ DeleteDraft(s)
                              \/ \E on \in BOOLEAN : SetLocked(s, on) \/ SetSourceFinalized(s, on)
  BY <1>5, EditSteps
<1> QED
  BY <1>1, <1>2, <1>3, <1>4, <1>5 DEF Next

-----------------------------------------------------------------------------
(* The ledger is a replay.  A rebuild writes what it has seen, and that is *)
(* all: the events it has not seen are those of players it does not know,  *)
(* because an ingest writes the ratings of its players and a rebuild of a  *)
(* player fails when somebody has written his rating since.  So the        *)
(* invariant says of each snapshot what the others have done to the rest   *)
(* of the ledger, and when a rebuild of it is one too many.                *)

\* Tables with a rating for each player of an event.
Rateable(db) ==
  /\ Table(db.ratings) /\ \A p \in Rated(db) : IsRating(db.ratings[p])
  /\ PlayersIn(db.events) \subseteq Rated(db)

Untouched(o, p) == <<"rating", p>> \notin o.raced

\* What is still so of the players whose rating nobody has written.
Known(o) ==
  /\ Rateable(o.snap) /\ Rated(o.snap) \subseteq Rated(Db)
  /\ \A p \in Players : Untouched(o, p) => ratings[p] = o.snap.ratings[p]
  /\ \A e \in events \ o.snap.events : \A p \in PlayersOf(e.src) : ~Untouched(o, p)
  /\ \A e \in o.snap.events \ events : <<"event", e>> \in o.raced

\* The rest of the ledger, which a rebuild from the snapshot leaves alone.
Rest(w) ==
  LET o == op[w]
      known == Rated(o.snap)
  IN /\ w \notin late /\ (\A p \in known : Untouched(o, p))
          => Exact(ratings, Deltas(events \ o.snap.events), Players \ known)
     /\ w \notin late /\ owed => known # {}
     /\ w \in late /\ ~owed => known = {} \/ \E p \in known : ~Untouched(o, p)

\* Of two snapshots the later knows the players of the earlier.
Nested == \A v, w \in Workers : Holding(op[v]) /\ Holding(op[w]) =>
  Rated(op[v].snap) \subseteq Rated(op[w].snap) \/ Rated(op[w].snap) \subseteq Rated(op[v].snap)

LedgerInv ==
  /\ Rateable(Db)
  /\ owed => Rated(Db) # {}
  /\ ~owed => Exact(ratings, Deltas(events), Players)
  /\ \A w \in Workers : Holding(op[w]) => Known(op[w]) /\ Rest(w)
  /\ Nested

LEMMA InitLedger == Init => LedgerInv
<1> SUFFICES ASSUME Init PROVE LedgerInv
  OBVIOUS
<1>1. \A w \in Workers : ~Holding(op[w])
  BY DEF Init, Holding, Idle
<1>2. Rateable(Db) /\ Exact(ratings, Deltas(events), Players)
  BY DEF Init, Rateable, Db, Table, Rated, PlayersIn, Exact, NoRating, Deltas, Computed
<1> QED
  BY <1>1, <1>2 DEF Init, LedgerInv, Nested

\* The events of the tables, and those of the sources anyway.
LEMMA EventsSingle == IInv => Single(events) /\ \A X \in SUBSET events : Single(X)
BY DEF IInv, Sound, Db, OneVersionPerSource, Single

LEMMA DeltasSingle ==
  ASSUME NEW X, NEW b, Single(X)
  PROVE  Single(Computed(X, b)) /\ PlayersIn(Computed(X, b)) = PlayersIn(X)
BY ComputedKeeps

LEMMA PlayersOfEvents ==
  ASSUME NEW X, NEW e \in X, Single(X)
  PROVE  PlayersOf(e.src) \subseteq PlayersIn(X) /\ PlayersOf(e.src) # {} /\ PlayersOf(e.src) \subseteq Players
BY SidesAssumption DEF PlayersIn, PlayersOf, Single

\* Steps that leave the ledger, and take no snapshot.
LEMMA LedgerAlone ==
  ASSUME LedgerInv, UNCHANGED <<events, plain, ratings, owed, late>>,
         \A v \in Workers : Holding(op'[v]) =>
           Holding(op[v]) /\ op'[v].snap = op[v].snap /\ op[v].raced \subseteq op'[v].raced
  PROVE  LedgerInv'
<1>1. Rateable(Db)' /\ Rated(Db)' = Rated(Db)
  BY DEF LedgerInv, Rateable, Db, Rated
<1>2. (owed => Rated(Db) # {})' /\ (~owed => Exact(ratings, Deltas(events), Players))'
  BY <1>1 DEF LedgerInv, Deltas
<1>3. Nested'
  BY DEF LedgerInv, Nested
<1>4. ASSUME NEW w \in Workers, Holding(op'[w])
      PROVE  Known(op[w])' /\ Rest(w)'
  <2>1. /\ op'[w].snap = op[w].snap /\ op[w].raced \subseteq op'[w].raced
        /\ Known(op[w]) /\ Rest(w)
    BY <1>4 DEF LedgerInv
  <2>2. \A p : Untouched(op[w], p)' => Untouched(op[w], p)
    BY <2>1 DEF Untouched
  <2>3. Known(op[w])'
    BY <1>1, <2>1, <2>2 DEF Known, Rateable, Rated
  <2>4. Rated(op'[w].snap) = Rated(op[w].snap)
    BY <2>1
  <2>5. Rest(w)'
    BY <2>1, <2>2, <2>4 DEF Rest, Deltas
  <2> QED
    BY <2>3, <2>5
<1> QED
  BY <1>1, <1>2, <1>3, <1>4 DEF LedgerInv

\* A snapshot of the tables: there is no rest yet.
LEMMA LedgerSnapshot ==
  ASSUME IInv, LedgerInv, NEW w \in Workers, TakeSnapshot(w)
  PROVE  LedgerInv'
<1>1. \A v \in Workers : v # w => op'[v] = op[v]
  BY DEF TakeSnapshot, IInv, OpsInv
<1>2. op'[w].snap = Db
  <2>1. op[w] = [kind |-> op[w].kind, src |-> op[w].src, cfg |-> op[w].cfg, at |-> op[w].at,
                 snap |-> op[w].snap, raced |-> op[w].raced]
    BY DEF IInv, OpsInv, Shape
  <2>2. op'[w] = [op[w] EXCEPT !.at = IF op[w].kind = "delete" THEN "running" ELSE "waiting", !.snap = Db]
    BY DEF TakeSnapshot, IInv, OpsInv
  <2> QED
    BY <2>1, <2>2
<1>3. /\ ratings' = ratings /\ events' = events /\ plain' = plain
      /\ owed' = owed /\ late' = late \ {w}
  BY DEF TakeSnapshot, tables
<1>4. Rateable(Db)' /\ Rated(Db)' = Rated(Db) /\ Rateable(Db)
  BY <1>3 DEF LedgerInv, Rateable, Db, Rated
<1>5. (owed => Rated(Db) # {})' /\ (~owed => Exact(ratings, Deltas(events), Players))'
  BY <1>3, <1>4 DEF LedgerInv, Deltas
<1>6. Known(op[w])' /\ Rest(w)'
  <2>1. Db.events = events /\ Db.ratings = ratings
    BY DEF Db
  <2>2. Known(op[w])'
    BY <1>2, <1>3, <1>4, <2>1 DEF Known
  <2>3. Exact(ratings', Computed(events' \ op'[w].snap.events, plain'), Players \ Rated(op'[w].snap))
    <3>1. events' \ op'[w].snap.events = {} /\ Rated(op'[w].snap) = Rated(Db)
      BY <1>2, <1>3, <2>1
    <3>2. Computed({}, plain') = {}
      BY DEF Computed
    <3> QED
      BY <1>3, <3>1, <3>2 DEF Exact, Rated, Db, PlayersIn
  <2>4. w \notin late' /\ (owed' => Rated(op'[w].snap) # {})
    BY <1>2, <1>3 DEF LedgerInv
  <2> QED
    BY <2>2, <2>3, <2>4 DEF Rest, Deltas
<1>7. ASSUME NEW v \in Workers, v # w, Holding(op'[v])
      PROVE  Known(op[v])' /\ Rest(v)'
  <2>1. op'[v] = op[v] /\ Known(op[v]) /\ Rest(v)
    BY <1>1, <1>7 DEF LedgerInv
  <2>2. v \in late' <=> v \in late
    BY <1>3, <1>7
  <2>3. Known(op[v])'
    BY <1>3, <1>4, <2>1 DEF Known, Untouched
  <2>4. Rest(v)'
    BY <1>3, <2>1, <2>2 DEF Rest, Untouched, Deltas
  <2> QED
    BY <2>3, <2>4
<1>8. Nested'
  <2>1. \A v \in Workers : v # w /\ Holding(op'[v]) =>
          Holding(op[v]) /\ op'[v].snap = op[v].snap /\ Rated(op[v].snap) \subseteq Rated(Db)
    BY <1>1 DEF LedgerInv, Known
  <2>2. Rated(op'[w].snap) = Rated(Db)
    BY <1>2
  <2> QED
    BY <2>1, <2>2 DEF LedgerInv, Nested
<1> QED
  BY <1>4, <1>5, <1>6, <1>7, <1>8 DEF LedgerInv

LEMMA CommitOps ==
  ASSUME IInv, NEW w \in Workers, NEW c, NEW next, Commit(w, c, next), ~Holding(next)
  PROVE  \A v \in Workers : Holding(op'[v]) =>
           /\ v # w /\ Holding(op[v])
           /\ op'[v].snap = op[v].snap /\ op'[v].raced = op[v].raced \cup Rows(c)
<1> SUFFICES ASSUME NEW v \in Workers, Holding(op'[v])
             PROVE  /\ v # w /\ Holding(op[v])
                    /\ op'[v].snap = op[v].snap /\ op'[v].raced = op[v].raced \cup Rows(c)
  OBVIOUS
<1>1. op' = After(w, next, Rows(c))
  BY DEF Commit
<1>2. /\ v # w /\ op[v].at \in {"waiting", "running"}
      /\ op'[v] = [op[v] EXCEPT !.raced = @ \cup Rows(c)]
  BY <1>1 DEF After, Holding
<1> QED
  BY <1>2, WithRaced DEF Holding, IInv, OpsInv

\* The players an operation has seen in an event.
LEMMA SeenPlayers ==
  ASSUME IInv, LedgerInv, NEW w \in Workers, Holding(op[w])
  PROVE  /\ \A e \in op[w].snap.events :
              /\ e.src \in Sources /\ PlayersOf(e.src) # {}
              /\ PlayersOf(e.src) \subseteq Rated(op[w].snap)
         /\ Rated(op[w].snap) = {} => op[w].snap.events = {}
<1>1. Sound(op[w].snap) /\ Rateable(op[w].snap)
  BY DEF IInv, SeenInv, LedgerInv, Known
<1>2. ASSUME NEW e \in op[w].snap.events
      PROVE  /\ e.src \in Sources /\ PlayersOf(e.src) # {}
             /\ PlayersOf(e.src) \subseteq Rated(op[w].snap)
  <2>1. e.src \in Sources
    BY <1>1 DEF Sound
  <2>2. PlayersOf(e.src) # {}
    BY <2>1, SidesAssumption DEF PlayersOf
  <2>3. PlayersOf(e.src) \subseteq Rated(op[w].snap)
    BY <1>1 DEF Rateable, PlayersIn
  <2> QED
    BY <2>1, <2>2, <2>3
<1> QED
  BY <1>2

\* A commit tells the others what it has written.
LEMMA CommitKnown ==
  ASSUME IInv, LedgerInv, NEW w \in Workers, NEW c, NEW next, Commit(w, c, next), ~Holding(next),
         Rated(Db) \subseteq Rated(Db)',
         \A p \in Players \ DOMAIN c.ratings : ratings'[p] = ratings[p],
         \A e \in c.new : PlayersOf(e.src) \subseteq DOMAIN c.ratings
  PROVE  Nested' /\ \A v \in Workers : Holding(op'[v]) => Known(op[v])'
<1>1. \A v \in Workers : Holding(op'[v]) =>
        /\ v # w /\ Holding(op[v])
        /\ op'[v].snap = op[v].snap /\ op'[v].raced = op[v].raced \cup Rows(c)
  BY CommitOps
<1>2. Nested'
  BY <1>1 DEF LedgerInv, Nested
<1>3. ASSUME NEW v \in Workers, Holding(op'[v]) PROVE Known(op[v])'
  <2>1. /\ op'[v].snap = op[v].snap /\ op'[v].raced = op[v].raced \cup Rows(c)
        /\ Known(op[v])
    BY <1>1, <1>3 DEF LedgerInv
  <2>2. \A p : Untouched(op[v], p)' => Untouched(op[v], p) /\ p \notin DOMAIN c.ratings
    BY <2>1 DEF Untouched, Rows
  <2>3. events' = (events \ c.gone) \cup c.new
    BY DEF Commit
  <2>4. Rateable(op'[v].snap) /\ Rated(op'[v].snap) \subseteq Rated(Db)'
    BY <2>1 DEF Known
  <2>5. \A p \in Players : Untouched(op[v], p)' => ratings'[p] = op'[v].snap.ratings[p]
    BY <2>1, <2>2 DEF Known
  <2>6. ASSUME NEW e \in events' \ op'[v].snap.events, NEW p \in PlayersOf(e.src)
        PROVE  ~Untouched(op[v], p)'
    BY <2>1, <2>2, <2>3 DEF Known
  <2>7. ASSUME NEW e \in op'[v].snap.events \ events' PROVE <<"event", e>> \in op'[v].raced
    <3>1. CASE e \in events
      <4>1. e \in c.gone
        BY <2>3, <2>7, <3>1
      <4>2. <<"event", e>> \in Rows(c)
        BY <4>1 DEF Rows
      <4> QED
        BY <2>1, <4>2
    <3>2. CASE e \notin events
      BY <2>1, <2>7, <3>2 DEF Known
    <3> QED
      BY <3>1, <3>2
  <2>8. Rateable(op[v].snap)' /\ Rated(op[v].snap)' \subseteq Rated(Db)'
    BY <2>4 DEF Rateable, Rated
  <2> QED
    BY <2>5, <2>6, <2>7, <2>8 DEF Known
<1> QED
  BY <1>2, <1>3

\* An operation that removes events it has seen and leaves the ratings.
LEMMA RemovalLedger ==
  ASSUME IInv, LedgerInv, NEW w \in Workers, NEW c, NEW next, Commit(w, c, next), ~Holding(next),
         c.new = {}, c.redone = {}, DOMAIN c.ratings = {}, ~c.rebuilt,
         c.gone \subseteq op[w].snap.events
  PROVE  LedgerInv'
<1>1. /\ events' = events \ c.gone /\ plain' = plain \ c.gone
      /\ owed' = (owed \/ c.gone # {}) /\ late' = IF c.gone = {} THEN late ELSE Workers
      /\ Holding(op[w])
  BY DEF Commit, Holding
<1>2. ratings' = ratings
  <2>1. Table(ratings) /\ ratings' = Over(c.ratings, ratings)
    BY DEF LedgerInv, Rateable, Db, Commit
  <2> QED
    BY <2>1 DEF Over, Table
<1>3. Rated(Db)' = Rated(Db)
  BY <1>2 DEF Rated, Db
<1>4. Rateable(Db)'
  BY <1>1, <1>2, <1>3 DEF LedgerInv, Rateable, Db, PlayersIn
<1>5. c.gone # {} => Rated(Db) # {}
  BY <1>1, SeenPlayers DEF LedgerInv, Known
<1>6. (owed => Rated(Db) # {})' /\ (~owed => Exact(ratings, Deltas(events), Players))'
  BY <1>1, <1>2, <1>3, <1>5 DEF LedgerInv, Deltas
<1>7. Nested' /\ \A v \in Workers : Holding(op'[v]) => Known(op[v])'
  BY <1>2, <1>3, CommitKnown
<1>8. ASSUME NEW v \in Workers, Holding(op'[v]) PROVE Rest(v)'
  <2>1. /\ op'[v].snap = op[v].snap /\ op'[v].raced = op[v].raced \cup Rows(c)
        /\ Rest(v)
    BY <1>8, CommitOps DEF LedgerInv
  <2>2. \A p : Untouched(op[v], p)' => Untouched(op[v], p)
    BY <2>1 DEF Untouched
  <2>3. CASE c.gone = {}
    <3>1. events' = events /\ plain' = plain /\ (owed' <=> owed) /\ late' = late
      BY <1>1, <2>3
    <3> QED
      BY <1>2, <2>1, <2>2, <3>1 DEF Rest, Deltas
  <2>4. CASE c.gone # {}
    <3>1. owed' /\ v \in late'
      BY <1>1, <2>4
    <3> QED
      BY <3>1 DEF Rest
  <2> QED
    BY <2>3, <2>4
<1> QED
  BY <1>4, <1>6, <1>7, <1>8 DEF LedgerInv

\* An ingest that commits plays its event on top of the ledger, and of the
\* rest of the ledger that another snapshot does not know.
LEMMA IngestLedger ==
  ASSUME IInv, IInv', LedgerInv, NEW w \in Workers, Ingest(w)
  PROVE  LedgerInv'
<1> DEFINE o == op[w]
           s == o.src
           c == IngestChange(o)
           e == [src |-> s, ver |-> o.snap.sources[s].ver]
           played == [src |-> s, ver |-> e.ver, plain |-> FALSE]
           P == PlayersOf(s)
           before == [p \in P |-> IF o.snap.ratings[p] # NoRating THEN o.snap.ratings[p]
                                  ELSE <<o.snap.tiers[p]>>]
           u == [p \in Players |-> IF p \in P THEN before[p] ELSE ratings[p]]
<1>1. /\ Sound(o.snap) /\ s \in Sources /\ Known(o) /\ Holding(o)
      /\ <<"listed", s>> \notin o.raced => Current(o, s)
  BY AtCommit DEF Ingest, Shape, LedgerInv, Holding
<1>2. /\ c.gone = Reconciled(o) /\ c.new = {e} /\ c.redone = {} /\ ~c.rebuilt
      /\ c.ratings = Play(before, played)
      /\ DOMAIN c.ratings = P /\ s \in DOMAIN c.listed
  BY DEF IngestChange, NoChange, OneRow, Play
<1>3. Commit(w, c, Idle) /\ ~Holding(Idle)
  BY NextOps DEF Ingest
<1>4. Current(o, s) /\ \A p \in P : Untouched(o, p)
  <2>1. <<"listed", s>> \in Rows(c) /\ \A p \in P : <<"rating", p>> \in Rows(c)
    BY <1>2 DEF Rows
  <2> QED
    BY <1>1, <1>3, <2>1 DEF Commit, Untouched
<1>5. /\ events' = (events \ Reconciled(o)) \cup {e} /\ plain' = plain \ (Reconciled(o) \cup {e})
      /\ owed' = (owed \/ Reconciled(o) # {})
      /\ late' = IF Reconciled(o) = {} THEN late ELSE Workers
      /\ ratings' = Over(Play(before, played), ratings)
  BY <1>2, <1>3 DEF Commit
<1>6. P \subseteq Players /\ P # {} /\ s \in Nat
  BY <1>1, SidesAssumption, SourcesAssumption DEF PlayersOf, Sources
<1>7. Table(ratings) /\ Table(u) /\ e.src = s /\ played.src = s
  BY DEF LedgerInv, Rateable, Db, Table
<1>8. /\ Table(Play(u, played))
      /\ \A p \in P : Play(u, played)[p] = Append(u[p], Entry(u, played, p))
      /\ \A p \in Players \ P : Play(u, played)[p] = u[p]
  <2>1. Table(u) /\ played.src \in Sources
    BY <1>1, <1>7
  <2> HIDE DEF u, played
  <2>2. PlayersOf(played.src) = P
    BY <1>7
  <2>3. /\ Table(Play(u, played))
        /\ \A p \in PlayersOf(played.src) : Play(u, played)[p] = Append(u[p], Entry(u, played, p))
        /\ \A p \in Players \ PlayersOf(played.src) : Play(u, played)[p] = u[p]
    BY ONLY <2>1, PlayOne
  <2> HIDE DEF P
  <2> QED
    BY <2>2, <2>3
<1>9. ratings' = Play(u, played)
  <2>1. ASSUME NEW p \in P PROVE Play(before, played)[p] = Append(u[p], Entry(u, played, p))
    <3>1. Opponents(s, p) \subseteq P
      BY DEF PlayersOf, Opponents
    <3>2. \A q \in P : u[q] = before[q]
      BY <1>6
    <3>3. [q \in Opponents(s, p) |-> before[q]] = [q \in Opponents(s, p) |-> u[q]]
      BY <3>1, <3>2
    <3>4. Play(before, played)[p] =
            Append(before[p], <<s, e.ver, [q \in Opponents(s, p) |-> before[q]], Unknown(s, p)>>)
      BY <1>7 DEF Play
    <3> QED
      BY <1>7, <3>2, <3>3, <3>4 DEF Entry
  <2>2. DOMAIN Play(before, played) = P
    BY DEF Play
  <2>3. DOMAIN ratings = Players
    BY <1>7 DEF Table
  <2>4. DOMAIN ratings' = Players /\ ratings' = [p \in DOMAIN ratings' |-> ratings'[p]]
    BY <1>5, <1>6, <2>2, <2>3 DEF Over
  <2>5. \A p \in Players : ratings'[p] = IF p \in P THEN Play(before, played)[p] ELSE ratings[p]
    BY <1>5, <1>6, <2>2, <2>3 DEF Over
  <2>6. \A p \in Players \ P : u[p] = ratings[p]
    OBVIOUS
  <2>7. \A p \in Players : ratings'[p] = Play(u, played)[p]
    BY <1>8, <2>1, <2>5, <2>6
  <2> QED
    BY <1>8, <2>4, <2>7 DEF Table
<1>10. \A p \in Players : /\ u[p] # NoRating => IsRating(u[p])
                         /\ \/ u[p] = ratings[p] /\ (p \in P => ratings[p] # NoRating)
                            \/ ratings[p] = NoRating /\ p \in P /\ \E x : u[p] = <<x>>
  <2> SUFFICES ASSUME NEW p \in Players
               PROVE  /\ u[p] # NoRating => IsRating(u[p])
                      /\ \/ u[p] = ratings[p] /\ (p \in P => ratings[p] # NoRating)
                         \/ ratings[p] = NoRating /\ p \in P /\ \E x : u[p] = <<x>>
    OBVIOUS
  <2>1. ratings[p] # NoRating => IsRating(ratings[p])
    BY DEF LedgerInv, Rateable, Rated, Db
  <2>2. CASE p \notin P
    BY <2>1, <2>2
  <2>3. CASE p \in P
    <3>1. ratings[p] = o.snap.ratings[p]
      BY <1>1, <1>4, <2>3 DEF Known
    <3>2. CASE ratings[p] # NoRating
      BY <2>1, <2>3, <3>1, <3>2
    <3>3. CASE ratings[p] = NoRating
      <4>1. u[p] = <<o.snap.tiers[p]>>
        BY <2>3, <3>1, <3>3
      <4> QED
        BY <2>3, <3>3, <4>1, Singleton
    <3> QED
      BY <3>2, <3>3
  <2> QED
    BY <2>2, <2>3
<1>11. /\ \A d \in events \ Reconciled(o) : d.src # s
       /\ \A d \in events \ Reconciled(o) : d.src > s => PlayersOf(d.src) \cap P = {}
  <2>1. \A d \in o.snap.events \ Reconciled(o) : d.src < s
    BY DEF Ingest, InOrder
  <2>2. ASSUME NEW d \in events \ Reconciled(o), d.src = s \/ d.src > s
        PROVE  d.src # s /\ PlayersOf(d.src) \cap P = {}
    <3>1. d.src \in Nat
      BY EventsSingle, SourcesAssumption DEF Single, Sources
    <3>2. d \notin o.snap.events
      BY <1>6, <2>1, <2>2, <3>1
    <3>3. d.src # s
      BY <1>4, <3>2 DEF Current
    <3>4. \A p \in PlayersOf(d.src) : ~Untouched(o, p)
      BY <1>1, <3>2 DEF Known
    <3> QED
      BY <1>4, <3>3, <3>4
  <2> QED
    BY <2>2
<1>20. Computed({e}, plain') = {played} /\ \A d \in events \ Reconciled(o) : d \in plain' <=> d \in plain
  <2>1. e \notin plain'
    BY <1>5
  <2>2. \A d \in events \ Reconciled(o) : d # e
    BY <1>11
  <2>3. Computed({e}, plain') = {[src |-> e.src, ver |-> e.ver, plain |-> e \in plain']}
    BY DEF Computed
  <2>4. e.src = s /\ (e \in plain') = FALSE
    BY <2>1
  <2>5. Computed({e}, plain') = {played}
    BY <2>3, <2>4
  <2>6. \A d \in events \ Reconciled(o) : d \in plain' <=> d \in plain
    BY <1>5, <2>2
  <2> QED
    BY <2>5, <2>6
<1> HIDE DEF c, e, before, u, P, played
<1>12. ASSUME NEW X, X \subseteq events \ Reconciled(o), NEW Q, P \subseteq Q, Q \subseteq Players,
              Exact(ratings, Deltas(X), Q)
       PROVE  Exact(ratings', Computed(X \cup {e}, plain'), Q)
  <2> DEFINE D == Deltas(X)
  <2>0. Computed(X \cup {e}, plain') = D \cup {played}
    <3>1. \A f \in X : f \in plain' <=> f \in plain
      BY <1>12, <1>20
    <3>2. Computed(X, plain') = D
      BY <3>1, SameDeltas DEF Deltas
    <3>3. Computed(X \cup {e}, plain') = Computed(X, plain') \cup Computed({e}, plain')
      BY ComputedTogether
    <3> QED
      BY <1>20, <3>2, <3>3
  <2>1. Single(D) /\ PlayersIn(D) = PlayersIn(X) /\ \A d \in D : \E f \in X : d.src = f.src
    BY <1>12, EventsSingle, ComputedKeeps DEF Deltas
  <2>2. \A p \in PlayersIn(D) : ratings[p] # NoRating
    <3>1. PlayersIn(X) \subseteq PlayersIn(events)
      BY <1>12 DEF PlayersIn
    <3> QED
      BY <2>1, <3>1 DEF LedgerInv, Rateable, Rated, Db
  <2>3. \A d \in D : /\ d.src # played.src
                     /\ d.src > played.src => PlayersOf(d.src) \cap PlayersOf(played.src) = {}
    BY <1>7, <1>11, <1>12, <2>1 DEF P
  <2>4. played.src \in Sources /\ PlayersOf(played.src) = P
    BY <1>1, <1>7 DEF P
  <2> HIDE DEF D
  <2>5. Exact(Play(u, played), D \cup {played}, Q)
    <3>1. Exact(ratings, D, Q)
      BY <1>12 DEF D
    <3> QED
      BY <1>7, <1>10, <1>12, <2>1, <2>2, <2>3, <2>4, <3>1, ExactAfterEvent
  <2> QED
    BY <1>9, <2>0, <2>5
<1>13. /\ \A p \in Players : ratings'[p] = NoRating => ratings[p] = NoRating /\ p \notin P
       /\ \A p \in Players : ratings'[p] # NoRating => IsRating(ratings'[p])
       /\ \A p \in Players \ P : ratings'[p] = ratings[p]
       /\ Table(ratings')
  <2>1. \A p \in P : IsRating(u[p])
    BY <1>6, <1>10, Singleton DEF IsRating, NoRating
  <2>2. \A p \in P : IsRating(ratings'[p])
    <3>1. \A p \in P : IsRating(Append(u[p], Entry(u, played, p)))
      BY <2>1, AppendRating
    <3> QED
      BY <1>8, <1>9, <3>1
  <2>3. \A p \in Players \ P : u[p] = ratings[p]
    BY <1>10
  <2> QED
    BY <1>8, <1>9, <1>10, <2>2, <2>3 DEF IsRating, NoRating
<1>14. Rated(Db) \subseteq Rated(Db)' /\ P \subseteq Rated(Db)'
  BY <1>6, <1>13 DEF Rated, Db
<1>15. Rateable(Db)'
  <2>1. PlayersIn(events') \subseteq PlayersIn(events) \cup P
    BY <1>5, <1>7 DEF PlayersIn, P
  <2> QED
    BY <1>13, <1>14, <2>1 DEF Rateable, Rated, Db, LedgerInv
<1>16. (owed => Rated(Db) # {})'
  BY <1>6, <1>14
<1>17. (~owed => Exact(ratings, Deltas(events), Players))'
  <2> SUFFICES ASSUME ~owed' PROVE Exact(ratings', Computed(events', plain'), Players)
    BY DEF Deltas
  <2>1. ~owed /\ Reconciled(o) = {}
    BY <1>5
  <2> QED
    BY <1>5, <1>6, <1>12, <2>1 DEF LedgerInv
<1>18. Nested' /\ \A v \in Workers : Holding(op'[v]) => Known(op[v])'
  <2>1. \A d \in c.new : PlayersOf(d.src) \subseteq DOMAIN c.ratings
    BY <1>2, <1>7 DEF P
  <2> QED
    BY <1>2, <1>3, <1>13, <1>14, <2>1, CommitKnown
<1>19. ASSUME NEW v \in Workers, Holding(op'[v]) PROVE Rest(v)'
  <2> DEFINE a == op[v]
             known == Rated(a.snap)
  <2>1. /\ Holding(a) /\ op'[v].snap = a.snap /\ op'[v].raced = a.raced \cup Rows(c)
        /\ Known(a) /\ Rest(v)
    BY <1>3, <1>19, CommitOps DEF LedgerInv
  <2>2. \A p : Untouched(op[v], p)' => Untouched(a, p) /\ p \notin P
    BY <1>2, <2>1 DEF Untouched, Rows
  <2>3. CASE Reconciled(o) # {}
    BY <1>5, <2>3 DEF Rest
  <2>4. CASE Reconciled(o) = {}
    <3>1. late' = late /\ (owed' <=> owed) /\ events' = events \cup {e}
      BY <1>5, <2>4
    <3>2. ASSUME v \notin late, \A p \in known : Untouched(op[v], p)'
          PROVE  Exact(ratings', Computed(events' \ a.snap.events, plain'), Players \ known)
      <4>1. P \cap known = {}
        BY <2>2, <3>2
      <4>2. e \notin a.snap.events
        BY <1>6, <1>7, <2>1, <4>1, SeenPlayers DEF P
      <4>3. events' \ a.snap.events = (events \ a.snap.events) \cup {e}
        BY <3>1, <4>2
      <4>4. Exact(ratings, Deltas(events \ a.snap.events), Players \ known)
        BY <2>1, <2>2, <3>2 DEF Rest
      <4>5. Exact(ratings', Computed((events \ a.snap.events) \cup {e}, plain'), Players \ known)
        BY <1>6, <1>12, <2>4, <4>1, <4>4
      <4> QED
        BY <4>3, <4>5
    <3>3. v \notin late' /\ owed' => known # {}
      BY <2>1, <3>1 DEF Rest
    <3>4. v \in late' /\ ~owed' => known = {} \/ \E p \in known : ~Untouched(op[v], p)'
      BY <2>1, <2>2, <3>1 DEF Rest
    <3>5. Rated(op'[v].snap) = known
      BY <2>1
    <3> QED
      BY <2>1, <3>1, <3>2, <3>3, <3>4, <3>5 DEF Rest, Deltas
  <2> QED
    BY <2>3, <2>4
<1> QED
  BY <1>15, <1>16, <1>17, <1>18, <1>19 DEF LedgerInv

\* What a rebuild writes, alone or after it has removed the events of a source.
Rebuilds(o, c) ==
  LET X == o.snap.events \ c.gone
      base == [p \in Players |-> IF p \in Rated(o.snap) THEN <<o.snap.tiers[p]>> ELSE <<NoTier>>]
  IN /\ c.gone \subseteq o.snap.events /\ c.new = {} /\ c.redone = X /\ c.rebuilt
     /\ c.ratings = [p \in Rated(o.snap) \cup PlayersIn(X) |-> Replay(Computed(X, X), base)[p]]

\* A rebuild that commits has seen all events of the players it knows.  When
\* it is late, everything has been put right already, or it knows nobody.
LEMMA RebuildLedger ==
  ASSUME IInv, LedgerInv, NEW w \in Workers, NEW c, Commit(w, c, Idle), Rebuilds(op[w], c)
  PROVE  LedgerInv'
<1> DEFINE o == op[w]
           K == Rated(o.snap)
           X == o.snap.events \ c.gone
           Z == events \ o.snap.events
           D == Computed(X, X)
           base == [p \in Players |-> IF p \in K THEN <<o.snap.tiers[p]>> ELSE <<NoTier>>]
<1>1. /\ Holding(o) /\ ~Holding(Idle) /\ Known(o) /\ Rest(w) /\ Rows(c) \cap o.raced = {}
      /\ K \subseteq Players /\ K \subseteq Rated(Db)
  BY NextOps DEF Commit, Holding, LedgerInv, Known, Rated
<1>2. \A e \in o.snap.events : /\ e.src \in Sources /\ PlayersOf(e.src) # {}
                               /\ PlayersOf(e.src) \subseteq K
  BY <1>1, SeenPlayers
<1>3. PlayersIn(X) \subseteq K /\ (K = {} => o.snap.events = {})
  BY <1>2 DEF PlayersIn
<1>4. /\ c.gone \subseteq o.snap.events /\ c.new = {} /\ c.redone = X /\ c.rebuilt
      /\ c.ratings = [p \in K |-> Replay(D, base)[p]] /\ DOMAIN c.ratings = K
  <2>1. K \cup PlayersIn(X) = K
    BY <1>3
  <2> QED
    BY <2>1 DEF Rebuilds
<1>5. /\ events' = events \ c.gone /\ ratings' = Over(c.ratings, ratings)
      /\ plain' = (plain \ c.gone) \cup X
      /\ owed' = (w \in late /\ (owed \/ c.gone # {}))
      /\ late' = IF c.gone = {} THEN late ELSE Workers
  BY <1>4 DEF Commit
<1>6. (\A p \in K : Untouched(o, p)) /\ o.snap.events \subseteq events
  <2>1. /\ \A p \in K : <<"rating", p>> \in Rows(c)
        /\ \A e \in o.snap.events : <<"event", e>> \in Rows(c)
    BY <1>4 DEF Rows
  <2> QED
    BY <1>1, <2>1 DEF Known, Untouched
<1>7. Single(X) /\ Single(Z) /\ Single(events') /\ events' = X \cup Z
  <2>1. X \subseteq events /\ Z \subseteq events /\ events' \subseteq events /\ events' = X \cup Z
    BY <1>4, <1>5, <1>6
  <2> QED
    BY <2>1, EventsSingle
<1>8. Table(ratings) /\ Table(ratings')
      /\ \A p \in Players : ratings'[p] = IF p \in K THEN Replay(D, base)[p] ELSE ratings[p]
  <2>1. Table(ratings) /\ DOMAIN ratings = Players
    BY DEF LedgerInv, Rateable, Db, Table
  <2>2. DOMAIN ratings' = Players /\ ratings' = [p \in DOMAIN ratings' |-> ratings'[p]]
    BY <1>1, <1>4, <1>5, <2>1 DEF Over
  <2>3. \A p \in Players : ratings'[p] = IF p \in K THEN Replay(D, base)[p] ELSE ratings[p]
    <3> HIDE DEF X, D, base
    <3> QED
      BY <1>1, <1>4, <1>5, <2>1 DEF Over
  <2> QED
    BY <2>1, <2>2, <2>3 DEF Table
<1>9. Table(base) /\ \A p \in Players : base[p] = <<base[p][1]>>
  <2>1. \A p \in Players : \E x : base[p] = <<x>>
    OBVIOUS
  <2> QED
    BY <2>1, Singleton DEF Table
<1>22. Computed(events', plain') = D \cup Deltas(Z)
  <2>1. Computed(X, plain') = D
    <3>1. \A e \in X : e \in plain' <=> e \in X
      BY <1>5
    <3> HIDE DEF X
    <3> QED
      BY <3>1, SameDeltas
  <2>2. Computed(Z, plain') = Deltas(Z)
    <3>1. \A e \in Z : e \in plain' <=> e \in plain
      BY <1>4, <1>5
    <3> HIDE DEF Z
    <3> QED
      BY <3>1, SameDeltas DEF Deltas
  <2> HIDE DEF X, Z, D
  <2> QED
    BY <1>7, <2>1, <2>2, ComputedTogether
<1>23. /\ Single(D) /\ PlayersIn(D) = PlayersIn(X)
       /\ Single(Deltas(Z)) /\ PlayersIn(Deltas(Z)) = PlayersIn(Z) /\ Single(D \cup Deltas(Z))
  <2> HIDE DEF X, Z
  <2> QED
    BY <1>7, <1>22, DeltasSingle DEF Deltas
<1> HIDE DEF X, D, base, K, Z
<1>10. Exact(ratings', D, K) /\ \A p \in K : IsRating(ratings'[p])
  BY <1>1, <1>3, <1>8, <1>9, <1>23, ExactAfterRebuild
<1>11. PlayersIn(Z) \subseteq Players \ K
  <2>1. \A e \in Z : /\ PlayersOf(e.src) \subseteq Players
                     /\ \A p \in PlayersOf(e.src) : ~Untouched(o, p)
    BY <1>1, <1>7, PlayersOfEvents DEF Z, Known
  <2> QED
    BY <1>6, <2>1 DEF PlayersIn
<1>12. Exact(ratings, Deltas(Z), Players \ K) => Exact(ratings', Computed(events', plain'), Players)
  <2> SUFFICES ASSUME Exact(ratings, Deltas(Z), Players \ K)
               PROVE  Exact(ratings', Computed(events', plain'), Players)
    OBVIOUS
  <2>1. \A p \in Players \ K : ratings'[p] = ratings[p]
    BY <1>8
  <2> DEFINE N == Deltas(Z)
  <2>2. \A e \in N : PlayersOf(e.src) \subseteq Players \ K
    BY <1>11, <1>23 DEF PlayersIn
  <2> HIDE DEF N
  <2>3. Exact(ratings', N, Players \ K)
    <3> DEFINE Q == Players \ K
    <3>1. Q \subseteq Players /\ N \subseteq N /\ \A e \in N \ N : PlayersOf(e.src) \cap Q = {}
      OBVIOUS
    <3>2. (\A p \in Q : ratings'[p] = ratings[p]) /\ (\A e \in N : PlayersOf(e.src) \subseteq Q)
          /\ Exact(ratings, N, Q) /\ Single(N)
      BY <1>23, <2>1, <2>2 DEF N
    <3> HIDE DEF Q
    <3>3. Exact(ratings', N, Q)
      BY <3>1, <3>2, ExactIsLocal
    <3> QED
      BY <3>3 DEF Q
  <2>4. Computed(events', plain') = D \cup N /\ Single(D \cup N)
        /\ PlayersIn(N) \subseteq Players \ K /\ PlayersIn(D) \subseteq K
    BY <1>3, <1>11, <1>22, <1>23 DEF N
  <2> QED
    BY <1>1, <1>10, <2>3, <2>4, ExactTogether
<1>13. w \notin late => Exact(ratings', Computed(events', plain'), Players)
  BY <1>1, <1>6, <1>12 DEF Rest, K, Z
<1>14. w \in late /\ ~owed => K = {}
  BY <1>1, <1>6 DEF Rest, K
<1>15. K = {} => events' = events /\ plain' = plain /\ ratings' = ratings /\ c.gone = {}
  <2> SUFFICES ASSUME K = {}
               PROVE  events' = events /\ plain' = plain /\ ratings' = ratings /\ c.gone = {}
    OBVIOUS
  <2>1. c.gone = {} /\ X = {}
    BY <1>3, <1>4 DEF X
  <2>2. \A p \in Players : ratings'[p] = ratings[p]
    BY <1>8
  <2> QED
    BY <1>5, <1>8, <2>1, <2>2 DEF Table
<1>16. Rated(Db)' = Rated(Db)
  <2>1. \A p \in K : ratings'[p] # NoRating /\ ratings[p] # NoRating
    BY <1>1, <1>10 DEF IsRating, NoRating, Rated, Db
  <2> QED
    BY <1>8, <2>1 DEF Rated, Db
<1>17. Rateable(Db)'
  <2>1. PlayersIn(events') \subseteq PlayersIn(events)
    BY <1>5 DEF PlayersIn
  <2>2. \A p \in Rated(Db) : IsRating(ratings'[p])
    BY <1>8, <1>10 DEF LedgerInv, Rateable, Rated, Db
  <2> QED
    BY <1>8, <1>16, <2>1, <2>2 DEF Rateable, Db, LedgerInv
<1>18. (owed => Rated(Db) # {})'
  <2>1. c.gone # {} => K # {}
    BY <1>3, <1>4
  <2> QED
    BY <1>1, <1>5, <1>16, <2>1 DEF LedgerInv
<1>19. (~owed => Exact(ratings, Deltas(events), Players))'
  <2>1. CASE w \notin late
    BY <1>13, <2>1 DEF Deltas
  <2>2. CASE w \in late
    BY <1>5, <1>14, <1>15, <2>2 DEF LedgerInv, Deltas
  <2> QED
    BY <2>1, <2>2
<1>20. Nested' /\ \A v \in Workers : Holding(op'[v]) => Known(op[v])'
  <2>1. \A p \in Players \ DOMAIN c.ratings : ratings'[p] = ratings[p]
    BY <1>4, <1>8
  <2> QED
    BY <1>1, <1>4, <1>16, <2>1, CommitKnown
<1>21. ASSUME NEW v \in Workers, Holding(op'[v]) PROVE Rest(v)'
  <2> DEFINE a == op[v]
             known == Rated(a.snap)
  <2>1. /\ Holding(a) /\ op'[v].snap = a.snap /\ op'[v].raced = a.raced \cup Rows(c)
        /\ Known(a) /\ Rest(v)
        /\ known \subseteq K \/ K \subseteq known
    BY <1>1, <1>21, CommitOps DEF LedgerInv, Nested, K
  <2>2. \A p : Untouched(op[v], p)' => Untouched(a, p) /\ p \notin K
    BY <1>4, <2>1 DEF Untouched, Rows
  <2>3. Rated(op'[v].snap) = known
    BY <2>1
  <2>4. known = {} => a.snap.events = {}
    BY <2>1, SeenPlayers
  <2> HIDE DEF known
  <2>5. CASE K = {}
    <3>1. /\ events' = events /\ plain' = plain /\ ratings' = ratings
          /\ late' = late /\ (owed' => owed)
      BY <1>5, <1>15, <2>5
    <3>2. v \in late /\ ~owed' => ~owed
      BY <1>1, <1>5, <2>5 DEF Rest, K
    <3> QED
      BY <2>1, <2>2, <2>3, <3>1, <3>2 DEF Rest, Deltas, known
  <2>6. CASE K # {}
    <3>1. (\A p \in known : Untouched(op[v], p)') => known = {}
      BY <2>1, <2>2, <2>6
    <3>2. ASSUME v \notin late', known = {} PROVE Exact(ratings', Computed(events', plain'), Players)
      <4>1. c.gone = {} /\ v \notin late /\ ~owed
        BY <1>5, <2>1, <3>2 DEF Rest, known
      <4>2. w \notin late
        BY <1>14, <2>6, <4>1
      <4> QED
        BY <1>13, <4>2
    <3>3. v \notin late' /\ (\A p \in known : Untouched(op[v], p)')
            => Exact(ratings', Computed(events' \ op'[v].snap.events, plain'), Players \ known)
      <4> SUFFICES ASSUME v \notin late', \A p \in known : Untouched(op[v], p)'
                   PROVE  Exact(ratings', Computed(events' \ op'[v].snap.events, plain'), Players \ known)
        OBVIOUS
      <4>1. known = {} /\ op'[v].snap.events = {}
        BY <2>1, <2>4, <3>1
      <4>2. events' \ op'[v].snap.events = events' /\ Players \ known = Players
        BY <4>1
      <4> QED
        BY <3>2, <4>1, <4>2
    <3>4. v \notin late' /\ owed' => known # {}
      BY <1>5, <2>1 DEF Rest, known
    <3>5. v \in late' /\ ~owed' => known = {} \/ \E p \in known : ~Untouched(op[v], p)'
      BY <3>1
    <3> QED
      BY <2>3, <3>3, <3>4, <3>5 DEF Rest, Deltas
  <2> QED
    BY <2>5, <2>6
<1> QED
  BY <1>17, <1>18, <1>19, <1>20, <1>21 DEF LedgerInv

\* What the others hold after a step that neither commits nor takes a snapshot.
LEMMA OpsStay ==
  ASSUME IInv, [Next]_vars,
         \A w \in Workers : ~TakeSnapshot(w) /\ ~Ingest(w) /\ ~Mark(w) /\ ~RebuildAll(w)
                            /\ ~RevertSource(w) /\ ~CloseAndStartSeason(w) /\ ~AdminDelete(w)
  PROVE  /\ UNCHANGED <<events, plain, ratings, owed, late>>
         /\ \A v \in Workers : Holding(op'[v]) =>
              Holding(op[v]) /\ op'[v].snap = op[v].snap /\ op[v].raced \subseteq op'[v].raced
<1> DEFINE Stays == \A v \in Workers : Holding(op'[v]) =>
              Holding(op[v]) /\ op'[v].snap = op[v].snap /\ op[v].raced \subseteq op'[v].raced
<1>1. CASE UNCHANGED vars
  BY <1>1 DEF vars, tables
<1>2. ASSUME NEW w \in Workers, NEW o, ~Holding(o), op' = [op EXCEPT ![w] = o] PROVE Stays
  <2>1. \A v \in Workers : op'[v] = IF v = w THEN o ELSE op[v]
    BY <1>2 DEF IInv, OpsInv
  <2> QED
    BY <1>2, <2>1
<1>3. ASSUME NEW rows, Edit(rows) PROVE Stays
  <2> SUFFICES ASSUME NEW v \in Workers, Holding(op'[v])
               PROVE  Holding(op[v]) /\ op'[v].snap = op[v].snap /\ op[v].raced \subseteq op'[v].raced
    OBVIOUS
  <2>1. op'[v] = IF Holding(op[v]) THEN [op[v] EXCEPT !.raced = @ \cup rows] ELSE op[v]
    BY <1>3 DEF Edit, Holding
  <2> QED
    BY <2>1, WithRaced DEF Holding, IInv, OpsInv
<1>4. ASSUME NEW w \in Workers, Lock(w) PROVE Stays
  <2>1. \A v \in Workers : op'[v] = IF v = w THEN [op[w] EXCEPT !.at = "running"] ELSE op[v]
    BY <1>4 DEF Lock, IInv, OpsInv
  <2> QED
    BY <1>4, <2>1, WithAt DEF Lock, Holding, IInv, OpsInv
<1>5. CASE \E w \in Workers : Step(w) \/ Fail(w)
  <2>1. PICK w \in Workers : Lock(w) \/ GiveUp(w) \/ Fail(w)
    BY <1>5 DEF Step
  <2>2. CASE Lock(w)
    BY <1>4, <2>2 DEF Lock, tables
  <2>3. CASE GiveUp(w) \/ Fail(w)
    BY <1>2, <2>3, NextOps DEF GiveUp, Fail, tables
  <2> QED
    BY <2>1, <2>2, <2>3
<1>6. CASE \E c \in Clients : \/ \E r \in Requests : Request(c, r.kind, r.src)
                              \/ \E x \in Promotions : SetPlayerTier(c, x[1], x[2])
  <2>1. PICK c \in Clients : \/ \E r \in Requests : Request(c, r.kind, r.src)
                             \/ \E x \in Promotions : SetPlayerTier(c, x[1], x[2])
    BY <1>6
  <2>2. c \in Workers
    BY DEF Workers
  <2>3. CASE \E r \in Requests : Request(c, r.kind, r.src)
    <3>1. PICK r \in Requests : Request(c, r.kind, r.src)
      BY <2>3
    <3>2. op' = [op EXCEPT ![c] = Begun(r.kind, r.src)] /\ ~Holding(Begun(r.kind, r.src))
      BY <3>1 DEF Request, Take, Holding, Begun
    <3> QED
      BY <1>2, <2>2, <3>1, <3>2 DEF Request, Take, tables
  <2>4. CASE \E x \in Promotions : SetPlayerTier(c, x[1], x[2])
    BY <1>2, <2>2, <2>4, NextOps DEF SetPlayerTier
  <2> QED
    BY <2>1, <2>3, <2>4
<1>7. CASE Tick \/ IngestNext
  <2>1. CASE Tick
    BY <2>1 DEF Tick, tables
  <2>2. CASE IngestNext
    <3>1. PICK s \in todo : Take(Ticker, "ingest", s)
      BY <2>2 DEF IngestNext
    <3>2. op' = [op EXCEPT ![Ticker] = Begun("ingest", s)] /\ ~Holding(Begun("ingest", s))
      BY <3>1 DEF Take, Holding, Begun
    <3>3. Ticker \in Workers
      BY DEF Workers
    <3> QED
      BY <1>2, <3>1, <3>2, <3>3 DEF Take, tables
  <2> QED
    BY <1>7, <2>1, <2>2
<1>8. CASE \E s \in Sources : \/ Score(s) \/ DeleteDraft(s)
                              \/ \E on \in BOOLEAN : SetLocked(s, on) \/ SetSourceFinalized(s, on)
  <2>1. \E rows : Edit(rows)
    BY <1>8 DEF Score, DeleteDraft, SetLocked, SetSourceFinalized
  <2> QED
    BY <1>3, <2>1 DEF Edit
<1> QED
  BY <1>1, <1>5, <1>6, <1>7, <1>8 DEF Next

LEMMA StepLedger == IInv /\ IInv' /\ LedgerInv /\ [Next]_vars => LedgerInv'
<1> SUFFICES ASSUME IInv, IInv', LedgerInv, [Next]_vars PROVE LedgerInv'
  OBVIOUS
<1>1. ASSUME NEW w \in Workers, Mark(w) PROVE LedgerInv'
  <2> DEFINE c == MarkChange(op[w])
  <2>1. /\ c.gone = Reconciled(op[w]) /\ c.new = {} /\ c.redone = {} /\ DOMAIN c.ratings = {} /\ ~c.rebuilt
        /\ Reconciled(op[w]) \subseteq op[w].snap.events
    BY DEF MarkChange, NoChange, NoRows, Reconciled, Own
  <2>2. Commit(w, c, Idle) /\ ~Holding(Idle)
    BY <1>1, NextOps DEF Mark
  <2> QED
    BY <2>1, <2>2, RemovalLedger
<1>2. ASSUME NEW w \in Workers, CloseAndStartSeason(w) PROVE LedgerInv'
  <2> DEFINE c == SeasonChange(op[w])
  <2>1. c.gone \subseteq op[w].snap.events /\ c.new = {} /\ c.redone = {} /\ DOMAIN c.ratings = {} /\ ~c.rebuilt
    BY DEF SeasonChange, NoChange, NoRows
  <2>2. Commit(w, c, Begun("rebuild", 0)) /\ ~Holding(Begun("rebuild", 0))
    BY <1>2, NextOps DEF CloseAndStartSeason
  <2> QED
    BY <2>1, <2>2, RemovalLedger
<1>3. ASSUME NEW w \in Workers, AdminDelete(w) PROVE LedgerInv'
  <2> DEFINE c == DeleteChange(op[w])
  <2>1. c.gone \subseteq op[w].snap.events /\ c.new = {} /\ c.redone = {} /\ DOMAIN c.ratings = {} /\ ~c.rebuilt
    BY DEF DeleteChange, NoChange, NoRows, Own
  <2>2. Commit(w, c, Begun("rebuild", 0)) /\ ~Holding(Begun("rebuild", 0))
    BY <1>3, NextOps DEF AdminDelete
  <2> QED
    BY <2>1, <2>2, RemovalLedger
<1>4. ASSUME NEW w \in Workers, RebuildAll(w) PROVE LedgerInv'
  <2> DEFINE o == op[w]
             c == RebuildChange(o, o.snap.events)
  <2>1. o.snap.events \ {} = o.snap.events
    OBVIOUS
  <2>2. Rebuilds(o, c)
    BY <2>1 DEF Rebuilds, RebuildChange, NoChange
  <2>3. Commit(w, c, Idle)
    BY <1>4 DEF RebuildAll
  <2> QED
    BY <2>2, <2>3, RebuildLedger
<1>5. ASSUME NEW w \in Workers, RevertSource(w) PROVE LedgerInv'
  <2> DEFINE o == op[w]
             c == RevertChange(o)
  <2>1. Own(o.snap, o.src) \subseteq o.snap.events
    BY DEF Own
  <2>2. Rebuilds(o, c)
    BY <2>1 DEF Rebuilds, RevertChange, RebuildChange, NoChange
  <2>3. Commit(w, c, Idle)
    BY <1>5 DEF RevertSource
  <2> QED
    BY <2>2, <2>3, RebuildLedger
<1> QED
  BY <1>1, <1>2, <1>3, <1>4, <1>5, IngestLedger, LedgerSnapshot, OpsStay, LedgerAlone

-----------------------------------------------------------------------------
(* The theorems *)

\* Every reachable state has events and fingerprints that fit, and operations
\* that know what nobody has written since their snapshot.
THEOREM InvariantHolds == Spec => []IInv
BY InitIInv, StepIInv, PTL DEF Spec

\* No source is counted twice, though it may be edited, reverted and ingested
\* by several at once (rating.go:203-222, the order check, on a snapshot that
\* may be older than the advisory lock).
THEOREM CountedOnce == Spec => []OneVersionPerSource
<1>1. IInv => OneVersionPerSource
  BY DEF IInv
<1> QED
  BY <1>1, InvariantHolds, PTL

\* Without auto_reconcile, the default, a fingerprint vouches for events, for
\* any number of clients and requests.  With it rating.go:147-201 removes the
\* events of a source that no longer has a match in the season and keeps the
\* fingerprint.
THEOREM FingerprintsVouch == ASSUME ~AutoReconcile PROVE Spec => []FingerprintBacked
<1>1. IInv => FingerprintBacked
  BY DEF IInv, Backed
<1> QED
  BY <1>1, InvariantHolds, PTL

\* The ledger invariant: what a rebuild from each snapshot would miss.
THEOREM LedgerInvariantHolds == Spec => []LedgerInv
BY InitLedger, StepLedger, InvariantHolds, PTL DEF Spec

\* Unless a rebuild is owed, the ratings are the replay of the events, each with
\* the opponents it was last computed with (an ingest counts placeholders, a
\* rebuild does not), for any number of clients, sources, players and
\* placeholders, with and without auto_reconcile: ingest (rating.go:224-506)
\* plays its event last although its order check and its ratings are of an old
\* snapshot, and rebuildAll (rating_revert.go:139-385) writes only the players
\* it has seen.
THEOREM LedgerReplays == Spec => []LedgerIsReplay
<1>1. LedgerInv => LedgerIsReplay
  <2> SUFFICES ASSUME LedgerInv, ~owed PROVE LedgerIsReplay
    BY DEF LedgerIsReplay, IsReplay
  <2>1. Exact(ratings, Deltas(events), Players) /\ PlayersIn(Deltas(events)) = PlayersIn(events)
    BY ComputedKeeps DEF LedgerInv, Deltas
  <2>2. \A p \in Players : p \in Rated(Db) <=> ratings[p] # NoRating
    BY DEF Rated, Db
  <2>3. Formed = Base(ratings)
    BY <2>2 DEF Base, Formed
  <2>4. \A p \in Players : IF p \in Rated(Db) THEN ratings[p] = Replay(Deltas(events), Formed)[p]
                                             ELSE p \notin PlayersIn(events)
    BY <2>1, <2>2, <2>3 DEF Exact
  <2> QED
    BY <2>4 DEF LedgerIsReplay, IsReplay, Deltas
<1> QED
  BY <1>1, LedgerInvariantHolds, PTL
=============================================================================
