--------------------------- MODULE TournamentProofs ---------------------------
(***************************************************************************)
(* For any number of clients, contents and requests: the saves and deletes *)
(* of a tournament take effect at once, the rating source under the share  *)
(* code goes with the tournament, and a save with a version replaces what  *)
(* its client was shown.                                                   *)
(***************************************************************************)
EXTENDS TournamentStore, TLAPS

\* An inserted row has a version and a removed one leaves nothing behind.
RowInv ==
  IF uuid = 0 THEN version = 0 /\ format = "classic" /\ tables = NoTables /\ ~Listed(ShareCode)
              ELSE version # 0

\* Who holds the row, and that one request at a time does.
LockInv ==
  /\ \A c \in Clients : tx[c].locked <=> tx[c].pc \in {"source", "commit", "end"}
  /\ \A c, d \in Clients : tx[c].locked /\ tx[d].locked => c = d

\* What a save found is what there is.
Found(c) ==
  tx[c].pc \in {"source", "commit"} =>
    /\ uuid = tx[c].id /\ version = tx[c].ver
    /\ tx[c].expected \in {0, version} /\ tx[c].by \in {ShareCode, uuid}

\* What a delete's snapshot says of the source is true while the snapshot is
\* not older than the row.
Deleting(c) ==
  tx[c].pc \in {"sources", "row", "end"} =>
    /\ tx[c].id \in 1..born
    /\ uuid = tx[c].id => tx[c].ver <= version
    /\ uuid = tx[c].id /\ version = tx[c].ver => (tx[c].rated <=> Listed(ShareCode))
    /\ tx[c].pc # "sources" => (tx[c].took <=> tx[c].rated)
    /\ tx[c].pc = "end" => uuid = tx[c].id /\ version = tx[c].ver

\* Tables read under a version are that version's, as long as it is current.
Faithful(id, ver, f, parts) ==
  /\ id \in 0..born
  /\ id = 0 => ver = 0 /\ parts = <<>>
  /\ uuid = id => ver <= version
  /\ uuid = id /\ version = ver => \A i \in DOMAIN parts : parts[i] = tables[f]

Reading(c) ==
  IF tx[c].pc = "read"
    THEN tx[c].id # 0 /\ Faithful(tx[c].id, tx[c].ver, tx[c].format, tx[c].parts)
    ELSE tx[c].parts = <<>>
Viewed(c) == Faithful(view[c].id, view[c].version, view[c].format, view[c].parts)

\* A save is sent with its client's version or none, by uuid only with one, and
\* a PUT that passed the check of the format has the format that version has.
Sent(c) ==
  /\ tx[c].pc \in {"header", "read"} => tx[c].op = "get"
  /\ tx[c].op \in {"put", "create", "patch"} =>
       /\ tx[c].expected \in {0, view[c].version} /\ tx[c].content \in Contents
       /\ tx[c].by \in {ShareCode, view[c].id}
       /\ tx[c].by # ShareCode => tx[c].expected # 0
  /\ (/\ tx[c].op = "put" /\ tx[c].pc \in {"lock", "source", "commit"}
      /\ tx[c].expected = version /\ view[c].id = uuid /\ uuid # 0) => tx[c].format = format

Good(c) == Found(c) /\ Deleting(c) /\ Reading(c) /\ Viewed(c) /\ Sent(c)

IInv == RowInv /\ LockInv /\ \A c \in Clients : Good(c)

-----------------------------------------------------------------------------
(* Types *)

\* Requests that begin, and the empty tables, have their types.
LEMMA IdleTyped == Idle \in Request /\ NoView \in View /\ Empty \in TableSet /\ NoTables \in [Formats -> TableSet]
<1>1. <<>> \in Seq(TableSet)
  OBVIOUS
<1> QED
  BY <1>1 DEF Idle, ShareCode, Request, Labels, Formats, NoView, View, Empty, TableSet, NoTables

\* The initial states have their types.
LEMMA InitTyped == Init => TypeOK
<1> SUFFICES ASSUME Init PROVE TypeOK
  OBVIOUS
<1>1. tx \in [Clients -> Request] /\ view \in [Clients -> View] /\ left \in 0..MaxRequests
  BY IdleTyped, BoundAssumption DEF Init
<1>2. /\ born \in Nat /\ uuid \in 0..born /\ version \in Nat /\ format \in Formats
      /\ tables \in [Formats -> TableSet] /\ sources \subseteq Source
  BY IdleTyped DEF Init, Formats, NoTables, Empty, TableSet, Source, ShareCode
<1> QED
  BY <1>1, <1>2 DEF TypeOK

\* Ending a request keeps the types.
LEMMA FinishTyped ==
  ASSUME TypeOK, NEW c \in Clients, Finish(c)
  PROVE  tx' \in [Clients -> Request]
BY IdleTyped DEF TypeOK, Finish

\* The steps of a load keep the types.
LEMMA ReadTyped ==
  ASSUME TypeOK, NEW c \in Clients, NEW found \in TableSet, NEW n \in Nat, ReadTable(c, found, n)
  PROVE  tx' \in [Clients -> Request] /\ view' \in [Clients -> View]
<1> DEFINE parts == Append(tx[c].parts, found)
<1>1. parts \in Seq(TableSet)
  BY DEF TypeOK, Request
<1>2. CASE Len(parts) = n
  <2>1. Received(c, parts)
    BY <1>2 DEF ReadTable
  <2>2. [id |-> tx[c].id, version |-> tx[c].ver, format |-> tx[c].format, parts |-> parts] \in View
    BY <1>1 DEF TypeOK, Request, View
  <2>3. view' \in [Clients -> View] /\ Finish(c)
    BY <2>1, <2>2 DEF Received, TypeOK
  <2> QED
    BY <2>3, FinishTyped
<1>3. CASE Len(parts) # n
  <2>1. tx' = [tx EXCEPT ![c].parts = parts] /\ UNCHANGED view
    BY <1>3 DEF ReadTable
  <2>2. ASSUME NEW p \in Seq(TableSet) PROVE [tx[c] EXCEPT !.parts = p] \in Request
    <3>1. tx[c] \in Request
      BY DEF TypeOK
    <3> QED
      BY <3>1 DEF Request
  <2> HIDE DEF parts
  <2> QED
    BY <1>1, <2>1, <2>2 DEF TypeOK
<1> QED
  BY <1>2, <1>3

\* A commit of a save keeps the types.
LEMMA CommitTyped ==
  ASSUME TypeOK, NEW c \in Clients, NEW f \in Formats, CommitTables(c, f), tx[c].content \in Contents
  PROVE  TypeOK'
<1>1. /\ born' \in Nat /\ uuid' \in 0..born' /\ version' \in Nat /\ format' \in Formats
  BY DEF TypeOK, CommitTables, WriteHeader, Request, Formats
<1>0. tx[c] \in Request
  BY DEF TypeOK
<1>2. tables' \in [Formats -> TableSet] /\ sources' \subseteq Source
  BY <1>0, <1>1 DEF TypeOK, CommitTables, TableSet, Source, Request
<1>3. [Idle EXCEPT !.pc = "header", !.op = "get", !.format = f, !.by = tx[c].by] \in Request
  BY <1>0, IdleTyped DEF Request, Labels
<1>4. tx' \in [Clients -> Request]
  BY <1>3 DEF TypeOK, CommitTables
<1> QED
  BY <1>1, <1>2, <1>4 DEF TypeOK, CommitTables
-----------------------------------------------------------------------------
(* Steps that leave the database alone *)

\* A step that changes one request only, which stays good, keeps everything.
LEMMA QuietStep ==
  ASSUME TypeOK, IInv, NEW c \in Clients, NEW r \in Request,
         db' = db, tx' = [tx EXCEPT ![c] = r], left' \in 0..MaxRequests,
         view' \in [Clients -> View], \A d \in Clients \ {c} : view'[d] = view[d],
         r.locked <=> r.pc \in {"source", "commit", "end"},
         r.locked => tx[c].locked \/ Lockable(c),
         Good(c)'
  PROVE  TypeOK' /\ IInv'
<1>1. UNCHANGED <<born, uuid, version, format, tables, sources>>
  BY DEF db, row
<1>2. TypeOK'
  BY <1>1 DEF TypeOK
<1>3. tx'[c] = r /\ \A d \in Clients \ {c} : tx'[d] = tx[d]
  BY DEF TypeOK
<1>4. RowInv'
  BY <1>1 DEF IInv, RowInv, Listed
<1>5. LockInv'
  BY <1>3 DEF IInv, LockInv, Lockable
<1>6. ASSUME NEW d \in Clients \ {c} PROVE Good(d)'
  BY <1>1, <1>3 DEF IInv, Good, Found, Deleting, Listed, Reading, Viewed, Faithful, Sent
<1> QED
  BY <1>2, <1>4, <1>5, <1>6 DEF IInv

\* A request that ends.
LEMMA FinishStep ==
  ASSUME TypeOK, IInv, NEW c \in Clients, Finish(c), db' = db, UNCHANGED <<view, left>>
  PROVE  TypeOK' /\ IInv'
<1>1. tx' = [tx EXCEPT ![c] = Idle] /\ tx'[c] = Idle
  BY DEF Finish, TypeOK
<1>2. UNCHANGED <<born, uuid, version, format, tables, sources>>
  BY DEF db, row
<1>3. Good(c)'
  BY <1>1, <1>2 DEF IInv, Good, Found, Deleting, Listed, Reading, Viewed, Faithful, Sent, Idle
<1>4. ~Idle.locked /\ Idle.pc = "idle" /\ Idle \in Request
  BY IdleTyped DEF Idle
<1> QED
  BY <1>1, <1>3, <1>4, QuietStep DEF TypeOK

\* A request that begins, with the version of its client or without one.
LEMMA SendStep ==
  ASSUME TypeOK, IInv, NEW c \in Clients, Send(c)
  PROVE  TypeOK' /\ IInv'
<1>1. ASSUME NEW r \in Request, Issue(c, r), r.pc \in {"check", "find"}, ~r.locked, r.parts = <<>>,
             r.op \in {"put", "create", "patch"} =>
               /\ r.expected \in {0, view[c].version} /\ r.content \in Contents
               /\ r.by \in {ShareCode, view[c].id} /\ (r.by # ShareCode => r.expected # 0)
      PROVE  TypeOK' /\ IInv'
  <2>1. tx' = [tx EXCEPT ![c] = r] /\ tx'[c] = r /\ db' = db /\ view' = view /\ left' \in 0..MaxRequests
    BY <1>1, BoundAssumption DEF Issue, TypeOK
  <2>2. UNCHANGED <<born, uuid, version, format, tables, sources>>
    BY <2>1 DEF db, row
  <2>3. Good(c)'
    BY <1>1, <2>1, <2>2 DEF IInv, Good, Found, Deleting, Listed, Reading, Viewed, Faithful, Sent
  <2> QED
    BY <1>1, <2>1, <2>3, QuietStep DEF TypeOK
<1>2. view[c].id \in Nat /\ view[c].version \in Nat /\ Lookups(c) \subseteq Nat
  BY DEF Lookups, ShareCode, TypeOK, View
<1>8. ASSUME NEW t \in Targets(c)
      PROVE  /\ t.by \in {ShareCode, view[c].id} /\ t.by \in Nat
             /\ t.expected \in {0, view[c].version} /\ t.expected \in Nat
             /\ t.by # ShareCode => t.expected # 0
  BY <1>2, <1>8 DEF Targets, Lookups
<1>3. CASE SendPut(c)
  <2>1. PICK f \in Formats, x \in Contents, t \in Targets(c) :
          Issue(c, [Idle EXCEPT !.pc = "check", !.op = "put", !.by = t.by, !.format = f,
                                !.content = x, !.expected = t.expected])
    BY <1>3 DEF SendPut
  <2> DEFINE r == [Idle EXCEPT !.pc = "check", !.op = "put", !.by = t.by, !.format = f,
                               !.content = x, !.expected = t.expected]
  <2>2. /\ r \in Request /\ r.pc = "check" /\ ~r.locked /\ r.parts = <<>>
        /\ r.by = t.by /\ r.expected = t.expected /\ r.content = x
    BY <1>8, IdleTyped DEF Idle, Request, Labels
  <2> HIDE DEF r
  <2> QED
    BY <1>1, <1>8, <2>1, <2>2 DEF r
<1>4. CASE SendCreate(c)
  <2>1. PICK f \in Formats, x \in Contents :
          Issue(c, [Idle EXCEPT !.pc = "check", !.op = "create", !.format = f, !.content = x])
    BY <1>4 DEF SendCreate
  <2> DEFINE r == [Idle EXCEPT !.pc = "check", !.op = "create", !.format = f, !.content = x]
  <2>2. r \in Request /\ r.pc = "check" /\ ~r.locked /\ r.parts = <<>> /\ r.expected = 0 /\ r.content = x /\ r.by = ShareCode
    BY IdleTyped DEF Idle, Request, Labels
  <2> QED
    BY <1>1, <2>1, <2>2
<1>5. CASE SendPatch(c)
  <2>1. PICK x \in Contents, t \in Targets(c) :
          Issue(c, [Idle EXCEPT !.pc = "check", !.op = "patch", !.by = t.by,
                                !.content = x, !.expected = t.expected])
    BY <1>5 DEF SendPatch
  <2> DEFINE r == [Idle EXCEPT !.pc = "check", !.op = "patch", !.by = t.by,
                               !.content = x, !.expected = t.expected]
  <2>2. /\ r \in Request /\ r.pc = "check" /\ ~r.locked /\ r.parts = <<>>
        /\ r.by = t.by /\ r.expected = t.expected /\ r.content = x
    BY <1>8, IdleTyped DEF Idle, Request, Labels
  <2> HIDE DEF r
  <2> QED
    BY <1>1, <1>8, <2>1, <2>2 DEF r
<1>6. CASE SendGet(c)
  <2>2. PICK by \in Lookups(c) : Issue(c, [Idle EXCEPT !.pc = "check", !.op = "get", !.by = by])
    BY <1>6 DEF SendGet
  <2> DEFINE r == [Idle EXCEPT !.pc = "check", !.op = "get", !.by = by]
  <2>1. r \in Request /\ r.pc = "check" /\ ~r.locked /\ r.parts = <<>> /\ r.op = "get"
    BY <1>2, IdleTyped DEF Idle, Request, Labels
  <2> QED
    BY <1>1, <2>1, <2>2
<1>7. CASE SendDelete(c)
  <2>2. PICK by \in Lookups(c) : Issue(c, [Idle EXCEPT !.pc = "find", !.op = "delete", !.by = by])
    BY <1>7 DEF SendDelete
  <2> DEFINE r == [Idle EXCEPT !.pc = "find", !.op = "delete", !.by = by]
  <2>1. r \in Request /\ r.pc = "find" /\ ~r.locked /\ r.parts = <<>> /\ r.op = "delete"
    BY <1>2, IdleTyped DEF Idle, Request, Labels
  <2> QED
    BY <1>1, <2>1, <2>2
<1> QED
  BY <1>3, <1>4, <1>5, <1>6, <1>7 DEF Send

\* The checks of the handlers: a PUT that goes on has the tournament's format,
\* when it has a version.
LEMMA CheckStep ==
  ASSUME TypeOK, IInv, NEW c \in Clients,
         CheckPut(c) \/ CheckCreate(c) \/ CheckPatch(c) \/ CheckGet(c)
  PROVE  TypeOK' /\ IInv'
<1>1. tx[c].pc = "check" /\ db' = db /\ UNCHANGED <<view, left>> /\ ~tx[c].locked
  BY DEF CheckPut, CheckCreate, CheckPatch, CheckGet, At, IInv, LockInv
<1>2. UNCHANGED <<born, uuid, version, format, tables, sources>>
  BY <1>1 DEF db, row
<1>3. CASE Finish(c)
  BY <1>1, <1>3, FinishStep
<1>4. CASE /\ Proceed(c, "lock") /\ tx[c].op \in {"put", "create", "patch"}
           /\ tx[c].op = "put" => PutAccepted(c)
  <2> DEFINE r == [tx[c] EXCEPT !.pc = "lock"]
  <2>0. tx[c] \in Request
    BY DEF TypeOK
  <2>1. r \in Request /\ tx' = [tx EXCEPT ![c] = r] /\ tx'[c] = r
    <3>1. r \in Request
      BY <2>0 DEF Request, Labels
    <3> QED
      BY <1>4, <3>1 DEF TypeOK, Proceed
  <2>2. r.pc = "lock" /\ ~r.locked /\ r.parts = tx[c].parts /\ r.op = tx[c].op /\ r.expected = tx[c].expected /\ r.content = tx[c].content /\ r.format = tx[c].format /\ r.by = tx[c].by
    BY <1>1 DEF TypeOK, Request
  <2>3. Good(c)'
    BY <1>2, <1>1, <1>4, <2>1, <2>2
    DEF IInv, Good, Found, Deleting, Listed, Reading, Viewed, Faithful, Sent, PutAccepted, Here
  <2> QED
    BY <1>1, <2>1, <2>2, <2>3, QuietStep DEF TypeOK
<1>5. CASE tx' = [tx EXCEPT ![c].pc = "header", ![c].format = format] /\ tx[c].op = "get"
  <2> DEFINE r == [tx[c] EXCEPT !.pc = "header", !.format = format]
  <2>0. tx[c] \in Request /\ format \in Formats
    BY DEF TypeOK
  <2>1. r \in Request /\ tx' = [tx EXCEPT ![c] = r] /\ tx'[c] = r
    <3>1. r \in Request
      BY <2>0 DEF Request, Labels
    <3> QED
      BY <1>5, <3>1 DEF TypeOK
  <2>2. r.pc = "header" /\ ~r.locked /\ r.parts = tx[c].parts /\ r.op = "get"
    BY <1>1, <1>5 DEF TypeOK, Request
  <2>3. Good(c)'
    BY <1>2, <1>1, <2>1, <2>2 DEF IInv, Good, Found, Deleting, Listed, Reading, Viewed, Faithful, Sent
  <2> QED
    BY <1>1, <2>1, <2>2, <2>3, QuietStep DEF TypeOK
<1> QED
  BY <1>3, <1>4, <1>5 DEF CheckPut, CheckCreate, CheckPatch, CheckGet

\* A save that is not refused has found the row, or none, and holds it alone.
LEMMA LockStep ==
  ASSUME TypeOK, IInv, NEW c \in Clients, LockForSave(c) \/ LockForTeamSave(c)
  PROVE  TypeOK' /\ IInv'
<1>1. At(c, "lock") /\ db' = db /\ UNCHANGED <<view, left>> /\ LockTournament(c)
  BY DEF LockForSave, LockForTeamSave
<1>2. UNCHANGED <<born, uuid, version, format, tables, sources>>
  BY <1>1 DEF db, row
<1>3. CASE ~(Lockable(c) /\ VersionHolds(c))
  BY <1>1, <1>3, FinishStep DEF LockTournament
<1>4. CASE Lockable(c) /\ VersionHolds(c)
  <2> DEFINE r == [tx[c] EXCEPT !.pc = "source", !.id = uuid, !.ver = version, !.locked = TRUE]
  <2>1. r \in Request
    <3>1. uuid \in Nat /\ version \in Nat /\ tx[c] \in Request
      BY DEF TypeOK
    <3> QED
      BY <3>1 DEF Request, Labels
  <2>2. tx' = [tx EXCEPT ![c] = r] /\ tx'[c] = r
    BY <1>1, <1>4 DEF LockTournament, TypeOK
  <2>3. /\ r.pc = "source" /\ r.locked /\ r.id = uuid /\ r.ver = version /\ r.parts = tx[c].parts
        /\ r.op = tx[c].op /\ r.expected = tx[c].expected /\ r.content = tx[c].content
        /\ r.format = tx[c].format /\ r.by = tx[c].by
    BY DEF TypeOK, Request
  <2>6. tx[c].op \in {"put", "create", "patch"} /\ Sent(c)
    BY DEF LockForSave, LockForTeamSave, Saving, IInv, Good
  <2>4. r.expected \in {0, version} /\ r.by \in {ShareCode, uuid}
    <3> HIDE DEF r
    <3> QED
      BY <1>4, <2>3, <2>6 DEF VersionHolds, Here, Sent, IInv, RowInv
  <2>5. Good(c)'
    <3> HIDE DEF r
    <3> QED
      BY <1>1, <1>2, <2>2, <2>3, <2>4
      DEF At, IInv, Good, Found, Deleting, Listed, Reading, Viewed, Faithful, Sent
  <2> QED
    BY <1>1, <1>4, <2>1, <2>2, <2>3, <2>5, QuietStep DEF TypeOK
<1> QED
  BY <1>3, <1>4

\* The rating source of a save is settled; the save still holds the row.
LEMMA SourceStep ==
  ASSUME TypeOK, IInv, NEW c \in Clients, AutoCreateRatingSource(c)
  PROVE  TypeOK' /\ IInv'
<1> DEFINE r == [tx[c] EXCEPT !.pc = "commit"]
<1>1. At(c, "source") /\ db' = db /\ UNCHANGED <<view, left>> /\ tx' = [tx EXCEPT ![c] = r]
  BY DEF AutoCreateRatingSource, Proceed, TypeOK
<1>2. UNCHANGED <<born, uuid, version, format, tables, sources>>
  BY <1>1 DEF db, row
<1>3. r \in Request /\ tx'[c] = r
  <2>1. tx[c] \in Request
    BY DEF TypeOK
  <2>2. r \in Request
    BY <2>1 DEF Request, Labels
  <2> QED
    BY <1>1, <2>2 DEF TypeOK
<1>4. /\ r.pc = "commit" /\ r.locked /\ tx[c].locked /\ r.id = tx[c].id /\ r.ver = tx[c].ver /\ r.parts = tx[c].parts
      /\ r.op = tx[c].op /\ r.expected = tx[c].expected /\ r.content = tx[c].content
      /\ r.format = tx[c].format /\ r.by = tx[c].by
  BY <1>1 DEF TypeOK, Request, At, IInv, LockInv
<1>5. Good(c)'
  <2> HIDE DEF r
  <2> QED
    BY <1>1, <1>2, <1>3, <1>4 DEF At, IInv, Good, Found, Deleting, Listed, Reading, Viewed, Faithful, Sent
<1> QED
  BY <1>1, <1>3, <1>4, <1>5, QuietStep DEF TypeOK

\* A load begins with the row there is.
LEMMA HeaderStep ==
  ASSUME TypeOK, IInv, NEW c \in Clients, Header(c)
  PROVE  TypeOK' /\ IInv'
<1>1. At(c, "header") /\ db' = db /\ UNCHANGED <<view, left>>
  BY DEF Header
<1>0. tx[c].op = "get" /\ tx[c].parts = <<>> /\ ~tx[c].locked
  BY <1>1 DEF At, IInv, LockInv, Good, Reading, Sent
<1>2. UNCHANGED <<born, uuid, version, format, tables, sources>>
  BY <1>1 DEF db, row
<1>3. CASE ~Here(c)
  BY <1>1, <1>3, FinishStep DEF Header
<1>4. CASE Here(c)
  <2> DEFINE r == [tx[c] EXCEPT !.pc = "read", !.id = uuid, !.ver = version]
  <2>1. r \in Request
    <3>1. uuid \in Nat /\ version \in Nat /\ tx[c] \in Request
      BY DEF TypeOK
    <3> QED
      BY <3>1 DEF Request, Labels
  <2>2. tx' = [tx EXCEPT ![c] = r] /\ tx'[c] = r
    BY <1>4 DEF Header, TypeOK
  <2>3. /\ r.pc = "read" /\ ~r.locked /\ r.id = uuid /\ r.ver = version
        /\ r.op = "get" /\ r.parts = <<>>
    BY <1>0 DEF TypeOK, Request
  <2>4. Good(c)'
    <3> HIDE DEF r
    <3> QED
      BY <1>2, <1>1, <1>4, <2>2, <2>3
      DEF Here, TypeOK, IInv, Good, Found, Deleting, Listed, Reading, Viewed, Faithful, Sent
  <2> QED
    BY <1>1, <2>1, <2>2, <2>3, <2>4, QuietStep DEF TypeOK
<1> QED
  BY <1>3, <1>4

\* A load takes one more table; it is the header's version's, while that one is
\* current.
LEMMA LoadStep ==
  ASSUME TypeOK, IInv, NEW c \in Clients, LoadTable(c) \/ TeamLoadTable(c)
  PROVE  TypeOK' /\ IInv'
<1>1. At(c, "read") /\ db' = db /\ UNCHANGED left /\ tx[c].op = "get" /\ ~tx[c].locked
  BY DEF LoadTable, TeamLoadTable, At, IInv, LockInv, Good, Sent
<1>2. UNCHANGED <<born, uuid, version, format, tables, sources>>
  BY <1>1 DEF db, row
<1>3. /\ tx[c] \in Request /\ tx[c].id # 0
      /\ Faithful(tx[c].id, tx[c].ver, tx[c].format, tx[c].parts)
  BY <1>1 DEF At, IInv, Good, Reading, TypeOK
<1>4. Rows(c) \in TableSet /\ Joined(c) \in TableSet
  BY <1>3, IdleTyped DEF Rows, Joined, TypeOK, Request
<1>5. \/ ReadTable(c, Rows(c), 3)
      \/ ReadTable(c, Joined(c), 4)
  BY DEF LoadTable, TeamLoadTable
<1>6. ASSUME uuid = tx[c].id, version = tx[c].ver
      PROVE  Rows(c) = tables[tx[c].format] /\ Joined(c) = tables[tx[c].format]
  <2>1. Rows(c) = tables[tx[c].format]
    BY <1>6 DEF Rows
  <2>2. \A i \in DOMAIN tx[c].parts : tx[c].parts[i] = Rows(c)
    BY <1>3, <1>6, <2>1 DEF Faithful
  <2>3. tx[c].parts \in Seq(TableSet)
    BY <1>3 DEF Request
  <2>4. \A n \in 1..Len(tx[c].parts) : tx[c].parts[n].at = Rows(c).at
    BY <2>2, <2>3
  <2>5. Len(tx[c].parts) \in {1, 3} => tx[c].parts[Len(tx[c].parts)].at = Rows(c).at
    <3>1. CASE Len(tx[c].parts) \in {1, 3}
      <4>1. Len(tx[c].parts) \in 1..Len(tx[c].parts)
        BY <3>1, SMTT(60)
      <4> QED
        BY <4>1, <2>4
    <3> QED
      BY <3>1
  <2> QED
    BY <2>1, <2>5 DEF Joined
<1>7. ASSUME NEW found \in TableSet, NEW n \in Nat, ReadTable(c, found, n),
             uuid = tx[c].id /\ version = tx[c].ver => found = tables[tx[c].format]
      PROVE  TypeOK' /\ IInv'
  <2> DEFINE parts == Append(tx[c].parts, found)
  <2>1. parts \in Seq(TableSet) /\ parts # <<>>
    BY <1>3 DEF Request
  <2>2. tx[c].parts \in Seq(TableSet)
    BY <1>3 DEF Request
  <2>3. \A i \in DOMAIN parts : \/ i \in DOMAIN tx[c].parts /\ parts[i] = tx[c].parts[i]
                               \/ parts[i] = found
    BY <2>2
  <2>4. Faithful(tx[c].id, tx[c].ver, tx[c].format, parts)
    <3> HIDE DEF parts
    <3> QED
      BY <1>3, <1>7, <2>3 DEF Faithful
  <2>5. view' \in [Clients -> View] /\ tx' \in [Clients -> Request]
    BY <1>7, ReadTyped
  <2>6. CASE Received(c, parts)
    <3> DEFINE v == [id |-> tx[c].id, version |-> tx[c].ver, format |-> tx[c].format, parts |-> parts]
    <3>1. view'[c] = v /\ \A d \in Clients \ {c} : view'[d] = view[d]
      BY <2>6 DEF Received, TypeOK
    <3>2. tx' = [tx EXCEPT ![c] = Idle] /\ tx'[c] = Idle
      BY <2>6 DEF Received, Finish, TypeOK
    <3>3. v.id = tx[c].id /\ v.version = tx[c].ver /\ v.format = tx[c].format /\ v.parts = parts
      OBVIOUS
    <3>4. Good(c)'
      <4> HIDE DEF v, parts
      <4> QED
        BY <1>2, <2>4, <3>1, <3>2, <3>3
        DEF Good, Found, Deleting, Listed, Reading, Viewed, Faithful, Sent, Idle
    <3>5. ~Idle.locked /\ Idle.pc = "idle" /\ Idle \in Request
      BY IdleTyped DEF Idle
    <3> QED
      BY <1>1, <2>5, <3>1, <3>2, <3>4, <3>5, QuietStep DEF TypeOK
  <2>7. CASE tx' = [tx EXCEPT ![c].parts = parts] /\ UNCHANGED view
    <3> DEFINE r == [tx[c] EXCEPT !.parts = parts]
    <3>1. tx' = [tx EXCEPT ![c] = r] /\ tx'[c] = r
      BY <2>7 DEF TypeOK
    <3>2. /\ r.pc = "read" /\ ~r.locked /\ r.id = tx[c].id /\ r.ver = tx[c].ver
          /\ r.format = tx[c].format /\ r.parts = parts /\ r.op = "get"
      <4> HIDE DEF parts
      <4> QED
        BY <1>1, <1>3 DEF Request, At
    <3>3. Good(c)'
      <4> HIDE DEF r, parts
      <4> QED
        BY <1>1, <1>2, <1>3, <2>4, <2>7, <3>1, <3>2
        DEF At, IInv, Good, Found, Deleting, Listed, Reading, Viewed, Faithful, Sent
    <3>4. r \in Request
      BY <2>5, <3>1
    <3> QED
      BY <1>1, <2>5, <2>7, <3>1, <3>2, <3>3, <3>4, QuietStep DEF TypeOK
  <2> QED
    BY <1>7, <2>6, <2>7 DEF ReadTable
<1> QED
  BY <1>4, <1>5, <1>6, <1>7

\* A delete knows the row of its snapshot and whether that had a source.
LEMMA FindStep ==
  ASSUME TypeOK, IInv, NEW c \in Clients, FindTournament(c)
  PROVE  TypeOK' /\ IInv'
<1>1. At(c, "find") /\ db' = db /\ UNCHANGED <<view, left>>
  BY DEF FindTournament
<1>2. UNCHANGED <<born, uuid, version, format, tables, sources>>
  BY <1>1 DEF db, row
<1>3. CASE ~Here(c)
  BY <1>1, <1>3, FinishStep DEF FindTournament
<1>4. CASE Here(c)
  <2> DEFINE r == [tx[c] EXCEPT !.pc = "sources", !.id = uuid, !.ver = version, !.rated = Listed(ShareCode)]
  <2>1. r \in Request
    <3>1. uuid \in Nat /\ version \in Nat /\ tx[c] \in Request
      BY DEF TypeOK
    <3>2. Listed(ShareCode) \in BOOLEAN
      BY DEF Listed
    <3> QED
      BY <3>1, <3>2 DEF Request, Labels
  <2>2. tx' = [tx EXCEPT ![c] = r] /\ tx'[c] = r
    BY <1>4 DEF FindTournament, TypeOK
  <2>3. tx[c] \in Request /\ ~tx[c].locked /\ tx[c].parts = <<>>
    BY <1>1 DEF TypeOK, At, IInv, LockInv, Good, Reading
  <2>4. /\ r.pc = "sources" /\ ~r.locked /\ r.id = uuid /\ r.ver = version
        /\ (r.rated <=> Listed(ShareCode)) /\ r.parts = <<>>
        /\ r.op = tx[c].op /\ r.expected = tx[c].expected /\ r.content = tx[c].content /\ r.by = tx[c].by
    BY <2>3 DEF Request
  <2>5. uuid \in 1..born
    BY <1>4 DEF TypeOK, Here
  <2>6. Good(c)'
    <3> HIDE DEF r
    <3> QED
      BY <1>1, <1>2, <2>2, <2>4, <2>5
      DEF TypeOK, IInv, Good, Found, Deleting, Listed, Reading, Viewed, Faithful, Sent
  <2> QED
    BY <1>1, <2>1, <2>2, <2>4, <2>6, QuietStep DEF TypeOK
<1> QED
  BY <1>3, <1>4

\* A delete takes the source its snapshot has.
LEMMA SourcesStep ==
  ASSUME TypeOK, IInv, NEW c \in Clients, DeleteSources(c)
  PROVE  TypeOK' /\ IInv'
<1>1. At(c, "sources") /\ db' = db /\ UNCHANGED <<view, left>>
  BY DEF DeleteSources
<1>2. UNCHANGED <<born, uuid, version, format, tables, sources>>
  BY <1>1 DEF db, row
<1>3. tx[c] \in Request /\ ~tx[c].locked /\ tx[c].parts = <<>> /\ tx[c].pc = "sources"
  BY <1>1 DEF TypeOK, At, IInv, LockInv, Good, Reading
<1>4. CASE Finish(c)
  BY <1>1, <1>4, FinishStep
<1>5. CASE tx' = [tx EXCEPT ![c].pc = "row", ![c].took = tx[c].rated]
  <2> DEFINE r == [tx[c] EXCEPT !.pc = "row", !.took = tx[c].rated]
  <2>1. r \in Request
    BY <1>3 DEF Request, Labels
  <2>2. tx' = [tx EXCEPT ![c] = r] /\ tx'[c] = r
    BY <1>5 DEF TypeOK
  <2>3. /\ r.pc = "row" /\ ~r.locked /\ r.id = tx[c].id /\ r.ver = tx[c].ver /\ r.took = r.rated
        /\ r.rated = tx[c].rated /\ r.parts = <<>> /\ r.op = tx[c].op /\ r.expected = tx[c].expected /\ r.content = tx[c].content /\ r.by = tx[c].by
    BY <1>3 DEF Request
  <2>4. Good(c)'
    <3> HIDE DEF r
    <3> QED
      BY <1>2, <1>1, <1>3, <2>2, <2>3
      DEF IInv, Good, Found, Deleting, Listed, Reading, Viewed, Faithful, Sent
  <2> QED
    BY <1>1, <2>1, <2>2, <2>3, <2>4, QuietStep DEF TypeOK
<1> QED
  BY <1>4, <1>5 DEF DeleteSources

\* A delete that goes on holds the row its snapshot has.
LEMMA RowStep ==
  ASSUME TypeOK, IInv, NEW c \in Clients, DeleteRow(c)
  PROVE  TypeOK' /\ IInv'
<1>1. At(c, "row") /\ Lockable(c) /\ db' = db /\ UNCHANGED <<view, left>>
  BY DEF DeleteRow
<1>2. UNCHANGED <<born, uuid, version, format, tables, sources>>
  BY <1>1 DEF db, row
<1>3. CASE ~SnapshotHolds(c)
  BY <1>1, <1>3, FinishStep DEF DeleteRow
<1>4. CASE SnapshotHolds(c)
  <2> DEFINE r == [tx[c] EXCEPT !.pc = "end", !.locked = TRUE]
  <2>1. tx' = [tx EXCEPT ![c] = r] /\ tx'[c] = r
    BY <1>4 DEF DeleteRow, TypeOK
  <2>2. tx[c] \in Request /\ tx[c].parts = <<>> /\ tx[c].pc = "row"
    BY <1>1 DEF TypeOK, At, IInv, Good, Reading
  <2>3. r \in Request
    BY <2>2 DEF Request, Labels
  <2>4. /\ r.pc = "end" /\ r.locked /\ r.id = tx[c].id /\ r.ver = tx[c].ver /\ (r.took <=> tx[c].took)
        /\ (r.rated <=> tx[c].rated) /\ r.parts = <<>> /\ r.op = tx[c].op /\ r.expected = tx[c].expected /\ r.content = tx[c].content /\ r.by = tx[c].by
    BY <2>2 DEF Request
  <2>5. Good(c)'
    <3> HIDE DEF r
    <3> QED
      BY <1>1, <1>2, <1>4, <2>1, <2>2, <2>4
      DEF SnapshotHolds, IInv, Good, Found, Deleting, Listed, Reading, Viewed, Faithful, Sent
  <2> QED
    BY <1>1, <2>1, <2>3, <2>4, <2>5, QuietStep DEF TypeOK
<1> QED
  BY <1>3, <1>4

-----------------------------------------------------------------------------
(* Commits *)

\* A commit of c moves the tournament to its next version, to a new id, or
\* removes it.
Moved(c) ==
  /\ \/ uuid # 0 /\ uuid' = uuid /\ version' = version + 1 /\ born' = born
     \/ uuid = 0 /\ uuid' = born + 1 /\ version' = 1 /\ born' = born + 1
     \/ uuid # 0 /\ uuid' = 0 /\ version' = 0 /\ born' = born
  /\ tx[c].locked
  /\ \A d \in Clients \ {c} : tx'[d] = tx[d]
  /\ UNCHANGED view

\* What was read before is of an older version or of another tournament.
LEMMA FaithfulLater ==
  ASSUME TypeOK, NEW c \in Clients, Moved(c),
         NEW id \in Nat, NEW ver \in Nat, NEW f, NEW parts, Faithful(id, ver, f, parts)
  PROVE  Faithful(id, ver, f, parts)'
BY DEF TypeOK, Moved, Faithful

\* The other requests stay good.
LEMMA OthersLater ==
  ASSUME TypeOK, IInv, NEW c \in Clients, Moved(c), NEW d \in Clients \ {c}
  PROVE  Good(d)'
<1>1. tx'[d] = tx[d] /\ view'[d] = view[d] /\ tx[d] \in Request /\ view[d] \in View
  BY DEF Moved, TypeOK
<1>2. tx[d].pc \notin {"source", "commit", "end"} /\ ~tx[d].locked
  BY DEF Moved, IInv, LockInv
<1>3. Found(d)'
  BY <1>1, <1>2 DEF Found
<1>4. /\ tx[d].id \in Nat /\ tx[d].ver \in Nat /\ view[d].id \in Nat /\ view[d].version \in Nat
      /\ tx[d].expected \in Nat
  BY <1>1 DEF Request, View
<1>5. Deleting(d)'
  BY <1>1, <1>2, <1>4 DEF TypeOK, IInv, Good, Deleting, Moved
<1>6. Reading(d)'
  BY <1>1, <1>4, FaithfulLater DEF IInv, Good, Reading
<1>7. Viewed(d)'
  BY <1>1, <1>4, FaithfulLater DEF IInv, Good, Viewed
<1>8. Sent(d)'
  <2>1. /\ view[d].id \in 0..born /\ (uuid = view[d].id => view[d].version <= version)
    BY DEF IInv, Good, Viewed, Faithful
  <2>2. Sent(d)
    BY DEF IInv, Good
  <2>3. tx[d].pc \in {"lock", "source", "commit"} /\ tx[d].op = "put" => ~(tx[d].expected = version' /\ view[d].id = uuid' /\ uuid' # 0)
    BY <1>4, <2>1, <2>2 DEF TypeOK, Moved, Sent
  <2> QED
    BY <1>1, <2>2, <2>3 DEF Sent
<1> QED
  BY <1>3, <1>5, <1>6, <1>7, <1>8 DEF Good

\* The commit of a save: the row is the one it found, and it alone holds it.
LEMMA SaveFacts ==
  ASSUME TypeOK, IInv, NEW c \in Clients, NEW f \in Formats, At(c, "commit"), Saving(c, f),
         CommitTables(c, f)
  PROVE  /\ Moved(c) /\ uuid = tx[c].id /\ version = tx[c].ver /\ version' = version + 1 /\ uuid' # 0
         /\ tx[c].content \in Contents /\ tx[c].expected \in {0, version}
         /\ tx[c].by \in {ShareCode, uuid}
<1>1. /\ uuid = tx[c].id /\ version = tx[c].ver /\ tx[c].locked /\ tx[c].content \in Contents
      /\ tx[c].expected \in {0, version} /\ tx[c].by \in {ShareCode, uuid}
  BY DEF At, Saving, IInv, LockInv, Good, Found, Sent
<1>2. UNCHANGED view /\ \A d \in Clients \ {c} : tx'[d] = tx[d]
  BY DEF CommitTables, TypeOK
<1>3. uuid = 0 => version = 0
  BY DEF IInv, RowInv
<1>4. \/ uuid # 0 /\ uuid' = uuid /\ version' = version + 1 /\ born' = born
      \/ uuid = 0 /\ uuid' = born + 1 /\ version' = 1 /\ born' = born + 1
  BY <1>1 DEF CommitTables, WriteHeader
<1> QED
  BY <1>1, <1>2, <1>3, <1>4 DEF Moved, TypeOK

\* A commit of a save.
LEMMA SaveStep ==
  ASSUME TypeOK, IInv, NEW c \in Clients, CommitSave(c) \/ CommitTeamSave(c)
  PROVE  TypeOK' /\ IInv'
<1>1. PICK f \in Formats : At(c, "commit") /\ Saving(c, f) /\ CommitTables(c, f)
  BY DEF CommitSave, CommitTeamSave, Formats
<1>2. /\ Moved(c) /\ version' = version + 1 /\ uuid' # 0
  BY <1>1, SaveFacts
<1>3. TypeOK'
  BY <1>1, CommitTyped, SaveFacts
<1> DEFINE r == [Idle EXCEPT !.pc = "header", !.op = "get", !.format = f, !.by = tx[c].by]
<1>4. tx'[c] = r /\ r.pc = "header" /\ ~r.locked /\ r.parts = <<>> /\ r.op = "get"
  BY <1>1 DEF CommitTables, TypeOK, Idle
<1>5. RowInv'
  BY <1>2, <1>3 DEF RowInv, TypeOK
<1>6. LockInv'
  <2>1. \A d \in Clients \ {c} : tx'[d] = tx[d] /\ ~tx[d].locked
    BY <1>2 DEF IInv, LockInv, Moved
  <2> HIDE DEF r
  <2> QED
    BY <1>4, <2>1 DEF IInv, LockInv
<1>7. Good(c)'
  <2>1. view'[c] = view[c] /\ view[c] \in View /\ Viewed(c)
    BY <1>2 DEF Moved, TypeOK, IInv, Good
  <2>2. Viewed(c)'
    BY <1>2, <2>1, FaithfulLater DEF Viewed, View
  <2> HIDE DEF r
  <2> QED
    BY <1>4, <2>2 DEF Good, Found, Deleting, Reading, Sent
<1> QED
  BY <1>2, <1>3, <1>5, <1>6, <1>7, OthersLater DEF IInv

\* The commit of a delete: the row is the one of its snapshot, so is the
\* source, and it alone holds them.
LEMMA DeleteFacts ==
  ASSUME TypeOK, IInv, NEW c \in Clients, CommitDelete(c)
  PROVE  Moved(c) /\ uuid # 0 /\ uuid' = 0 /\ sources' = {s \in sources : s.key # ShareCode}
<1>1. uuid = tx[c].id /\ version = tx[c].ver /\ tx[c].locked /\ tx[c].id \in 1..born
  BY DEF CommitDelete, At, IInv, LockInv, Good, Deleting
<1>2. tx[c].took <=> Listed(ShareCode)
  BY DEF CommitDelete, At, IInv, Good, Deleting
<1>3. UNCHANGED view /\ \A d \in Clients \ {c} : tx'[d] = tx[d]
  BY DEF CommitDelete, Finish, TypeOK
<1>4. uuid' = 0 /\ version' = 0 /\ born' = born
  BY DEF CommitDelete
<1>5. sources' = {s \in sources : s.key # ShareCode}
  BY <1>2 DEF CommitDelete, Listed
<1> QED
  BY <1>1, <1>3, <1>4, <1>5 DEF Moved

\* A commit of a delete.
LEMMA DeleteStep ==
  ASSUME TypeOK, IInv, NEW c \in Clients, CommitDelete(c)
  PROVE  TypeOK' /\ IInv'
<1>1. Moved(c) /\ uuid' = 0 /\ sources' = {s \in sources : s.key # ShareCode}
  BY DeleteFacts
<1>2. version' = 0 /\ format' = "classic" /\ tables' = NoTables /\ born' = born /\ UNCHANGED <<view, left>>
  BY DEF CommitDelete
<1>3. tx' \in [Clients -> Request]
  BY FinishTyped DEF CommitDelete
<1>4. TypeOK'
  BY <1>1, <1>2, <1>3, IdleTyped DEF TypeOK, Formats
<1>5. RowInv'
  BY <1>1, <1>2 DEF RowInv, Listed
<1>6. tx'[c] = Idle
  BY DEF CommitDelete, Finish, TypeOK
<1>7. LockInv'
  BY <1>1, <1>6 DEF IInv, LockInv, Moved, Idle
<1>8. Good(c)'
  <2>1. view'[c] = view[c] /\ view[c] \in View /\ Viewed(c)
    BY <1>2 DEF TypeOK, IInv, Good
  <2>2. Viewed(c)'
    BY <1>1, <2>1, FaithfulLater DEF Viewed, View
  <2> QED
    BY <1>6, <2>2 DEF Good, Found, Deleting, Reading, Sent, Idle
<1> QED
  BY <1>1, <1>4, <1>5, <1>7, <1>8, OthersLater DEF IInv

-----------------------------------------------------------------------------
(* The invariant *)

\* The initial states satisfy the invariant.
LEMMA InitInvariant == Init => TypeOK /\ IInv
<1> SUFFICES ASSUME Init PROVE TypeOK /\ IInv
  OBVIOUS
<1>1. RowInv
  BY DEF Init, RowInv, Listed
<1>2. ASSUME NEW c \in Clients
      PROVE  /\ tx[c].pc = "idle" /\ ~tx[c].locked /\ tx[c].op = "none" /\ tx[c].parts = <<>>
             /\ view[c].id = 0 /\ view[c].version = 0 /\ view[c].parts = <<>>
  BY DEF Init, Idle, NoView
<1>3. LockInv
  BY <1>2 DEF LockInv
<1>4. ASSUME NEW c \in Clients PROVE Good(c)
  <2>1. Viewed(c)
    BY <1>1, <1>2, InitTyped DEF Viewed, Faithful, RowInv, TypeOK
  <2> QED
    BY <1>2, <2>1 DEF Good, Found, Deleting, Reading, Sent
<1> QED
  BY <1>1, <1>3, <1>4, InitTyped DEF IInv

\* Every step keeps the invariant.
LEMMA StepInvariant == TypeOK /\ IInv /\ [Next]_vars => TypeOK' /\ IInv'
<1> SUFFICES ASSUME TypeOK, IInv, [Next]_vars PROVE TypeOK' /\ IInv'
  OBVIOUS
<1>1. ASSUME NEW c \in Clients, Work(c) PROVE TypeOK' /\ IInv'
  <2>1. CASE CheckPut(c) \/ CheckCreate(c) \/ CheckPatch(c) \/ CheckGet(c)
    BY <2>1, CheckStep
  <2>2. CASE LockForSave(c) \/ LockForTeamSave(c)
    BY <2>2, LockStep
  <2>3. CASE AutoCreateRatingSource(c)
    BY <2>3, SourceStep
  <2>4. CASE CommitSave(c) \/ CommitTeamSave(c)
    BY <2>4, SaveStep
  <2>5. CASE Header(c)
    BY <2>5, HeaderStep
  <2>6. CASE LoadTable(c) \/ TeamLoadTable(c)
    BY <2>6, LoadStep
  <2>7. CASE FindTournament(c)
    BY <2>7, FindStep
  <2>8. CASE DeleteSources(c)
    BY <2>8, SourcesStep
  <2>9. CASE DeleteRow(c)
    BY <2>9, RowStep
  <2>10. CASE CommitDelete(c)
    BY <2>10, DeleteStep
  <2> QED
    BY <1>1, <2>1, <2>2, <2>3, <2>4, <2>5, <2>6, <2>7, <2>8, <2>9, <2>10 DEF Work
<1>2. ASSUME NEW c \in Clients, Fail(c) PROVE TypeOK' /\ IInv'
  BY <1>2, FinishStep DEF Fail
<1>3. ASSUME BreakDeadlock PROVE TypeOK' /\ IInv'
  BY <1>3, FinishStep DEF BreakDeadlock
<1>4. CASE UNCHANGED vars
  <2>1. UNCHANGED <<born, uuid, version, format, tables, sources, tx, view, left>>
    BY <1>4 DEF vars, db, row
  <2>2. TypeOK' /\ RowInv' /\ LockInv'
    BY <2>1 DEF TypeOK, IInv, RowInv, LockInv, Listed
  <2>3. ASSUME NEW c \in Clients PROVE Good(c)'
    BY <2>1 DEF IInv, Good, Found, Deleting, Listed, Reading, Viewed, Faithful, Sent
  <2> QED
    BY <2>2, <2>3 DEF IInv
<1> QED
  BY <1>1, <1>2, <1>3, <1>4, SendStep DEF Next

\* Every reachable state satisfies the invariant.
LEMMA Invariant == Spec => [](TypeOK /\ IInv)
BY InitInvariant, StepInvariant, PTL DEF Spec

-----------------------------------------------------------------------------
(* Theorems *)

\* Every reachable state has the types.
THEOREM TypeCorrect == Spec => []TypeOK
BY Invariant, PTL

\* What a save found is true until it commits, whatever the other requests do.
THEOREM ChecksHold == Spec => []CheckHolds
<1>1. TypeOK /\ IInv => CheckHolds
  BY DEF IInv, RowInv, Good, Found, CheckHolds, VersionHolds, Here, ShareCode
<1> QED
  BY <1>1, Invariant, PTL

\* Deletes and saves together never leave a rating source under the share code
\* without its tournament, whichever lookups they come by; a source under the
\* uuid is not spoken of.
THEOREM SourcesHaveTournaments == Spec => []SourceHasTournament
<1>1. TypeOK /\ IInv => SourceHasTournament
  BY DEF IInv, RowInv, SourceHasTournament
<1> QED
  BY <1>1, Invariant, PTL

\* A versioned save replaces what its client was shown: no lost update, and no
\* torn read written back.
THEOREM SavesReplaceWhatWasSeen == Spec => ReplacesWhatWasSeen
<1> DEFINE Replaces ==
      \A c \in Clients :
        (/\ CommitSave(c) \/ CommitTeamSave(c)
         /\ tx[c].expected # 0 /\ view[c].id = uuid)
          => \A i \in DOMAIN view[c].parts : view[c].parts[i] = tables[view[c].format]
<1>1. TypeOK /\ IInv /\ [Next]_vars => Replaces
  <2> SUFFICES ASSUME TypeOK, IInv, NEW c \in Clients, CommitSave(c) \/ CommitTeamSave(c),
                      tx[c].expected # 0, view[c].id = uuid
               PROVE  \A i \in DOMAIN view[c].parts : view[c].parts[i] = tables[view[c].format]
    BY DEF Replaces
  <2>1. PICK f \in Formats : At(c, "commit") /\ Saving(c, f) /\ CommitTables(c, f)
    BY DEF CommitSave, CommitTeamSave, Formats
  <2>2. tx[c].expected = version /\ tx[c].expected = view[c].version
    BY <2>1, SaveFacts DEF Saving, IInv, Good, Sent
  <2> QED
    BY <2>2 DEF IInv, Good, Viewed, Faithful
<1>2. TypeOK /\ IInv /\ [Next]_vars => [Replaces]_vars
  BY <1>1
<1> QED
  BY <1>2, Invariant, PTL DEF Spec, ReplacesWhatWasSeen

\* A versioned PUT keeps the tournament's format, which it has checked before
\* its transaction began.
THEOREM PutsKeepTheFormat == Spec => VersionedPutKeepsFormat
<1> DEFINE Keeps ==
      \A c \in Clients :
        (/\ CommitSave(c) \/ CommitTeamSave(c)
         /\ tx[c].op = "put" /\ tx[c].expected # 0 /\ view[c].id = uuid)
          => tx[c].format = format
<1>1. TypeOK /\ IInv /\ [Next]_vars => [Keeps]_vars
  <2> SUFFICES ASSUME TypeOK, IInv, NEW c \in Clients, CommitSave(c) \/ CommitTeamSave(c),
                      tx[c].op = "put", tx[c].expected # 0, view[c].id = uuid
               PROVE  tx[c].format = format
    BY DEF Keeps
  <2>1. PICK f \in Formats : At(c, "commit") /\ Saving(c, f) /\ CommitTables(c, f)
    BY DEF CommitSave, CommitTeamSave, Formats
  <2>2. tx[c].expected = version /\ tx[c].pc = "commit"
    BY <2>1, SaveFacts DEF At
  <2>3. uuid # 0
    BY <2>2 DEF IInv, RowInv
  <2> QED
    BY <2>2, <2>3 DEF IInv, Good, Sent
<1> QED
  BY <1>1, Invariant, PTL DEF Spec, VersionedPutKeepsFormat

\* The tournament's abstract state.
Tournament == [id |-> uuid, version |-> version, format |-> format, tables |-> tables]

\* A commit of a save is the abstract save.
LEMMA SaveRefines ==
  ASSUME TypeOK, IInv, NEW c \in Clients, NEW f \in Formats, At(c, "commit"), Saving(c, f),
         CommitTables(c, f)
  PROVE  Atomic!Save(f, tx[c].content, tx[c].by)
<1>1. /\ Moved(c) /\ uuid = tx[c].id /\ version = tx[c].ver /\ version' = version + 1 /\ uuid' # 0
      /\ tx[c].by \in {0, uuid}
  BY SaveFacts DEF ShareCode
<1>2. tables' = [tables EXCEPT ![f] = [content |-> tx[c].content, at |-> version + 1]]
  BY <1>1 DEF CommitTables
<1>3. sources' = IF tx[c].content \in Complete /\ \A s \in sources : s.key # tx[c].by
                   THEN sources \cup {[key |-> tx[c].by, kind |-> f]}
                   ELSE sources
  BY DEF CommitTables, Listed
<1>4. format' = IF f = "team" \/ uuid = 0 THEN f ELSE format
  BY <1>1 DEF CommitTables, WriteHeader, Formats
<1>5. IF uuid = 0 THEN born' = born + 1 /\ uuid' = born + 1 ELSE born' = born /\ uuid' = uuid
  BY <1>1 DEF CommitTables, WriteHeader
<1>6. Tournament.id = uuid /\ Tournament.version = version /\ Tournament.tables = tables /\ Tournament.format = format
  BY DEF Tournament
<1>7. Atomic!Saved(f, tx[c].content, uuid') = Tournament'
  BY <1>1, <1>2, <1>4 DEF Atomic!Saved, Tournament
<1> QED
  BY <1>1, <1>3, <1>5, <1>7 DEF Atomic!Save, Tournament

\* Saves and deletes take effect at once: the store implements the abstract
\* tournament, whose deletes take the source of the share code and no other.
THEOREM TakesEffect == Spec => TakesEffectAtOnce
<1>1. Init => Atomic!Init
  <2> SUFFICES ASSUME Init PROVE Atomic!Init
    OBVIOUS
  <2>1. CASE born = 0 /\ uuid = 0 /\ version = 0 /\ format = "classic" /\ tables = NoTables /\ sources = {}
    BY <2>1 DEF Atomic!Init, Atomic!None, Atomic!Formats, NoTables, Empty, Formats
  <2>2. ASSUME NEW x \in Contents, born = 1, uuid = 1, version = 1, format \in Formats,
               tables = [NoTables EXCEPT ![format] = [content |-> x, at |-> 1]],
               sources = IF x \in Complete THEN {[key |-> ShareCode, kind |-> format]} ELSE {}
        PROVE  Atomic!Init
    <3>1. Atomic!None.tables = NoTables
      BY DEF Atomic!None, Atomic!Formats, NoTables, Empty, Formats
    <3> QED
      BY <2>2, <3>1 DEF Atomic!Init, Tournament, Atomic!Formats, Formats, ShareCode
  <2> QED
    BY <2>1, <2>2 DEF Init
<1>2. TypeOK /\ IInv /\ [Next]_vars => [Atomic!Next]_Atomic!register
  <2> SUFFICES ASSUME TypeOK, IInv, [Next]_vars PROVE [Atomic!Next]_Atomic!register
    OBVIOUS
  <2>1. CASE db' = db
    BY <2>1 DEF db, row, Atomic!register
  <2>2. ASSUME NEW c \in Clients, CommitSave(c) \/ CommitTeamSave(c) PROVE Atomic!Next
    <3>1. PICK f \in Formats : At(c, "commit") /\ Saving(c, f) /\ CommitTables(c, f)
      BY <2>2 DEF CommitSave, CommitTeamSave, Formats
    <3> QED
      BY <3>1, SaveFacts, SaveRefines DEF Atomic!Next, Atomic!Formats, Formats, ShareCode, Tournament
  <2>3. ASSUME NEW c \in Clients, CommitDelete(c) PROVE Atomic!Next
    <3>1. /\ uuid # 0 /\ uuid' = 0 /\ sources' = {s \in sources : s.key # ShareCode} /\ version' = 0 /\ format' = "classic"
          /\ tables' = NoTables /\ born' = born
      BY <2>3, DeleteFacts DEF CommitDelete
    <3> QED
      BY <3>1 DEF Atomic!Next, Atomic!Delete, Atomic!None, Atomic!Formats, NoTables, Empty, Formats, ShareCode
  <2>4. ASSUME NEW c \in Clients, Send(c) \/ Fail(c) PROVE db' = db
    BY <2>4 DEF Send, SendPut, SendCreate, SendPatch, SendGet, SendDelete, Issue, Fail
  <2>5. ASSUME BreakDeadlock PROVE db' = db
    BY <2>5 DEF BreakDeadlock
  <2>6. ASSUME NEW c \in Clients, Work(c), ~CommitSave(c), ~CommitTeamSave(c), ~CommitDelete(c)
        PROVE  db' = db
    BY <2>6 DEF Work, CheckPut, CheckCreate, CheckPatch, CheckGet, LockForSave, LockForTeamSave,
      AutoCreateRatingSource, Header, LoadTable, TeamLoadTable, FindTournament, DeleteSources, DeleteRow
  <2> QED
    BY <2>1, <2>2, <2>3, <2>4, <2>5, <2>6 DEF Next, vars
<1> QED
  BY <1>1, <1>2, Invariant, PTL DEF Spec, TakesEffectAtOnce, Atomic!Spec
=============================================================================
