------------------------------ MODULE PlayerProofs ------------------------------
(***************************************************************************)
(* Proofs about PlayerRegistry, for any names, ids, clients and requests:  *)
(* names keep their players, a commit is a whole registration or a whole   *)
(* rename of PlayerDirectory, tiers stay, and a player renamed keeps its   *)
(* old name.                                                               *)
(***************************************************************************)
EXTENDS PlayerRegistry, TLAPS

Name == Spellings \cup {None}
Id == Players \cup {None}
Entry == [as : Spellings, canonical : Spellings]

Tx == [pc : {"idle", "alias", "canonical", "player", "insert", "again", "commit",
             "resolve", "tier", "save", "read", "collision", "update", "keep"},
       op : {"none", "register", "publish", "rename"},
       names : Seq(Entry), at : Nat, tier : Tiers \cup {None}, differs : BOOLEAN,
       target : Id, new : Name, old : Name, pid : Id,
       named : [Players -> Name], tiered : [Players -> Tiers \cup {None}],
       aliased : [Keys -> Id], rows : SUBSET Players, told : SUBSET (Keys \X Players)]

TypeOK ==
  /\ name \in [Players -> Name] /\ tier \in [Players -> Tiers \cup {None}]
  /\ alias \in [Keys -> Id]
  /\ answers \subseteq Keys \X Players
  /\ tx \in [Clients -> Tx] /\ left \in Nat

-----------------------------------------------------------------------------
(* The invariant *)

Tables == [name : [Players -> Name], tier : [Players -> Tiers \cup {None}], alias : [Keys -> Id]]
Db == [name |-> name, tier |-> tier, alias |-> alias]

\* The tables g as the transaction x sees them.
Called(x, g, p) == Over(x.named[p], g.name[p])
Has(x, g, k) == Over(x.aliased[k], g.alias[k])
KeyNow(x) == Normal[x.names[x.at].as]

Distinct(f) == \A p, q \in Players : f[p] # None /\ f[p] = f[q] => p = q

\* What an open transaction has written.  It has locked the rows, tiers and
\* keys were free when it wrote them and are, and what it has told is so.
Writes(x, g) ==
  /\ \A p \in Players : x.named[p] # None => p \in x.rows
  /\ \A p \in Players : x.tiered[p] # None => p \in x.rows /\ g.tier[p] = None
  /\ \A p \in x.rows : Called(x, g, p) # None
  /\ \A k \in Keys : x.aliased[k] # None => g.alias[k] = None /\ Called(x, g, x.aliased[k]) # None
  /\ Distinct([p \in Players |-> Called(x, g, p)])
  /\ \A a \in x.told : Has(x, g, a[1]) = a[2]

Unwritten(x) ==
  x.named = [p \in Players |-> None] /\ x.aliased = [k \in Keys |-> None]

\* Where a registration, or the publishing of a session, is.
Registers(x, g) ==
  /\ \A p \in Players : x.named[p] # None /\ g.name[p] # None => x.named[p] = g.name[p]
  /\ x.op = "register" /\ x.pc # "tier" => Len(x.names) = 1 /\ x.at = 1
  /\ x.op = "publish" => x.at \in DOMAIN x.names
  /\ x.pc \in {"player", "insert"} /\ x.pid # None => Called(x, g, x.pid) # None
  /\ x.pc = "insert" => x.pid # None
  /\ x.pc = "again" => Has(x, g, KeyNow(x)) # None
  /\ x.pc = "commit" /\ x.op = "register" => \E p \in Players : <<KeyNow(x), p>> \in x.told
  /\ x.pc \in {"resolve", "tier", "save"} => Unwritten(x)
  /\ x.pc = "tier" /\ x.op = "publish" => \A i \in DOMAIN x.names : g.alias[Normal[x.names[i].as]] # None

\* Where a rename is.
Renames(x, g) ==
  /\ x.target \in Players /\ x.new \in Spellings
  /\ x.pc \in {"read", "collision", "update"} => Unwritten(x)
  /\ x.pc \in {"collision", "update", "keep", "commit"} => x.old \in Spellings /\ g.name[x.target] # None
  /\ x.pc \in {"keep", "commit"} =>
       x.named = [p \in Players |-> IF p = x.target THEN x.new ELSE None]
  /\ x.pc = "keep" => x.aliased = [k \in Keys |-> None]
  /\ x.pc = "commit" =>
       /\ \A k \in Keys : x.aliased[k] # None => k = Normal[x.old] /\ x.aliased[k] = x.target
       /\ Normal[x.old] # Normal[x.new] =>
            x.aliased[Normal[x.old]] = x.target \/ g.alias[Normal[x.old]] # None

\* Where a request is.
Place(x, g) ==
  /\ x.pc \in {"alias", "canonical", "player", "insert", "again", "resolve", "save", "tier"} =>
       x.op \in {"register", "publish"}
  /\ x.pc \in {"read", "collision", "update", "keep"} => x.op = "rename"
  /\ x.op \in {"register", "publish"} => Registers(x, g)
  /\ x.op = "rename" => Renames(x, g)

Mine(x, g) == Writes(x, g) /\ Place(x, g)

\* What the locks and the unique indexes keep apart.
Apart(x, y) ==
  /\ x.rows \cap y.rows = {}
  /\ \A k \in Keys : x.aliased[k] = None \/ y.aliased[k] = None
  /\ \A p, q \in Players : x.named[p] # None => y.named[q] # x.named[p]

\* Every key has a player there is, and no two players are spelled alike.
Sound(g) ==
  /\ \A k \in Keys : g.alias[k] # None => g.name[g.alias[k]] # None
  /\ Distinct(g.name)

Inv ==
  /\ Sound(Db)
  /\ \A a \in answers : alias[a[1]] = a[2]
  /\ \A c \in Clients : Mine(tx[c], Db)
  /\ \A c, d \in Clients : c # d => Apart(tx[c], tx[d])

-----------------------------------------------------------------------------
(* Transactions side by side *)

Empty(x) ==
  /\ Unwritten(x) /\ x.tiered = [p \in Players |-> None]
  /\ x.rows = {} /\ x.told = {}

\* z has written what x has.
SameWrites(x, z) ==
  z.named = x.named /\ z.tiered = x.tiered /\ z.aliased = x.aliased /\ z.rows = x.rows

\* The tables after the commit of x.
Committed(x, g) ==
  [name |-> [p \in Players |-> Called(x, g, p)],
   tier |-> [p \in Players |-> Over(x.tiered[p], g.tier[p])],
   alias |-> [k \in Keys |-> Has(x, g, k)]]

LEMMA Views ==
  ASSUME NEW g \in Tables, NEW x \in Tx
  PROVE  /\ \A p \in Players : Called(x, g, p) \in Name
         /\ \A k \in Keys : Has(x, g, k) \in Id
BY DEF Tables, Tx, Called, Has, Over

LEMMA KeysOfNames ==
  ASSUME NEW x \in Tx, NEW i \in DOMAIN x.names
  PROVE  x.names[i] \in Entry /\ Normal[x.names[i].as] \in Keys
<1>1. x.names \in Seq(Entry)
  BY DEF Tx
<1>2. x.names[i] \in Entry
  BY <1>1
<1> QED
  BY <1>2, NameAssumption DEF Entry

LEMMA KeyNowIsKey ==
  ASSUME NEW g, NEW x \in Tx, x.op \in {"register", "publish"}, x.pc # "tier", Registers(x, g)
  PROVE  x.at \in DOMAIN x.names /\ KeyNow(x) \in Keys
<1>1. x.names \in Seq(Entry)
  BY DEF Tx
<1>2. x.at \in DOMAIN x.names
  BY <1>1 DEF Registers
<1> QED
  BY <1>2, KeysOfNames DEF KeyNow

LEMMA ApartBoth ==
  ASSUME NEW x \in Tx, NEW y \in Tx, Apart(x, y) PROVE Apart(y, x)
BY DEF Apart

\* A transaction that has written nothing.
LEMMA EmptyWrites ==
  ASSUME NEW g \in Tables, Sound(g), NEW x \in Tx, Empty(x)
  PROVE  Writes(x, g) /\ \A y \in Tx : Apart(x, y)
<1>1. \A p \in Players : Called(x, g, p) = g.name[p]
  BY DEF Empty, Unwritten, Called, Over
<1>2. Distinct([p \in Players |-> Called(x, g, p)])
  BY <1>1 DEF Sound, Distinct
<1>3. Writes(x, g)
  BY <1>2 DEF Writes, Empty, Unwritten
<1>4. ASSUME NEW y \in Tx PROVE Apart(x, y)
  BY DEF Apart, Empty, Unwritten
<1> QED
  BY <1>3, <1>4

LEMMA SameViews ==
  ASSUME NEW g \in Tables, NEW x \in Tx, NEW z \in Tx, SameWrites(x, z)
  PROVE  /\ \A p \in Players : Called(z, g, p) = Called(x, g, p)
         /\ \A k \in Keys : Has(z, g, k) = Has(x, g, k)
         /\ \A y \in Tx : Apart(x, y) => Apart(z, y)
BY DEF SameWrites, Called, Has, Apart

\* A step of x that writes nothing, and what it tells is so.
LEMMA SameWritten ==
  ASSUME NEW g \in Tables, NEW x \in Tx, NEW z \in Tx, SameWrites(x, z), Writes(x, g),
         \A a \in z.told : a \in x.told \/ Has(x, g, a[1]) = a[2]
  PROVE  Writes(z, g)
<1>1. /\ \A p \in Players : Called(z, g, p) = Called(x, g, p)
      /\ \A k \in Keys : Has(z, g, k) = Has(x, g, k)
  BY SameViews
<1>2. [p \in Players |-> Called(z, g, p)] = [p \in Players |-> Called(x, g, p)]
  BY <1>1
<1>3. x.rows \subseteq Players /\ z.told \subseteq Keys \X Players /\ x.aliased \in [Keys -> Id]
  BY DEF Tx
<1>4. \A p \in Players : z.named[p] # None => p \in z.rows
  BY DEF Writes, SameWrites
<1>5. \A p \in Players : z.tiered[p] # None => p \in z.rows /\ g.tier[p] = None
  BY DEF Writes, SameWrites
<1>6. \A p \in z.rows : Called(z, g, p) # None
  BY <1>1, <1>3 DEF Writes, SameWrites
<1>7. \A k \in Keys : z.aliased[k] # None => g.alias[k] = None /\ Called(z, g, z.aliased[k]) # None
  BY <1>1, <1>3 DEF Writes, SameWrites, Id
<1>8. \A a \in z.told : Has(z, g, a[1]) = a[2]
  BY <1>1, <1>3 DEF Writes
<1> QED
  BY <1>2, <1>4, <1>5, <1>6, <1>7, <1>8 DEF Writes

LEMMA CommittedType ==
  ASSUME NEW g \in Tables, NEW x \in Tx PROVE Committed(x, g) \in Tables
<1>1. \A p \in Players : Over(x.tiered[p], g.tier[p]) \in Tiers \cup {None}
  BY DEF Tx, Tables, Over
<1> QED
  BY <1>1, Views DEF Committed, Tables

LEMMA CommittedSound ==
  ASSUME NEW g \in Tables, NEW x \in Tx, Sound(g), Writes(x, g)
  PROVE  Sound(Committed(x, g))
<1> DEFINE h == Committed(x, g)
<1>1. /\ \A p \in Players : h.name[p] = Called(x, g, p)
      /\ \A k \in Keys : h.alias[k] = Has(x, g, k)
  BY DEF Committed
<1>2. ASSUME NEW k \in Keys, h.alias[k] # None PROVE h.name[h.alias[k]] # None
  <2>1. h.alias[k] \in Players
    BY <1>1, <1>2, Views DEF Id
  <2>2. x.aliased[k] # None => Called(x, g, x.aliased[k]) # None
    BY DEF Writes
  <2>3. x.aliased[k] = None => g.name[h.alias[k]] # None
    BY <1>1, <1>2 DEF Sound, Has, Over
  <2> QED
    BY <1>1, <2>1, <2>2, <2>3 DEF Called, Has, Over
<1>3. Distinct(h.name)
  BY DEF Writes, Committed
<1> QED
  BY <1>2, <1>3 DEF Sound

\* What y sees of the commit of x: no name or key it knows moves.
LEMMA CommitSeen ==
  ASSUME NEW g \in Tables, NEW x \in Tx, NEW y \in Tx, Writes(x, g), Mine(y, g), Apart(x, y)
  PROVE  Mine(y, Committed(x, g))
<1> DEFINE h == Committed(x, g)
<1>0. /\ \A p \in Players : h.name[p] = Called(x, g, p) /\ h.tier[p] = Over(x.tiered[p], g.tier[p])
      /\ \A k \in Keys : h.alias[k] = Has(x, g, k)
  BY DEF Committed
<1> HIDE DEF h
<1>1. \A p \in Players : g.name[p] # None => h.name[p] # None
  BY <1>0 DEF Called, Over
<1>2. \A p \in Players : p \in y.rows => h.name[p] = g.name[p] /\ h.tier[p] = g.tier[p]
  BY <1>0 DEF Called, Over, Apart, Writes
<1>3. \A k \in Keys : g.alias[k] # None => h.alias[k] = g.alias[k]
  BY <1>0 DEF Has, Over, Writes
<1>4. \A k \in Keys : y.aliased[k] # None => h.alias[k] = g.alias[k]
  BY <1>0 DEF Has, Over, Apart
<1>5. \A p \in Players : Called(y, g, p) # None => Called(y, h, p) # None
  BY <1>1 DEF Called, Over
<1>6. \A k \in Keys : Has(y, g, k) # None => Has(y, h, k) = Has(y, g, k)
  BY <1>3 DEF Has, Over
<1>7. /\ y.rows \subseteq Players /\ y.told \subseteq Keys \X Players
      /\ y.aliased \in [Keys -> Id] /\ y.named \in [Players -> Name] /\ y.pid \in Id
      /\ None \notin Players
  BY NoneAssumption DEF Tx
<1>8. Writes(y, h)
  <2>1. \A p \in Players : y.named[p] # None => p \in y.rows
    BY DEF Mine, Writes
  <2>2. \A p \in Players : y.tiered[p] # None => p \in y.rows /\ h.tier[p] = None
    BY <1>2 DEF Mine, Writes
  <2>3. \A p \in y.rows : Called(y, h, p) # None
    BY <1>5, <1>7 DEF Mine, Writes
  <2>4. \A k \in Keys : y.aliased[k] # None => h.alias[k] = None /\ Called(y, h, y.aliased[k]) # None
    BY <1>4, <1>5, <1>7 DEF Mine, Writes, Id
  <2>5. Distinct([p \in Players |-> Called(y, h, p)])
    <3> SUFFICES ASSUME NEW p \in Players, NEW q \in Players,
                        Called(y, h, p) # None, Called(y, h, p) = Called(y, h, q), p # q
                 PROVE  FALSE
      BY DEF Distinct
    <3>1. Called(y, h, p) = Over(y.named[p], Called(x, g, p)) /\ Called(y, h, q) = Over(y.named[q], Called(x, g, q))
      BY <1>0 DEF Called
    <3>2. Called(x, g, p) # Called(x, g, q) \/ Called(x, g, p) = None
      BY DEF Writes, Distinct
    <3>3. Called(y, g, p) # Called(y, g, q) \/ Called(y, g, p) = None
      BY DEF Mine, Writes, Distinct
    <3>4. \A i, j \in Players : y.named[i] # None => x.named[j] # y.named[i]
      BY DEF Apart
    <3> QED
      BY <3>1, <3>2, <3>3, <3>4 DEF Called, Over
  <2>6. \A a \in y.told : Has(y, h, a[1]) = a[2]
    BY <1>6, <1>7 DEF Mine, Writes
  <2> QED
    BY <2>1, <2>2, <2>3, <2>4, <2>5, <2>6 DEF Writes
<1>9. ASSUME y.op \in {"register", "publish"} PROVE Registers(y, h)
  <2>1. Registers(y, g)
    BY <1>9 DEF Mine, Place
  <2>2. \A p \in Players : y.named[p] # None /\ h.name[p] # None => y.named[p] = h.name[p]
    BY <1>2, <2>1 DEF Registers, Mine, Writes
  <2>3. y.pc \in {"player", "insert"} /\ y.pid # None => Called(y, h, y.pid) # None
    BY <1>5, <1>7, <2>1 DEF Registers, Id
  <2>4. y.pc = "again" => Has(y, h, KeyNow(y)) # None
    <3>1. y.pc = "again" => KeyNow(y) \in Keys
      BY <1>9, <2>1, KeyNowIsKey
    <3> QED
      BY <1>6, <2>1, <3>1 DEF Registers
  <2>5. y.pc = "tier" /\ y.op = "publish" => \A i \in DOMAIN y.names : h.alias[Normal[y.names[i].as]] # None
    <3> SUFFICES ASSUME y.pc = "tier", y.op = "publish", NEW i \in DOMAIN y.names
                 PROVE  h.alias[Normal[y.names[i].as]] # None
      OBVIOUS
    <3>1. Normal[y.names[i].as] \in Keys
      BY KeysOfNames
    <3> QED
      BY <1>3, <2>1, <3>1 DEF Registers
  <2> QED
    BY <2>1, <2>2, <2>3, <2>4, <2>5 DEF Registers
<1>10. ASSUME y.op = "rename" PROVE Renames(y, h)
  <2>1. Renames(y, g)
    BY <1>10 DEF Mine, Place
  <2>2. y.pc \in {"collision", "update", "keep", "commit"} => h.name[y.target] # None
    BY <1>1, <2>1 DEF Renames
  <2>3. y.pc = "commit" /\ Normal[y.old] # Normal[y.new] =>
          y.aliased[Normal[y.old]] = y.target \/ h.alias[Normal[y.old]] # None
    BY <1>3, <2>1, NameAssumption DEF Renames
  <2> QED
    BY <2>1, <2>2, <2>3 DEF Renames
<1> QED
  BY <1>8, <1>9, <1>10 DEF Mine, Place, h

-----------------------------------------------------------------------------
(* Steps *)

LEMMA DbType == TypeOK => Db \in Tables
BY DEF TypeOK, Db, Tables

\* A step of one transaction that leaves the tables alone.
LEMMA LocalStep ==
  ASSUME TypeOK, Inv, NEW c \in Clients, NEW z \in Tx, tx' = [tx EXCEPT ![c] = z],
         left' \in Nat, UNCHANGED <<registry, answers>>,
         Mine(z, Db), \A d \in Clients \ {c} : Apart(z, tx[d])
  PROVE  TypeOK' /\ Inv'
<1>1. TypeOK'
  BY DEF TypeOK, registry
<1>2. Db' = Db
  BY DEF Db, registry
<1>3. \A a \in answers' : alias'[a[1]] = a[2]
  BY DEF Inv, registry
<1>4. ASSUME NEW d \in Clients PROVE Mine(tx'[d], Db)
  BY DEF TypeOK, Inv
<1>5. ASSUME NEW d \in Clients, NEW e \in Clients, d # e PROVE Apart(tx'[d], tx'[e])
  <2>1. CASE d = c
    BY <1>5, <2>1 DEF TypeOK
  <2>2. CASE e = c
    <3>1. tx[d] \in Tx /\ tx'[d] = tx[d] /\ tx'[e] = z
      BY <1>5, <2>2 DEF TypeOK
    <3> QED
      BY <1>5, <2>2, <3>1, ApartBoth
  <2>3. CASE d # c /\ e # c
    BY <1>5, <2>3 DEF TypeOK, Inv
  <2> QED
    BY <2>1, <2>2, <2>3
<1> QED
  BY <1>1, <1>2, <1>3, <1>4, <1>5 DEF Inv

\* A commit, after which the request ends or goes on in a new transaction.
LEMMA CommitStep ==
  ASSUME TypeOK, Inv, NEW c \in Clients, NEW z \in Tx, tx' = [tx EXCEPT ![c] = z],
         left' = left, Apply(c), answers' \in {answers, answers \cup tx[c].told},
         Empty(z), Place(z, Db')
  PROVE  TypeOK' /\ Inv'
<1> DEFINE x == tx[c]
<1>1. x \in Tx /\ Db \in Tables /\ Writes(x, Db) /\ Sound(Db)
  BY DbType DEF TypeOK, Inv, Mine
<1>2. Db' = Committed(x, Db)
  BY DEF Apply, Db, Committed, Called, Has
<1>3. Db' \in Tables /\ Sound(Db')
  BY <1>1, <1>2, CommittedType, CommittedSound
<1>4. x.told \subseteq Keys \X Players
  BY <1>1 DEF Tx
<1>5. TypeOK'
  <2>1. name' \in [Players -> Name] /\ tier' \in [Players -> Tiers \cup {None}] /\ alias' \in [Keys -> Id]
    BY <1>3 DEF Db, Tables
  <2>2. tx' \in [Clients -> Tx] /\ answers' \subseteq Keys \X Players /\ left' \in Nat
    BY <1>4 DEF TypeOK
  <2> QED
    BY <2>1, <2>2 DEF TypeOK
<1>6. \A a \in answers' : alias'[a[1]] = a[2]
  <2>1. \A k \in Keys : alias'[k] = Has(x, Db, k)
    BY DEF Apply, Has, Db
  <2>2. \A k \in Keys : alias[k] # None => alias'[k] = alias[k]
    BY <1>1, <2>1 DEF Writes, Has, Over, Db
  <2>3. \A a \in x.told : alias'[a[1]] = a[2]
    BY <1>1, <1>4, <2>1 DEF Writes
  <2>4. \A a \in answers : a[1] \in Keys /\ a[2] # None
    BY NoneAssumption DEF TypeOK
  <2> QED
    BY <2>2, <2>3, <2>4 DEF Inv
<1>7. Mine(z, Db')
  BY <1>3, EmptyWrites DEF Mine
<1>8. ASSUME NEW d \in Clients PROVE Mine(tx'[d], Db')
  <2>1. CASE d = c
    BY <1>7, <2>1 DEF TypeOK
  <2>2. CASE d # c
    <3>1. tx[d] \in Tx /\ tx'[d] = tx[d] /\ Mine(tx[d], Db) /\ Apart(x, tx[d])
      BY <2>2 DEF TypeOK, Inv
    <3> QED
      BY <1>1, <1>2, <3>1, CommitSeen
  <2> QED
    BY <2>1, <2>2
<1>9. ASSUME NEW d \in Clients, NEW e \in Clients, d # e PROVE Apart(tx'[d], tx'[e])
  <2>1. \A y \in Tx : Apart(z, y) /\ Apart(y, z)
    BY <1>3, EmptyWrites, ApartBoth
  <2>2. tx'[d] \in Tx /\ tx'[e] \in Tx
    BY DEF TypeOK
  <2>3. CASE d # c /\ e # c
    BY <1>9, <2>3 DEF TypeOK, Inv
  <2> QED
    BY <2>1, <2>2, <2>3 DEF TypeOK
<1> QED
  BY <1>3, <1>5, <1>6, <1>8, <1>9 DEF Inv

\* A step that writes nothing.
LEMMA QuietStep ==
  ASSUME TypeOK, Inv, NEW c \in Clients, NEW z \in Tx, tx' = [tx EXCEPT ![c] = z],
         left' = left, UNCHANGED <<registry, answers>>, SameWrites(tx[c], z),
         \A a \in z.told : a \in tx[c].told \/ Has(tx[c], Db, a[1]) = a[2],
         Place(z, Db)
  PROVE  TypeOK' /\ Inv'
<1>1. tx[c] \in Tx /\ Db \in Tables /\ Writes(tx[c], Db)
  BY DbType DEF TypeOK, Inv, Mine
<1>2. Mine(z, Db)
  BY <1>1, SameWritten DEF Mine
<1>3. \A d \in Clients \ {c} : Apart(z, tx[d])
  BY <1>1, SameViews DEF TypeOK, Inv
<1>4. left' \in Nat
  BY DEF TypeOK
<1> QED
  BY <1>2, <1>3, <1>4, LocalStep

LEMMA IdleTx == Idle \in Tx /\ Idle.at = 1 /\ Empty(Idle) /\ \A g \in Tables : Place(Idle, g)
<1>1. <<>> \in Seq(Entry)
  OBVIOUS
<1>2. Idle \in Tx
  BY <1>1 DEF Idle, Tx, Id, Name
<1>3. Idle.at = 1 /\ Empty(Idle) /\ \A g \in Tables : Place(Idle, g)
  BY DEF Idle, Empty, Unwritten, Place
<1> QED
  BY <1>2, <1>3

LEMMA FinishStep ==
  ASSUME TypeOK, Inv, NEW c \in Clients, Finish(c), UNCHANGED <<registry, answers, left>>
  PROVE  TypeOK' /\ Inv'
<1>1. Db \in Tables /\ Sound(Db) /\ left' \in Nat
  BY DbType DEF TypeOK, Inv
<1>2. Mine(Idle, Db) /\ \A y \in Tx : Apart(Idle, y)
  BY <1>1, IdleTx, EmptyWrites DEF Mine
<1>3. \A d \in Clients \ {c} : Apart(Idle, tx[d])
  BY <1>2 DEF TypeOK
<1> QED
  BY <1>1, <1>2, <1>3, IdleTx, LocalStep DEF Finish

LEMMA RequestTx ==
  ASSUME NEW r \in Requests
  PROVE  r \in Tx /\ Empty(r) /\ \A g \in Tables : Place(r, g)
<1>1. ASSUME NEW n \in Spellings, NEW m \in Spellings, NEW t \in Tiers \cup {None}, r = Register(n, m, t)
      PROVE  r \in Tx /\ Empty(r) /\ \A g \in Tables : Place(r, g)
  <2>1. Named(n, m) \in Entry
    BY DEF Named, Entry
  <2>2. <<Named(n, m)>> \in Seq(Entry) /\ Len(<<Named(n, m)>>) = 1
    BY <2>1
  <2>3. /\ r.pc = "alias" /\ r.op = "register" /\ r.names = <<Named(n, m)>> /\ r.at = 1 /\ r.rows = {}
        /\ r.named = Idle.named /\ r.tiered = Idle.tiered /\ r.aliased = Idle.aliased /\ r.told = {}
    BY <1>1 DEF Register, Idle
  <2>4. r \in Tx
    BY <1>1, <2>2, IdleTx DEF Register, Tx
  <2>5. Empty(r)
    BY <2>3, IdleTx DEF Empty, Unwritten
  <2>6. \A g \in Tables : Place(r, g)
    BY <2>2, <2>3, <2>5 DEF Place, Registers, Empty, Unwritten
  <2> QED
    BY <2>4, <2>5, <2>6
<1>2. ASSUME r.names \in Seq(Entry) \ {<<>>}, r.tier \in Tiers \cup {None},
             r = Publish([i \in DOMAIN r.names |-> r.names[i].as], r.tier)
      PROVE  r \in Tx /\ Empty(r) /\ \A g \in Tables : Place(r, g)
  <2> DEFINE names == [i \in DOMAIN [j \in DOMAIN r.names |-> r.names[j].as] |->
                         Named([j \in DOMAIN r.names |-> r.names[j].as][i],
                               [j \in DOMAIN r.names |-> r.names[j].as][i])]
  <2>1. r = [Idle EXCEPT !.pc = "alias", !.op = "publish", !.tier = r.tier, !.names = names]
    BY <1>2 DEF Publish
  <2> HIDE DEF names
  <2>2. /\ r.pc = "alias" /\ r.op = "publish" /\ r.at = 1 /\ r.rows = Idle.rows /\ r.names = names
        /\ r.named = Idle.named /\ r.tiered = Idle.tiered /\ r.aliased = Idle.aliased /\ r.told = Idle.told
    BY <2>1, IdleTx DEF Tx
  <2>3. r \in Tx
    BY <1>2, <2>1, <2>2, IdleTx DEF Tx
  <2>4. Empty(r)
    BY <2>2, IdleTx DEF Empty, Unwritten
  <2>5. 1 \in DOMAIN r.names
    BY <1>2
  <2>6. \A g \in Tables : Place(r, g)
    BY <2>2, <2>4, <2>5 DEF Place, Registers, Empty, Unwritten
  <2> QED
    BY <2>3, <2>4, <2>6
<1>3. ASSUME NEW p \in Players, NEW n \in Spellings, r = Rename(p, n)
      PROVE  r \in Tx /\ Empty(r) /\ \A g \in Tables : Place(r, g)
  <2>1. r \in Tx
    <3>1. p \in Id /\ n \in Name
      BY DEF Id, Name
    <3> QED
      BY <1>3, <3>1, IdleTx DEF Rename, Tx
  <2>2. /\ r.pc = "read" /\ r.op = "rename" /\ r.target = p /\ r.new = n /\ r.rows = Idle.rows
        /\ r.named = Idle.named /\ r.tiered = Idle.tiered /\ r.aliased = Idle.aliased /\ r.told = Idle.told
    BY <1>3, IdleTx DEF Rename, Tx
  <2>3. Empty(r)
    BY <2>2, IdleTx DEF Empty, Unwritten
  <2>4. \A g \in Tables : Place(r, g)
    BY <2>2, <2>3 DEF Place, Renames, Empty
  <2> QED
    BY <2>1, <2>3, <2>4
<1> QED
  BY <1>1, <1>2, <1>3, RequestAssumption DEF Entry

LEMMA SendStep ==
  ASSUME TypeOK, Inv, NEW c \in Clients, Send(c)
  PROVE  TypeOK' /\ Inv'
<1>1. PICK r \in Requests : tx' = [tx EXCEPT ![c] = r]
  BY DEF Send
<1>2. r \in Tx /\ Empty(r) /\ Db \in Tables /\ Sound(Db)
  BY RequestTx, DbType DEF Inv
<1>3. Mine(r, Db) /\ \A y \in Tx : Apart(r, y)
  BY <1>2, RequestTx, EmptyWrites DEF Mine
<1>4. \A d \in Clients \ {c} : Apart(r, tx[d])
  BY <1>3 DEF TypeOK
<1>5. left' \in Nat /\ UNCHANGED <<registry, answers>>
  BY DEF Send, TypeOK
<1> QED
  BY <1>1, <1>2, <1>3, <1>4, <1>5, LocalStep

-----------------------------------------------------------------------------
(* The steps of a registration *)

\* A registration at one of its names.
LEMMA AtName ==
  ASSUME TypeOK, Inv, NEW c \in Clients,
         tx[c].pc \in {"alias", "canonical", "player", "insert", "again"}
  PROVE  /\ tx[c] \in Tx /\ Db \in Tables /\ Writes(tx[c], Db) /\ Registers(tx[c], Db)
         /\ tx[c].op \in {"register", "publish"}
         /\ tx[c].names \in Seq(Entry) /\ tx[c].at \in DOMAIN tx[c].names
         /\ Now(c) \in Entry /\ Key(c) \in Keys /\ KeyNow(tx[c]) = Key(c)
         /\ \A k : Owner(c, k) = Has(tx[c], Db, k)
         /\ \A p : NameOf(c, p) = Called(tx[c], Db, p)
<1>1. tx[c] \in Tx /\ Db \in Tables /\ Mine(tx[c], Db)
  BY DbType DEF TypeOK, Inv
<1>2. tx[c].op \in {"register", "publish"} /\ Registers(tx[c], Db)
  BY <1>1 DEF Mine, Place
<1>3. tx[c].at \in DOMAIN tx[c].names
  BY <1>1, <1>2, KeyNowIsKey
<1>4. tx[c].names[tx[c].at] \in Entry /\ KeyNow(tx[c]) \in Keys
  BY <1>1, <1>3, KeysOfNames DEF KeyNow
<1> QED
  BY <1>1, <1>2, <1>3, <1>4 DEF Tx, Mine, Now, Key, KeyNow, Owner, Has, NameOf, Called, Db

\* The name it is at is answered with the player who has it.
LEMMA AnsweredStep ==
  ASSUME TypeOK, Inv, NEW c \in Clients, tx[c].pc \in {"alias", "again"},
         NEW p, p = Owner(c, Key(c)), p # None, Answered(c, tx[c], p),
         UNCHANGED <<registry, answers, left>>
  PROVE  TypeOK' /\ Inv'
<1> DEFINE x == tx[c]
           last == x.at = Len(x.names)
           z == [x EXCEPT !.told = @ \cup {<<Key(c), p>>}, !.pid = None,
                          !.pc = IF last THEN "commit" ELSE "alias",
                          !.at = IF last THEN 1 ELSE @ + 1]
<1>1. /\ x \in Tx /\ Db \in Tables /\ Registers(x, Db) /\ x.op \in {"register", "publish"}
      /\ x.names \in Seq(Entry) /\ x.at \in DOMAIN x.names /\ Key(c) \in Keys /\ KeyNow(x) = Key(c)
      /\ p = Has(x, Db, Key(c))
  BY AtName
<1>2. p \in Players
  BY <1>1, Views DEF Id
<1>3. /\ z.pc = IF last THEN "commit" ELSE "alias"
      /\ z.op = x.op /\ z.names = x.names /\ z.at = IF last THEN 1 ELSE x.at + 1
      /\ z.named = x.named /\ z.tiered = x.tiered /\ z.aliased = x.aliased /\ z.rows = x.rows
      /\ z.told = x.told \cup {<<Key(c), p>>} /\ z.pid = None
  BY <1>1 DEF Tx
<1>4. z \in Tx
  <2>1. x.at \in Nat /\ x.told \in SUBSET (Keys \X Players)
    BY <1>1 DEF Tx
  <2>2. x.told \cup {<<Key(c), p>>} \in SUBSET (Keys \X Players)
    BY <1>1, <1>2, <2>1
  <2>3. (IF last THEN 1 ELSE x.at + 1) \in Nat /\ None \in Id
    BY <2>1 DEF Id
  <2> QED
    BY <1>1, <2>2, <2>3 DEF Tx
<1>5. tx' = [tx EXCEPT ![c] = z]
  BY DEF Answered
<1> HIDE DEF z
<1>6. SameWrites(x, z)
  BY <1>3 DEF SameWrites
<1>7. \A a \in z.told : a \in x.told \/ Has(x, Db, a[1]) = a[2]
  BY <1>1, <1>3
<1>8. z.at \in DOMAIN z.names /\ (x.at = 1 /\ Len(x.names) = 1 => z.at = 1 /\ KeyNow(z) = Key(c))
  BY <1>1, <1>3 DEF KeyNow
<1>9. Place(z, Db)
  BY <1>1, <1>2, <1>3, <1>8 DEF Place, Registers
<1> QED
  BY <1>4, <1>5, <1>6, <1>7, <1>9, QuietStep

LEMMA FindAliasStep ==
  ASSUME TypeOK, Inv, NEW c \in Clients, FindAlias(c)
  PROVE  TypeOK' /\ Inv'
<1>1. CASE Owner(c, Key(c)) # None
  BY <1>1, AnsweredStep DEF FindAlias, At
<1>2. CASE Owner(c, Key(c)) = None
  <2> DEFINE z == [tx[c] EXCEPT !.pc = "canonical"]
  <2>1. tx[c] \in Tx /\ Registers(tx[c], Db) /\ tx[c].op \in {"register", "publish"}
    BY AtName DEF FindAlias, At
  <2>2. z \in Tx /\ tx' = [tx EXCEPT ![c] = z]
    BY <1>2, <2>1 DEF FindAlias, Tx
  <2>3. SameWrites(tx[c], z) /\ z.told = tx[c].told
    BY <2>1 DEF SameWrites, Tx
  <2>4. Place(z, Db)
    BY <2>1 DEF Place, Registers, Tx, FindAlias, At
  <2> QED
    BY <2>2, <2>3, <2>4, QuietStep DEF FindAlias
<1> QED
  BY <1>1, <1>2

\* A name that has a player is the name of one there is.
LEMMA HasCalled ==
  ASSUME NEW g \in Tables, NEW x \in Tx, Sound(g), Writes(x, g),
         NEW k \in Keys, Has(x, g, k) # None
  PROVE  Called(x, g, Has(x, g, k)) # None
BY Views DEF Has, Called, Over, Sound, Writes, Tables, Id

LEMMA FindCanonicalStep ==
  ASSUME TypeOK, Inv, NEW c \in Clients, FindCanonical(c)
  PROVE  TypeOK' /\ Inv'
<1> DEFINE x == tx[c]
           k == Normal[Now(c).canonical]
           p == IF k = Key(c) THEN None ELSE Owner(c, k)
<1>1. PICK differs \in BOOLEAN :
        tx' = [tx EXCEPT ![c].pc = "player", ![c].pid = p, ![c].differs = differs]
  BY DEF FindCanonical
<1> DEFINE z == [x EXCEPT !.pc = "player", !.pid = p, !.differs = differs]
<1>2. /\ x \in Tx /\ Db \in Tables /\ Writes(x, Db) /\ Registers(x, Db) /\ x.op \in {"register", "publish"}
      /\ Now(c) \in Entry /\ Owner(c, k) = Has(x, Db, k) /\ x.pc = "canonical"
  BY AtName DEF FindCanonical, At
<1>3. k \in Keys
  BY <1>2, NameAssumption DEF Entry
<1>4. p \in Id /\ (p # None => Called(x, Db, p) # None)
  BY <1>2, <1>3, Views, HasCalled DEF Inv, Id
<1>5. z \in Tx /\ tx' = [tx EXCEPT ![c] = z]
  <2> HIDE DEF p
  <2>1. z \in Tx
    BY <1>2, <1>4 DEF Tx
  <2>2. tx' = [tx EXCEPT ![c] = z]
    BY <1>1, <1>2 DEF Tx
  <2> QED
    BY <2>1, <2>2
<1>6. SameWrites(x, z) /\ z.told = x.told
  BY <1>2 DEF SameWrites, Tx
<1>7. \A q \in Players : Called(z, Db, q) = Called(x, Db, q)
  BY <1>2, <1>5, <1>6, SameViews
<1>8. z.pc = "player" /\ z.pid = p /\ z.op = x.op /\ z.names = x.names /\ z.at = x.at /\ z.named = x.named
  BY <1>2 DEF Tx
<1> HIDE DEF z, p
<1>9. Place(z, Db)
  BY <1>2, <1>4, <1>7, <1>8, NoneAssumption DEF Place, Registers, Id
<1> QED
  BY <1>5, <1>6, <1>9, QuietStep DEF FindCanonical

LEMMA EnsurePlayerStep ==
  ASSUME TypeOK, Inv, NEW c \in Clients, EnsurePlayer(c)
  PROVE  TypeOK' /\ Inv'
<1> DEFINE x == tx[c]
           s == Now(c).canonical
           had == {q \in Players : NameOf(c, q) = s}
           p == IF had # {} THEN CHOOSE q \in had : TRUE ELSE CHOOSE q \in Players : Unused(q)
           z == [x EXCEPT !.pc = "insert", !.pid = p, !.named[p] = s, !.rows = @ \cup {p}]
<1>1. /\ x \in Tx /\ Db \in Tables /\ Writes(x, Db) /\ Registers(x, Db) /\ x.op \in {"register", "publish"}
      /\ s \in Spellings /\ (\A q : NameOf(c, q) = Called(x, Db, q)) /\ x.pc = "player"
  BY AtName DEF EnsurePlayer, At, Entry
<1>2. /\ p \in Players
      /\ Called(x, Db, p) = s \/ (Unused(p) /\ \A q \in Players : Called(x, Db, q) # s)
  <2>1. CASE had # {}
    <3>1. p \in had
      BY <2>1
    <3> QED
      BY <1>1, <3>1
  <2>2. CASE had = {}
    <3>1. p \in Players /\ Unused(p)
      BY <2>2 DEF EnsurePlayer
    <3> QED
      BY <1>1, <2>2, <3>1
  <2> QED
    BY <2>1, <2>2
<1>3. tx' = [tx EXCEPT ![c] = z] /\ ~SpellingPending(c, s)
  <2>1. /\ tx' = [tx EXCEPT ![c].pc = "insert", ![c].pid = p, ![c].named[p] = s, ![c].rows = @ \cup {p}]
        /\ ~SpellingPending(c, s)
    BY DEF EnsurePlayer
  <2> HIDE DEF p
  <2> QED
    BY <1>1, <2>1 DEF Tx
<1>4. s # None /\ x.named \in [Players -> Name] /\ x.rows \subseteq Players /\ x.aliased \in [Keys -> Id]
      /\ x.told \subseteq Keys \X Players /\ None \notin Players
  BY <1>1, NoneAssumption DEF Tx
<1>5. /\ z.pc = "insert" /\ z.pid = p /\ z.named = [x.named EXCEPT ![p] = s] /\ z.rows = x.rows \cup {p}
      /\ z.tiered = x.tiered /\ z.aliased = x.aliased /\ z.told = x.told
      /\ z.op = x.op /\ z.names = x.names /\ z.at = x.at
  BY <1>1 DEF Tx
<1>6. z \in Tx
  <2>1. [x.named EXCEPT ![p] = s] \in [Players -> Name] /\ x.rows \cup {p} \in SUBSET Players /\ p \in Id
    BY <1>1, <1>2, <1>4 DEF Id, Name
  <2> QED
    BY <1>1, <2>1 DEF Tx
<1> HIDE DEF z, p
<1>7. \A q \in Players : Called(z, Db, q) = IF q = p THEN s ELSE Called(x, Db, q)
  BY <1>2, <1>4, <1>5 DEF Called, Over
<1>8. \A k \in Keys : Has(z, Db, k) = Has(x, Db, k)
  BY <1>5 DEF Has
<1>9. Writes(z, Db)
  <2>1. \A q \in Players : z.named[q] # None => q \in z.rows
    BY <1>1, <1>2, <1>4, <1>5 DEF Writes
  <2>2. \A q \in Players : z.tiered[q] # None => q \in z.rows /\ Db.tier[q] = None
    BY <1>1, <1>5 DEF Writes
  <2>3. \A q \in z.rows : Called(z, Db, q) # None
    BY <1>1, <1>2, <1>4, <1>5, <1>7 DEF Writes
  <2>4. \A k \in Keys : z.aliased[k] # None => Db.alias[k] = None /\ Called(z, Db, z.aliased[k]) # None
    BY <1>1, <1>4, <1>5, <1>7 DEF Writes, Id
  <2>5. Distinct([q \in Players |-> Called(z, Db, q)])
    <3>1. \A q \in Players : q # p => Called(x, Db, q) # s
      BY <1>1, <1>2, <1>4 DEF Writes, Distinct
    <3>2. \A q, r \in Players : Called(x, Db, q) # None /\ Called(x, Db, q) = Called(x, Db, r) => q = r
      BY <1>1 DEF Writes, Distinct
    <3> QED
      BY <1>4, <1>7, <3>1, <3>2 DEF Distinct
  <2>6. \A a \in z.told : Has(z, Db, a[1]) = a[2]
    BY <1>1, <1>4, <1>5, <1>8 DEF Writes
  <2> QED
    BY <2>1, <2>2, <2>3, <2>4, <2>5, <2>6 DEF Writes
<1>10. Place(z, Db)
  <2>1. Db.name[p] \in {None, s}
    BY <1>1, <1>2, <1>4 DEF Registers, Unused, Called, Over, Db
  <2>2. \A q \in Players : z.named[q] # None /\ Db.name[q] # None => z.named[q] = Db.name[q]
    BY <1>1, <1>2, <1>4, <1>5, <2>1 DEF Registers
  <2>3. Called(z, Db, p) # None /\ p # None
    BY <1>2, <1>4, <1>7
  <2> QED
    BY <1>1, <1>5, <2>2, <2>3 DEF Place, Registers
<1>11. ASSUME NEW d \in Clients \ {c} PROVE Apart(z, tx[d])
  <2> DEFINE y == tx[d]
  <2>1. y \in Tx /\ Apart(x, y) /\ Writes(y, Db)
    BY DEF TypeOK, Inv, Mine
  <2>2. \A q \in Players : y.named[q] # s /\ ~(q \in y.rows /\ Called(x, Db, q) = s)
    BY <1>1, <1>3 DEF SpellingPending, Others
  <2>3. p \notin y.rows
    <3>1. CASE Called(x, Db, p) = s
      BY <1>2, <2>2, <3>1
    <3>2. CASE Unused(p)
      BY <1>2, <2>1, <3>2 DEF Unused, Writes, Called, Over, Db
    <3> QED
      BY <1>2, <3>1, <3>2
  <2> QED
    BY <1>2, <1>4, <1>5, <2>1, <2>2, <2>3 DEF Apart
<1> QED
  BY <1>3, <1>6, <1>9, <1>10, <1>11, LocalStep DEF EnsurePlayer, Mine, TypeOK

LEMMA UpdateGenderStep ==
  ASSUME TypeOK, Inv, NEW c \in Clients, UpdateGender(c)
  PROVE  TypeOK' /\ Inv'
<1> DEFINE x == tx[c]
           z == [x EXCEPT !.pc = "insert", !.rows = IF x.differs THEN @ \cup {x.pid} ELSE @]
<1>1. /\ x \in Tx /\ Db \in Tables /\ Writes(x, Db) /\ Registers(x, Db) /\ x.op \in {"register", "publish"}
      /\ x.pc = "player" /\ x.pid # None
  BY AtName DEF UpdateGender, At
<1>2. x.pid \in Players /\ x.rows \subseteq Players /\ Called(x, Db, x.pid) # None
  BY <1>1 DEF Tx, Id, Registers
<1>3. /\ z.pc = "insert" /\ z.rows = (IF x.differs THEN x.rows \cup {x.pid} ELSE x.rows)
      /\ z.named = x.named /\ z.tiered = x.tiered /\ z.aliased = x.aliased /\ z.told = x.told
      /\ z.op = x.op /\ z.names = x.names /\ z.at = x.at /\ z.pid = x.pid
  BY <1>1 DEF Tx
<1>4. z \in Tx
  <2>1. x.rows \cup {x.pid} \in SUBSET Players /\ x.rows \in SUBSET Players
    BY <1>2
  <2> DEFINE rows == IF x.differs THEN x.rows \cup {x.pid} ELSE x.rows
  <2>2. rows \in SUBSET Players
    BY <2>1
  <2>3. z = [x EXCEPT !.pc = "insert", !.rows = rows]
    BY <1>1 DEF Tx
  <2> HIDE DEF rows, z
  <2> QED
    BY <1>1, <2>2, <2>3 DEF Tx
<1>5. tx' = [tx EXCEPT ![c] = z]
  BY <1>1 DEF UpdateGender, Tx
<1> HIDE DEF z
<1>6. /\ \A q : Called(z, Db, q) = Called(x, Db, q)
      /\ \A k : Has(z, Db, k) = Has(x, Db, k)
  BY <1>3 DEF Called, Has
<1>7. Writes(z, Db)
  <2>1. [q \in Players |-> Called(z, Db, q)] = [q \in Players |-> Called(x, Db, q)]
    BY <1>6
  <2> QED
    BY <1>1, <1>2, <1>3, <1>6, <2>1 DEF Writes
<1>8. Place(z, Db)
  BY <1>1, <1>2, <1>3, <1>6 DEF Place, Registers
<1>9. ASSUME NEW d \in Clients \ {c} PROVE Apart(z, tx[d])
  <2>1. Apart(x, tx[d])
    BY DEF Inv
  <2>2. x.differs => x.pid \notin tx[d].rows
    BY DEF UpdateGender, RowLocked, Others
  <2> QED
    BY <1>3, <2>1, <2>2 DEF Apart
<1> QED
  BY <1>4, <1>5, <1>7, <1>8, <1>9, LocalStep DEF UpdateGender, Mine, TypeOK

LEMMA InsertAliasStep ==
  ASSUME TypeOK, Inv, NEW c \in Clients, InsertAlias(c)
  PROVE  TypeOK' /\ Inv'
<1> DEFINE x == tx[c]
           k == Key(c)
           z == [x EXCEPT !.pc = "again", !.aliased[k] = IF Owner(c, k) = None THEN x.pid ELSE @]
<1>1. /\ x \in Tx /\ Db \in Tables /\ Writes(x, Db) /\ Registers(x, Db) /\ x.op \in {"register", "publish"}
      /\ x.pc = "insert" /\ k \in Keys /\ k = KeyNow(x) /\ Owner(c, k) = Has(x, Db, k)
  BY AtName DEF InsertAlias, At
<1>2. x.pid \in Players /\ x.aliased \in [Keys -> Id] /\ x.pid # None /\ Called(x, Db, x.pid) # None
      /\ x.told \subseteq Keys \X Players /\ x.rows \subseteq Players /\ None \notin Players
  BY <1>1, NoneAssumption DEF Tx, Id, Registers
<1>3. /\ z.pc = "again" /\ z.aliased = [x.aliased EXCEPT ![k] = IF Has(x, Db, k) = None THEN x.pid ELSE @]
      /\ z.named = x.named /\ z.tiered = x.tiered /\ z.rows = x.rows /\ z.told = x.told
      /\ z.op = x.op /\ z.names = x.names /\ z.at = x.at /\ z.pid = x.pid
  BY <1>1 DEF Tx
<1>4. z \in Tx
  BY <1>1, <1>2 DEF Tx, Id
<1>5. tx' = [tx EXCEPT ![c] = z]
  BY <1>1 DEF InsertAlias, Tx
<1> HIDE DEF z, k
<1>6. /\ \A q : Called(z, Db, q) = Called(x, Db, q)
      /\ Has(z, Db, k) # None
      /\ \A j \in Keys : Has(x, Db, j) # None => Has(z, Db, j) = Has(x, Db, j)
  BY <1>1, <1>2, <1>3 DEF Called, Has, Over
<1>7. Writes(z, Db)
  <2>1. [q \in Players |-> Called(z, Db, q)] = [q \in Players |-> Called(x, Db, q)]
    BY <1>6
  <2>2. \A j \in Keys : z.aliased[j] # None => Db.alias[j] = None /\ Called(z, Db, z.aliased[j]) # None
    <3>1. Has(x, Db, k) = None => Db.alias[k] = None
      BY <1>1 DEF Writes, Has, Over
    <3> QED
      BY <1>1, <1>2, <1>3, <1>6, <3>1 DEF Writes
  <2>3. \A a \in z.told : Has(z, Db, a[1]) = a[2]
    BY <1>1, <1>2, <1>3, <1>6 DEF Writes
  <2> QED
    BY <1>1, <1>3, <1>6, <2>1, <2>2, <2>3 DEF Writes
<1>8. Place(z, Db)
  <2>1. KeyNow(z) = k
    BY <1>1, <1>3 DEF KeyNow
  <2> QED
    BY <1>1, <1>3, <1>6, <2>1 DEF Place, Registers
<1>9. ASSUME NEW d \in Clients \ {c} PROVE Apart(z, tx[d])
  <2>1. Apart(x, tx[d])
    BY DEF Inv
  <2>2. tx[d].aliased[k] = None
    BY DEF InsertAlias, KeyPending, Others, k
  <2> QED
    BY <1>1, <1>2, <1>3, <2>1, <2>2 DEF Apart
<1> QED
  BY <1>4, <1>5, <1>7, <1>8, <1>9, LocalStep DEF InsertAlias, Mine, TypeOK

LEMMA FindAgainStep ==
  ASSUME TypeOK, Inv, NEW c \in Clients, FindAgain(c)
  PROVE  TypeOK' /\ Inv'
<1>1. Owner(c, Key(c)) # None
  BY AtName DEF FindAgain, At, Registers
<1> QED
  BY <1>1, AnsweredStep DEF FindAgain, WhoHasIt, At

LEMMA CommitRegistrationStep ==
  ASSUME TypeOK, Inv, NEW c \in Clients, CommitRegistration(c)
  PROVE  TypeOK' /\ Inv'
<1> DEFINE x == tx[c]
<1>1. x \in Tx /\ x.pc = "commit" /\ x.op \in {"register", "publish"} /\ Registers(x, Db)
  BY DEF TypeOK, Inv, Mine, Place, CommitRegistration, At
<1>2. x.at \in DOMAIN x.names /\ x.names \in Seq(Entry) /\ x.tier \in Tiers \cup {None}
      /\ x.told \subseteq Keys \X Players
  BY <1>1, KeyNowIsKey DEF Tx
<1>3. Apply(c) /\ answers' = answers \cup x.told /\ left' = left
  BY DEF CommitRegistration
<1>4. CASE x.op = "publish"
  <2> DEFINE z == [Idle EXCEPT !.pc = "resolve", !.op = "publish", !.tier = x.tier, !.names = x.names]
  <2>1. tx' = [tx EXCEPT ![c] = z]
    BY <1>4 DEF CommitRegistration
  <2>2. z \in Tx
    BY <1>2, IdleTx DEF Tx
  <2>3. /\ z.pc = "resolve" /\ z.op = "publish" /\ z.at = 1 /\ z.names = x.names
        /\ z.named = Idle.named /\ z.tiered = Idle.tiered /\ z.aliased = Idle.aliased
        /\ z.rows = Idle.rows /\ z.told = Idle.told
    BY IdleTx DEF Tx, Idle
  <2> HIDE DEF z
  <2>4. Empty(z)
    BY <2>3, IdleTx DEF Empty, Unwritten
  <2>5. 1 \in DOMAIN x.names
    BY <1>2
  <2>6. Place(z, Db')
    BY <2>3, <2>4, <2>5 DEF Place, Registers, Empty, Unwritten
  <2> QED
    BY <1>3, <2>1, <2>2, <2>4, <2>6, CommitStep
<1>5. CASE x.op = "register" /\ x.tier # None
  <2> DEFINE z == [Idle EXCEPT !.pc = "tier", !.op = "register", !.tier = x.tier, !.pid = Told(c, Key(c))]
  <2>1. tx' = [tx EXCEPT ![c] = z]
    BY <1>5 DEF CommitRegistration
  <2>2. Told(c, Key(c)) \in Id
    BY <1>1, <1>5 DEF Registers, Told, KeyNow, Key, Now, Id
  <2>3. z \in Tx
    BY <1>2, <2>2, IdleTx DEF Tx
  <2>4. /\ z.pc = "tier" /\ z.op = "register"
        /\ z.named = Idle.named /\ z.tiered = Idle.tiered /\ z.aliased = Idle.aliased
        /\ z.rows = Idle.rows /\ z.told = Idle.told
    BY IdleTx DEF Tx, Idle
  <2> HIDE DEF z
  <2>5. Empty(z)
    BY <2>4, IdleTx DEF Empty, Unwritten
  <2>6. Place(z, Db')
    BY <2>4, <2>5 DEF Place, Registers, Empty, Unwritten
  <2> QED
    BY <1>3, <2>1, <2>3, <2>5, <2>6, CommitStep
<1>6. CASE x.op = "register" /\ x.tier = None
  <2>1. tx' = [tx EXCEPT ![c] = Idle]
    BY <1>6 DEF CommitRegistration, Finish
  <2>2. Place(Idle, Db')
    BY DEF Idle, Place
  <2> QED
    BY <1>3, <2>1, <2>2, IdleTx, CommitStep
<1> QED
  BY <1>1, <1>4, <1>5, <1>6

-----------------------------------------------------------------------------
(* The tier, and the publishing of a session *)

\* A transaction does not see the tiers of rows it has not locked.
LEMMA TierOnly ==
  ASSUME NEW g \in Tables, NEW h \in Tables, h.name = g.name, h.alias = g.alias,
         NEW y \in Tx, Mine(y, g), \A p \in y.rows : g.tier[p] = None => h.tier[p] = None
  PROVE  Mine(y, h)
<1>1. /\ \A p : Called(y, h, p) = Called(y, g, p)
      /\ \A k : Has(y, h, k) = Has(y, g, k)
  BY DEF Called, Has
<1>2. [p \in Players |-> Called(y, h, p)] = [p \in Players |-> Called(y, g, p)]
  BY <1>1
<1>3. Writes(y, h)
  BY <1>1, <1>2 DEF Mine, Writes
<1>4. y.op \in {"register", "publish"} => Registers(y, h)
  BY <1>1 DEF Mine, Place, Registers
<1>5. y.op = "rename" => Renames(y, h)
  BY DEF Mine, Place, Renames
<1> QED
  BY <1>3, <1>4, <1>5 DEF Mine, Place

LEMMA SetPlayerTierOnRegisterStep ==
  ASSUME TypeOK, Inv, NEW c \in Clients, SetPlayerTierOnRegister(c)
  PROVE  TypeOK' /\ Inv'
<1> DEFINE q == tx[c].pid
<1>1. /\ tier' = [tier EXCEPT ![q] = FirstTier(c, q)] /\ tx' = [tx EXCEPT ![c] = Idle]
      /\ UNCHANGED <<name, alias, answers, left>> /\ (tier[q] = None => ~RowLocked(c, q))
  BY DEF SetPlayerTierOnRegister, Finish
<1>2. tx[c] \in Tx /\ Db \in Tables /\ (q \in Players => FirstTier(c, q) \in Tiers \cup {None})
  BY DbType DEF TypeOK, Tx, FirstTier
<1>3. tier' \in [Players -> Tiers \cup {None}]
  BY <1>1, <1>2 DEF TypeOK
<1>4. TypeOK'
  BY <1>1, <1>3, IdleTx DEF TypeOK
<1>5. Db \in Tables /\ Db' \in Tables /\ Db'.name = Db.name /\ Db'.alias = Db.alias
  BY <1>1, <1>4, DbType DEF Db, Tables, TypeOK
<1>6. Sound(Db')
  BY <1>5 DEF Inv, Sound
<1>7. ASSUME NEW d \in Clients PROVE Mine(tx'[d], Db')
  <2>1. CASE d = c
    <3>1. Mine(Idle, Db')
      BY <1>5, <1>6, IdleTx, EmptyWrites DEF Mine
    <3> QED
      BY <1>1, <2>1, <3>1 DEF TypeOK
  <2>2. CASE d # c
    <3>1. tx'[d] = tx[d] /\ tx[d] \in Tx /\ Mine(tx[d], Db)
      BY <1>1, <2>2 DEF TypeOK, Inv
    <3>2. \A p \in tx[d].rows : tier[p] = None => tier'[p] = None
      <4> SUFFICES ASSUME NEW p \in tx[d].rows, tier[p] = None PROVE tier'[p] = None
        OBVIOUS
      <4>1. p # q
        BY <1>1, <2>2 DEF RowLocked, Others
      <4>2. p \in Players
        BY <3>1 DEF Tx
      <4> QED
        BY <1>1, <4>1, <4>2 DEF TypeOK
    <3>3. \A p \in tx[d].rows : Db.tier[p] = None => Db'.tier[p] = None
      BY <3>2 DEF Db
    <3> QED
      BY <1>5, <3>1, <3>3, TierOnly
  <2> QED
    BY <2>1, <2>2
<1>8. ASSUME NEW d \in Clients, NEW e \in Clients, d # e PROVE Apart(tx'[d], tx'[e])
  <2>1. \A y \in Tx : Apart(Idle, y) /\ Apart(y, Idle)
    BY <1>5, <1>6, IdleTx, EmptyWrites, ApartBoth
  <2>2. tx'[d] \in Tx /\ tx'[e] \in Tx
    BY <1>4 DEF TypeOK
  <2>3. CASE d # c /\ e # c
    BY <1>1, <1>8, <2>3 DEF TypeOK, Inv
  <2> QED
    BY <1>1, <2>1, <2>2, <2>3 DEF TypeOK
<1>9. \A a \in answers' : alias'[a[1]] = a[2]
  BY <1>1 DEF Inv
<1> QED
  BY <1>4, <1>6, <1>7, <1>8, <1>9 DEF Inv

LEMMA ResolvePlayerAliasesStep ==
  ASSUME TypeOK, Inv, NEW c \in Clients, ResolvePlayerAliases(c)
  PROVE  TypeOK' /\ Inv'
<1> DEFINE x == tx[c]
           z == [x EXCEPT !.pc = "tier"]
           who == [i \in DOMAIN x.names |-> alias[Normal[x.names[i].as]]]
           resolved == \A i, j \in DOMAIN who : who[i] # None /\ (who[i] = who[j] => i = j)
<1>1. CASE ~resolved
  BY <1>1, FinishStep DEF ResolvePlayerAliases
<1>2. CASE resolved
  <2>1. x \in Tx /\ x.pc = "resolve" /\ x.op \in {"register", "publish"} /\ Registers(x, Db)
    BY DEF TypeOK, Inv, Mine, Place, ResolvePlayerAliases, At
  <2>2. z \in Tx /\ tx' = [tx EXCEPT ![c] = z]
    BY <1>2, <2>1 DEF ResolvePlayerAliases, Tx
  <2>3. /\ z.pc = "tier" /\ z.op = x.op /\ z.names = x.names /\ z.at = x.at /\ z.told = x.told
        /\ z.named = x.named /\ z.tiered = x.tiered /\ z.aliased = x.aliased /\ z.rows = x.rows
    BY <2>1 DEF Tx
  <2>4. \A i \in DOMAIN x.names : Db.alias[Normal[x.names[i].as]] # None
    BY <1>2 DEF Db
  <2> HIDE DEF z
  <2>5. SameWrites(x, z)
    BY <2>3 DEF SameWrites
  <2>6. Place(z, Db)
    <3>1. Unwritten(z) /\ \A q \in Players : z.named[q] = None
      BY <2>1, <2>3 DEF Registers, Unwritten
    <3>2. Registers(z, Db)
      BY <2>1, <2>3, <2>4, <3>1 DEF Registers
    <3> QED
      BY <2>1, <2>3, <3>2 DEF Place
  <2> QED
    BY <2>2, <2>3, <2>5, <2>6, QuietStep DEF ResolvePlayerAliases
<1> QED
  BY <1>1, <1>2

LEMMA FirstSetPlayerTierStep ==
  ASSUME TypeOK, Inv, NEW c \in Clients, FirstSetPlayerTier(c)
  PROVE  TypeOK' /\ Inv'
<1> DEFINE x == tx[c]
           p == alias[Key(c)]
           last == x.at = Len(x.names)
           to == IF last THEN "save" ELSE "tier"
           next == IF last THEN 1 ELSE x.at + 1
           sets == ~(x.tier = None \/ tier[p] # None)
           z == [x EXCEPT !.pc = to, !.at = next, !.rows = IF sets THEN @ \cup {p} ELSE @,
                          !.tiered = IF sets THEN [@ EXCEPT ![p] = FirstTier(c, p)] ELSE @]
<1>1. /\ x \in Tx /\ Db \in Tables /\ Writes(x, Db) /\ Registers(x, Db)
      /\ x.pc = "tier" /\ x.op = "publish"
  BY DbType DEF TypeOK, Inv, Mine, Place, FirstSetPlayerTier, At
<1>2. /\ x.at \in DOMAIN x.names /\ x.names \in Seq(Entry) /\ Key(c) \in Keys /\ p # None
      /\ Unwritten(x) /\ \A i \in DOMAIN x.names : Db.alias[Normal[x.names[i].as]] # None
  <2>1. x.at \in DOMAIN x.names
    BY <1>1 DEF Registers
  <2> QED
    BY <1>1, <2>1, KeysOfNames DEF Registers, Key, Now, Db, Tx
<1>3. p \in Players /\ Db.name[p] # None
  BY <1>2 DEF TypeOK, Inv, Sound, Db, Id
<1>4. /\ z.pc = to /\ z.op = x.op /\ z.names = x.names /\ z.at = next /\ z.told = x.told
      /\ z.named = x.named /\ z.aliased = x.aliased
      /\ z.rows = (IF sets THEN x.rows \cup {p} ELSE x.rows)
      /\ z.tiered = (IF sets THEN [x.tiered EXCEPT ![p] = FirstTier(c, p)] ELSE x.tiered)
  BY <1>1 DEF Tx
<1>5. z \in Tx
  <2>1. next \in Nat /\ to \in {"save", "tier"}
    BY <1>1 DEF Tx
  <2>2. sets => FirstTier(c, p) \in Tiers \cup {None}
    BY <1>1, <1>3 DEF FirstTier, Tx
  <2>3. z.rows \in SUBSET Players
    BY <1>1, <1>3, <1>4 DEF Tx
  <2>4. z.tiered \in [Players -> Tiers \cup {None}]
    BY <1>1, <1>3, <1>4, <2>2 DEF Tx
  <2>5. ASSUME NEW r \in SUBSET Players, NEW t \in [Players -> Tiers \cup {None}]
        PROVE  [x EXCEPT !.pc = to, !.at = next, !.rows = r, !.tiered = t] \in Tx
    <3> HIDE DEF to, next
    <3> QED
      BY <1>1, <2>1 DEF Tx
  <2>6. z = [x EXCEPT !.pc = to, !.at = next, !.rows = z.rows, !.tiered = z.tiered]
    BY <1>1, <1>4 DEF Tx
  <2> HIDE DEF z, to, next
  <2> QED
    BY <2>3, <2>4, <2>5, <2>6
<1>6. tx' = [tx EXCEPT ![c] = z]
  <2>1. CASE sets
    BY <1>1, <2>1 DEF FirstSetPlayerTier, Tx
  <2>2. CASE ~sets
    <3>1. z = [x EXCEPT !.pc = to, !.at = next]
      BY <1>1, <2>2 DEF Tx
    <3>2. tx' = [tx EXCEPT ![c].pc = to, ![c].at = next]
      BY <2>2 DEF FirstSetPlayerTier
    <3> HIDE DEF z, to, next, sets
    <3> QED
      BY <3>1, <3>2
  <2> QED
    BY <2>1, <2>2
<1>7. next \in DOMAIN x.names
  BY <1>2
<1>8. sets => ~RowLocked(c, p) /\ Db.tier[p] = None
  BY DEF FirstSetPlayerTier, Db
<1> HIDE DEF z, p, next, sets
<1>9. /\ \A q : Called(z, Db, q) = Called(x, Db, q)
      /\ \A k : Has(z, Db, k) = Has(x, Db, k)
  BY <1>4 DEF Called, Has
<1>10. Writes(z, Db)
  <2>1. [q \in Players |-> Called(z, Db, q)] = [q \in Players |-> Called(x, Db, q)]
    BY <1>9
  <2>2. \A q \in Players : z.tiered[q] # None => q \in z.rows /\ Db.tier[q] = None
    BY <1>1, <1>3, <1>4, <1>8 DEF Writes, Tx
  <2>3. Called(x, Db, p) # None
    BY <1>2, <1>3 DEF Called, Over, Unwritten
  <2>4. \A q \in z.rows : Called(z, Db, q) # None
    BY <1>1, <1>4, <1>9, <2>3 DEF Writes
  <2>5. \A q \in Players : z.named[q] # None => q \in z.rows
    BY <1>1, <1>4 DEF Writes
  <2> QED
    BY <1>1, <1>4, <1>9, <2>1, <2>2, <2>4, <2>5 DEF Writes
<1>11. Place(z, Db)
  <2>1. Unwritten(z)
    BY <1>2, <1>4 DEF Unwritten
  <2>2. \A q \in Players : z.named[q] = None
    BY <2>1 DEF Unwritten
  <2>3. Registers(z, Db)
    BY <1>1, <1>2, <1>4, <1>7, <2>1, <2>2 DEF Registers
  <2> QED
    BY <1>1, <1>4, <2>3 DEF Place
<1>12. ASSUME NEW d \in Clients \ {c} PROVE Apart(z, tx[d])
  <2>1. Apart(x, tx[d])
    BY DEF Inv
  <2>2. sets => p \notin tx[d].rows
    BY <1>8 DEF RowLocked, Others
  <2> QED
    BY <1>4, <2>1, <2>2 DEF Apart
<1> QED
  BY <1>5, <1>6, <1>10, <1>11, <1>12, LocalStep DEF FirstSetPlayerTier, Mine, TypeOK

LEMMA CommitSaveStep ==
  ASSUME TypeOK, Inv, NEW c \in Clients, CommitSave(c)
  PROVE  TypeOK' /\ Inv'
<1>1. Place(Idle, Db')
  BY DEF Idle, Place
<1> QED
  BY <1>1, IdleTx, CommitStep DEF CommitSave, Finish

-----------------------------------------------------------------------------
(* The steps of a rename *)

\* A rename at work.
LEMMA AtRename ==
  ASSUME TypeOK, Inv, NEW c \in Clients, tx[c].pc \in {"read", "collision", "update", "keep"}
  PROVE  /\ tx[c] \in Tx /\ Db \in Tables /\ Writes(tx[c], Db)
         /\ tx[c].op = "rename" /\ Renames(tx[c], Db)
         /\ tx[c].target \in Players /\ tx[c].new \in Spellings
BY DbType DEF TypeOK, Inv, Mine, Place, Renames

LEMMA ReadNameStep ==
  ASSUME TypeOK, Inv, NEW c \in Clients, ReadName(c)
  PROVE  TypeOK' /\ Inv'
<1> DEFINE x == tx[c]
           z == [x EXCEPT !.pc = "collision", !.old = name[x.target]]
<1>1. CASE name[x.target] = None
  BY <1>1, FinishStep DEF ReadName
<1>2. CASE name[x.target] # None
  <2>1. /\ x \in Tx /\ x.pc = "read" /\ x.op = "rename" /\ Renames(x, Db) /\ x.target \in Players
    BY AtRename DEF ReadName, At
  <2>2. name[x.target] \in Spellings
    BY <1>2, <2>1 DEF TypeOK, Name
  <2>3. z \in Tx /\ tx' = [tx EXCEPT ![c] = z]
    <3>1. z \in Tx
      BY <2>1, <2>2 DEF Tx, Name
    <3>2. tx' = [tx EXCEPT ![c] = z]
      BY <1>2, <2>1 DEF ReadName, Tx
    <3> QED
      BY <3>1, <3>2
  <2>4. /\ z.pc = "collision" /\ z.op = x.op /\ z.old = name[x.target] /\ z.target = x.target /\ z.new = x.new
        /\ z.named = x.named /\ z.tiered = x.tiered /\ z.aliased = x.aliased /\ z.rows = x.rows
        /\ z.told = x.told
    BY <2>1 DEF Tx
  <2> HIDE DEF z
  <2>5. SameWrites(x, z)
    BY <2>4 DEF SameWrites
  <2>6. Place(z, Db)
    BY <1>2, <2>1, <2>2, <2>4 DEF Place, Renames, Unwritten, Db
  <2> QED
    BY <2>3, <2>4, <2>5, <2>6, QuietStep DEF ReadName
<1> QED
  BY <1>1, <1>2

LEMMA CheckCollisionStep ==
  ASSUME TypeOK, Inv, NEW c \in Clients, CheckCollision(c)
  PROVE  TypeOK' /\ Inv'
<1> DEFINE x == tx[c]
           z == [x EXCEPT !.pc = "update"]
           free == alias[Normal[x.new]] \in {None, x.target}
<1>1. CASE ~free
  BY <1>1, FinishStep DEF CheckCollision
<1>2. CASE free
  <2>1. x \in Tx /\ x.pc = "collision" /\ x.op = "rename" /\ Renames(x, Db)
    BY AtRename DEF CheckCollision, At
  <2>2. z \in Tx /\ tx' = [tx EXCEPT ![c] = z]
    BY <1>2, <2>1 DEF CheckCollision, Tx
  <2>3. SameWrites(x, z) /\ z.told = x.told
    BY <2>1 DEF SameWrites, Tx
  <2>4. Place(z, Db)
    BY <2>1 DEF Place, Renames, Unwritten, Tx
  <2> QED
    BY <2>2, <2>3, <2>4, QuietStep DEF CheckCollision
<1> QED
  BY <1>1, <1>2

LEMMA UpdateNameStep ==
  ASSUME TypeOK, Inv, NEW c \in Clients, UpdateName(c)
  PROVE  TypeOK' /\ Inv'
<1> DEFINE x == tx[c]
           p == x.target
           z == [x EXCEPT !.pc = "keep", !.named[p] = x.new, !.rows = @ \cup {p}]
           taken == \E q \in Players \ {p} : name[q] = x.new
<1>1. CASE taken
  BY <1>1, FinishStep DEF UpdateName
<1>2. CASE ~taken
  <2>1. /\ x \in Tx /\ Db \in Tables /\ Writes(x, Db) /\ x.pc = "update" /\ x.op = "rename" /\ Renames(x, Db)
        /\ p \in Players /\ x.new \in Spellings /\ x.new # None /\ None \notin Players
    BY AtRename, NoneAssumption DEF UpdateName, At
  <2>2. x.named = [q \in Players |-> None] /\ x.aliased = [k \in Keys |-> None]
    BY <2>1 DEF Renames, Unwritten
  <2>3. /\ z.pc = "keep" /\ z.op = x.op /\ z.old = x.old /\ z.target = p /\ z.new = x.new
        /\ z.named = [x.named EXCEPT ![p] = x.new] /\ z.rows = x.rows \cup {p}
        /\ z.tiered = x.tiered /\ z.aliased = x.aliased /\ z.told = x.told
    BY <2>1 DEF Tx
  <2>4. z.named = [q \in Players |-> IF q = p THEN x.new ELSE None]
    BY <2>1, <2>2, <2>3
  <2>5. z \in Tx
    <3>1. [x.named EXCEPT ![p] = x.new] \in [Players -> Name] /\ x.rows \cup {p} \in SUBSET Players
      BY <2>1, <2>2 DEF Name, Tx
    <3> QED
      BY <2>1, <3>1 DEF Tx
  <2>6. ~RowLocked(c, p) /\ ~SpellingPending(c, x.new) /\ \A q \in Players \ {p} : name[q] # x.new
    BY <1>2 DEF UpdateName
  <2>7. tx' = [tx EXCEPT ![c] = z]
    <3>1. tx' = [tx EXCEPT ![c].pc = "keep", ![c].named[p] = x.new, ![c].rows = @ \cup {p}]
      BY <1>2 DEF UpdateName
    <3> QED
      BY <2>1, <3>1 DEF Tx
  <2>8. p = x.target
    OBVIOUS
  <2> HIDE DEF z, p
  <2>9. /\ \A q \in Players : Called(z, Db, q) = IF q = p THEN x.new ELSE Db.name[q]
        /\ \A k \in Keys : Has(z, Db, k) = Has(x, Db, k)
    BY <2>1, <2>3, <2>4 DEF Called, Has, Over
  <2>10. x.rows \subseteq Players /\ x.told \subseteq Keys \X Players
    BY <2>1 DEF Tx
  <2>11. Writes(z, Db)
    <3>1. \A q \in Players : Called(x, Db, q) = Db.name[q]
      BY <2>2 DEF Called, Over
    <3>2. \A q \in z.rows : Called(z, Db, q) # None
      BY <2>1, <2>3, <2>9, <2>10, <3>1 DEF Writes
    <3>3. Distinct([q \in Players |-> Called(z, Db, q)])
      <4>1. \A q, r \in Players : Db.name[q] # None /\ Db.name[q] = Db.name[r] => q = r
        BY DEF Inv, Sound, Distinct
      <4>2. \A q \in Players \ {p} : Db.name[q] # x.new
        BY <2>6 DEF Db
      <4> QED
        BY <2>9, <4>1, <4>2 DEF Distinct
    <3>4. \A a \in z.told : Has(z, Db, a[1]) = a[2]
      BY <2>1, <2>3, <2>9, <2>10 DEF Writes
    <3>5. \A q \in Players : z.named[q] # None => q \in z.rows
      BY <2>3, <2>4
    <3> QED
      BY <2>1, <2>2, <2>3, <3>2, <3>3, <3>4, <3>5 DEF Writes
  <2>12. Place(z, Db)
    BY <2>1, <2>2, <2>3, <2>4, <2>8 DEF Place, Renames
  <2>13. ASSUME NEW d \in Clients \ {c} PROVE Apart(z, tx[d])
    <3>1. Apart(x, tx[d])
      BY DEF Inv
    <3>2. p \notin tx[d].rows /\ \A q \in Players : tx[d].named[q] # x.new
      BY <2>6 DEF RowLocked, SpellingPending, Others
    <3> QED
      BY <2>3, <2>4, <3>1, <3>2 DEF Apart
  <2> QED
    BY <2>5, <2>7, <2>11, <2>12, <2>13, LocalStep DEF UpdateName, Mine, TypeOK
<1> QED
  BY <1>1, <1>2

LEMMA KeepOldNameStep ==
  ASSUME TypeOK, Inv, NEW c \in Clients, KeepOldName(c)
  PROVE  TypeOK' /\ Inv'
<1> DEFINE x == tx[c]
           k == Normal[x.old]
           adds == Kept(c) /\ alias[k] = None
           z == [x EXCEPT !.pc = "commit", !.aliased = IF adds THEN [@ EXCEPT ![k] = x.target] ELSE @]
<1>1. /\ x \in Tx /\ Db \in Tables /\ Writes(x, Db) /\ x.pc = "keep" /\ x.op = "rename" /\ Renames(x, Db)
      /\ x.target \in Players /\ x.new \in Spellings /\ x.new # None /\ None \notin Players
  BY AtRename, NoneAssumption DEF KeepOldName, At
<1>2. /\ x.old \in Spellings /\ k \in Keys /\ x.aliased = [j \in Keys |-> None]
      /\ x.named = [p \in Players |-> IF p = x.target THEN x.new ELSE None]
  BY <1>1, NameAssumption DEF Renames
<1>3. /\ z.pc = "commit" /\ z.op = x.op /\ z.old = x.old /\ z.target = x.target /\ z.new = x.new
      /\ z.named = x.named /\ z.rows = x.rows /\ z.tiered = x.tiered /\ z.told = x.told
      /\ z.aliased = IF adds THEN [x.aliased EXCEPT ![k] = x.target] ELSE x.aliased
  BY <1>1 DEF Tx
<1>4. z.aliased = [j \in Keys |-> IF adds /\ j = k THEN x.target ELSE None]
  BY <1>2, <1>3
<1>5. z \in Tx
  <2>1. z.aliased \in [Keys -> Id]
    BY <1>1, <1>4 DEF Id
  <2> QED
    BY <1>1, <1>3, <2>1 DEF Tx
<1>6. tx' = [tx EXCEPT ![c] = z]
  <2>1. CASE Kept(c)
    <3> DEFINE w == [x EXCEPT !.pc = "commit", !.aliased[k] = IF alias[k] = None THEN x.target ELSE @]
    <3>1. tx' = [tx EXCEPT ![c] = w]
      BY <1>1, <2>1 DEF KeepOldName, Tx
    <3>2. [x.aliased EXCEPT ![k] = IF alias[k] = None THEN x.target ELSE @] =
            IF adds THEN [x.aliased EXCEPT ![k] = x.target] ELSE x.aliased
      BY <1>2, <2>1
    <3>3. w = z
      BY <1>1, <3>2 DEF Tx
    <3> HIDE DEF w, z
    <3> QED
      BY <3>1, <3>3
  <2>2. CASE ~Kept(c)
    <3>1. z = [x EXCEPT !.pc = "commit"]
      BY <1>1, <2>2 DEF Tx
    <3>2. tx' = [tx EXCEPT ![c].pc = "commit"]
      BY <2>2 DEF KeepOldName
    <3> HIDE DEF z
    <3> QED
      BY <3>1, <3>2
  <2> QED
    BY <2>1, <2>2
<1>7. adds => alias[k] = None /\ ~KeyPending(c, k)
  BY DEF KeepOldName
<1>8. x.rows \subseteq Players /\ x.told \subseteq Keys \X Players
  BY <1>1 DEF Tx
<1>9. adds \/ Normal[x.old] = Normal[x.new] \/ Db.alias[k] # None
  BY DEF Kept, Db
<1> HIDE DEF z, adds
<1>10. /\ \A p : Called(z, Db, p) = Called(x, Db, p)
       /\ \A j \in Keys : Has(x, Db, j) # None => Has(z, Db, j) = Has(x, Db, j)
  BY <1>2, <1>3, <1>4, <1>7 DEF Called, Has, Over, Db
<1>11. Writes(z, Db)
  <2>1. [p \in Players |-> Called(z, Db, p)] = [p \in Players |-> Called(x, Db, p)]
    BY <1>10
  <2>2. \A j \in Keys : z.aliased[j] # None => Db.alias[j] = None /\ Called(z, Db, z.aliased[j]) # None
    BY <1>1, <1>2, <1>3, <1>4, <1>7 DEF Called, Over, Db
  <2>3. \A a \in z.told : Has(z, Db, a[1]) = a[2]
    BY <1>1, <1>3, <1>8, <1>10 DEF Writes
  <2> QED
    BY <1>1, <1>3, <1>10, <2>1, <2>2, <2>3 DEF Writes
<1>12. Place(z, Db)
  BY <1>1, <1>2, <1>3, <1>4, <1>9 DEF Place, Renames
<1>13. ASSUME NEW d \in Clients \ {c} PROVE Apart(z, tx[d])
  <2>1. Apart(x, tx[d])
    BY DEF Inv
  <2>2. adds => tx[d].aliased[k] = None
    BY <1>7 DEF KeyPending, Others
  <2> QED
    BY <1>3, <1>4, <2>1, <2>2 DEF Apart
<1> QED
  BY <1>5, <1>6, <1>11, <1>12, <1>13, LocalStep DEF KeepOldName, Mine, TypeOK

LEMMA CommitRenameStep ==
  ASSUME TypeOK, Inv, NEW c \in Clients, CommitRename(c)
  PROVE  TypeOK' /\ Inv'
<1>1. Place(Idle, Db')
  BY DEF Idle, Place
<1> QED
  BY <1>1, IdleTx, CommitStep DEF CommitRename, Finish

-----------------------------------------------------------------------------
(* The invariant holds *)

LEMMA InitInvariant == Init => TypeOK /\ Inv
<1> SUFFICES ASSUME Init PROVE TypeOK /\ Inv
  OBVIOUS
<1>1. TypeOK
  BY IdleTx, BoundAssumption DEF Init, TypeOK, Name, Id
<1>2. Db \in Tables /\ Sound(Db)
  BY <1>1, DbType DEF Init, Sound, Distinct, Db
<1>3. Mine(Idle, Db) /\ Apart(Idle, Idle)
  BY <1>2, IdleTx, EmptyWrites DEF Mine
<1> QED
  BY <1>1, <1>2, <1>3 DEF Init, Inv

LEMMA NextInvariant == TypeOK /\ Inv /\ [Next]_vars => TypeOK' /\ Inv'
<1> SUFFICES ASSUME TypeOK, Inv, [Next]_vars PROVE TypeOK' /\ Inv'
  OBVIOUS
<1>1. ASSUME NEW c \in Clients, Send(c) PROVE TypeOK' /\ Inv'
  BY <1>1, SendStep
<1>2. ASSUME NEW c \in Clients, Fail(c) PROVE TypeOK' /\ Inv'
  BY <1>2, FinishStep DEF Fail
<1>3. ASSUME NEW c \in Clients, Work(c) PROVE TypeOK' /\ Inv'
  BY <1>3, FindAliasStep, FindCanonicalStep, EnsurePlayerStep, UpdateGenderStep, InsertAliasStep,
     FindAgainStep, CommitRegistrationStep, SetPlayerTierOnRegisterStep, ResolvePlayerAliasesStep,
     FirstSetPlayerTierStep, CommitSaveStep, ReadNameStep, CheckCollisionStep, UpdateNameStep,
     KeepOldNameStep, CommitRenameStep
  DEF Work
<1>4. ASSUME BreakDeadlock PROVE TypeOK' /\ Inv'
  BY <1>4, FinishStep DEF BreakDeadlock
<1>5. CASE UNCHANGED vars
  BY <1>5 DEF vars, registry, TypeOK, Inv, Db
<1> QED
  BY <1>1, <1>2, <1>3, <1>4, <1>5 DEF Next

\* Every row, lock and answer is of its type, and what the open transactions
\* have written, with the tables, makes sense together: pickers of a name, an
\* id or a row are kept apart by the locks and the unique indexes.
THEOREM InvariantHolds == Spec => [](TypeOK /\ Inv)
<1>1. Init => TypeOK /\ Inv
  BY InitInvariant
<1>2. TypeOK /\ Inv /\ [Next]_vars => (TypeOK /\ Inv)'
  BY NextInvariant
<1> QED
  BY <1>1, <1>2, PTL DEF Spec

\* Two registrations that race for a new name, in any spelling, commit the same
\* player, and no later commit gives the name to another.
THEOREM AnswersHold == Spec => []AnswersAgree
<1>1. TypeOK /\ Inv => AnswersAgree
  BY DEF Inv, AnswersAgree
<1> QED
  BY <1>1, InvariantHolds, PTL

-----------------------------------------------------------------------------
(* What a commit changes *)

LEMMA Committing ==
  ASSUME Next
  PROVE  \/ UNCHANGED registry
         \/ \E c \in Clients : \/ CommitRegistration(c) \/ SetPlayerTierOnRegister(c)
                               \/ CommitSave(c) \/ CommitRename(c)
<1>1. ASSUME NEW c \in Clients, Send(c) \/ Fail(c) PROVE UNCHANGED registry
  BY <1>1 DEF Send, Fail
<1>2. BreakDeadlock => UNCHANGED registry
  BY DEF BreakDeadlock
<1>3. ASSUME NEW c \in Clients, Work(c)
      PROVE  \/ UNCHANGED registry
             \/ CommitRegistration(c) \/ SetPlayerTierOnRegister(c) \/ CommitSave(c) \/ CommitRename(c)
  BY <1>3 DEF Work, FindAlias, FindCanonical, EnsurePlayer, UpdateGender, InsertAlias, FindAgain,
     ResolvePlayerAliases, FirstSetPlayerTier, ReadName, CheckCollision, UpdateName, KeepOldName
<1> QED
  BY <1>1, <1>2, <1>3 DEF Next

\* A tier is written over none: firstSetPlayerTier holds the row until the
\* commit, and SetPlayerTierOnRegister asks again when it writes.
THEOREM TiersStick == Spec => TierIsSticky
<1> DEFINE Sticks == \A p \in Players : tier[p] # None => tier'[p] = tier[p]
<1>1. TypeOK /\ Inv /\ [Next]_vars => [Sticks]_vars
  <2> SUFFICES ASSUME TypeOK, Inv, Next PROVE Sticks
    BY DEF vars
  <2>1. CASE UNCHANGED registry
    BY <2>1 DEF registry
  <2>2. ASSUME NEW c \in Clients, Apply(c) PROVE Sticks
    <3>1. Writes(tx[c], Db)
      BY DEF Inv, Mine
    <3> QED
      BY <2>2, <3>1 DEF Apply, Writes, Over, Db
  <2>3. ASSUME NEW c \in Clients, SetPlayerTierOnRegister(c) PROVE Sticks
    BY <2>3 DEF SetPlayerTierOnRegister, FirstTier, TypeOK
  <2> QED
    BY <2>1, <2>2, <2>3, Committing DEF CommitRegistration, CommitSave, CommitRename
<1> QED
  BY <1>1, InvariantHolds, PTL DEF Spec, TierIsSticky

\* When a rename commits, the old name's key, unless some player has it, is an
\* alias of the player renamed, whatever committed since the rename looked.
THEOREM OldNamesStay == Spec => RenameKeepsOldName
<1> DEFINE Keeps ==
      \A c \in Clients :
        CommitRename(c) /\ name[tx[c].target] = tx[c].old /\ Normal[tx[c].old] # Normal[tx[c].new]
          => LET k == Normal[tx[c].old] IN alias'[k] = Over(alias[k], tx[c].target)
<1>1. TypeOK /\ Inv /\ [Next]_vars => [Keeps]_vars
  <2> SUFFICES ASSUME TypeOK, Inv, NEW c \in Clients, CommitRename(c), Normal[tx[c].old] # Normal[tx[c].new]
               PROVE  alias'[Normal[tx[c].old]] = Over(alias[Normal[tx[c].old]], tx[c].target)
    OBVIOUS
  <2> DEFINE x == tx[c]
             k == Normal[x.old]
  <2>1. Writes(x, Db) /\ Renames(x, Db) /\ x.pc = "commit" /\ Apply(c)
    BY DEF Inv, Mine, Place, CommitRename, At
  <2>2. k \in Keys /\ x.target # None
    BY <2>1, NameAssumption, NoneAssumption DEF Renames
  <2>3. alias'[k] = Over(x.aliased[k], alias[k])
    BY <2>1, <2>2 DEF Apply
  <2>4. x.aliased[k] = x.target \/ alias[k] # None
    BY <2>1 DEF Renames, Db
  <2>5. x.aliased[k] # None => x.aliased[k] = x.target /\ alias[k] = None
    BY <2>1, <2>2 DEF Renames, Writes, Db
  <2> QED
    BY <2>2, <2>3, <2>4, <2>5 DEF Over
<1> QED
  BY <1>1, InvariantHolds, PTL DEF Spec, RenameKeepsOldName

-----------------------------------------------------------------------------
(* PlayerRegistry implements PlayerDirectory *)

LEMMA RegistersInDirectory ==
  ASSUME TypeOK, Inv, NEW c \in Clients, CommitRegistration(c), Sound(Db')
  PROVE  Directory!Register
<1>1. Writes(tx[c], Db) /\ Registers(tx[c], Db) /\ Apply(c)
  BY DEF Inv, Mine, Place, CommitRegistration
<1>2. Directory!NamesStay
  BY <1>1 DEF Directory!NamesStay, Apply, Writes, Over, Db
<1>3. \A p \in Players : name[p] # None => name'[p] = name[p]
  BY <1>1 DEF Apply, Registers, Over, Db
<1>4. Directory!Sound'
  BY DEF Directory!Sound, Sound, Distinct, Db
<1> QED
  BY <1>2, <1>3, <1>4 DEF Directory!Register

LEMMA RenamesInDirectory ==
  ASSUME TypeOK, Inv, NEW c \in Clients, CommitRename(c), Sound(Db')
  PROVE  Directory!Rename(tx[c].target)
<1> DEFINE x == tx[c]
           p == x.target
           k == Normal[x.old]
<1>1. Writes(x, Db) /\ Renames(x, Db) /\ x.pc = "commit" /\ Apply(c) /\ x \in Tx
  BY DEF TypeOK, Inv, Mine, Place, CommitRename, At
<1>2. p \in Players /\ k \in Keys /\ x.new # None /\ p # None /\ name[p] # None
  BY <1>1, NameAssumption, NoneAssumption DEF Renames, Db
<1>3. \A q \in Players : name'[q] = IF q = p THEN x.new ELSE name[q]
  BY <1>1, <1>2 DEF Apply, Renames, Over
<1>4. UNCHANGED alias \/ (alias[k] = None /\ alias' = [alias EXCEPT ![k] = p])
  <2>1. \A j \in Keys : x.aliased[j] # None => j = k /\ x.aliased[j] = p /\ alias[j] = None
    BY <1>1 DEF Renames, Writes, Db
  <2>2. alias' = [j \in Keys |-> Over(x.aliased[j], alias[j])] /\ alias \in [Keys -> Id]
    BY <1>1 DEF Apply, TypeOK
  <2>3. CASE x.aliased[k] = None
    <3>1. alias' = alias
      BY <2>1, <2>2, <2>3 DEF Over
    <3> QED
      BY <3>1
  <2>4. CASE x.aliased[k] # None
    <3>1. alias' = [alias EXCEPT ![k] = p]
      BY <1>2, <2>1, <2>2, <2>4 DEF Over
    <3> QED
      BY <1>2, <2>1, <2>4, <3>1
  <2> QED
    BY <2>3, <2>4
<1>5. Directory!Sound'
  BY DEF Directory!Sound, Sound, Distinct, Db
<1> QED
  BY <1>2, <1>3, <1>4, <1>5 DEF Directory!Rename

\* A commit is a whole registration or a whole rename of PlayerDirectory, and
\* every other step leaves the directory as it is.
THEOREM RefinesDirectory == Spec => ChangesByWholeRequests
<1>1. Init => Directory!Init
  BY DEF Init, Directory!Init
<1>2. TypeOK /\ Inv /\ (TypeOK /\ Inv)' /\ [Next]_vars => [Directory!Next]_(Directory!directory)
  <2> SUFFICES ASSUME TypeOK, Inv, Inv', [Next]_vars PROVE [Directory!Next]_(Directory!directory)
    OBVIOUS
  <2>1. Sound(Db')
    BY DEF Inv, Sound, Distinct
  <2>2. UNCHANGED registry => UNCHANGED Directory!directory
    BY DEF registry, Directory!directory
  <2>3. ASSUME NEW c \in Clients, CommitRegistration(c) PROVE Directory!Next
    BY <2>1, <2>3, RegistersInDirectory DEF Directory!Next
  <2>4. ASSUME NEW c \in Clients, CommitRename(c) PROVE Directory!Next
    <3>1. tx[c].target \in Players
      BY <2>4 DEF Inv, Mine, Place, Renames, CommitRename
    <3> QED
      BY <2>1, <2>4, <3>1, RenamesInDirectory DEF Directory!Next
  <2>5. ASSUME NEW c \in Clients, SetPlayerTierOnRegister(c) PROVE UNCHANGED Directory!directory
    BY <2>5 DEF SetPlayerTierOnRegister, Directory!directory
  <2>6. ASSUME NEW c \in Clients, CommitSave(c) PROVE UNCHANGED Directory!directory
    <3>1. Unwritten(tx[c])
      BY <2>6 DEF Inv, Mine, Place, Registers, CommitSave, At
    <3>2. name' = name /\ alias' = alias
      BY <2>6, <3>1 DEF CommitSave, Apply, Unwritten, Over, TypeOK
    <3> QED
      BY <3>2 DEF Directory!directory
  <2>7. CASE UNCHANGED vars
    BY <2>2, <2>7 DEF vars
  <2> QED
    BY <2>2, <2>3, <2>4, <2>5, <2>6, <2>7, Committing
<1> QED
  BY <1>1, <1>2, InvariantHolds, PTL DEF Spec, ChangesByWholeRequests, Directory!Spec
=============================================================================
