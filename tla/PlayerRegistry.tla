----------------------------- MODULE PlayerRegistry -----------------------------
(***************************************************************************)
(* The registry of players: who a name belongs to.  POST /players, the     *)
(* publishing of a session and the admin's rename run concurrently as READ *)
(* COMMITTED transactions on two tables, players (one canonical name each, *)
(* unique as spelled) and player_aliases (unique normalised name).  An     *)
(* insert or an update of a key or a row that an open transaction has      *)
(* written waits until that one ends.                                      *)
(*                                                                         *)
(* merge_players and delete_player are functions of the database, not part *)
(* of this repository: players are never removed here.                     *)
(***************************************************************************)
EXTENDS Naturals, Sequences, FiniteSets

CONSTANTS
  Clients,      \* concurrent HTTP requests: each runs one request at a time
  Spellings,    \* names as they are typed
  Keys,         \* names as NormalizePlayerName leaves them
  Normal,       \* the key of each spelling
  Players,      \* bound: the ids players can get
  Tiers,        \* tiers a request can set
  None,         \* no player, no name, no tier
  Requests,     \* requests the clients send
  MaxRequests   \* bound: requests of all clients together

ASSUME NameAssumption == Normal \in [Spellings -> Keys]
ASSUME NoneAssumption == None \notin Players /\ None \notin Spellings /\ None \notin Tiers
ASSUME BoundAssumption == MaxRequests \in Nat

VARIABLES
  name,      \* players.canonical_name, None for an id not used
  tier,      \* players.tier
  alias,     \* player_aliases: the player of each key
  answers,   \* every <<key, player>> a committed registration answered
  tx,        \* what each client's request is doing
  left       \* requests the clients may still send

registry == <<name, tier, alias>>
vars == <<registry, answers, tx, left>>

\* names: the names to register, with the canonical spelling of each;
\* at: the one it is at; target, new: what a rename changes; old: the name it
\* read; differs: the gender of a player found by the canonical name differs
\* from the request's (genders are not modelled).  The rest is the open
\* transaction: named, tiered and aliased hold its writes, rows the players it
\* has locked; pid is the id it has at hand, told what it answers.
Idle == [pc |-> "idle", op |-> "none", names |-> <<>>, at |-> 1, tier |-> None,
         differs |-> FALSE, target |-> None, new |-> None, old |-> None, pid |-> None,
         named |-> [p \in Players |-> None], tiered |-> [p \in Players |-> None],
         aliased |-> [k \in Keys |-> None], rows |-> {}, told |-> {}]

\* Requests.  A session's players are registered under their own spelling.
Named(n, canonical) == [as |-> n, canonical |-> canonical]
Register(n, canonical, t) ==
  [Idle EXCEPT !.pc = "alias", !.op = "register", !.names = <<Named(n, canonical)>>, !.tier = t]
Publish(spelled, t) ==
  [Idle EXCEPT !.pc = "alias", !.op = "publish", !.tier = t,
               !.names = [i \in DOMAIN spelled |-> Named(spelled[i], spelled[i])]]
Rename(p, n) == [Idle EXCEPT !.pc = "read", !.op = "rename", !.target = p, !.new = n]

\* A session has players.
ASSUME RequestAssumption ==
  \A r \in Requests :
    \/ \E n, m \in Spellings, t \in Tiers \cup {None} : r = Register(n, m, t)
    \/ /\ r.names \in Seq([as : Spellings, canonical : Spellings]) \ {<<>>}
       /\ r.tier \in Tiers \cup {None}
       /\ r = Publish([i \in DOMAIN r.names |-> r.names[i].as], r.tier)
    \/ \E p \in Players, n \in Spellings : r = Rename(p, n)

Init ==
  /\ name = [p \in Players |-> None] /\ tier = [p \in Players |-> None]
  /\ alias = [k \in Keys |-> None]
  /\ answers = {} /\ tx = [c \in Clients |-> Idle] /\ left = MaxRequests

At(c, label) == tx[c].pc = label
Others(c) == Clients \ {c}

\* Mutant of Finish: an error path without the rollback.
FinishLeaking(c) == tx' = [tx EXCEPT ![c] = [Idle EXCEPT !.rows = tx[c].rows, !.named = tx[c].named]]

\* The request ends; an open transaction is rolled back with its locks.
Finish(c) == tx' = [tx EXCEPT ![c] = Idle]

Send(c) ==
  /\ At(c, "idle") /\ left > 0
  /\ \E r \in Requests : tx' = [tx EXCEPT ![c] = r]
  /\ left' = left - 1
  /\ UNCHANGED <<registry, answers>>

-----------------------------------------------------------------------------
(* What a statement sees, and what it waits for *)

Over(written, committed) == IF written # None THEN written ELSE committed

\* Committed rows and the transaction's own.
NameOf(c, p) == Over(tx[c].named[p], name[p])
Owner(c, k) == Over(tx[c].aliased[k], alias[k])

Now(c) == tx[c].names[tx[c].at]
Key(c) == Normal[Now(c).as]

\* Another open transaction has inserted the key.
KeyPending(c, k) == \E d \in Others(c) : tx[d].aliased[k] # None
RowLocked(c, p) == \E d \in Others(c) : p \in tx[d].rows

\* Mutant of SpellingPending: a check of committed rows, without an index.
SpellingPendingNever(c, s) == FALSE

\* Another open transaction has written the spelling, or holds a row that has it.
SpellingPending(c, s) ==
  \E d \in Others(c), p \in Players :
    tx[d].named[p] = s \/ (p \in tx[d].rows /\ NameOf(c, p) = s)

-----------------------------------------------------------------------------
(* registerPlayerInTx, for one name *)

\* The name is done: the next one, or the end of the transaction.
Answered(c, r, p) ==
  LET last == r.at = Len(r.names)
  IN  tx' = [tx EXCEPT ![c] = [r EXCEPT !.told = @ \cup {<<Key(c), p>>}, !.pid = None,
                                        !.pc = IF last THEN "commit" ELSE "alias",
                                        !.at = IF last THEN 1 ELSE @ + 1]]

\* The alias is known: that is the player.
FindAlias(c) ==
  /\ At(c, "alias")
  /\ IF Owner(c, Key(c)) # None
       THEN Answered(c, tx[c], Owner(c, Key(c)))
       ELSE tx' = [tx EXCEPT ![c].pc = "canonical"]
  /\ UNCHANGED <<registry, answers, left>>

\* The alias of the canonical name, when that is another one.
FindCanonical(c) ==
  /\ At(c, "canonical")
  /\ LET k == Normal[Now(c).canonical]
         p == IF k = Key(c) THEN None ELSE Owner(c, k)
     IN  \E differs \in BOOLEAN :
           /\ differs => p # None
           /\ tx' = [tx EXCEPT ![c].pc = "player", ![c].pid = p, ![c].differs = differs]
  /\ UNCHANGED <<registry, answers, left>>

Unused(p) == name[p] = None /\ \A c \in Clients : tx[c].named[p] = None

\* INSERT ... ON CONFLICT (canonical_name) DO UPDATE ... RETURNING id.
EnsurePlayer(c) ==
  /\ At(c, "player") /\ tx[c].pid = None
  /\ ~SpellingPending(c, Now(c).canonical)
  /\ LET s == Now(c).canonical
         had == {p \in Players : NameOf(c, p) = s}
         p == IF had # {} THEN CHOOSE q \in had : TRUE ELSE CHOOSE q \in Players : Unused(q)
     IN  /\ had = {} => \E q \in Players : Unused(q)
         /\ tx' = [tx EXCEPT ![c].pc = "insert", ![c].pid = p, ![c].named[p] = s, ![c].rows = @ \cup {p}]
  /\ UNCHANGED <<registry, answers, left>>

\* UPDATE players SET gender: it changes, and locks, the row only when the
\* gender differs.
UpdateGender(c) ==
  /\ At(c, "player") /\ tx[c].pid # None
  /\ IF tx[c].differs
       THEN /\ ~RowLocked(c, tx[c].pid)
            /\ tx' = [tx EXCEPT ![c].pc = "insert", ![c].rows = @ \cup {tx[c].pid}]
       ELSE tx' = [tx EXCEPT ![c].pc = "insert"]
  /\ UNCHANGED <<registry, answers, left>>

\* INSERT ... ON CONFLICT (alias_name) DO NOTHING.
InsertAlias(c) ==
  /\ At(c, "insert") /\ ~KeyPending(c, Key(c))
  /\ tx' = [tx EXCEPT ![c].pc = "again",
                      ![c].aliased[Key(c)] = IF Owner(c, Key(c)) = None THEN tx[c].pid ELSE @]
  /\ UNCHANGED <<registry, answers, left>>

\* Mutant of WhoHasIt: the id at hand, without asking again.
WhoHasItUnasked(c) == tx[c].pid

\* The alias is read again: a request that won the race has set it.
WhoHasIt(c) == Owner(c, Key(c))

FindAgain(c) ==
  /\ At(c, "again")
  /\ Answered(c, tx[c], WhoHasIt(c))
  /\ UNCHANGED <<registry, answers, left>>

\* What the transaction wrote becomes visible, and its locks are released.
Apply(c) ==
  /\ name' = [p \in Players |-> Over(tx[c].named[p], name[p])]
  /\ tier' = [p \in Players |-> Over(tx[c].tiered[p], tier[p])]
  /\ alias' = [k \in Keys |-> Over(tx[c].aliased[k], alias[k])]

\* The answers of the transaction, by key.
Told(c, k) == CHOOSE p \in Players : <<k, p>> \in tx[c].told

\* COMMIT of Register or of EnsurePlayersRegistered.  A request with a tier
\* goes on to set it, a publish to Save.
CommitRegistration(c) ==
  /\ At(c, "commit") /\ tx[c].op \in {"register", "publish"}
  /\ Apply(c)
  /\ answers' = answers \cup tx[c].told
  /\ CASE tx[c].op = "publish" ->
            tx' = [tx EXCEPT ![c] = [Idle EXCEPT !.pc = "resolve", !.op = "publish", !.tier = tx[c].tier,
                                                 !.names = tx[c].names]]
       [] tx[c].op = "register" /\ tx[c].tier # None ->
            tx' = [tx EXCEPT ![c] = [Idle EXCEPT !.pc = "tier", !.op = "register", !.tier = tx[c].tier,
                                                 !.pid = Told(c, Key(c))]]
       [] OTHER -> Finish(c)
  /\ UNCHANGED left

-----------------------------------------------------------------------------
(* The tier: set once *)

\* Mutant of FirstTier: the tier of the request always.
FirstTierAlways(c, p) == tx[c].tier

\* UPDATE ... WHERE tier IS NULL, re-evaluated on the newest row.
FirstTier(c, p) == IF tier[p] = None THEN tx[c].tier ELSE tier[p]

\* SetPlayerTierOnRegister: one statement, after the registration's commit.
SetPlayerTierOnRegister(c) ==
  /\ At(c, "tier") /\ tx[c].op = "register"
  /\ tier[tx[c].pid] = None => ~RowLocked(c, tx[c].pid)
  /\ tier' = [tier EXCEPT ![tx[c].pid] = FirstTier(c, tx[c].pid)]
  /\ Finish(c)
  /\ UNCHANGED <<name, alias, answers, left>>

\* resolvePlayerAliases, in Save: each name must resolve, no two to one player.
ResolvePlayerAliases(c) ==
  /\ At(c, "resolve")
  /\ LET who == [i \in DOMAIN tx[c].names |-> alias[Normal[tx[c].names[i].as]]]
     IN  IF \A i, j \in DOMAIN who : who[i] # None /\ (who[i] = who[j] => i = j)
           THEN tx' = [tx EXCEPT ![c].pc = "tier"]
           ELSE Finish(c)
  /\ UNCHANGED <<registry, answers, left>>

\* firstSetPlayerTier, for one player; then the commit of Save.
FirstSetPlayerTier(c) ==
  /\ At(c, "tier") /\ tx[c].op = "publish"
  /\ LET p == alias[Key(c)]
         last == tx[c].at = Len(tx[c].names)
         to == IF last THEN "save" ELSE "tier"
         next == IF last THEN 1 ELSE tx[c].at + 1
     IN  IF tx[c].tier = None \/ tier[p] # None
           THEN tx' = [tx EXCEPT ![c].pc = to, ![c].at = next]
           ELSE /\ ~RowLocked(c, p)
                /\ tx' = [tx EXCEPT ![c].pc = to, ![c].at = next, ![c].rows = @ \cup {p},
                                    ![c].tiered[p] = FirstTier(c, p)]
  /\ UNCHANGED <<registry, answers, left>>

CommitSave(c) ==
  /\ At(c, "save")
  /\ Apply(c) /\ Finish(c)
  /\ UNCHANGED <<answers, left>>

-----------------------------------------------------------------------------
(* RenamePlayer *)

ReadName(c) ==
  /\ At(c, "read")
  /\ IF name[tx[c].target] = None
       THEN Finish(c)
       ELSE tx' = [tx EXCEPT ![c].pc = "collision", ![c].old = name[tx[c].target]]
  /\ UNCHANGED <<registry, answers, left>>

\* The new name must not be an alias of another player.
CheckCollision(c) ==
  /\ At(c, "collision")
  /\ IF alias[Normal[tx[c].new]] \in {None, tx[c].target}
       THEN tx' = [tx EXCEPT ![c].pc = "update"]
       ELSE Finish(c)
  /\ UNCHANGED <<registry, answers, left>>

\* UPDATE players SET canonical_name: it waits for the row and for the
\* spelling, and fails when another player has that.
UpdateName(c) ==
  /\ At(c, "update")
  /\ ~RowLocked(c, tx[c].target) /\ ~SpellingPending(c, tx[c].new)
  /\ IF \E p \in Players \ {tx[c].target} : name[p] = tx[c].new
       THEN Finish(c)
       ELSE tx' = [tx EXCEPT ![c].pc = "keep", ![c].named[tx[c].target] = tx[c].new,
                             ![c].rows = @ \cup {tx[c].target}]
  /\ UNCHANGED <<registry, answers, left>>

\* Mutant of Kept: the old name is kept when it is spelled differently only.
KeptWhenSameKey(c) == Normal[tx[c].old] = Normal[tx[c].new]

\* The old name has another key than the new one.
Kept(c) == Normal[tx[c].old] # Normal[tx[c].new]

\* The old name stays an alias; ON CONFLICT DO NOTHING.
KeepOldName(c) ==
  /\ At(c, "keep")
  /\ LET k == Normal[tx[c].old]
     IN  IF Kept(c)
           THEN /\ ~KeyPending(c, k)
                /\ tx' = [tx EXCEPT ![c].pc = "commit",
                                    ![c].aliased[k] = IF alias[k] = None THEN tx[c].target ELSE @]
           ELSE tx' = [tx EXCEPT ![c].pc = "commit"]
  /\ UNCHANGED <<registry, answers, left>>

CommitRename(c) ==
  /\ At(c, "commit") /\ tx[c].op = "rename"
  /\ Apply(c) /\ Finish(c)
  /\ UNCHANGED <<answers, left>>

-----------------------------------------------------------------------------
(* Failures *)

\* A statement fails, the client leaves or the process dies: the open
\* transaction is rolled back; what was committed before it stays.
Fail(c) == ~At(c, "idle") /\ Finish(c) /\ UNCHANGED <<registry, answers, left>>

\* What a request waits for: d has written the key, the spelling or the row.
WaitsFor(c, d) ==
  \/ At(c, "insert") /\ tx[d].aliased[Key(c)] # None
  \/ At(c, "keep") /\ Kept(c) /\ tx[d].aliased[Normal[tx[c].old]] # None
  \/ /\ At(c, "player") /\ tx[c].pid = None
     /\ \E p \in tx[d].rows : Now(c).canonical \in {tx[d].named[p], NameOf(c, p)}
  \/ At(c, "player") /\ tx[c].differs /\ tx[c].pid \in tx[d].rows
  \/ /\ At(c, "update")
     /\ \/ tx[c].target \in tx[d].rows
        \/ \E p \in tx[d].rows : tx[c].new \in {tx[d].named[p], NameOf(c, p)}
  \/ /\ At(c, "tier") /\ tx[c].op = "publish" /\ tx[c].tier # None
     /\ tier[alias[Key(c)]] = None /\ alias[Key(c)] \in tx[d].rows

\* Two transactions that wait for each other: PostgreSQL rolls one back.
BreakDeadlock ==
  \E c \in Clients : \E d \in Others(c) :
    /\ WaitsFor(c, d) /\ WaitsFor(d, c)
    /\ Finish(c)
    /\ UNCHANGED <<registry, answers, left>>

-----------------------------------------------------------------------------

Work(c) ==
  \/ FindAlias(c) \/ FindCanonical(c) \/ EnsurePlayer(c) \/ UpdateGender(c) \/ InsertAlias(c)
  \/ FindAgain(c) \/ CommitRegistration(c) \/ SetPlayerTierOnRegister(c)
  \/ ResolvePlayerAliases(c) \/ FirstSetPlayerTier(c) \/ CommitSave(c)
  \/ ReadName(c) \/ CheckCollision(c) \/ UpdateName(c) \/ KeepOldName(c) \/ CommitRename(c)

Next == (\E c \in Clients : Send(c) \/ Work(c) \/ Fail(c)) \/ BreakDeadlock

Spec == Init /\ [][Next]_vars

\* A request runs to its end and PostgreSQL looks for deadlocks; nobody has to
\* send one, and nothing has to fail.
FairSpec == Spec /\ (\A c \in Clients : WF_vars(Work(c))) /\ WF_vars(BreakDeadlock)

-----------------------------------------------------------------------------
(* Properties *)

\* A name answered with a player belongs to that player from then on: two
\* requests that race for a new name, in any spelling, are told the same one.
AnswersAgree == \A a \in answers : alias[a[1]] = a[2]

\* However registrations, publishes and renames overlap, wait and fail, a
\* commit only adds names and players, or renames one player; a name never
\* moves, and no two players are spelled alike.
Directory == INSTANCE PlayerDirectory WITH names <- alias, called <- name

ChangesByWholeRequests == Directory!Spec

\* "STICKY: never overwrites an existing tier": the first tier a registration
\* or a session sets is the one that stays.
TierIsSticky == [][\A p \in Players : tier[p] # None => tier'[p] = tier[p]]_vars

\* A player renamed still answers to the name it had, unless another player
\* did already, or another rename changed that name after this one read it.
RenameKeepsOldName ==
  [][\A c \in Clients :
       CommitRename(c) /\ name[tx[c].target] = tx[c].old /\ Normal[tx[c].old] # Normal[tx[c].new]
         => LET k == Normal[tx[c].old] IN alias'[k] = Over(alias[k], tx[c].target)]_vars

\* Every request ends: sessions that register the same players in different
\* orders wait for each other, and PostgreSQL rolls one of them back.
RequestsEnd == \A c \in Clients : ~At(c, "idle") ~> At(c, "idle")
=============================================================================
