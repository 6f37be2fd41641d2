-------------------------- MODULE SessionWatchProofs --------------------------
(* For any number of writers and watchers, any capacity and any number of  *)
(* commits: a broadcast never sends on a closed channel, and the newest    *)
(* snapshot that a writer loaded reaches every watcher of its path that    *)
(* had room for it.                                                        *)
EXTENDS SessionWatch, TLAPS

\* Who can be in the map, who can be closed, and what the read lock protects:
\* the channels a broadcast still has to visit stay in the map.
Inv ==
  /\ \A v \in subs : pc[v] \in {"load", "write", "wait", "cancel"}
  /\ \A v \in closed : pc[v] = "gone"
  /\ \A w \in Writers : Reading(w) => writer[w].todo \subseteq subs

\* The initial states have their types and satisfy the invariant.
LEMMA InitOK == Init => TypeOK /\ Inv
<1>1. AnyPath \in Lookups
  BY LookupAssumption DEF AnyPath
<1> QED
  BY <1>1 DEF Init, TypeOK, Inv, Reading, IdleWriter

\* Every step keeps the types.
LEMMA TypeStep == TypeOK /\ [Next]_vars => TypeOK'
<1> SUFFICES ASSUME TypeOK, [Next]_vars PROVE TypeOK'
  OBVIOUS
<1> USE DEF TypeOK
<1>0. AnyPath \in Lookups
  BY LookupAssumption DEF AnyPath
<1>1. ASSUME NEW w \in Writers, NEW l \in Lookups, Commit(w, l) PROVE TypeOK'
  <2>1. present' \in BOOLEAN
    BY <1>1, Zenon DEF Commit
  <2>2. writer' = [writer EXCEPT ![w].at = "load", ![w].path = l] /\ commits' \in Nat
    BY <1>1 DEF Commit
  <2> QED
    BY ZenonT(60), <1>1, <2>1, <2>2 DEF Commit, handlers
<1>2. ASSUME NEW w \in Writers, CommitDelete(w) PROVE TypeOK'
  <2>1. present' \in BOOLEAN
    BY <1>2, Zenon DEF CommitDelete
  <2> QED
    BY <1>2, <2>1 DEF CommitDelete, handlers
<1>3. ASSUME NEW w \in Writers, LoadAfter(w) PROVE TypeOK'
  BY ZenonT(60), <1>3 DEF LoadAfter, handlers
<1>4. ASSUME NEW w \in Writers, BeginBroadcast(w) PROVE TypeOK'
  <2>1. {v \in subs : path[v] = writer[w].path} \in SUBSET Watchers
    OBVIOUS
  <2> QED
    BY ZenonT(60), <1>4, <2>1 DEF BeginBroadcast, handlers
<1>5. ASSUME NEW w \in Writers, NEW v \in Watchers, Send(w, v) PROVE TypeOK'
  <2>1. writer[w].snap \in Nat
    OBVIOUS
  <2>2. writer' \in [Writers -> [at : {"idle", "load", "loaded", "sending"}, path : Lookups,
                                 snap : Nat, todo : SUBSET Watchers]]
    <3>1. writer' = [writer EXCEPT ![w].todo = @ \ {v}]
      BY <1>5 DEF Send, Visited
    <3> QED
      BY ZenonT(60), <3>1
  <2>3. chan' \in [Watchers -> Seq(Nat)]
    <3>1. Append(chan[v], writer[w].snap) \in Seq(Nat)
      BY <2>1
    <3>2. chan' = [chan EXCEPT ![v] = Append(@, writer[w].snap)] \/ chan' = chan
      BY <1>5 DEF Send
    <3> QED
      BY <3>1, <3>2
  <2>4. dropped' \in [Watchers -> Nat]
    <3>1. Newer(dropped[v], writer[w].snap) \in Nat
      BY <2>1 DEF Newer
    <3>2. dropped' = [dropped EXCEPT ![v] = Newer(@, writer[w].snap)] \/ dropped' = dropped
      BY <1>5 DEF Send, Drop
    <3> QED
      BY <3>1, <3>2
  <2> QED
    BY <1>5, <2>2, <2>3, <2>4 DEF Send, handlers
<1>6. ASSUME NEW w \in Writers, LoadFails(w) \/ EndBroadcast(w) PROVE TypeOK'
  <2>1. IdleWriter \in [at : {"idle", "load", "loaded", "sending"}, path : Lookups,
                        snap : Nat, todo : SUBSET Watchers]
    BY <1>0 DEF IdleWriter
  <2>2. writer' = [writer EXCEPT ![w] = IdleWriter]
    BY <1>6 DEF LoadFails, EndBroadcast
  <2> QED
    BY ZenonT(60), <1>6, <2>1, <2>2 DEF LoadFails, EndBroadcast, handlers
<1>7. ASSUME NEW v \in Watchers, NEW l \in Lookups, Subscribe(v, l) PROVE TypeOK'
  BY <1>7 DEF Subscribe, Step
<1>8. ASSUME NEW v \in Watchers, LoadFirst(v) \/ LoadFirstFails(v) PROVE TypeOK'
  <2>1. CASE LoadFirst(v)
    BY ZenonT(60), <2>1 DEF LoadFirst, Step
  <2>2. CASE LoadFirstFails(v)
    BY <2>2 DEF LoadFirstFails, Step
  <2> QED
    BY <1>8, <2>1, <2>2
<1>9. ASSUME NEW v \in Watchers, WriteFirst(v) PROVE TypeOK'
  BY <1>9 DEF WriteFirst, Step
<1>10. ASSUME NEW v \in Watchers, Forward(v) PROVE TypeOK'
  <2>1. Head(chan[v]) \in Nat /\ Tail(chan[v]) \in Seq(Nat)
    BY <1>10 DEF Forward
  <2>2. Newer(seen[v], Head(chan[v])) \in Nat
    BY <2>1 DEF Newer
  <2> QED
    BY <1>10, <2>1, <2>2 DEF Forward
<1>11. ASSUME NEW v \in Watchers, Disconnect(v) PROVE TypeOK'
  BY <1>11 DEF Disconnect, Step
<1>12. ASSUME NEW v \in Watchers, Unsubscribe(v) PROVE TypeOK'
  BY <1>0, <1>12 DEF Unsubscribe, Step
<1>13. ASSUME NEW v \in Watchers, Close(v) PROVE TypeOK'
  BY <1>13 DEF Close, Step
<1>14. CASE UNCHANGED vars
  BY <1>14 DEF vars
<1> QED
  BY <1>1, <1>2, <1>3, <1>4, <1>5, <1>6, <1>7, <1>8, <1>9, <1>10, <1>11, <1>12, <1>13, <1>14
  DEF Next, Broadcasting, Leaving

\* Every step keeps the invariant.
LEMMA InvStep == TypeOK /\ Inv /\ [Next]_vars => Inv'
<1> SUFFICES ASSUME TypeOK, Inv, [Next]_vars PROVE Inv'
  OBVIOUS
<1> USE DEF TypeOK, Inv, Reading
<1>1. ASSUME NEW w \in Writers, UNCHANGED <<subs, closed, pc>>, writer'[w].at # "sending",
             \A u \in Writers \ {w} : writer'[u] = writer[u]
      PROVE  Inv'
  BY <1>1
<1>2. ASSUME NEW w \in Writers, NEW l \in Lookups, Commit(w, l) PROVE Inv'
  BY <1>1, <1>2 DEF Commit, handlers
<1>3. ASSUME NEW w \in Writers, CommitDelete(w) PROVE Inv'
  BY <1>3 DEF CommitDelete, handlers
<1>4. ASSUME NEW w \in Writers, LoadAfter(w) \/ LoadFails(w) \/ EndBroadcast(w) PROVE Inv'
  <2>1. UNCHANGED <<subs, closed, pc>> /\ \A u \in Writers \ {w} : writer'[u] = writer[u]
    BY <1>4 DEF LoadAfter, LoadFails, EndBroadcast, handlers
  <2>2. writer'[w].at # "sending"
    <3>1. CASE LoadAfter(w)
      BY <3>1 DEF LoadAfter
    <3>2. CASE LoadFails(w) \/ EndBroadcast(w)
      BY <3>2 DEF LoadFails, EndBroadcast, IdleWriter
    <3> QED
      BY <1>4, <3>1, <3>2
  <2> QED
    BY <1>1, <2>1, <2>2
<1>5. ASSUME NEW w \in Writers, BeginBroadcast(w) PROVE Inv'
  BY <1>5 DEF BeginBroadcast, handlers
<1>6. ASSUME NEW w \in Writers, NEW v \in Watchers, Send(w, v) PROVE Inv'
  BY <1>6 DEF Send, Visited, handlers
<1>7. ASSUME NEW v \in Watchers, NEW l \in Lookups, Subscribe(v, l) PROVE Inv'
  BY <1>7 DEF Subscribe, Step, NobodyReads
<1>8. ASSUME NEW v \in Watchers,
             LoadFirst(v) \/ LoadFirstFails(v) \/ WriteFirst(v) \/ Forward(v) \/ Disconnect(v)
      PROVE  Inv'
  BY <1>8 DEF LoadFirst, LoadFirstFails, WriteFirst, Forward, Disconnect, Step
<1>9. ASSUME NEW v \in Watchers, Unsubscribe(v) PROVE Inv'
  BY <1>9 DEF Unsubscribe, Step, NobodyReads
<1>10. ASSUME NEW v \in Watchers, Close(v) PROVE Inv'
  BY <1>10 DEF Close, Step
<1>11. CASE UNCHANGED vars
  BY <1>11 DEF vars
<1> QED
  BY <1>2, <1>3, <1>4, <1>5, <1>6, <1>7, <1>8, <1>9, <1>10, <1>11 DEF Next, Broadcasting, Leaving

\* SessionWatch's variables always have their types.
THEOREM TypeCorrect == Spec => []TypeOK
<1>1. Init => TypeOK
  BY InitOK
<1> QED
  BY <1>1, TypeStep, PTL DEF Spec

\* Closing a channel after the lock is released is safe: a broadcast, which
\* iterates under the read lock, never reaches a closed channel.
THEOREM NeverSendsOnClosed == Spec => []NoSendOnClosed
<1>1. TypeOK /\ Inv => NoSendOnClosed
  <2> SUFFICES ASSUME TypeOK, Inv, NEW w \in Writers, Reading(w), NEW v \in writer[w].todo
               PROVE  v \notin closed
    BY DEF NoSendOnClosed
  <2>1. v \in subs
    BY DEF Inv
  <2> QED
    BY <2>1 DEF Inv
<1> QED
  BY <1>1, InitOK, TypeStep, InvStep, PTL DEF Spec

-----------------------------------------------------------------------------
(* Where the newest snapshot is *)

\* Something as new as n is in seq.
Holds(n, seq) == \E i \in DOMAIN seq : n <= seq[i]

\* A writer of v's path that will send it the newest snapshot loaded there.
Bringing(w, v) ==
  /\ writer[w].path = path[v] /\ loaded[path[v]] <= writer[w].snap
  /\ writer[w].at = "loaded" \/ (writer[w].at = "sending" /\ v \in writer[w].todo)

\* On its way to the client of v, or there, or dropped.
Underway(v) ==
  \/ pc[v] = "load"
  \/ pc[v] = "write" /\ loaded[path[v]] <= first[v]
  \/ pc[v] = "wait" /\ loaded[path[v]] <= seen[v]
  \/ Holds(loaded[path[v]], chan[v]) \/ loaded[path[v]] <= dropped[v]
  \/ \E w \in Writers : Bringing(w, v)

Listening(v) == pc[v] \in {"load", "write", "wait"}

\* No snapshot is newer than the last commit, who listens is in the map, and
\* does not miss the newest snapshot of its path.
Newest ==
  /\ \A l \in Lookups : loaded[l] <= commits
  /\ \A v \in Watchers : Listening(v) => v \in subs /\ Underway(v)

LEMMA HoldsAppend ==
  ASSUME NEW n \in Nat, NEW m \in Nat, NEW seq \in Seq(Nat)
  PROVE  /\ n <= m => Holds(n, Append(seq, m))
         /\ Holds(n, seq) => Holds(n, Append(seq, m))
<1>1. Len(seq) + 1 \in DOMAIN Append(seq, m) /\ Append(seq, m)[Len(seq) + 1] = m
  OBVIOUS
<1>2. \A i \in DOMAIN seq : i \in DOMAIN Append(seq, m) /\ Append(seq, m)[i] = seq[i]
  OBVIOUS
<1> QED
  BY <1>1, <1>2 DEF Holds

LEMMA HoldsTail ==
  ASSUME NEW n \in Nat, NEW seq \in Seq(Nat), seq # <<>>, Holds(n, seq)
  PROVE  n <= Head(seq) \/ Holds(n, Tail(seq))
<1>1. PICK i \in DOMAIN seq : n <= seq[i]
  BY DEF Holds
<1>2. CASE i = 1
  BY <1>1, <1>2
<1>3. CASE i # 1
  <2>1. i - 1 \in DOMAIN Tail(seq) /\ Tail(seq)[i - 1] = seq[i]
    BY <1>3
  <2> QED
    BY <1>1, <2>1 DEF Holds
<1> QED
  BY <1>2, <1>3

LEMMA NewestInit == Init => Newest
  BY LookupAssumption DEF Init, Newest, Listening

\* A writer's step takes nothing from a watcher that another writer brings it.
LEMMA WriterNewest ==
  ASSUME TypeOK, Newest, NEW w \in Writers, UNCHANGED <<subs, handlers, loaded>>,
         commits' \in Nat, commits <= commits',
         \A u \in Writers \ {w} : writer'[u] = writer[u],
         \A v \in Watchers : dropped'[v] \in Nat /\ dropped[v] <= dropped'[v],
         ASSUME NEW v \in Watchers, Listening(v)
         PROVE  /\ Holds(loaded[path[v]], chan[v]) => Holds(loaded[path[v]], chan'[v])
                /\ Bringing(w, v) => \/ Bringing(w, v)' \/ Holds(loaded[path[v]], chan'[v])
                                    \/ loaded[path[v]] <= dropped'[v]
  PROVE  Newest'
<1> USE DEF handlers
<1>1. ASSUME NEW v \in Watchers, Listening(v)
      PROVE  Underway(v)'
  <2>1. Underway(v)
    BY <1>1 DEF Newest
  <2>2. CASE \E u \in Writers : Bringing(u, v)
    <3>1. PICK u \in Writers : Bringing(u, v)
      BY <2>2
    <3>2. CASE u = w
      BY <1>1, <3>1, <3>2 DEF Underway
    <3>3. CASE u # w
      BY <3>1, <3>3 DEF Underway, Bringing
    <3> QED
      BY <3>2, <3>3
  <2>3. CASE ~\E u \in Writers : Bringing(u, v)
    <3>1. loaded[path[v]] \in Nat /\ dropped[v] \in Nat
      BY DEF TypeOK
    <3>2. loaded[path[v]] <= dropped[v] => loaded[path[v]] <= dropped'[v]
      BY <3>1
    <3> QED
      BY <1>1, <2>1, <2>3, <3>2 DEF Underway
  <2> QED
    BY <2>2, <2>3
<1>2. \A l \in Lookups : loaded'[l] <= commits'
  BY DEF Newest, TypeOK
<1> QED
  BY <1>1, <1>2 DEF Newest, Listening

\* What is committed is not yet loaded; a Load that fails brings nobody anything.
LEMMA CommitNewest ==
  ASSUME TypeOK, Newest, NEW w \in Writers,
         (\E l \in Lookups : Commit(w, l)) \/ CommitDelete(w) \/ LoadFails(w)
  PROVE  Newest'
<1>1. /\ UNCHANGED <<subs, handlers, loaded, chan, dropped>>
      /\ commits' \in Nat /\ commits <= commits'
      /\ \A u \in Writers \ {w} : writer'[u] = writer[u]
  BY DEF Commit, CommitDelete, LoadFails, TypeOK
<1>2. \A v \in Watchers : dropped'[v] \in Nat /\ dropped[v] <= dropped'[v]
  BY <1>1 DEF TypeOK
<1>3. writer[w].at \in {"idle", "load"}
  BY DEF Commit, CommitDelete, LoadFails
<1>4. \A v \in Watchers : ~Bringing(w, v)
  BY <1>3 DEF Bringing
<1> QED
  BY <1>1, <1>2, <1>4, WriterNewest

LEMMA LoadNewest ==
  ASSUME TypeOK, Newest, NEW w \in Writers, LoadAfter(w)
  PROVE  Newest'
<1> DEFINE l == writer[w].path
<1>1. /\ UNCHANGED <<commits, subs, handlers, chan, dropped>> /\ commits \in Nat
      /\ \A u \in Writers \ {w} : writer'[u] = writer[u]
      /\ l \in Lookups /\ writer[w].at = "load"
      /\ loaded' = [loaded EXCEPT ![l] = commits]
  BY DEF LoadAfter, TypeOK
<1>2. writer'[w].at = "loaded" /\ writer'[w].snap = commits /\ writer'[w].path = l
  BY DEF LoadAfter, TypeOK
<1>3. \A k \in Lookups : loaded'[k] = IF k = l THEN commits ELSE loaded[k]
  BY <1>1 DEF TypeOK
<1>4. ASSUME NEW v \in Watchers, Listening(v) PROVE Underway(v)'
  <2>1. path[v] \in Lookups /\ path'[v] = path[v]
    BY <1>1 DEF TypeOK, handlers
  <2>2. CASE path[v] = l
    <3>1. Bringing(w, v)'
      BY <1>1, <1>2, <1>3, <2>1, <2>2 DEF Bringing
    <3> QED
      BY <3>1 DEF Underway
  <2>3. CASE path[v] # l
    <3>1. loaded'[path[v]] = loaded[path[v]]
      BY <1>3, <2>1, <2>3
    <3>2. \A u \in Writers : Bringing(u, v) => Bringing(u, v)'
      BY <1>1, <2>1, <3>1 DEF Bringing
    <3>3. Underway(v)
      BY <1>4 DEF Newest
    <3> QED
      BY <1>1, <2>1, <3>1, <3>2, <3>3 DEF Underway, handlers
  <2> QED
    BY <2>2, <2>3
<1>5. \A k \in Lookups : loaded'[k] <= commits'
  BY <1>1, <1>3 DEF Newest
<1> QED
  BY <1>1, <1>4, <1>5 DEF Newest, Listening, handlers

LEMMA BeginNewest ==
  ASSUME TypeOK, Newest, NEW w \in Writers, BeginBroadcast(w)
  PROVE  Newest'
<1>1. /\ UNCHANGED <<commits, subs, handlers, chan, dropped, loaded>>
      /\ \A u \in Writers \ {w} : writer'[u] = writer[u]
      /\ commits' \in Nat /\ commits <= commits'
  BY DEF BeginBroadcast, TypeOK
<1>2. /\ writer'[w].at = "sending" /\ writer'[w].snap = writer[w].snap
      /\ writer'[w].path = writer[w].path
      /\ writer'[w].todo = {v \in subs : path[v] = writer[w].path}
  BY DEF BeginBroadcast, TypeOK
<1>3. \A v \in Watchers : Listening(v) /\ Bringing(w, v) => Bringing(w, v)'
  BY <1>1, <1>2 DEF Bringing, Newest, handlers
<1>4. \A v \in Watchers : dropped'[v] \in Nat /\ dropped[v] <= dropped'[v]
  BY <1>1 DEF TypeOK
<1> QED
  BY <1>1, <1>3, <1>4, WriterNewest

LEMMA SendNewest ==
  ASSUME TypeOK, Newest, NEW w \in Writers, NEW x \in Watchers, Send(w, x)
  PROVE  Newest'
<1> DEFINE snap == writer[w].snap
<1>1. /\ UNCHANGED <<commits, subs, handlers, loaded>>
      /\ writer' = [writer EXCEPT ![w].todo = @ \ {x}]
      /\ writer[w].at = "sending" /\ commits' \in Nat /\ commits <= commits'
  BY DEF Send, Visited, Reading, TypeOK
<1>2. /\ \A u \in Writers \ {w} : writer'[u] = writer[u]
      /\ writer'[w].at = "sending" /\ writer'[w].snap = snap
      /\ writer'[w].path = writer[w].path /\ writer'[w].todo = writer[w].todo \ {x}
  BY <1>1 DEF TypeOK
<1>3. /\ snap \in Nat /\ chan \in [Watchers -> Seq(Nat)] /\ dropped \in [Watchers -> Nat]
      /\ \A v \in Watchers : loaded[path[v]] \in Nat
  BY DEF TypeOK
<1>4. \/ chan' = [chan EXCEPT ![x] = Append(@, snap)] /\ dropped' = dropped
      \/ chan' = chan /\ dropped' = [dropped EXCEPT ![x] = Newer(@, snap)]
  BY DEF Send, Drop
<1>5. \A v \in Watchers : dropped'[v] \in Nat /\ dropped[v] <= dropped'[v]
  <2> SUFFICES ASSUME NEW v \in Watchers PROVE dropped'[v] \in Nat /\ dropped[v] <= dropped'[v]
    OBVIOUS
  <2>1. dropped'[v] = dropped[v] \/ dropped'[v] = Newer(dropped[v], snap)
    BY <1>3, <1>4
  <2>2. dropped[v] \in Nat
    BY <1>3
  <2> QED
    BY <1>3, <2>1, <2>2 DEF Newer
<1>6. ASSUME NEW v \in Watchers
      PROVE  Holds(loaded[path[v]], chan[v]) => Holds(loaded[path[v]], chan'[v])
  <2>1. chan'[v] = chan[v] \/ chan'[v] = Append(chan[v], snap)
    BY <1>3, <1>4
  <2> QED
    BY <1>3, <2>1, HoldsAppend
<1>7. \A n \in Nat : n <= snap => Holds(n, chan'[x]) \/ n <= dropped'[x]
  <2>1. CASE chan' = [chan EXCEPT ![x] = Append(@, snap)]
    <3>1. chan'[x] = Append(chan[x], snap)
      BY <1>3, <2>1
    <3> QED
      BY <1>3, <3>1, HoldsAppend
  <2>2. CASE dropped' = [dropped EXCEPT ![x] = Newer(@, snap)]
    BY <1>3, <2>2 DEF Newer
  <2> QED
    BY <1>4, <2>1, <2>2
<1>8. ASSUME NEW v \in Watchers, Bringing(w, v)
      PROVE  \/ Bringing(w, v)' \/ Holds(loaded[path[v]], chan'[v])
             \/ loaded[path[v]] <= dropped'[v]
  <2>1. loaded[path[v]] <= snap /\ v \in writer[w].todo /\ writer[w].path = path[v]
    BY <1>1, <1>8 DEF Bringing
  <2>2. CASE v = x
    BY <1>3, <1>7, <2>1, <2>2
  <2>3. CASE v # x
    BY <1>1, <1>2, <2>1, <2>3 DEF Bringing, handlers
  <2> QED
    BY <2>2, <2>3
<1> QED
  BY <1>1, <1>2, <1>5, <1>6, <1>8, WriterNewest

LEMMA EndNewest ==
  ASSUME TypeOK, Newest, NEW w \in Writers, EndBroadcast(w)
  PROVE  Newest'
<1>1. /\ UNCHANGED <<commits, subs, handlers, chan, dropped, loaded>>
      /\ commits' \in Nat /\ commits <= commits'
      /\ \A u \in Writers \ {w} : writer'[u] = writer[u]
  BY DEF EndBroadcast, TypeOK
<1>2. writer[w].todo = {} /\ writer[w].at = "sending"
  BY DEF EndBroadcast, Reading
<1>3. \A v \in Watchers : ~Bringing(w, v) /\ dropped'[v] \in Nat /\ dropped[v] <= dropped'[v]
  BY <1>1, <1>2 DEF Bringing, TypeOK
<1> QED
  BY <1>1, <1>3, WriterNewest

\* A handler's step concerns its own watcher.
LEMMA HandlerNewest ==
  ASSUME TypeOK, Newest, NEW x \in Watchers, UNCHANGED <<commits, writer, loaded>>,
         \A v \in Watchers \ {x} : /\ pc'[v] = pc[v] /\ first'[v] = first[v]
                                   /\ chan'[v] = chan[v] /\ seen'[v] = seen[v]
                                   /\ path'[v] = path[v] /\ dropped'[v] = dropped[v]
                                   /\ v \in subs => v \in subs',
         Listening(x)' => x \in subs' /\ Underway(x)'
  PROVE  Newest'
<1>1. ASSUME NEW v \in Watchers \ {x}, Listening(v)'
      PROVE  v \in subs' /\ Underway(v)'
  <2>1. v \in subs /\ Underway(v)
    BY <1>1 DEF Newest, Listening
  <2> QED
    BY <2>1 DEF Underway, Bringing
<1> QED
  BY <1>1 DEF Newest

LEMMA SubscribeNewest ==
  ASSUME TypeOK, Newest, NEW x \in Watchers, NEW l \in Lookups, Subscribe(x, l)
  PROVE  Newest'
<1>1. pc'[x] = "load" /\ x \in subs'
  BY DEF Subscribe, Step, TypeOK
<1>2. \A v \in Watchers \ {x} : pc'[v] = pc[v] /\ path'[v] = path[v]
  BY DEF Subscribe, Step, TypeOK
<1> QED
  BY <1>1, <1>2, HandlerNewest DEF Subscribe, Underway

LEMMA HandlerSteps ==
  ASSUME TypeOK, Newest, NEW x \in Watchers,
         \/ LoadFirst(x) \/ LoadFirstFails(x) \/ WriteFirst(x) \/ Forward(x)
         \/ Disconnect(x) \/ Leaving(x)
  PROVE  Newest'
<1> USE DEF Step
<1>1. loaded[path[x]] \in Nat /\ loaded[path[x]] <= commits /\ commits \in Nat
  BY DEF TypeOK, Newest
<1>2. CASE LoadFirst(x)
  <2>1. pc[x] = "load" /\ \A v \in Watchers \ {x} : pc'[v] = pc[v] /\ first'[v] = first[v]
    BY <1>2 DEF LoadFirst, TypeOK
  <2>2. pc'[x] = "write" /\ first'[x] = commits
    BY <1>2 DEF LoadFirst, TypeOK
  <2>3. UNCHANGED <<commits, writer, path, subs, chan, seen, dropped, loaded>>
    BY <1>2 DEF LoadFirst
  <2>4. x \in subs
    BY <2>1 DEF Newest, Listening
  <2>5. Underway(x)'
    BY <1>1, <2>2, <2>3 DEF Underway
  <2> QED
    BY <2>1, <2>3, <2>4, <2>5, HandlerNewest
<1>3. CASE WriteFirst(x)
  <2>1. /\ pc[x] = "write"
        /\ \A v \in Watchers \ {x} : pc'[v] = pc[v] /\ seen'[v] = seen[v] /\ first'[v] = first[v]
    BY <1>3 DEF WriteFirst, TypeOK
  <2>2. seen'[x] = first[x] /\ pc'[x] = "wait"
    BY <1>3 DEF WriteFirst, TypeOK
  <2>3. UNCHANGED <<commits, writer, path, subs, chan, dropped, loaded>>
    BY <1>3 DEF WriteFirst
  <2>4. x \in subs /\ Underway(x)
    BY <2>1 DEF Newest, Listening
  <2>5. Underway(x)'
    <3>1. CASE \E w \in Writers : Bringing(w, x)
      BY <2>3, <3>1 DEF Underway, Bringing
    <3>2. CASE ~\E w \in Writers : Bringing(w, x)
      BY <2>1, <2>2, <2>3, <2>4, <3>2 DEF Underway
    <3> QED
      BY <3>1, <3>2
  <2> QED
    BY <2>1, <2>3, <2>4, <2>5, HandlerNewest
<1>4. CASE Forward(x)
  <2>1. /\ \A v \in Watchers \ {x} : chan'[v] = chan[v] /\ seen'[v] = seen[v]
        /\ chan'[x] = Tail(chan[x]) /\ seen'[x] = Newer(seen[x], Head(chan[x]))
        /\ pc[x] = "wait" /\ chan[x] # <<>>
    BY <1>4 DEF Forward, TypeOK
  <2>2. UNCHANGED <<commits, writer, path, subs, pc, first, dropped, loaded>>
    BY <1>4 DEF Forward
  <2>3. x \in subs /\ Underway(x)
    BY <2>1 DEF Newest, Listening
  <2>4. chan[x] \in Seq(Nat) /\ seen[x] \in Nat /\ Head(chan[x]) \in Nat
    BY <2>1 DEF TypeOK
  <2>5. /\ seen'[x] \in Nat /\ seen[x] <= seen'[x] /\ Head(chan[x]) <= seen'[x]
    BY <2>1, <2>4 DEF Newer
  <2>6. /\ loaded[path[x]] <= seen[x] => loaded[path[x]] <= seen'[x]
        /\ loaded[path[x]] <= Head(chan[x]) => loaded[path[x]] <= seen'[x]
    BY <1>1, <2>4, <2>5
  <2>7. Holds(loaded[path[x]], chan[x]) =>
          loaded[path[x]] <= Head(chan[x]) \/ Holds(loaded[path[x]], chan'[x])
    BY <1>1, <2>1, <2>4, HoldsTail
  <2>8. Underway(x)'
    <3>1. CASE \E w \in Writers : Bringing(w, x)
      BY <2>2, <3>1 DEF Underway, Bringing
    <3>2. CASE ~\E w \in Writers : Bringing(w, x)
      BY <2>1, <2>2, <2>3, <2>6, <2>7, <3>2 DEF Underway
    <3> QED
      BY <3>1, <3>2
  <2> QED
    BY <2>1, <2>2, <2>3, <2>8, HandlerNewest
<1>5. CASE LoadFirstFails(x) \/ Disconnect(x) \/ Leaving(x)
  <2>1. /\ pc'[x] \in {"cancel", "close", "gone"}
        /\ \A v \in Watchers \ {x} : pc'[v] = pc[v] /\ (v \in subs => v \in subs')
    BY <1>5 DEF LoadFirstFails, Disconnect, Leaving, Unsubscribe, Close, TypeOK
  <2>2. /\ UNCHANGED <<commits, writer, loaded>>
        /\ \A v \in Watchers \ {x} : /\ first'[v] = first[v] /\ chan'[v] = chan[v]
                                     /\ seen'[v] = seen[v] /\ path'[v] = path[v]
                                     /\ dropped'[v] = dropped[v]
    BY <1>5 DEF LoadFirstFails, Disconnect, Leaving, Unsubscribe, Close, TypeOK
  <2>3. ~Listening(x)'
    BY <2>1 DEF Listening
  <2> QED
    BY <2>1, <2>2, <2>3, HandlerNewest
<1> QED
  BY <1>2, <1>3, <1>4, <1>5

LEMMA NewestStep == TypeOK /\ Newest /\ [Next]_vars => Newest'
<1> SUFFICES ASSUME TypeOK, Newest, [Next]_vars PROVE Newest'
  OBVIOUS
<1>1. CASE UNCHANGED vars
  BY <1>1 DEF vars, handlers, Newest, Listening, Underway, Bringing
<1>2. ASSUME NEW w \in Writers,
             (\E l \in Lookups : Commit(w, l)) \/ CommitDelete(w) \/ Broadcasting(w)
      PROVE  Newest'
  BY <1>2, CommitNewest, LoadNewest, BeginNewest, SendNewest, EndNewest DEF Broadcasting
<1>3. ASSUME NEW v \in Watchers,
             \/ (\E l \in Lookups : Subscribe(v, l))
             \/ LoadFirst(v) \/ LoadFirstFails(v) \/ WriteFirst(v) \/ Forward(v)
             \/ Disconnect(v) \/ Leaving(v)
      PROVE  Newest'
  BY <1>3, SubscribeNewest, HandlerSteps
<1> QED
  BY <1>1, <1>2, <1>3 DEF Next

\* Subscribe before Load, and Load after Commit: when no writer of its path has
\* a snapshot to send, a client whose channel is empty has been sent what that
\* path's writers loaded last, or something newer, or its channel had no room
\* for it.  A Load that fails, and a write under the session's other name, are
\* among the behaviours: neither makes a client miss what its path loaded.
THEOREM NewestReachesClients == Spec => []NewestIsSent
<1>1. ASSUME TypeOK, Newest, NEW v \in Watchers, Drained(v), Quiet(path[v])
      PROVE  loaded[path[v]] <= Newer(seen[v], dropped[v])
  <2>1. Underway(v)
    BY <1>1 DEF Newest, Listening, Drained
  <2>2. \A w \in Writers : ~Bringing(w, v)
    BY <1>1 DEF Quiet, Bringing
  <2>3. loaded[path[v]] <= seen[v] \/ loaded[path[v]] <= dropped[v]
    BY <1>1, <2>1, <2>2 DEF Underway, Drained, Holds
  <2> QED
    BY <1>1, <2>3 DEF Newer, TypeOK
<1>2. TypeOK /\ Newest => NewestIsSent
  BY <1>1 DEF NewestIsSent
<1> QED
  BY <1>2, InitOK, NewestInit, TypeStep, NewestStep, PTL DEF Spec
=============================================================================
