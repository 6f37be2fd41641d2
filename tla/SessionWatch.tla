---------------------------- MODULE SessionWatch ----------------------------
(***************************************************************************)
(* GET /sessions/{id}/watch: the subscribers of one session, the writers   *)
(* that broadcast a snapshot after their commit, and the handler that      *)
(* forwards its channel to the client.  A snapshot is known by the number  *)
(* of commits it contains.  A writer is a request of SessionStore from its *)
(* commit on: commit, Load and Broadcast are three steps.                  *)
(*                                                                         *)
(* The map of subscribers is keyed by the session's name in the path.  One *)
(* session has several, its share code and its id, and each has a list of  *)
(* its own: a broadcast reaches those who watch under the writer's name.   *)
(***************************************************************************)
EXTENDS Naturals, Sequences, FiniteSets

CONSTANTS
  Writers,     \* concurrent requests that write the session
  Watchers,    \* connections; each has its own channel and is used once
  Lookups,     \* what the path may call the session: its share code, its id
  Cap,         \* capacity of a channel (4 in the code)
  MaxCommits   \* bound: commits of a behaviour

ASSUME CapAssumption == Cap \in Nat \ {0}
ASSUME LookupAssumption == Lookups # {}
ASSUME CommitsAssumption == MaxCommits \in Nat

VARIABLES
  commits,   \* commits so far
  present,   \* the session exists
  writer,    \* each writer's step, its path, the snapshot it loaded, channels to visit
  path,      \* each watcher's path
  subs,      \* who is in s.watchers, each under its path
  chan,      \* each watcher's channel
  closed,    \* channels that are closed
  pc,        \* each watch handler's step
  first,     \* the snapshot its Load returned
  seen,      \* the newest snapshot written to each client
  dropped,   \* per watcher, the newest snapshot its full channel had no room for
  loaded     \* per path, the newest snapshot its writers loaded (history)

vars == <<commits, present, writer, path, subs, chan, closed, pc, first, seen, dropped, loaded>>
handlers == <<path, pc, first, seen>>

\* Some name, for those without a path yet.
AnyPath == CHOOSE l \in Lookups : TRUE

IdleWriter == [at |-> "idle", path |-> AnyPath, snap |-> 0, todo |-> {}]

Newer(m, n) == IF m < n THEN n ELSE m

\* s.mu held for reading.  Subscribe and Unsubscribe hold it for writing,
\* each for a single step, so they need that nobody reads.
Reading(w) == writer[w].at = "sending"
NobodyReads == \A w \in Writers : ~Reading(w)

Init ==
  /\ commits = 1 /\ present = TRUE
  /\ writer = [w \in Writers |-> IdleWriter]
  /\ path = [v \in Watchers |-> AnyPath]
  /\ subs = {} /\ chan = [v \in Watchers |-> <<>>] /\ closed = {}
  /\ pc = [v \in Watchers |-> "new"] /\ first = [v \in Watchers |-> 0]
  /\ seen = [v \in Watchers |-> 0] /\ dropped = [v \in Watchers |-> 0]
  /\ loaded = [l \in Lookups |-> 0]

-----------------------------------------------------------------------------
(* Writers *)

\* tx.Commit of an operation that goes on to broadcast (a Save may create).
Commit(w, l) ==
  /\ writer[w].at = "idle" /\ commits < MaxCommits
  /\ commits' = commits + 1 /\ present' = TRUE
  /\ writer' = [writer EXCEPT ![w].at = "load", ![w].path = l]
  /\ UNCHANGED <<subs, chan, closed, handlers, dropped, loaded>>

\* DELETE commits and tells nobody.
CommitDelete(w) ==
  /\ writer[w].at = "idle" /\ present /\ commits < MaxCommits
  /\ commits' = commits + 1 /\ present' = FALSE
  /\ UNCHANGED <<writer, subs, chan, closed, handlers, dropped, loaded>>

\* Load after the commit.
LoadAfter(w) ==
  /\ writer[w].at = "load" /\ present
  /\ writer' = [writer EXCEPT ![w].at = "loaded", ![w].snap = commits]
  /\ loaded' = [loaded EXCEPT ![writer[w].path] = commits]
  /\ UNCHANGED <<commits, present, subs, chan, closed, handlers, dropped>>

\* It fails: the session was deleted meanwhile, the request's context is
\* done, the database does not answer.  What was committed is not broadcast.
LoadFails(w) ==
  /\ writer[w].at = "load"
  /\ writer' = [writer EXCEPT ![w] = IdleWriter]
  /\ UNCHANGED <<commits, present, subs, chan, closed, handlers, dropped, loaded>>

\* Broadcast takes the read lock and iterates over the map of its path.
BeginBroadcast(w) ==
  /\ writer[w].at = "loaded"
  /\ writer' = [writer EXCEPT ![w].at = "sending",
                              ![w].todo = {v \in subs : path[v] = writer[w].path}]
  /\ UNCHANGED <<commits, present, subs, chan, closed, handlers, dropped, loaded>>

Visited(w, v) == writer' = [writer EXCEPT ![w].todo = @ \ {v}]

\* Mutant of Send: without the default branch.
SendBlocking(w, v) ==
  /\ Reading(w) /\ v \in writer[w].todo /\ Len(chan[v]) < Cap
  /\ chan' = [chan EXCEPT ![v] = Append(@, writer[w].snap)]
  /\ Visited(w, v)
  /\ UNCHANGED <<commits, present, subs, closed, handlers, dropped, loaded>>

Drop(w, v) == dropped' = [dropped EXCEPT ![v] = Newer(@, writer[w].snap)]

\* Mutant of Send: the default branch returns.
SendOrReturn(w, v) ==
  /\ Reading(w) /\ v \in writer[w].todo
  /\ \/ /\ Len(chan[v]) < Cap
        /\ chan' = [chan EXCEPT ![v] = Append(@, writer[w].snap)]
        /\ Visited(w, v) /\ UNCHANGED dropped
     \/ /\ Len(chan[v]) = Cap
        /\ Drop(w, v) /\ writer' = [writer EXCEPT ![w] = IdleWriter] /\ UNCHANGED chan
  /\ UNCHANGED <<commits, present, subs, closed, handlers, loaded>>

\* The non-blocking send to one channel.
Send(w, v) ==
  /\ Reading(w) /\ v \in writer[w].todo
  /\ \/ /\ Len(chan[v]) < Cap
        /\ chan' = [chan EXCEPT ![v] = Append(@, writer[w].snap)] /\ UNCHANGED dropped
     \/ /\ Len(chan[v]) = Cap
        /\ Drop(w, v) /\ UNCHANGED chan
  /\ Visited(w, v)
  /\ UNCHANGED <<commits, present, subs, closed, handlers, loaded>>

EndBroadcast(w) ==
  /\ Reading(w) /\ writer[w].todo = {}
  /\ writer' = [writer EXCEPT ![w] = IdleWriter]
  /\ UNCHANGED <<commits, present, subs, chan, closed, handlers, dropped, loaded>>

-----------------------------------------------------------------------------
(* The watch handler *)

Step(v, from, to) == pc[v] = from /\ pc' = [pc EXCEPT ![v] = to]

Subscribe(v, l) ==
  /\ Step(v, "new", "load") /\ NobodyReads
  /\ path' = [path EXCEPT ![v] = l] /\ subs' = subs \cup {v}
  /\ UNCHANGED <<commits, present, writer, chan, closed, first, seen, dropped, loaded>>

\* The handler's Load.
LoadFirst(v) ==
  /\ present /\ Step(v, "load", "write")
  /\ first' = [first EXCEPT ![v] = commits]
  /\ UNCHANGED <<commits, present, writer, path, subs, chan, closed, seen, dropped, loaded>>

\* It finds no session or fails: the handler answers an error and cancels.
LoadFirstFails(v) ==
  /\ Step(v, "load", "cancel")
  /\ UNCHANGED <<commits, present, writer, path, subs, chan, closed, first, seen, dropped, loaded>>

WriteFirst(v) ==
  /\ Step(v, "write", "wait")
  /\ seen' = [seen EXCEPT ![v] = first[v]] /\ first' = [first EXCEPT ![v] = 0]
  /\ UNCHANGED <<commits, present, writer, path, subs, chan, closed, dropped, loaded>>

Forward(v) ==
  /\ pc[v] = "wait" /\ chan[v] # <<>>
  /\ seen' = [seen EXCEPT ![v] = Newer(@, Head(chan[v]))]
  /\ chan' = [chan EXCEPT ![v] = Tail(@)]
  /\ UNCHANGED <<commits, present, writer, path, subs, closed, pc, first, dropped, loaded>>

\* The client goes away: a write fails or the request's context is done.
Disconnect(v) ==
  /\ Step(v, "write", "cancel") \/ Step(v, "wait", "cancel")
  /\ UNCHANGED <<commits, present, writer, path, subs, chan, closed, first, seen, dropped, loaded>>

\* Mutant of Unsubscribe: the map is changed while a broadcast iterates.
UnsubscribeUnlocked(v) ==
  /\ Step(v, "cancel", "close")
  /\ subs' = subs \ {v}
  /\ UNCHANGED <<commits, present, writer, path, chan, closed, first, seen, dropped, loaded>>

\* Unsubscribe removes the channel under the lock and closes it after.  What
\* the client was sent is of no interest any more.
Unsubscribe(v) ==
  /\ Step(v, "cancel", "close") /\ NobodyReads
  /\ subs' = subs \ {v} /\ path' = [path EXCEPT ![v] = AnyPath]
  /\ chan' = [chan EXCEPT ![v] = <<>>] /\ first' = [first EXCEPT ![v] = 0]
  /\ seen' = [seen EXCEPT ![v] = 0] /\ dropped' = [dropped EXCEPT ![v] = 0]
  /\ UNCHANGED <<commits, present, writer, closed, loaded>>

Close(v) ==
  /\ Step(v, "close", "gone")
  /\ closed' = closed \cup {v}
  /\ UNCHANGED <<commits, present, writer, path, subs, chan, first, seen, dropped, loaded>>

-----------------------------------------------------------------------------
Broadcasting(w) ==
  \/ LoadAfter(w) \/ LoadFails(w) \/ BeginBroadcast(w) \/ (\E v \in Watchers : Send(w, v))
  \/ EndBroadcast(w)

Leaving(v) == Unsubscribe(v) \/ Close(v)

Next ==
  \/ \E w \in Writers : (\E l \in Lookups : Commit(w, l)) \/ CommitDelete(w) \/ Broadcasting(w)
  \/ \E v \in Watchers : \/ (\E l \in Lookups : Subscribe(v, l))
                         \/ LoadFirst(v) \/ LoadFirstFails(v) \/ WriteFirst(v) \/ Forward(v)
                         \/ Disconnect(v) \/ Leaving(v)

Spec == Init /\ [][Next]_vars

\* A goroutine past its commit, and one that returns, keep running.  Clients
\* are not made to read: WriteFirst and Forward may stall for ever.
FairSpec ==
  Spec /\ (\A w \in Writers : WF_vars(Broadcasting(w))) /\ (\A v \in Watchers : WF_vars(Leaving(v)))

-----------------------------------------------------------------------------
(* Properties *)

TypeOK ==
  /\ commits \in Nat /\ present \in BOOLEAN
  /\ writer \in [Writers -> [at : {"idle", "load", "loaded", "sending"}, path : Lookups,
                             snap : Nat, todo : SUBSET Watchers]]
  /\ subs \subseteq Watchers /\ closed \subseteq Watchers /\ dropped \in [Watchers -> Nat]
  /\ chan \in [Watchers -> Seq(Nat)] /\ seen \in [Watchers -> Nat] /\ path \in [Watchers -> Lookups]
  /\ pc \in [Watchers -> {"new", "load", "write", "wait", "cancel", "close", "gone"}]
  /\ first \in [Watchers -> Nat] /\ loaded \in [Lookups -> Nat]

\* Closing outside the lock is safe: a broadcast never reaches a closed
\* channel (which would panic), though it iterates while handlers leave.
NoSendOnClosed == \A w \in Writers : Reading(w) => writer[w].todo \cap closed = {}

\* No writer with this path still has something to broadcast.
Quiet(l) == \A w \in Writers : writer[w].path = l => writer[w].at \in {"idle", "load"}

Drained(v) == pc[v] = "wait" /\ chan[v] = <<>>

\* Subscribe before Load: once a client's channel is empty and no writer of
\* its path has a snapshot to send, it was sent all that the writers of its
\* path loaded, before it came and since, or something newer, unless its full
\* channel made it miss that.  What a writer could not load after its commit,
\* or wrote under the session's other name, it may not have been sent.
NewestIsSent ==
  \A v \in Watchers : Drained(v) /\ Quiet(path[v]) =>
    loaded[path[v]] <= Newer(seen[v], dropped[v])

\* No writer waits for a client: a broadcast ends whatever the clients do.
BroadcastsEnd == \A w \in Writers : writer[w].at # "idle" ~> writer[w].at = "idle"

\* A handler whose client is gone leaves the map and closes its channel.
WatchersLeave == \A v \in Watchers : pc[v] = "cancel" ~> pc[v] = "gone"
=============================================================================
