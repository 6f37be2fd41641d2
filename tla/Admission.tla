------------------------------- MODULE Admission -------------------------------
(***************************************************************************)
(* What a request passes before it works: the rate limiter, then the pool  *)
(* of database connections it shares with the ticker that ingests locked   *)
(* sessions.  A transaction keeps its connection, and some requests ask    *)
(* for a second one while they have one.                                   *)
(***************************************************************************)
EXTENDS RateLimiter, Sequences

CONSTANTS
  Clients,     \* requests at a time
  Ticker,      \* the goroutine of AutoIngestLockedSessions
  MaxConns     \* connections of the pool

\* Fewer requests at a time than connections (db.go: ten).
ASSUME PoolAssumption == MaxConns \in Nat /\ Cardinality(Clients) < MaxConns /\ Ticker \notin Clients

VARIABLES
  todo,      \* the numbers of connections each process is still to have, one
             \* after the other
  conns      \* the connections it has

pool == <<todo, conns>>
vars == <<limiter, pool>>

Procs == Clients \cup {Ticker}

\* plain: one transaction.  keyed: CheckIdempotency asks for a connection while
\* the transaction has one; after the commit Load and SaveIdempotency take one
\* each.  ingest: the rows of the sessions stay open while each is ingested.
Demands == [plain |-> <<1, 0>>, keyed |-> <<1, 2, 1, 0, 1, 0, 1, 0>>, ingest |-> <<1, 2, 1, 2, 1, 0>>]

Init ==
  /\ LimiterInit
  /\ todo = [p \in Procs |-> <<>>] /\ conns = [p \in Procs |-> 0]

Free == MaxConns - Cardinality({u \in Procs \X (1..2) : u[2] <= conns[u[1]]})

Begin(p, kind) == todo' = [todo EXCEPT ![p] = Demands[kind]] /\ UNCHANGED conns

\* A request comes from an address; it is answered 429, or its handler begins.
Arrive(c) ==
  /\ todo[c] = <<>>
  /\ \E a \in Addresses : Allow(a)
  /\ IF verdict'.allowed THEN \E kind \in {"plain", "keyed"} : Begin(c, kind) ELSE UNCHANGED pool

TickerStarts == todo[Ticker] = <<>> /\ Begin(Ticker, "ingest") /\ UNCHANGED limiter

\* The next connection is acquired, once one is free, or released.
Step(p) ==
  /\ todo[p] # <<>>
  /\ Head(todo[p]) - conns[p] <= Free
  /\ conns' = [conns EXCEPT ![p] = Head(todo[p])]
  /\ todo' = [todo EXCEPT ![p] = Tail(@)]
  /\ UNCHANGED limiter

\* Mutant of Abandon: the rows, or the transaction, are not closed.
AbandonUnclosed(p) == todo' = [todo EXCEPT ![p] = <<>>] /\ UNCHANGED conns

\* A cancelled context ends a wait for a connection; what is open is closed.
Abandon(p) == todo' = [todo EXCEPT ![p] = <<>>] /\ conns' = [conns EXCEPT ![p] = 0]

\* The client leaves.  Handlers have no deadline of their own.
Leave(c) == todo[c] # <<>> /\ Abandon(c) /\ UNCHANGED limiter

\* The ticker's run is over after two minutes.
TickerTimesOut == todo[Ticker] # <<>> /\ Abandon(Ticker) /\ UNCHANGED limiter

Passes == (Tick \/ Sweep) /\ UNCHANGED pool

Next ==
  \/ \E c \in Clients : Arrive(c) \/ Leave(c)
  \/ \E p \in Procs : Step(p)
  \/ TickerStarts \/ TickerTimesOut \/ Passes

Spec == Init /\ [][Next]_vars

\* Connections are handed out in the order they were asked for, so one that is
\* free again and again is had; the ticker's context has its deadline.
FairSpec == Spec /\ (\A p \in Procs : SF_vars(Step(p))) /\ WF_vars(TickerTimesOut)

-----------------------------------------------------------------------------
(* Properties *)

\* Every request that was let through ends without its client leaving, although
\* requests and the ticker ask for a second connection while they have one: the
\* ticker's deadline frees the one they lack.
RequestsEnd == \A c \in Clients : todo[c] # <<>> ~> todo[c] = <<>>
=============================================================================
