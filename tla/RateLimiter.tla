------------------------------ MODULE RateLimiter ------------------------------
(***************************************************************************)
(* The middleware RateLimit: one token bucket per address, made at its     *)
(* first request, refilled when the address asks again, and removed by a   *)
(* janitor.  Every operation holds the limiter's mutex, so it is one step. *)
(*                                                                         *)
(* Time goes by in ticks.  A bucket's tokens are counted in parts, Unit to *)
(* a token and Rate to a tick; ages past the idle timeout are not told     *)
(* apart (a bucket that old is full when it is asked).                     *)
(***************************************************************************)
EXTENDS Naturals, FiniteSets

CONSTANTS
  Addresses,     \* the addresses clientIP makes of requests
  Burst,         \* tokens of a full bucket
  Unit,          \* parts of a token
  Rate,          \* parts a bucket gains in a tick
  IdleTimeout,   \* ticks
  MaxIPs         \* buckets a sweep leaves at most

\* burst is perMinute, rate a sixtieth of that a second, and the idle timeout
\* ten minutes: an idle bucket has had the time to fill.
ASSUME RateAssumption ==
  /\ {Burst, Unit, Rate, IdleTimeout, MaxIPs} \subseteq Nat
  /\ Burst > 0 /\ Unit > 0 /\ Rate * IdleTimeout >= Burst * Unit

VARIABLES
  tokens,     \* limiter.ips: the parts of tokens in each bucket
  age,        \* ticks since its last request, IdleTimeout + 1 without a bucket
  kept,       \* the addresses that have a bucket
  verdict     \* the last request: its address, and whether it was let through

limiter == <<tokens, age, kept, verdict>>

Full == Burst * Unit
Smaller(i, j) == IF i < j THEN i ELSE j

LimiterInit ==
  /\ tokens = [a \in Addresses |-> Full] /\ age = [a \in Addresses |-> IdleTimeout + 1]
  /\ kept = {}
  /\ verdict = [address |-> "none", allowed |-> FALSE]

\* The bucket of an address when it asks: a new one, or the old one refilled.
Refilled(a) == IF a \in kept THEN Smaller(tokens[a] + age[a] * Rate, Full) ELSE Full

\* allow
Allow(a) ==
  LET allowed == Refilled(a) >= Unit
  IN  /\ verdict' = [address |-> a, allowed |-> allowed]
      /\ tokens' = [tokens EXCEPT ![a] = IF allowed THEN Refilled(a) - Unit ELSE Refilled(a)]
      /\ age' = [age EXCEPT ![a] = 0]
      /\ kept' = kept \cup {a}

Tick ==
  /\ age' = [a \in Addresses |-> Smaller(age[a] + 1, IdleTimeout + 1)]
  /\ UNCHANGED <<tokens, kept, verdict>>

\* Mutant of Oldest: the other end of the sorted entries.
Newest(S, from) == \A a \in S, b \in from \ S : age[a] <= age[b]

\* S are the first of the entries when they are sorted by their last request.
Oldest(S, from) == \A a \in S, b \in from \ S : age[a] >= age[b]

\* sweep: the idle buckets, then, of the others, as many of the oldest as there
\* are too many.  Entries of the same age may be sorted either way.
Sweep ==
  LET active == {a \in kept : age[a] <= IdleTimeout}
      overflow == IF Cardinality(active) > MaxIPs THEN Cardinality(active) - MaxIPs ELSE 0
  IN  /\ \E S \in SUBSET active :
           /\ Cardinality(S) = overflow /\ Oldest(S, active)
           /\ kept' = active \ S
      /\ tokens' = [a \in Addresses |-> IF a \in kept' THEN tokens[a] ELSE Full]
      /\ age' = [a \in Addresses |-> IF a \in kept' THEN age[a] ELSE IdleTimeout + 1]
      /\ UNCHANGED verdict

\* A bucket's tokens as they would be if it were refilled all the time.
Level == [a \in Addresses |-> Refilled(a)]

Buckets == INSTANCE TokenBucket WITH level <- Level, quiet <- age, verdict <- verdict

\* Requests are let through as if every address had its own bucket from the
\* beginning: that idle buckets are removed and refills come late is never seen,
\* and an overflow gives a full bucket only to addresses older than MaxIPs
\* others.
LimitsByTokens == Buckets!Spec
=============================================================================
