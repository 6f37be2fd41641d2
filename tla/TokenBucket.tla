------------------------------ MODULE TokenBucket ------------------------------
(***************************************************************************)
(* What the rate limiter promises: a bucket of tokens for every address,   *)
(* refilled as time goes by and never forgotten, except that an address    *)
(* may get a full bucket early when MaxIPs others were active since.       *)
(* RateLimiter, which keeps few buckets and refills them late, implements  *)
(* this.                                                                   *)
(***************************************************************************)
EXTENDS Naturals, FiniteSets

CONSTANTS Addresses, Burst, Unit, Rate, IdleTimeout, MaxIPs

VARIABLES
  level,      \* parts of tokens in the bucket of each address
  quiet,      \* ticks since each address last asked, up to IdleTimeout + 1
  verdict     \* the last request: its address, and whether it was let through

buckets == <<level, quiet, verdict>>

Full == Burst * Unit
Least(i, j) == IF i < j THEN i ELSE j

Init ==
  /\ level = [a \in Addresses |-> Full] /\ quiet = [a \in Addresses |-> IdleTimeout + 1]
  /\ verdict = [address |-> "none", allowed |-> FALSE]

\* A request takes a token or is refused.
Ask(a) ==
  /\ verdict' = [address |-> a, allowed |-> level[a] >= Unit]
  /\ level' = [level EXCEPT ![a] = IF @ >= Unit THEN @ - Unit ELSE @]
  /\ quiet' = [quiet EXCEPT ![a] = 0]

Tick ==
  /\ level' = [a \in Addresses |-> Least(level[a] + Rate, Full)]
  /\ quiet' = [a \in Addresses |-> Least(quiet[a] + 1, IdleTimeout + 1)]
  /\ UNCHANGED verdict

\* MaxIPs other addresses asked after this one, or in the same tick.
Crowded(a) ==
  Cardinality({b \in Addresses \ {a} : quiet[b] <= quiet[a] /\ quiet[b] <= IdleTimeout}) >= MaxIPs

\* The buckets of some addresses are filled early.
Forget ==
  /\ \E S \in SUBSET {a \in Addresses : Crowded(a)} :
       /\ level' = [a \in Addresses |-> IF a \in S THEN Full ELSE level[a]]
       /\ quiet' = [a \in Addresses |-> IF a \in S THEN IdleTimeout + 1 ELSE quiet[a]]
  /\ UNCHANGED verdict

Next == (\E a \in Addresses : Ask(a)) \/ Tick \/ Forget

Spec == Init /\ [][Next]_buckets
=============================================================================
