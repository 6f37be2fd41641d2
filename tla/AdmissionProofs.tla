---------------------------- MODULE AdmissionProofs ----------------------------
(***************************************************************************)
(* For any addresses, rates and bounds: the limiter of Admission, which    *)
(* keeps few buckets and refills them late, implements TokenBucket.        *)
(***************************************************************************)
EXTENDS Admission, FiniteSetTheorems, TLAPS

LEMMA Bounds ==
  /\ Burst \in Nat /\ Unit \in Nat /\ Rate \in Nat /\ IdleTimeout \in Nat /\ MaxIPs \in Nat
  /\ Unit > 0 /\ Full \in Nat /\ Rate * IdleTimeout \in Nat /\ Rate * IdleTimeout >= Full
<1>1. Burst \in Nat /\ Unit \in Nat /\ Rate \in Nat /\ IdleTimeout \in Nat /\ MaxIPs \in Nat
  BY RateAssumption
<1>2. Burst * Unit \in Nat /\ Rate * IdleTimeout \in Nat
  BY <1>1
<1> QED
  BY <1>1, <1>2, RateAssumption DEF Full

LEMMA SameFull == Buckets!Full = Full
BY DEF Buckets!Full, Full

LEMMA SameLeast == \A i, j \in Nat : Buckets!Least(i, j) = Smaller(i, j)
BY DEF Buckets!Least, Smaller

LEMMA SameCardinality == \A T : Buckets!Cardinality(T) = Cardinality(T)
BY DEF Buckets!Cardinality, Cardinality

\* The buckets are finitely many, none holds more than it may, and an address
\* that asked within the timeout has one.
Bucket ==
  /\ tokens \in [Addresses -> 0..Full] /\ age \in [Addresses -> 0..IdleTimeout + 1]
  /\ kept \subseteq Addresses /\ IsFiniteSet(kept)
  /\ \A a \in Addresses \ kept : age[a] = IdleTimeout + 1

\* What a bucket has gained.
LEMMA Gains ==
  ASSUME Bucket, NEW a \in Addresses
  PROVE  /\ tokens[a] \in Nat /\ tokens[a] <= Full /\ age[a] \in Nat /\ age[a] <= IdleTimeout + 1
         /\ age[a] * Rate \in Nat /\ (age[a] + 1) * Rate = age[a] * Rate + Rate
         /\ age[a] = IdleTimeout + 1 => age[a] * Rate >= Full
         /\ Refilled(a) \in 0..Full
         /\ age[a] = IdleTimeout + 1 => Refilled(a) = Full
<1>1. tokens[a] \in Nat /\ tokens[a] <= Full /\ age[a] \in Nat /\ age[a] <= IdleTimeout + 1
  BY Bounds DEF Bucket
<1>2. age[a] * Rate \in Nat /\ (age[a] + 1) * Rate = age[a] * Rate + Rate
  BY <1>1, Bounds
<1>3. age[a] = IdleTimeout + 1 => age[a] * Rate >= Full
  <2>1. (IdleTimeout + 1) * Rate = Rate * IdleTimeout + Rate
    BY Bounds
  <2> QED
    BY <2>1, Bounds
<1> QED
  BY <1>1, <1>2, <1>3, Bounds DEF Refilled, Smaller

LEMMA AllowStep ==
  ASSUME Bucket, NEW a \in Addresses, Allow(a)
  PROVE  Bucket' /\ Buckets!Ask(a)
<1> DEFINE left == IF Refilled(a) >= Unit THEN Refilled(a) - Unit ELSE Refilled(a)
<1>1. /\ tokens' = [tokens EXCEPT ![a] = left] /\ age' = [age EXCEPT ![a] = 0] /\ kept' = kept \cup {a}
      /\ verdict' = [address |-> a, allowed |-> Refilled(a) >= Unit]
  BY DEF Allow
<1>2. Refilled(a) \in 0..Full /\ left \in 0..Full
  BY Gains, Bounds
<1> HIDE DEF left
<1>3. IsFiniteSet(kept')
  BY <1>1, FS_AddElement DEF Bucket
<1>4. Bucket'
  <2>1. age' \in [Addresses -> 0..IdleTimeout + 1] /\ tokens' \in [Addresses -> 0..Full]
    BY <1>1, <1>2, Bounds DEF Bucket
  <2>2. Full' = Full
    BY DEF Full
  <2> QED
    BY <1>1, <1>3, <2>1, <2>2 DEF Bucket
<1>5. Refilled(a)' = left
  <2>1. a \in kept' /\ tokens'[a] = left /\ age'[a] = 0 /\ 0 * Rate = 0
    BY <1>1, Bounds DEF Bucket
  <2> QED
    BY <1>2, <2>1, Bounds DEF Refilled, Smaller, Full
<1>6. \A b \in Addresses : b # a => Refilled(b)' = Refilled(b)
  BY <1>1 DEF Refilled, Full, Bucket
<1>7. Level' = [Level EXCEPT ![a] = left]
  BY <1>5, <1>6 DEF Level
<1>8. Level[a] = Refilled(a)
  BY DEF Level
<1> QED
  BY <1>1, <1>4, <1>7, <1>8 DEF Buckets!Ask, left

LEMMA TickStep ==
  ASSUME Bucket, Tick
  PROVE  Bucket' /\ Buckets!Tick
<1>1. age' = [a \in Addresses |-> Smaller(age[a] + 1, IdleTimeout + 1)]
      /\ tokens' = tokens /\ kept' = kept /\ verdict' = verdict
  BY DEF Tick
<1>2. \A a \in Addresses : Smaller(age[a] + 1, IdleTimeout + 1) \in 0..IdleTimeout + 1
  BY Gains, Bounds DEF Smaller
<1>3. Bucket'
  <2>1. \A a \in Addresses \ kept : age'[a] = IdleTimeout + 1
    BY <1>1, Bounds DEF Bucket, Smaller
  <2>2. Full' = Full
    BY DEF Full
  <2> QED
    BY <1>1, <1>2, <2>1, <2>2 DEF Bucket
<1>4. ASSUME NEW a \in Addresses
      PROVE  Refilled(a)' = Buckets!Least(Refilled(a) + Rate, Full)
  <2>1. Refilled(a) \in Nat /\ Refilled(a) <= Full
    BY Gains, Bounds
  <2>2. Buckets!Least(Refilled(a) + Rate, Full) = Smaller(Refilled(a) + Rate, Full)
    BY <2>1, SameLeast, Bounds
  <2>3. CASE a \notin kept
    BY <1>1, <2>1, <2>2, <2>3, Bounds DEF Refilled, Smaller, Full
  <2>4. CASE a \in kept /\ age[a] = IdleTimeout + 1
    <3>1. age'[a] = age[a]
      BY <1>1, <2>4, Bounds DEF Smaller
    <3>2. Refilled(a)' = Refilled(a)
      BY <1>1, <3>1 DEF Refilled, Full
    <3> QED
      BY <2>2, <2>4, <3>2, Gains, Bounds DEF Smaller
  <2>5. CASE a \in kept /\ age[a] # IdleTimeout + 1
    <3>1. age'[a] = age[a] + 1
      <4>1. age[a] \in Nat /\ age[a] <= IdleTimeout + 1 /\ IdleTimeout \in Nat
        BY Gains, Bounds
      <4> QED
        BY <1>1, <2>5, <4>1 DEF Smaller
    <3>2. Refilled(a)' = Smaller(tokens[a] + (age[a] * Rate + Rate), Full)
      BY <1>1, <2>5, <3>1, Gains DEF Refilled, Full
    <3> QED
      BY <2>2, <2>5, <3>2, Gains, Bounds DEF Refilled, Smaller
  <2> QED
    BY <2>3, <2>4, <2>5
<1>5. Level' = [a \in Addresses |-> Buckets!Least(Level[a] + Rate, Full)]
  BY <1>4 DEF Level
<1>6. age' = [a \in Addresses |-> Buckets!Least(age[a] + 1, IdleTimeout + 1)]
  BY <1>1, Gains, SameLeast, Bounds
<1> QED
  BY <1>1, <1>3, <1>5, <1>6, SameFull DEF Buckets!Tick

\* Those a sweep removes early have as many others after them as it leaves.
LEMMA OverflowCrowded ==
  ASSUME Bucket, NEW S, S \subseteq {a \in kept : age[a] <= IdleTimeout},
         Cardinality({a \in kept : age[a] <= IdleTimeout}) > MaxIPs,
         Cardinality(S) = Cardinality({a \in kept : age[a] <= IdleTimeout}) - MaxIPs,
         Oldest(S, {a \in kept : age[a] <= IdleTimeout}), NEW a \in S
  PROVE  Buckets!Crowded(a)
<1> DEFINE active == {b \in kept : age[b] <= IdleTimeout}
           after == {b \in Addresses \ {a} : age[b] <= age[a] /\ age[b] <= IdleTimeout}
<1>1. IsFiniteSet(kept) /\ active \subseteq kept /\ after \subseteq kept
  BY Bounds DEF Bucket
<1>2. IsFiniteSet(active) /\ IsFiniteSet(after) /\ IsFiniteSet(S) /\ IsFiniteSet(active \ S)
  BY <1>1, FS_Subset
<1>3. active \ S \subseteq after
  BY DEF Bucket, Oldest
<1>4. Cardinality(active \ S) = Cardinality(active) - Cardinality(active \cap S)
  BY <1>2, FS_Difference
<1>5. active \cap S = S
  OBVIOUS
<1>6. Cardinality(active \ S) <= Cardinality(after)
  BY <1>2, <1>3, FS_Subset
<1>7. Cardinality(active) \in Nat /\ Cardinality(S) \in Nat /\ Cardinality(active \ S) \in Nat
      /\ Cardinality(after) \in Nat
  BY <1>2, FS_CardinalityType
<1>8. Cardinality(after) >= MaxIPs
  <2> HIDE DEF active, after
  <2>1. Cardinality(S) = Cardinality(active) - MaxIPs
    BY DEF active
  <2>2. MaxIPs \in Nat
    BY Bounds
  <2>3. Cardinality(active \ S) = Cardinality(active) - Cardinality(S)
    BY <1>4, <1>5
  <2> QED
    BY <1>6, <1>7, <2>1, <2>2, <2>3
<1> QED
  BY <1>8, SameCardinality DEF Buckets!Crowded

LEMMA SweepStep ==
  ASSUME Bucket, Sweep
  PROVE  Bucket' /\ Buckets!Forget
<1> DEFINE active == {a \in kept : age[a] <= IdleTimeout}
           overflow == IF Cardinality(active) > MaxIPs THEN Cardinality(active) - MaxIPs ELSE 0
<1>1. PICK S \in SUBSET active :
        Cardinality(S) = overflow /\ Oldest(S, active) /\ kept' = active \ S
  BY DEF Sweep
<1>2. /\ tokens' = [a \in Addresses |-> IF a \in kept' THEN tokens[a] ELSE Full]
      /\ age' = [a \in Addresses |-> IF a \in kept' THEN age[a] ELSE IdleTimeout + 1]
      /\ verdict' = verdict /\ kept' \subseteq kept
  BY <1>1 DEF Sweep
<1>3. Bucket'
  <2>1. IsFiniteSet(kept')
    BY <1>2, FS_Subset DEF Bucket
  <2>2. Full' = Full
    BY DEF Full
  <2> QED
    BY <1>2, <2>1, <2>2, Bounds DEF Bucket
<1>4. S \subseteq {a \in Addresses : Buckets!Crowded(a)}
  <2>1. IsFiniteSet(S)
    BY <1>1, FS_Subset DEF Bucket
  <2>2. CASE Cardinality(active) > MaxIPs
    BY <1>1, <2>2, OverflowCrowded DEF Bucket
  <2>3. CASE ~(Cardinality(active) > MaxIPs)
    BY <1>1, <2>1, <2>3, FS_EmptySet
  <2> QED
    BY <2>2, <2>3
<1>5. ASSUME NEW a \in Addresses
      PROVE  /\ Refilled(a)' = IF a \in S THEN Full ELSE Refilled(a)
             /\ age'[a] = IF a \in S THEN IdleTimeout + 1 ELSE age[a]
  <2>1. CASE a \in kept'
    BY <1>1, <1>2, <2>1 DEF Refilled, Full
  <2>2. CASE a \notin kept'
    <3>1. Refilled(a)' = Full /\ age'[a] = IdleTimeout + 1
      BY <1>2, <2>2 DEF Refilled, Full
    <3>2. a \notin S => age[a] = IdleTimeout + 1
      BY <1>1, <2>2, Gains, Bounds DEF Bucket
    <3> QED
      BY <3>1, <3>2, Gains
  <2> QED
    BY <2>1, <2>2
<1>6. /\ Level' = [a \in Addresses |-> IF a \in S THEN Full ELSE Level[a]]
      /\ age' = [a \in Addresses |-> IF a \in S THEN IdleTimeout + 1 ELSE age[a]]
  BY <1>2, <1>5 DEF Level
<1> QED
  BY <1>2, <1>3, <1>4, <1>6, SameFull DEF Buckets!Forget

\* Requests are let through as if every address had had its own bucket all the
\* time, but for addresses an overflow removed behind MaxIPs later ones.
THEOREM AdmitsByTokens == Spec => LimitsByTokens
<1>1. Init => Bucket /\ Buckets!Init
  <2> SUFFICES ASSUME Init PROVE Bucket /\ Buckets!Init
    OBVIOUS
  <2>1. Bucket
    BY FS_EmptySet, Bounds DEF Init, LimiterInit, Bucket
  <2>2. Level = [a \in Addresses |-> Full]
    BY DEF Init, LimiterInit, Level, Refilled
  <2> QED
    BY <2>1, <2>2, SameFull DEF Init, LimiterInit, Buckets!Init
<1>2. Bucket /\ [Next]_vars => Bucket' /\ [Buckets!Next]_(Buckets!buckets)
  <2> SUFFICES ASSUME Bucket, [Next]_vars PROVE Bucket' /\ [Buckets!Next]_(Buckets!buckets)
    OBVIOUS
  <2>1. ASSUME UNCHANGED limiter PROVE Bucket' /\ UNCHANGED Buckets!buckets
    <3>1. Level' = Level
      BY <2>1 DEF limiter, Level, Refilled, Full
    <3> QED
      BY <2>1, <3>1 DEF limiter, Bucket, Buckets!buckets, Full
  <2>2. ASSUME NEW c \in Clients, Arrive(c) PROVE Bucket' /\ Buckets!Next
    BY <2>2, AllowStep DEF Arrive, Buckets!Next
  <2>3. ASSUME Passes PROVE Bucket' /\ Buckets!Next
    BY <2>3, TickStep, SweepStep DEF Passes, Buckets!Next
  <2>4. ASSUME NEW c \in Clients, Leave(c) PROVE UNCHANGED limiter
    BY <2>4 DEF Leave
  <2>5. ASSUME NEW p \in Procs, Step(p) PROVE UNCHANGED limiter
    BY <2>5 DEF Step
  <2>6. TickerStarts \/ TickerTimesOut \/ UNCHANGED vars => UNCHANGED limiter
    BY DEF TickerStarts, TickerTimesOut, vars
  <2> QED
    BY <2>1, <2>2, <2>3, <2>4, <2>5, <2>6 DEF Next
<1> QED
  BY <1>1, <1>2, PTL DEF Spec, LimitsByTokens, Buckets!Spec
=============================================================================
