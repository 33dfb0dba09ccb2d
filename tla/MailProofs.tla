----------------------------- MODULE MailProofs -----------------------------
(***************************************************************************)
(* Proofs about how mail leaves: the send rate, and the transport.         *)
(***************************************************************************)
EXTENDS SendRate, MailTransport, TLAPS

-----------------------------------------------------------------------------
(***************************************************************************)
(* Proofs about SendRate: the bound on the messages that leave in a span   *)
(* of time, for every rate, burst, expiry and number of workers.           *)
(***************************************************************************)

USE SendRateAssumption

\* The clock, the bucket and the history, without the workers.
ClockOK ==
    /\ rateNow \in Nat
    /\ bucket \in [exists : BOOLEAN, tokens : 0..RateFull, at : Nat] /\ bucket.at <= rateNow
    /\ grants \in Seq(Nat) /\ \A i \in 1..Len(grants) : grants[i] <= rateNow

\* What was granted since a slot, and what can be had at once, was there or was
\* earned since.
Earned ==
    \A i \in 1..Len(grants) :
        (Len(grants) - i + 1) * Cost + Level <= RateFull + (rateNow - grants[i]) * Gain

RateInv == ClockOK /\ Earned /\ RateBound

\* The capacity of the bucket, and that its key outlives a refill.
LEMMA FullNat == RateFull \in Nat /\ Cost <= RateFull /\ BucketTtl > 0 /\ RateFull <= BucketTtl * Gain
  <1>1. RateFull \in Nat /\ Cost <= RateFull
    BY DEF RateFull
  <1>2. RateFull <= Gain * BucketTtl
    BY DEF RateFull
  <1>3. BucketTtl = 0 => Gain * BucketTtl = 0
    OBVIOUS
  <1>4. Gain * BucketTtl = BucketTtl * Gain
    OBVIOUS
  <1> QED BY <1>1, <1>2, <1>3, <1>4

\* The level of the bucket lies between empty and full.
LEMMA LevelNat ==
    ASSUME ClockOK
    PROVE  Level \in 0..RateFull
  <1>1. (rateNow - bucket.at) * Gain \in Nat /\ bucket.tokens \in 0..RateFull
    BY DEF ClockOK
  <1> QED BY <1>1, FullNat DEF Level, Capped

\* The level of the bucket lies between empty and full after a step, too.
LEMMA LevelNatNext ==
    ASSUME ClockOK'
    PROVE  Level' \in 0..RateFull
  <1>1. (rateNow' - bucket'.at) * Gain \in Nat /\ bucket'.tokens \in 0..RateFull
    BY DEF ClockOK, RateFull
  <1> QED BY <1>1, FullNat DEF Level, Capped, RateFull

\* The arithmetic of the steps below.
LEMMA Spans ==
    ASSUME NEW a \in Int, NEW b \in Int, NEW c \in Int, NEW g \in Int
    PROVE  (b - c) * g = (a - c) * g + (b - a) * g /\ (a - c) * g \in Int /\ (b - a) * g \in Int
  OBVIOUS

\* One send more costs one send more.
LEMMA Counts ==
    ASSUME NEW n \in Int, NEW i \in Int, NEW c \in Int
    PROVE  (n + 1 - i + 1) * c = (n - i + 1) * c + c /\ (n - i + 1) * c \in Int
  OBVIOUS

\* A time unit earns no more than Gain, also when the bucket expires.
LEMMA LevelTick ==
    ASSUME ClockOK, rateNow' = rateNow + 1, bucket' = bucket
    PROVE  Level' <= Level + Gain
  <1> DEFINE d == rateNow - bucket.at
  <1>1. bucket.tokens \in 0..RateFull /\ d \in Nat /\ bucket.at \in Nat /\ rateNow \in Nat
    BY DEF ClockOK
  <1>2. (d + 1) * Gain = d * Gain + Gain /\ d * Gain \in Nat
    BY <1>1
  <1>3. rateNow' - bucket.at = d + 1
    BY <1>1
  <1>4. CASE bucket.exists /\ rateNow' < bucket.at + BucketTtl
    <2>1. Level' = Capped(bucket.tokens + (d + 1) * Gain)
      BY <1>3, <1>4 DEF Level, Capped
    <2>2. Level = Capped(bucket.tokens + d * Gain)
      BY <1>1, <1>4 DEF Level
    <2> QED BY <1>1, <1>2, <2>1, <2>2, FullNat DEF Capped
  <1>5. CASE bucket.exists /\ ~ (rateNow' < bucket.at + BucketTtl) /\ rateNow < bucket.at + BucketTtl
    <2>1. d + 1 = BucketTtl
      BY <1>1, <1>5
    <2>2. Level = Capped(bucket.tokens + d * Gain) /\ Level' = RateFull
      BY <1>5 DEF Level, RateFull
    <2>3. RateFull <= d * Gain + Gain
      BY <1>2, <2>1, FullNat
    <2> QED BY <1>1, <1>2, <2>2, <2>3, FullNat DEF Capped
  <1>6. CASE ~ bucket.exists \/ ~ (rateNow < bucket.at + BucketTtl)
    <2>1. Level = RateFull /\ Level' = RateFull
      BY <1>1, <1>6 DEF Level, RateFull
    <2> QED BY <2>1, FullNat
  <1> QED BY <1>1, <1>4, <1>5, <1>6

\* What is stored is what is there.
LEMMA LevelStored ==
    ASSUME ClockOK, NEW n \in 0..RateFull, bucket' = Stored(n), rateNow' = rateNow
    PROVE  Level' = n /\ bucket' \in [exists : BOOLEAN, tokens : 0..RateFull, at : Nat] /\ bucket'.at <= rateNow'
  <1>1. bucket'.exists /\ bucket'.tokens = n /\ bucket'.at = rateNow /\ rateNow \in Nat
    BY DEF Stored, ClockOK
  <1>2. (rateNow' - bucket'.at) * Gain = 0
    BY <1>1
  <1>3. RateFull' = RateFull
    BY DEF RateFull
  <1>4. Level' = n
    BY <1>1, <1>2, <1>3, FullNat DEF Level, Capped
  <1>5. bucket' \in [exists : BOOLEAN, tokens : 0..RateFull, at : Nat]
    BY <1>1 DEF Stored
  <1> QED BY <1>1, <1>4, <1>5

\* Steps that grant nothing and leave the level alone, or let a time unit pass.
LEMMA QuietStep ==
    ASSUME RateInv, grants' = grants, rateNow' \in Nat, rateNow <= rateNow',
           bucket' \in [exists : BOOLEAN, tokens : 0..RateFull, at : Nat], bucket'.at <= rateNow',
           Level' <= Level + (rateNow' - rateNow) * Gain
    PROVE  RateInv'
  <1>1. ClockOK /\ Earned /\ RateBound
    BY DEF RateInv
  <1>2. ClockOK'
    <2>1. rateNow \in Nat /\ grants \in Seq(Nat) /\ \A i \in 1..Len(grants) : grants[i] <= rateNow
      BY <1>1, Zenon DEF ClockOK
    <2>2. RateFull' = RateFull
      BY Zenon DEF RateFull
    <2>3. \A i \in 1..Len(grants) : grants[i] <= rateNow'
      <3> SUFFICES ASSUME NEW i \in 1..Len(grants) PROVE grants[i] <= rateNow'
        OBVIOUS
      <3>1. grants[i] \in Nat /\ grants[i] <= rateNow
        BY <2>1
      <3> QED BY <2>1, <3>1
    <2>4. grants' \in Seq(Nat) /\ \A i \in 1..Len(grants') : grants'[i] <= rateNow'
      BY <2>1, <2>3, Zenon
    <2> QED BY <2>2, <2>4, Zenon DEF ClockOK
  <1>3. Earned'
    <2> SUFFICES ASSUME NEW i \in 1..Len(grants)
                 PROVE  (Len(grants) - i + 1) * Cost + Level' <= RateFull + (rateNow' - grants[i]) * Gain
      BY DEF Earned, RateFull
    <2>1. (Len(grants) - i + 1) * Cost + Level <= RateFull + (rateNow - grants[i]) * Gain
      BY <1>1 DEF Earned
    <2>2. grants[i] \in Nat /\ rateNow \in Nat /\ Len(grants) \in Nat /\ i \in Nat
      <3>1. grants \in Seq(Nat) /\ rateNow \in Nat
        BY <1>1 DEF ClockOK
      <3> QED BY <3>1
    <2>3. (rateNow' - grants[i]) * Gain = (rateNow - grants[i]) * Gain + (rateNow' - rateNow) * Gain
          /\ (rateNow - grants[i]) * Gain \in Int /\ (rateNow' - rateNow) * Gain \in Int
      BY <2>2, Spans
    <2>4. Level \in Nat /\ Level' \in Nat
      BY <1>1, <1>2, LevelNat, LevelNatNext, FullNat
    <2>5. (Len(grants) - i + 1) * Cost \in Int
      BY <2>2, Counts
    <2> DEFINE x == (Len(grants) - i + 1) * Cost
               y == (rateNow - grants[i]) * Gain
               z == (rateNow' - rateNow) * Gain
    <2>6. x + Level <= RateFull + y /\ Level' <= Level + z /\ x \in Int /\ y \in Int /\ z \in Int
      BY <2>1, <2>3, <2>5
    <2>7. (rateNow' - grants[i]) * Gain = y + z
      BY <2>3
    <2> HIDE DEF x, y, z
    <2>8. x + Level' <= RateFull + (y + z)
      <3>1. \A l, m, f \in Nat : (x + l <= f + y /\ m <= l + z) => x + m <= f + (y + z)
        BY <2>6
      <3> QED BY <2>4, <2>6, <3>1, FullNat
    <2> QED BY <2>7, <2>8 DEF x
  <1>4. RateBound'
    BY <1>1 DEF RateBound, RateFull
  <1> QED BY <1>2, <1>3, <1>4 DEF RateInv

\* A granted slot is paid from the bucket.
LEMMA GrantStep ==
    ASSUME RateInv, NEW w \in Workers, Grant(w)
    PROVE  RateInv'
  <1>1. ClockOK /\ Earned /\ RateBound
    BY DEF RateInv
  <1>2. Level \in 0..RateFull /\ Level - Cost \in 0..RateFull /\ rateNow' = rateNow /\ bucket' = Stored(Level - Cost)
        /\ grants' = Append(grants, rateNow)
    <2>1. Level \in 0..RateFull /\ Level >= Cost /\ RateFull \in Nat
      BY <1>1, LevelNat, FullNat DEF Grant
    <2>2. Level - Cost \in 0..RateFull
      BY <2>1
    <2> QED BY <2>1, <2>2 DEF Grant
  <1>3. Level' = Level - Cost /\ bucket' \in [exists : BOOLEAN, tokens : 0..RateFull, at : Nat]
        /\ bucket'.at <= rateNow'
    BY <1>1, <1>2, LevelStored
  <1> DEFINE n == Len(grants)
  <1>4. n \in Nat /\ Len(grants') = n + 1 /\ grants'[n + 1] = rateNow /\ rateNow \in Nat
        /\ grants' \in Seq(Nat)
        /\ \A i \in 1..n : grants'[i] = grants[i] /\ grants[i] \in Nat /\ grants[i] <= rateNow
    BY <1>1, <1>2 DEF ClockOK
  <1> HIDE DEF n
  <1>5. ClockOK'
    BY <1>2, <1>3, <1>4 DEF ClockOK, RateFull
  <1>6. \A i \in 1..n : (n - i + 1) * Cost + Level <= RateFull + (rateNow - grants[i]) * Gain
    BY <1>1 DEF Earned, n
  <1>7. Earned'
    <2> SUFFICES ASSUME NEW i \in 1..n + 1
                 PROVE  (n + 1 - i + 1) * Cost + Level' <= RateFull + (rateNow - grants'[i]) * Gain
      BY <1>2, <1>4 DEF Earned, RateFull
    <2>1. CASE i = n + 1
      <3>1. (n + 1 - i + 1) * Cost = Cost /\ (rateNow - grants'[i]) * Gain = 0
        BY <1>4, <2>1
      <3>2. Cost + Level' <= RateFull + 0
        BY <1>2, <1>3, FullNat
      <3> QED BY <3>1, <3>2
    <2>2. CASE i \in 1..n
      <3> DEFINE x == (n - i + 1) * Cost
                 y == (rateNow - grants[i]) * Gain
      <3>1. (n + 1 - i + 1) * Cost = x + Cost /\ x \in Int
        BY <1>4, <2>2, Counts
      <3>2. y \in Int /\ grants'[i] = grants[i]
        BY <1>4, <2>2
      <3>3. x + Level <= RateFull + y
        BY <1>6, <2>2
      <3> HIDE DEF x, y
      <3>4. x + Cost + Level' <= RateFull + y
        BY <1>2, <1>3, <3>1, <3>2, <3>3, FullNat
      <3> QED BY <3>1, <3>2, <3>4 DEF y
    <2> QED BY <1>4, <2>1, <2>2
  <1>8. RateBound'
    <2> SUFFICES ASSUME NEW i \in 1..n + 1, NEW j \in 1..n + 1, i <= j
                 PROVE  (j - i + 1) * Cost <= RateFull + (grants'[j] - grants'[i]) * Gain
      BY <1>4 DEF RateBound, RateFull
    <2>1. CASE j \in 1..n
      <3>0. i \in 1..n
        BY <1>4, <2>1
      <3>1. (j - i + 1) * Cost <= RateFull + (grants[j] - grants[i]) * Gain
        BY <1>1, <2>1, <3>0 DEF RateBound, n
      <3> QED BY <1>4, <2>1, <3>0, <3>1
    <2>2. CASE j = n + 1 /\ i = n + 1
      <3>1. (j - i + 1) * Cost = Cost /\ (grants'[j] - grants'[i]) * Gain = 0
        BY <1>4, <2>2
      <3> QED BY <3>1, FullNat
    <2>3. CASE j = n + 1 /\ i \in 1..n
      <3> DEFINE x == (n - i + 1) * Cost
                 y == (rateNow - grants[i]) * Gain
      <3>1. (j - i + 1) * Cost = x + Cost /\ x \in Int
        BY <1>4, <2>3, Counts
      <3>2. y \in Int /\ grants'[i] = grants[i] /\ grants'[j] = rateNow
        BY <1>4, <2>3
      <3>3. x + Level <= RateFull + y /\ Level >= Cost
        BY <1>6, <2>3 DEF Grant
      <3> HIDE DEF x, y
      <3>4. x + Cost <= RateFull + y
        BY <1>2, <3>1, <3>2, <3>3, FullNat
      <3> QED BY <3>1, <3>2, <3>4 DEF y
    <2> QED BY <1>4, <2>1, <2>2, <2>3
  <1> QED BY <1>5, <1>7, <1>8 DEF RateInv

\* RateInv is an invariant of the pacing.
THEOREM RateInductive == RateSpec => []RateInv
  <1>1. RateInit => RateInv
    BY FullNat DEF RateInit, RateInv, ClockOK, Earned, RateBound
  <1>2. RateInv /\ [RateNext]_rateVars => RateInv'
    <2> SUFFICES ASSUME RateInv, [RateNext]_rateVars PROVE RateInv'
      OBVIOUS
    <2>1. ClockOK
      BY DEF RateInv
    <2>2. rateNow \in Nat /\ Level \in 0..RateFull /\ bucket \in [exists : BOOLEAN, tokens : 0..RateFull, at : Nat]
          /\ bucket.at <= rateNow
      BY <2>1, LevelNat DEF ClockOK
    <2>3. ASSUME NEW w \in Workers, Empty(w)
          PROVE  RateInv'
      <3>1. rateNow' = rateNow /\ grants' = grants /\ bucket' = Stored(Level)
        BY <2>3 DEF Empty
      <3>2. Level' = Level /\ bucket' \in [exists : BOOLEAN, tokens : 0..RateFull, at : Nat] /\ bucket'.at <= rateNow'
        BY <2>1, <2>2, <3>1, LevelStored
      <3> QED BY <2>2, <3>1, <3>2, QuietStep, FullNat
    <2>4. CASE RateTick
      <3>1. rateNow' = rateNow + 1 /\ grants' = grants /\ bucket' = bucket
        BY <2>4 DEF RateTick
      <3>2. Level' <= Level + Gain /\ (rateNow' - rateNow) * Gain = Gain
        BY <2>1, <2>2, <3>1, LevelTick
      <3> QED BY <2>2, <3>1, <3>2, QuietStep
    <2>5. CASE rateNow' = rateNow /\ grants' = grants /\ bucket' = bucket
      <3>1. Level' = Level
        BY <2>5 DEF Level, Capped, RateFull
      <3> QED BY <2>2, <2>5, <3>1, QuietStep, FullNat
    <2>6. \/ \E w \in Workers : Grant(w) \/ Empty(w)
          \/ RateTick
          \/ rateNow' = rateNow /\ grants' = grants /\ bucket' = bucket
      BY DEF RateNext, rateVars, Cooling, Wake, Again, BackOff
    <2> QED BY <2>3, <2>4, <2>5, <2>6, GrantStep
  <1> QED BY <1>1, <1>2, PTL DEF RateSpec

\* takeSlot: no span of time grants more than the burst and what the rate earns in
\* it, whatever the rate, the burst, the expiry of the bucket and the cooldowns.
THEOREM RateBounded == RateSpec => []RateBound
  <1>1. RateInv => RateBound
    BY DEF RateInv
  <1> QED BY <1>1, RateInductive, PTL


-----------------------------------------------------------------------------
(* The waits *)

\* BucketWait rounds up: the wait earns what is missing, and a time unit less does not.
LEMMA CeilDivBounds ==
    ASSUME NEW n \in Nat \ {0}, NEW d \in Nat \ {0}
    PROVE  /\ CeilDiv(n, d) \in Nat \ {0}
           /\ CeilDiv(n, d) * d >= n /\ (CeilDiv(n, d) - 1) * d < n
  <1> DEFINE q == (n + d - 1) \div d
  <1>1. q \in Int /\ q * d <= n + d - 1 /\ n + d - 1 < (q + 1) * d
    OBVIOUS
  <1> HIDE DEF q
  <1>2. (q + 1) * d = q * d + d /\ (q - 1) * d = q * d - d /\ q * d \in Int
    BY <1>1
  <1>3. q * d >= n /\ (q - 1) * d < n
    BY <1>1, <1>2
  <1>4. q > 0
    <2>1. q <= 0 => q * d <= 0
      BY <1>1
    <2> QED BY <1>1, <1>3, <2>1
  <1> QED BY <1>1, <1>3, <1>4 DEF CeilDiv, q

\* A time unit earns exactly Gain, up to the burst, also when the bucket expires.
LEMMA LevelTickExact ==
    ASSUME ClockOK, rateNow' = rateNow + 1, bucket' = bucket
    PROVE  Level' = Capped(Level + Gain)
  <1> DEFINE d == rateNow - bucket.at
  <1>1. bucket.tokens \in 0..RateFull /\ d \in Nat /\ bucket.at \in Nat /\ rateNow \in Nat /\ RateFull \in Nat
    BY FullNat DEF ClockOK
  <1>2. (d + 1) * Gain = d * Gain + Gain /\ d * Gain \in Nat
    BY <1>1
  <1>3. rateNow' - bucket'.at = d + 1
    BY <1>1
  <1>4. CASE bucket.exists /\ rateNow + 1 < bucket.at + BucketTtl
    BY <1>1, <1>2, <1>3, <1>4 DEF Level, Capped, RateFull
  <1>5. CASE bucket.exists /\ rateNow + 1 = bucket.at + BucketTtl
    <2>1. d + 1 = BucketTtl
      BY <1>1, <1>5
    <2>2. d * Gain + Gain >= RateFull
      BY <1>2, <2>1, FullNat
    <2> QED BY <1>1, <1>2, <1>3, <1>5, <2>2 DEF Level, Capped, RateFull
  <1>6. CASE ~bucket.exists \/ rateNow >= bucket.at + BucketTtl
    BY <1>1, <1>2, <1>3, <1>6 DEF Level, Capped, RateFull
  <1> QED BY <1>1, <1>4, <1>5, <1>6

\* A sleeper whose answer is still good: what is missing now is earned at its wake-up and not before.
Awaited(w) ==
    LET left == worker[w].wake - rateNow
    IN  IF left <= 0 THEN Level >= Cost
        ELSE Level < Cost /\ Level + left * Gain >= Cost /\ Level + (left - 1) * Gain < Cost
WaitInv == \A w \in Workers : (worker[w].pc = "sleep" /\ worker[w].fresh) => Awaited(w)

\* What waitForSlot makes of an answer: it sleeps within its budget or gives up, and nobody else moves.
LEMMA WaitsShape ==
    ASSUME worker \in [Workers -> Worker], rateNow \in 0..MaxTime,
           NEW w \in Workers, NEW wait \in Nat, NEW f \in BOOLEAN, Waits(w, wait, f)
    PROVE  /\ worker' \in [Workers -> Worker]
           /\ \A v \in Workers : v # w => worker'[v] = worker[v]
           /\ worker'[w].pc = "sleep" => worker'[w].wake = rateNow + wait /\ worker'[w].fresh = f
  <1>1. worker[w] \in Worker /\ worker[w].waited \in 0..MaxWait
    BY DEF Worker
  <1>2. CASE worker[w].waited + wait > MaxWait
    <2> DEFINE r == [worker[w] EXCEPT !.pc = "refused", !.fresh = FALSE]
    <2>1. r \in Worker /\ r.pc = "refused"
      BY <1>1 DEF Worker
    <2>2. worker' = [worker EXCEPT ![w] = r]
      BY <1>2 DEF Waits
    <2> HIDE DEF r
    <2> QED BY <2>1, <2>2
  <1>3. CASE ~(worker[w].waited + wait > MaxWait)
    <2> DEFINE r == [pc |-> "sleep", waited |-> worker[w].waited + wait, wake |-> rateNow + wait, fresh |-> f]
    <2>1. worker[w].waited + wait \in 0..MaxWait /\ rateNow + wait \in 0..MaxTime + MaxWait
      BY <1>1, <1>3
    <2>2. r \in Worker /\ r.wake = rateNow + wait /\ r.fresh = f
      BY <2>1 DEF Worker
    <2>3. worker' = [worker EXCEPT ![w] = r]
      BY <1>3 DEF Waits
    <2> HIDE DEF r
    <2> QED BY <2>2, <2>3
  <1> QED BY <1>2, <1>3

\* A worker that waits for the cool-down moves by itself.
LEMMA CoolingShape ==
    ASSUME worker \in [Workers -> Worker], rateNow \in 0..MaxTime, cool \in Nat,
           NEW w \in Workers, Cooling(w)
    PROVE  /\ worker' \in [Workers -> Worker]
           /\ \A v \in Workers : v # w => worker'[v] = worker[v]
           /\ worker'[w].pc = "sleep" => worker'[w].fresh = FALSE
           /\ UNCHANGED <<rateNow, bucket, cool, grants>>
  <1>1. cool - rateNow \in Nat
    BY DEF Cooling
  <1>2. Waits(w, cool - rateNow, FALSE) /\ UNCHANGED <<rateNow, bucket, cool, grants>>
    BY Zenon DEF Cooling
  <1> QED BY <1>1, <1>2, WaitsShape

\* A worker that finds the bucket too empty waits for a positive time.
LEMMA EmptyShape ==
    ASSUME worker \in [Workers -> Worker], rateNow \in 0..MaxTime, ClockOK,
           NEW w \in Workers, Empty(w)
    PROVE  /\ Level < Cost /\ BucketWait(Level) \in Nat \ {0}
           /\ BucketWait(Level) * Gain >= Cost - Level /\ (BucketWait(Level) - 1) * Gain < Cost - Level
           /\ worker' \in [Workers -> Worker]
           /\ \A v \in Workers : v # w => worker'[v] = worker[v]
           /\ worker'[w].pc = "sleep" => worker'[w].wake = rateNow + BucketWait(Level)
           /\ bucket' = Stored(Level) /\ UNCHANGED <<rateNow, cool, grants>>
  <1>1. /\ Level < Cost /\ bucket' = Stored(Level)
        /\ Waits(w, BucketWait(Level), TRUE) /\ UNCHANGED <<rateNow, cool, grants>>
    BY Zenon DEF Empty
  <1>2. Cost - Level \in Nat \ {0}
    BY <1>1, LevelNat, FullNat
  <1>3. /\ BucketWait(Level) \in Nat \ {0}
        /\ BucketWait(Level) * Gain >= Cost - Level /\ (BucketWait(Level) - 1) * Gain < Cost - Level
    BY <1>2, CeilDivBounds DEF BucketWait
  <1> QED BY <1>1, <1>3, WaitsShape

\* The other steps a worker takes.
LEMMA TurnShape ==
    ASSUME worker \in [Workers -> Worker], NEW w \in Workers, Wake(w) \/ Again(w)
    PROVE  /\ worker' \in [Workers -> Worker]
           /\ \A v \in Workers : v # w => worker'[v] = worker[v]
           /\ worker'[w].pc = "ask"
           /\ UNCHANGED <<rateNow, bucket, cool, grants>>
  <1>1. worker[w] \in Worker
    OBVIOUS
  <1>2. CASE Wake(w)
    <2> DEFINE r == [worker[w] EXCEPT !.pc = "ask"]
    <2>1. r \in Worker /\ r.pc = "ask"
      BY <1>1 DEF Worker
    <2>2. worker' = [worker EXCEPT ![w] = r] /\ UNCHANGED <<rateNow, bucket, cool, grants>>
      BY <1>2 DEF Wake
    <2> HIDE DEF r
    <2> QED BY <2>1, <2>2
  <1>3. CASE Again(w)
    <2> DEFINE r == [pc |-> "ask", waited |-> 0, wake |-> 0, fresh |-> FALSE]
    <2>1. r \in Worker /\ r.pc = "ask"
      BY DEF Worker
    <2>2. worker' = [worker EXCEPT ![w] = r] /\ UNCHANGED <<rateNow, bucket, cool, grants>>
      BY <1>3 DEF Again
    <2> HIDE DEF r
    <2> QED BY <2>1, <2>2
  <1> QED BY <1>2, <1>3

\* A grant makes every other answer stale.
LEMMA GrantShape ==
    ASSUME worker \in [Workers -> Worker], NEW w \in Workers, Grant(w)
    PROVE  /\ worker' \in [Workers -> Worker]
           /\ \A v \in Workers : worker'[v].fresh = FALSE
           /\ rateNow' = rateNow /\ cool' = cool /\ grants' = Append(grants, rateNow)
  <1>1. ASSUME NEW v \in Workers
        PROVE  worker'[v] \in Worker /\ worker'[v].fresh = FALSE
    BY DEF Grant, Worker
  <1>2. worker' = [v \in Workers |-> worker'[v]]
    BY DEF Grant
  <1>3. rateNow' = rateNow /\ cool' = cool /\ grants' = Append(grants, rateNow)
    BY DEF Grant
  <1>4. worker' \in [Workers -> Worker]
    BY <1>1, <1>2
  <1> QED BY <1>1, <1>3, <1>4

\* The types of the pacing hold throughout.
LEMMA TypeStep ==
    ASSUME RateTypeOK, ClockOK, ClockOK', [RateNext]_rateVars
    PROVE  RateTypeOK'
  <1>1. /\ rateNow \in 0..MaxTime /\ cool \in Nat /\ worker \in [Workers -> Worker]
        /\ grants \in Seq(0..MaxTime) /\ bucket \in Bucket
    BY DEF RateTypeOK
  <1>2. SUFFICES rateNow' \in 0..MaxTime /\ cool' \in Nat /\ worker' \in [Workers -> Worker]
                 /\ grants' \in Seq(0..MaxTime)
    <2>1. ASSUME rateNow' \in 0..MaxTime PROVE bucket' \in Bucket /\ bucket'.at <= rateNow'
      BY <2>1 DEF ClockOK, Bucket, RateFull
    <2> QED BY <2>1 DEF RateTypeOK
  <1>3. ASSUME NEW w \in Workers, Grant(w)
        PROVE  rateNow' \in 0..MaxTime /\ cool' \in Nat /\ worker' \in [Workers -> Worker]
               /\ grants' \in Seq(0..MaxTime)
    <2>1. grants' = Append(grants, rateNow) /\ rateNow' = rateNow /\ cool' = cool /\ worker' \in [Workers -> Worker]
      BY <1>1, <1>3, GrantShape
    <2>2. Append(grants, rateNow) \in Seq(0..MaxTime)
      BY <1>1
    <2> QED BY <1>1, <2>1, <2>2
  <1>4. ASSUME NEW w \in Workers, Cooling(w)
        PROVE  rateNow' \in 0..MaxTime /\ cool' \in Nat /\ worker' \in [Workers -> Worker]
               /\ grants' \in Seq(0..MaxTime)
    BY <1>1, <1>4, CoolingShape
  <1>5. ASSUME NEW w \in Workers, Empty(w)
        PROVE  rateNow' \in 0..MaxTime /\ cool' \in Nat /\ worker' \in [Workers -> Worker]
               /\ grants' \in Seq(0..MaxTime)
    BY <1>1, <1>5, EmptyShape
  <1>6. ASSUME NEW w \in Workers, Wake(w) \/ Again(w)
        PROVE  rateNow' \in 0..MaxTime /\ cool' \in Nat /\ worker' \in [Workers -> Worker]
               /\ grants' \in Seq(0..MaxTime)
    BY <1>1, <1>6, TurnShape
  <1>7. CASE (\E c \in Cooldowns : BackOff(c)) \/ RateTick \/ UNCHANGED rateVars
    BY <1>1, <1>7 DEF BackOff, RateTick, rateVars
  <1> QED BY <1>3, <1>4, <1>5, <1>6, <1>7 DEF RateNext

\* A sleeper's account is kept through time, other workers and cooldowns, until a slot is granted.
LEMMA WaitStep ==
    ASSUME RateTypeOK, ClockOK, WaitInv, [RateNext]_rateVars
    PROVE  WaitInv'
  <1>1. SUFFICES ASSUME NEW w \in Workers, worker'[w].pc = "sleep", worker'[w].fresh
                 PROVE  Awaited(w)'
    BY DEF WaitInv
  <1>2. /\ rateNow \in 0..MaxTime /\ cool \in Nat /\ worker \in [Workers -> Worker] /\ Level \in 0..RateFull
        /\ RateFull \in Nat /\ Cost <= RateFull
    BY LevelNat, FullNat DEF RateTypeOK, ClockOK
  <1>3. ASSUME NEW v \in Workers, Grant(v) PROVE FALSE
    BY <1>1, <1>2, <1>3, GrantShape
  <1>4. ASSUME worker'[w] = worker[w], rateNow' = rateNow, Level' = Level
        PROVE  Awaited(w)'
    BY <1>1, <1>4 DEF WaitInv, Awaited
  <1>5. ASSUME NEW v \in Workers, Cooling(v)
        PROVE  Awaited(w)'
    <2>1. worker'[w] = worker[w] /\ rateNow' = rateNow /\ bucket' = bucket
      BY <1>1, <1>2, <1>5, CoolingShape
    <2> QED BY <1>4, <2>1 DEF Level, Capped, RateFull
  <1>6. ASSUME NEW v \in Workers, Empty(v)
        PROVE  Awaited(w)'
    <2> DEFINE wait == BucketWait(Level)
    <2>1. /\ rateNow' = rateNow /\ bucket' = Stored(Level) /\ Level < Cost
          /\ wait \in Nat \ {0} /\ wait * Gain >= Cost - Level /\ (wait - 1) * Gain < Cost - Level
          /\ v # w => worker'[w] = worker[w]
          /\ v = w => worker'[w].wake = rateNow + wait
      BY <1>1, <1>2, <1>6, EmptyShape
    <2> HIDE DEF wait
    <2>2. Level' = Level
      BY <1>2, <2>1, LevelStored
    <2>3. CASE v # w
      BY <1>4, <2>1, <2>2, <2>3
    <2>4. CASE v = w
      <3>1. worker'[w].wake - rateNow' = wait
        BY <1>2, <2>1, <2>4
      <3>2. wait * Gain \in Nat /\ (wait - 1) * Gain \in Nat
        BY <2>1
      <3>3. Level' < Cost /\ Level' + wait * Gain >= Cost /\ Level' + (wait - 1) * Gain < Cost
        BY <1>2, <2>1, <2>2, <3>2
      <3> QED BY <2>1, <3>1, <3>3 DEF Awaited
    <2> QED BY <2>3, <2>4
  <1>7. CASE RateTick
    <2>1. worker' = worker /\ rateNow' = rateNow + 1 /\ bucket' = bucket
      BY <1>7 DEF RateTick
    <2>2. Level' = Capped(Level + Gain)
      BY <2>1, LevelTickExact
    <2> DEFINE left == worker[w].wake - rateNow
    <2>3. Awaited(w) /\ left \in Int /\ worker'[w].wake - rateNow' = left - 1
      BY <1>1, <1>2, <2>1 DEF WaitInv, Worker
    <2>4. CASE left <= 0
      <3>1. Level' >= Cost
        BY <1>2, <2>2, <2>3, <2>4 DEF Awaited, Capped
      <3> QED BY <2>3, <2>4, <3>1 DEF Awaited
    <2>5. CASE left = 1
      <3>1. left * Gain = Gain
        BY <2>5
      <3>2. Level + Gain >= Cost
        BY <2>3, <2>5, <3>1 DEF Awaited
      <3>3. Level' >= Cost
        BY <1>2, <2>2, <3>2 DEF Capped
      <3> QED BY <2>3, <2>5, <3>3 DEF Awaited
    <2>6. CASE left > 1
      <3> DEFINE m == left - 1
      <3>1. Level < Cost /\ Level + left * Gain >= Cost /\ Level + m * Gain < Cost
        BY <2>3, <2>6 DEF Awaited
      <3>2. left * Gain = m * Gain + Gain /\ m * Gain = (m - 1) * Gain + Gain /\ (m - 1) * Gain \in Nat
        BY <2>3, <2>6
      <3>3. m \in Int /\ m > 0 /\ worker'[w].wake - rateNow' = m
        BY <2>3, <2>6
      <3> HIDE DEF m
      <3>4. Level' = Level + Gain
        BY <1>2, <2>2, <3>1, <3>2 DEF Capped
      <3>5. Level' < Cost /\ Level' + m * Gain >= Cost /\ Level' + (m - 1) * Gain < Cost
        BY <1>2, <3>1, <3>2, <3>4
      <3> QED BY <3>3, <3>5 DEF Awaited
    <2> QED BY <2>3, <2>4, <2>5, <2>6
  <1>8. ASSUME NEW v \in Workers, Wake(v) \/ Again(v)
        PROVE  Awaited(w)'
    <2>1. worker'[w] = worker[w] /\ rateNow' = rateNow /\ bucket' = bucket
      BY <1>1, <1>2, <1>8, TurnShape
    <2> QED BY <1>4, <2>1 DEF Level, Capped, RateFull
  <1>9. ASSUME rateNow' = rateNow, bucket' = bucket, worker' = worker
        PROVE  Awaited(w)'
    BY <1>4, <1>9 DEF Level, Capped, RateFull
  <1> QED BY <1>3, <1>5, <1>6, <1>7, <1>8, <1>9 DEF RateNext, rateVars, BackOff

\* takeSlot's answer is exact: at the wake-up there is a token, a time unit earlier there was none, for
\* every rate, cost, burst and expiry, unless a slot was granted meanwhile.
THEOREM WaitsAreRight == RateSpec => []WaitsRight
  <1>1. RateInit => RateTypeOK /\ WaitInv
    BY FullNat DEF RateInit, RateTypeOK, WaitInv, Bucket, Worker
  <1>2. RateTypeOK /\ WaitInv /\ RateInv /\ RateInv' /\ [RateNext]_rateVars => RateTypeOK' /\ WaitInv'
    BY TypeStep, WaitStep DEF RateInv
  <1>3. RateTypeOK /\ WaitInv /\ RateInv => WaitsRight
    <2> SUFFICES ASSUME RateTypeOK, WaitInv, RateInv, NEW w \in Workers,
                        worker[w].pc = "sleep", worker[w].fresh
                 PROVE  rateNow >= worker[w].wake <=> Level >= Cost
      BY DEF WaitsRight, WaitSuffices
    <2>1. Awaited(w) /\ rateNow \in Nat /\ worker[w].wake \in Nat /\ Level \in 0..RateFull /\ RateFull \in Nat
      BY LevelNat, FullNat DEF RateInv, WaitInv, RateTypeOK, Worker
    <2> QED BY <2>1 DEF Awaited
  <1> QED BY <1>1, <1>2, <1>3, RateInductive, PTL DEF RateSpec

HIDE SendRateAssumption

-----------------------------------------------------------------------------
(***************************************************************************)
(* MailTransport, for any mails: a mail handed over was valid, and one     *)
(* given up has a lasting cause.                                           *)
(***************************************************************************)

MailStates == [pc : {"queued", "open", "sent", "failed", "given up"}, tries : Nat,
               code : {"none", "invalid_message", "timeout", "network"}]

MailFits(m) ==
    /\ mails[m].pc = "open" \/ answers[m] # "none" => ValidMail(m) /\ FromOK(m)
    /\ mails[m].pc = "given up" => ~ValidMail(m) \/ ~FromOK(m) \/ answers[m] = "5xx"

TransportInv ==
    /\ mails \in [Mails -> MailStates] /\ answers \in [Mails -> {"none", "lost", "2xx", "4xx", "5xx"}]
    /\ transport.kind = "none" \/ transport = ConfigOf(mailEnv)
    /\ \A m \in Mails : MailFits(m)

\* Initially no mail was tried.
LEMMA TransportInitInv == TransportInit => TransportInv
<1> SUFFICES ASSUME TransportInit PROVE TransportInv
  OBVIOUS
<1> DEFINE r == [pc |-> "queued", tries |-> 0, code |-> "none"]
<1>1. r \in MailStates /\ r.pc = "queued"
  BY DEF MailStates
<1>2. mails = [m \in Mails |-> r] /\ answers = [m \in Mails |-> "none"] /\ transport.kind = "none"
  BY DEF TransportInit
<1> HIDE DEF r
<1>3. QED
  BY <1>1, <1>2 DEF TransportInv, MailFits

\* What a delivery settles.
LEMMA SettledIs ==
  ASSUME mails \in [Mails -> MailStates], NEW m \in Mails,
         NEW code \in {"none", "invalid_message", "timeout", "network"}, Settled(m, code)
  PROVE  /\ mails' \in [Mails -> MailStates] /\ \A o \in Mails : o # m => mails'[o] = mails[o]
         /\ mails'[m].pc \in {"sent", "failed", "given up"}
         /\ mails'[m].pc = "given up" => code = "invalid_message"
<1> DEFINE q == IF code = "none" THEN "sent" ELSE IF Retryable(code) THEN "failed" ELSE "given up"
           n == mails[m].tries + 1
<1>4. Retryable("timeout") /\ Retryable("network")
  BY DEF Retryable
<1>5. q \in {"sent", "failed", "given up"} /\ (q = "given up" => code = "invalid_message")
  BY <1>4
<1>6. mails[m] \in MailStates
  OBVIOUS
<1>1. mails[m].tries \in Nat
  BY <1>6 DEF MailStates
<1>7. n \in Nat
  BY <1>1
<1>2. mails' = [mails EXCEPT ![m].tries = n, ![m].code = code, ![m].pc = q]
  BY DEF Settled
<1> HIDE DEF q, n
<1>3. QED
  BY <1>5, <1>7, <1>2 DEF MailStates

\* Every step of a mail keeps the invariant of the transport.
LEMMA TransportStepInv == TransportInv /\ [TransportNext]_transportVars => TransportInv'
<1> SUFFICES ASSUME TransportInv, [TransportNext]_transportVars PROVE TransportInv'
  OBVIOUS
<1>0. /\ mails \in [Mails -> MailStates] /\ answers \in [Mails -> {"none", "lost", "2xx", "4xx", "5xx"}]
      /\ transport.kind = "none" \/ transport = ConfigOf(mailEnv)
      /\ \A m \in Mails : MailFits(m)
  BY DEF TransportInv
<1>1. ASSUME NEW m \in Mails, UNCHANGED <<mailEnv, transport>>, mails' \in [Mails -> MailStates],
             answers' \in [Mails -> {"none", "lost", "2xx", "4xx", "5xx"}],
             \A o \in Mails : o # m => mails'[o] = mails[o] /\ answers'[o] = answers[o], MailFits(m)'
      PROVE  TransportInv'
  BY <1>0, <1>1 DEF TransportInv, MailFits
<1>2. CASE CreateSender
  BY <1>0, <1>2 DEF CreateSender, TransportInv, MailFits
<1>3. ASSUME NEW m \in Mails, InvalidMail(m) PROVE TransportInv'
  <2>1. /\ Settled(m, "invalid_message") /\ ~(ValidMail(m) /\ FromOK(m)) /\ UNCHANGED <<mailEnv, transport, answers>>
    BY <1>3 DEF InvalidMail
  <2>2. MailFits(m)'
    BY <1>0, <2>1, SettledIs DEF MailFits
  <2>3. QED
    BY <1>0, <1>1, <2>1, <2>2, SettledIs
<1>4. ASSUME NEW m \in Mails, Aborted(m) PROVE TransportInv'
  <2>1. /\ Settled(m, "timeout") /\ ValidMail(m) /\ FromOK(m) /\ UNCHANGED <<mailEnv, transport, answers>>
    BY <1>4 DEF Aborted
  <2>2. MailFits(m)'
    BY <1>0, <2>1, SettledIs DEF MailFits
  <2>3. QED
    BY <1>0, <1>1, <2>1, <2>2, SettledIs
<1>5. ASSUME NEW m \in Mails, HandOver(m) PROVE TransportInv'
  <2>1. /\ ValidMail(m) /\ FromOK(m) /\ mails' = [mails EXCEPT ![m].pc = "open"]
        /\ answers' = [answers EXCEPT ![m] = "none"] /\ UNCHANGED <<mailEnv, transport>>
    BY <1>5 DEF HandOver
  <2>2. /\ mails' \in [Mails -> MailStates] /\ mails'[m].pc = "open"
        /\ answers' \in [Mails -> {"none", "lost", "2xx", "4xx", "5xx"}]
        /\ \A o \in Mails : o # m => mails'[o] = mails[o] /\ answers'[o] = answers[o]
    BY <1>0, <2>1 DEF MailStates
  <2>3. MailFits(m)'
    BY <2>1, <2>2 DEF MailFits
  <2>4. QED
    BY <1>1, <2>1, <2>2, <2>3
<1>6. ASSUME NEW m \in Mails, NEW a \in {"lost", "2xx", "4xx", "5xx"},
             NEW code \in {"none", "invalid_message", "network"}, code = "invalid_message" => a = "5xx",
             mails[m].pc = "open", answers' = [answers EXCEPT ![m] = a], Settled(m, code), UNCHANGED <<mailEnv, transport>>
      PROVE  TransportInv'
  <2>1. ValidMail(m) /\ FromOK(m)
    BY <1>0, <1>6 DEF MailFits
  <2>2. /\ answers' \in [Mails -> {"none", "lost", "2xx", "4xx", "5xx"}] /\ answers'[m] = a
        /\ \A o \in Mails : o # m => answers'[o] = answers[o]
    BY <1>0, <1>6
  <2>3. MailFits(m)'
    BY <1>0, <1>6, <2>1, <2>2, SettledIs DEF MailFits
  <2>4. QED
    BY <1>0, <1>1, <1>6, <2>2, <2>3, SettledIs
<1>7. ASSUME NEW m \in Mails, NEW lost \in BOOLEAN, ServerAccepts(m, lost) PROVE TransportInv'
  <2>1. CASE lost
    BY <1>6, <1>7, <2>1 DEF ServerAccepts, SmtpCode
  <2>2. CASE ~lost
    BY <1>6, <1>7, <2>2 DEF ServerAccepts
  <2>3. QED
    BY <2>1, <2>2
<1>8. ASSUME NEW m \in Mails, NEW a \in {"lost", "4xx", "5xx"}, ServerRefuses(m, a) PROVE TransportInv'
  BY <1>6, <1>8 DEF ServerRefuses, SmtpCode
<1>9. ASSUME NEW m \in Mails, Redeliver(m) PROVE TransportInv'
  <2>1. mails[m].pc = "failed" /\ mails' = [mails EXCEPT ![m].pc = "queued"] /\ UNCHANGED <<mailEnv, transport, answers>>
    BY <1>9 DEF Redeliver
  <2>2. /\ mails' \in [Mails -> MailStates] /\ mails'[m].pc = "queued" /\ \A o \in Mails : o # m => mails'[o] = mails[o]
    BY <1>0, <2>1 DEF MailStates
  <2>3. MailFits(m)'
    BY <1>0, <2>1, <2>2 DEF MailFits
  <2>4. QED
    BY <1>0, <1>1, <2>1, <2>2, <2>3
<1>10. CASE UNCHANGED transportVars
  BY <1>0, <1>10 DEF transportVars, TransportInv, MailFits
<1>11. QED
  BY <1>2, <1>3, <1>4, <1>5, <1>7, <1>8, <1>9, <1>10 DEF TransportNext

\* The invariant gives what a mail on the wire, or given up, went through.
LEMMA TransportInvSafe == TransportInv => TransportSafe
<1> SUFFICES ASSUME TransportInv PROVE TransportSafe
  OBVIOUS
<1>1. ProductionCredential
  <2> SUFFICES ASSUME transport.kind \in {"smtp", "graph"}, mailEnv.production
      PROVE  transport.kind = "graph" /\ transport.credential \in {"workload-identity", "certificate"}
    BY DEF ProductionCredential
  <2>1. transport = ConfigOf(mailEnv)
    BY DEF TransportInv
  <2>2. ~SmtpOK(mailEnv)
    BY DEF SmtpOK
  <2>3. Credential(mailEnv) \in {"workload-identity", "certificate", "refused"}
    BY DEF Credential
  <2>4. CASE mailEnv.transport = "graph" /\ mailEnv.named /\ Credential(mailEnv) # "refused"
    <3>1. transport = [kind |-> "graph", credential |-> Credential(mailEnv)]
      BY <2>1, <2>4 DEF ConfigOf
    <3>2. QED
      BY <2>3, <2>4, <3>1
  <2>5. CASE ~(mailEnv.transport = "graph" /\ mailEnv.named /\ Credential(mailEnv) # "refused")
    <3>1. transport = [kind |-> "refused", credential |-> "none"]
      BY <2>1, <2>2, <2>5 DEF ConfigOf
    <3>2. QED
      BY <3>1
  <2>6. QED
    BY <2>4, <2>5
<1>2. OnlyValidHanded
  BY DEF TransportInv, MailFits, OnlyValidHanded, FromOK
<1>3. GivenUpForCause
  BY MailTransportAssumption DEF TransportInv, MailFits, GivenUpForCause, FromOK
<1>4. QED
  BY <1>1, <1>2, <1>3 DEF TransportSafe

\* For any mails, environments and replies: production never mails with a secret, the provider sees only
\* valid messages of the configured sender, and such a message is given up only on a 5xx reply.
THEOREM TransportHolds == TransportSpec => []TransportSafe
  BY TransportInitInv, TransportStepInv, TransportInvSafe, PTL DEF TransportSpec
=============================================================================
