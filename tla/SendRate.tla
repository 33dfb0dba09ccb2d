------------------------------ MODULE SendRate ------------------------------
(***************************************************************************)
(* Pacing of one sender mailbox: the token bucket and the cooldown that    *)
(* takeSlot and backOff of platform-mail keep in Valkey, and the workers   *)
(* that wait for a slot in waitForSlot.                                    *)
(*                                                                         *)
(* Tokens are counted in 1/Cost: MAIL_RATE.perMinute is Gain units per     *)
(* time unit and one message costs Cost units, so the arithmetic is exact  *)
(* where the Lua script rounds a floating-point number.  The server's      *)
(* clock is the only clock.                                                *)
(***************************************************************************)
EXTENDS Integers, Sequences

CONSTANTS
    Workers,    \* attempts that wait for a slot, on any worker
    Gain,       \* units per time unit: 20 per ms in the code
    Cost,       \* units of one message: 60 000 in the code
    Burst,      \* MAIL_RATE.burst: messages a full bucket holds
    BucketTtl,  \* the PEXPIRE of the bucket: 120 000 ms in the code
    MaxWait,    \* MAIL_MAX_SLOT_WAIT_MS
    Cooldowns,  \* the cooldowns a throttling provider asks for
    MaxTime     \* bound: how long the clock runs

\* A bucket nobody asked for BucketTtl is full anyway (2 400 000 >= 300 000).
ASSUME SendRateAssumption ==
    /\ Gain \in Nat \ {0} /\ Cost \in Nat \ {0} /\ Burst \in Nat \ {0}
    /\ BucketTtl \in Nat /\ Burst * Cost <= Gain * BucketTtl
    /\ MaxWait \in Nat /\ MaxTime \in Nat
    /\ Cooldowns \subseteq Nat \ {0}

VARIABLES
    rateNow, \* redis TIME
    bucket,  \* mail:rate:<mailbox>: the hash fields tokens and at, if it exists
    cool,    \* when mail:cooldown:<mailbox> expires
    worker,  \* [Workers -> Worker]: the waitForSlot loops
    grants   \* history: when a slot was granted

rateVars == <<rateNow, bucket, cool, worker, grants>>

-----------------------------------------------------------------------------
RateFull == Burst * Cost

Bucket == [exists : BOOLEAN, tokens : 0..RateFull, at : 0..MaxTime]
\* "served" and "refused" end the loop; fresh is history: the last answer came
\* from the bucket and no slot was granted since.
Worker == [pc : {"ask", "sleep", "served", "refused"}, waited : 0..MaxWait,
           wake : 0..MaxTime + MaxWait, fresh : BOOLEAN]

RateInit ==
    /\ rateNow = 0
    /\ bucket = [exists |-> FALSE, tokens |-> 0, at |-> 0]
    /\ cool = 0
    /\ worker = [w \in Workers |-> [pc |-> "ask", waited |-> 0, wake |-> 0, fresh |-> FALSE]]
    /\ grants = << >>

Capped(n) == IF n < RateFull THEN n ELSE RateFull

\* What the bucket holds now: full if the key is missing or has expired.
Level ==
    IF bucket.exists /\ rateNow < bucket.at + BucketTtl
      THEN Capped(bucket.tokens + (rateNow - bucket.at) * Gain)
      ELSE RateFull

CeilDiv(n, d) == (n + d - 1) \div d

\* The wait for the missing part of a token, rounded up.
\* Mutant: the wait is rounded down.
MutBucketWaitFloor(level) == (Cost - level) \div Gain
BucketWait(level) == CeilDiv(Cost - level, Gain)

Stored(tokens) == [exists |-> TRUE, tokens |-> tokens, at |-> rateNow]

-----------------------------------------------------------------------------
(* takeSlot, as a worker calls it *)

\* A token is there and no cooldown runs: it is taken.
\* Mutant: the time of the refill is not stored, so it is counted again.
MutGrantKeepsAt(w) ==
    /\ worker[w].pc = "ask" /\ rateNow >= cool
    /\ Level >= Cost
    /\ bucket' = [exists |-> TRUE, tokens |-> Level - Cost,
                  at |-> IF bucket.exists THEN bucket.at ELSE rateNow]
    /\ grants' = Append(grants, rateNow)
    /\ worker' = [v \in Workers |-> IF v = w THEN [worker[v] EXCEPT !.pc = "served"]
                                             ELSE [worker[v] EXCEPT !.fresh = FALSE]]
    /\ UNCHANGED <<rateNow, cool>>
Grant(w) ==
    /\ worker[w].pc = "ask" /\ rateNow >= cool
    /\ Level >= Cost
    /\ bucket' = Stored(Level - Cost)
    /\ grants' = Append(grants, rateNow)
    /\ worker' = [v \in Workers |-> [worker[v] EXCEPT
                    !.fresh = FALSE, !.pc = IF v = w THEN "served" ELSE @]]
    /\ UNCHANGED <<rateNow, cool>>

\* waitForSlot after an answer of wait: sleep, or fail when over the budget.
Waits(w, wait, fromBucket) ==
    IF worker[w].waited + wait > MaxWait
      THEN worker' = [worker EXCEPT ![w].pc = "refused", ![w].fresh = FALSE]
      ELSE worker' = [worker EXCEPT ![w] = [pc |-> "sleep", waited |-> @.waited + wait,
                                            wake |-> rateNow + wait, fresh |-> fromBucket]]

\* A cooldown: its rest is the answer and the bucket is left alone.
Cooling(w) ==
    /\ worker[w].pc = "ask" /\ rateNow < cool
    /\ Waits(w, cool - rateNow, FALSE)
    /\ UNCHANGED <<rateNow, bucket, cool, grants>>

\* Less than a token: nothing is taken, the refill so far is stored.
Empty(w) ==
    /\ worker[w].pc = "ask" /\ rateNow >= cool
    /\ Level < Cost
    /\ bucket' = Stored(Level)
    /\ Waits(w, BucketWait(Level), TRUE)
    /\ UNCHANGED <<rateNow, cool, grants>>

\* setTimeout fires at the earliest when the wait is over.
Wake(w) ==
    /\ worker[w].pc = "sleep" /\ rateNow >= worker[w].wake
    /\ worker' = [worker EXCEPT ![w].pc = "ask"]
    /\ UNCHANGED <<rateNow, bucket, cool, grants>>

\* The worker turns to its next message.
Again(w) ==
    /\ worker[w].pc \in {"served", "refused"}
    /\ worker' = [worker EXCEPT ![w] = [pc |-> "ask", waited |-> 0, wake |-> 0, fresh |-> FALSE]]
    /\ UNCHANGED <<rateNow, bucket, cool, grants>>

\* backOff: the provider throttled the mailbox.  Only ever extended.
BackOff(c) ==
    /\ cool' = IF cool < rateNow + c THEN rateNow + c ELSE cool
    /\ UNCHANGED <<rateNow, bucket, worker, grants>>

RateTick ==
    /\ rateNow < MaxTime
    /\ rateNow' = rateNow + 1
    /\ UNCHANGED <<bucket, cool, worker, grants>>

RateNext ==
    \/ \E w \in Workers : Grant(w) \/ Cooling(w) \/ Empty(w) \/ Wake(w) \/ Again(w)
    \/ \E c \in Cooldowns : BackOff(c)
    \/ RateTick

RateSpec == RateInit /\ [][RateNext]_rateVars

-----------------------------------------------------------------------------
(* Properties *)

\* Every variable has its shape; the bucket is never overdrawn or over-full.
RateTypeOK ==
    /\ rateNow \in 0..MaxTime
    /\ bucket \in Bucket /\ bucket.at <= rateNow
    /\ cool \in Nat
    /\ worker \in [Workers -> Worker]
    /\ grants \in Seq(0..MaxTime)

\* "The most that can leave in any minute is 5 + 20 = 25" (MAIL_RATE): in any
\* span of time, both ends included, no more than Burst slots and what the rate
\* earns in it are granted, through bucket expiries and cooldowns.
RateBound ==
    \A i, j \in 1..Len(grants) :
        i <= j => (j - i + 1) * Cost <= RateFull + (grants[j] - grants[i]) * Gain

\* The wait takeSlot answers is the right one: unless somebody else was granted
\* a slot meanwhile, there is a token when the worker asks again, and there was
\* none a time unit earlier.
WaitSuffices ==
    \A w \in Workers :
        (worker[w].pc = "sleep" /\ worker[w].fresh)
            => (rateNow >= worker[w].wake <=> Level >= Cost)

\* The bucket's shape, and that the wait it answers is the right one.
WaitsRight == RateTypeOK /\ WaitSuffices
=============================================================================
