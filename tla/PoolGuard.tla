----------------------------- MODULE PoolGuard -----------------------------
(***************************************************************************)
(* guardPool: the back-off that the dials of one pg-pool share.  pg-pool   *)
(* is external: a caller gets an idle client, dials when the pool is not   *)
(* full, or waits in a queue that is pumped when a client comes back.      *)
(***************************************************************************)
EXTENDS Integers, Sequences, FiniteSets

CONSTANTS
    Callers,
    PoolMax,               \* pool.options.max
    MinBackoff, MaxBackoff,
    LastNow                \* bound: where the clock stops

ASSUME PoolGuardAssumption ==
    /\ IsFiniteSet(Callers) /\ PoolMax \in Nat \ {0} /\ LastNow \in Nat
    /\ MinBackoff \in Nat \ {0} /\ MaxBackoff \in Nat /\ MinBackoff <= MaxBackoff

VARIABLES
    now,
    at,        \* [Callers -> "idle", "queued", "dial", "holds", "failed" or "done"]
    pending,   \* pg-pool's queue of waiting callers
    idle,      \* idle clients
    pump,      \* a _pulseQueue() is scheduled (several count as one)
    failed,    \* failures: failed dials in a row
    retryAt,   \* the end of the window
    lastError, \* a failure is remembered
    failedAt,  \* history: when the last recorded failure was
    since      \* history: dials recorded since the last success, capped

guardVars == <<now, at, pending, idle, pump, failed, retryAt, lastError, failedAt, since>>

PoolInit ==
    /\ now = 0 /\ at = [c \in Callers |-> "idle"] /\ pending = << >> /\ idle = 0
    /\ pump = FALSE /\ failed = 0 /\ retryAt = 0 /\ lastError = FALSE
    /\ failedAt = -1 /\ since = 0

Count(p) == Cardinality({c \in Callers : at[c] = p})
Full == Count("dial") + Count("holds") + idle >= PoolMax

\* min(maxBackoff, minBackoff * 2 ** min(failures - 1, 20)), for the n-th failure in a row.
TwoTo[n \in Nat] == IF n = 0 THEN 1 ELSE 2 * TwoTo[n - 1]
Doubled(n) == MinBackoff * TwoTo[IF n - 1 > 20 THEN 20 ELSE n - 1]
\* Mutant: the cap is forgotten.
MutBackoff(n) == Doubled(n)
Backoff(n) == IF Doubled(n) > MaxBackoff THEN MaxBackoff ELSE Doubled(n)

\* newClient: inside the window the caller gets the last error, and the queue is
\* pumped on the next tick since no client will do it; p: a pump is scheduled.
\* Mutant: nothing pumps the queue after a refused dial.
MutNewClient(c, p) ==
    /\ at' = [at EXCEPT ![c] = IF lastError /\ now < retryAt THEN "failed" ELSE "dial"]
    /\ pump' = p
NewClient(c, p) ==
    IF lastError /\ now < retryAt
      THEN at' = [at EXCEPT ![c] = "failed"] /\ pump' = TRUE
      ELSE at' = [at EXCEPT ![c] = "dial"] /\ pump' = p

\* pool.connect(): an idle client is handed out through the queue.
Connect(c) ==
    /\ at[c] = "idle"
    /\ IF Full \/ idle > 0
         THEN /\ at' = [at EXCEPT ![c] = "queued"] /\ pending' = Append(pending, c)
              /\ pump' = (pump \/ idle > 0)
         ELSE NewClient(c, pump) /\ UNCHANGED pending
    /\ UNCHANGED <<now, idle, failed, retryAt, lastError, failedAt, since>>

\* _pulseQueue()
Pump ==
    /\ pump
    /\ IF pending = << >> \/ (idle = 0 /\ Full)
         THEN pump' = FALSE /\ UNCHANGED <<at, pending, idle>>
         ELSE /\ pending' = Tail(pending)
              /\ IF idle > 0
                   THEN /\ at' = [at EXCEPT ![Head(pending)] = "holds"]
                        /\ idle' = idle - 1 /\ pump' = FALSE
                   ELSE NewClient(Head(pending), FALSE) /\ UNCHANGED idle
    /\ UNCHANGED <<now, failed, retryAt, lastError, failedAt, since>>

\* The client's own connect callback records the outcome before pg-pool goes on.
DialFails(c) ==
    /\ at[c] = "dial" /\ at' = [at EXCEPT ![c] = "failed"]
    /\ failed' = failed + 1 /\ retryAt' = now + Backoff(failed + 1) /\ lastError' = TRUE
    /\ failedAt' = now /\ since' = 1
    /\ pump' = TRUE
    /\ UNCHANGED <<now, pending, idle>>

DialWorks(c) ==
    /\ at[c] = "dial" /\ at' = [at EXCEPT ![c] = "holds"]
    /\ failed' = 0 /\ retryAt' = 0 /\ lastError' = FALSE /\ since' = 0
    /\ UNCHANGED <<now, pending, idle, pump, failedAt>>

\* release(), with the client or with an error that makes the pool drop it; the
\* error listeners keep a dead client from ending the process.
Release(c) ==
    /\ at[c] = "holds" /\ at' = [at EXCEPT ![c] = "done"]
    /\ idle' \in {idle, idle + 1} /\ pump' = TRUE
    /\ UNCHANGED <<now, pending, failed, retryAt, lastError, failedAt, since>>

IdleDies ==
    /\ idle > 0 /\ idle' = idle - 1
    /\ UNCHANGED <<now, at, pending, pump, failed, retryAt, lastError, failedAt, since>>

PoolTick ==
    /\ now < LastNow /\ now' = now + 1
    /\ UNCHANGED <<at, pending, idle, pump, failed, retryAt, lastError, failedAt, since>>

PoolNext ==
    \/ Pump \/ IdleDies \/ PoolTick
    \/ \E c \in Callers : Connect(c) \/ DialFails(c) \/ DialWorks(c) \/ Release(c)

PoolSpec == PoolInit /\ [][PoolNext]_guardVars

\* A scheduled pump runs, a dial ends (it has a timeout), a client is released.
PoolFairness ==
    /\ WF_guardVars(Pump)
    /\ \A c \in Callers : WF_guardVars(DialFails(c) \/ DialWorks(c)) /\ WF_guardVars(Release(c))

-----------------------------------------------------------------------------
(* Properties *)

\* Every variable holds a value of its shape; a caller waits once, and the pool
\* never has more clients than its size.
PoolTypeOK ==
    /\ now \in 0..LastNow
    /\ at \in [Callers -> {"idle", "queued", "dial", "holds", "failed", "done"}]
    /\ \A c \in Callers : at[c] = "queued" <=> \E i \in 1..Len(pending) : pending[i] = c
    /\ Len(pending) = Count("queued")
    /\ idle \in 0..PoolMax /\ Count("dial") + Count("holds") + idle <= PoolMax
    /\ pump \in BOOLEAN /\ lastError \in BOOLEAN
    /\ failed \in 0..Cardinality(Callers) /\ retryAt \in 0..(LastNow + MaxBackoff)

\* "the pool is never left unusable": however many dials of one burst fail, the
\* window ends within maxBackoff, and it is open only after a failure that no later
\* success followed.
WindowBounded == retryAt > now => /\ retryAt - now <= MaxBackoff
                                  /\ since = 1 /\ lastError

\* Nobody dials inside the window, neither a caller nor a waiter that the queue
\* pumps: after a recorded failure the next dial is at least minBackoff later.
NoDialInWindow ==
    [][\A c \in Callers : (at[c] # "dial" /\ at'[c] = "dial" /\ since = 1)
                              => now - failedAt >= MinBackoff]_guardVars

\* A waiter is answered, with a client or with an error, also when every dial is
\* refused and no client exists that could pump the queue.
WaiterAnswered == \A c \in Callers : at[c] = "queued" ~> at[c] # "queued"

\* The guard, however connects overlap: the pool's size, the bounds of the back-off window, and
\* nobody dialling inside it.
PoolKept == [](PoolTypeOK /\ WindowBounded) /\ NoDialInWindow
=============================================================================
