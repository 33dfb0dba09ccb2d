---------------------------- MODULE ExclusiveJob ----------------------------
(***************************************************************************)
(* ExclusiveJob of platform-runtime: one scheduled job, on every pod, run  *)
(* under the cache lock when the pod's cache is ready, else under a        *)
(* Postgres advisory lock (withAdvisoryLock of platform-db), else without  *)
(* a lock.  A pod runs the job once at a time (its running set), so the    *)
(* pod stands for the token and for the session of its current run.        *)
(***************************************************************************)
EXTENDS Integers, FiniteSets

CONSTANTS
    Pods,         \* replicas that fire the schedule
    LeaderNobody, \* no pod
    LeaderLease   \* lockTtlMs, in time units

ASSUME ExclusiveJobAssumption ==
    /\ LeaderNobody \notin Pods
    /\ LeaderLease \in Nat \ {0}

VARIABLES
    leaderPc,   \* [Pods -> stage of run()]; "idle": the name is not in running
    ready,      \* [Pods -> BOOLEAN], cache.isAvailable
    leaderLock, \* lock:cron:<name> in Valkey
    session,    \* the session that holds the advisory lock: whose, and how it is
    lost,       \* history: pods that lost the lock they took last
    pool        \* DatabaseModule provides a pool; decided at startup

leaderVars == <<leaderPc, ready, leaderLock, session, lost, pool>>

-----------------------------------------------------------------------------
LeaderNoLock == [by |-> LeaderNobody, left |-> 0]
LeaderLockOf(p) == [by |-> p, left |-> LeaderLease]

\* "used": by the run that took it.  "broken": destroyed or cut off, the server
\* has yet to notice.
NoSession == [of |-> LeaderNobody, st |-> "none"]
SessionOf(p, st) == [of |-> p, st |-> st]

Stages == {"idle", "cache", "cacheRun", "cacheFree", "pg", "pgRun", "pgFree", "openRun"}
OnCache == {"cacheRun", "cacheFree"}
OnPg == {"pgRun", "pgFree"}

LeaderInit ==
    /\ leaderPc = [p \in Pods |-> "idle"]
    /\ ready \in [Pods -> BOOLEAN]
    /\ leaderLock = LeaderNoLock
    /\ session = NoSession
    /\ lost = {}
    /\ pool \in BOOLEAN

Goes(p, stage) == leaderPc' = [leaderPc EXCEPT ![p] = stage]

\* A tick of the schedule.  A pod still busy with the last one skips it.
Fire(p) ==
    /\ leaderPc[p] = "idle"
    /\ Goes(p, IF ready[p] THEN "cache" ELSE IF pool THEN "pg" ELSE "openRun")
    /\ UNCHANGED <<ready, leaderLock, session, lost, pool>>

-----------------------------------------------------------------------------
(* runExclusively *)

CacheTaken(p) ==
    /\ leaderPc[p] = "cache" /\ leaderLock = LeaderNoLock
    /\ leaderLock' = LeaderLockOf(p)
    /\ Goes(p, "cacheRun")
    /\ lost' = lost \ {p}
    /\ UNCHANGED <<ready, session, pool>>

\* Held by another pod, or an error: the tick is over.  An answer that was lost
\* leaves the lock to its lease.
CacheRefused(p) ==
    /\ leaderPc[p] = "cache"
    /\ \/ leaderLock' = leaderLock
       \/ leaderLock = LeaderNoLock /\ leaderLock' = LeaderLockOf(p)
    /\ Goes(p, "idle")
    /\ UNCHANGED <<ready, session, lost, pool>>

\* The finally block: compare and delete, or an error.
\* Mutant: the key is deleted whoever holds it.
MutCacheFreedAny(p) ==
    /\ leaderPc[p] = "cacheFree"
    /\ leaderLock' = LeaderNoLock
    /\ Goes(p, "idle")
    /\ UNCHANGED <<ready, session, lost, pool>>
CacheFreed(p) ==
    /\ leaderPc[p] = "cacheFree"
    /\ leaderLock' \in {leaderLock, IF leaderLock.by = p THEN LeaderNoLock ELSE leaderLock}
    /\ Goes(p, "idle")
    /\ UNCHANGED <<ready, session, lost, pool>>

-----------------------------------------------------------------------------
(* runWithoutCache: withAdvisoryLock *)

PgTaken(p) ==
    /\ leaderPc[p] = "pg" /\ session = NoSession
    /\ session' = SessionOf(p, "used")
    /\ Goes(p, "pgRun")
    /\ lost' = lost \ {p}
    /\ UNCHANGED <<ready, leaderLock, pool>>

\* Held by another session, or an error before fn: the connection is destroyed,
\* and the lock query may have run on it.
\* Mutant: after an error the connection goes back to the pool.
MutPgRefusedPooled(p) ==
    /\ leaderPc[p] = "pg"
    /\ \/ session' = session
       \/ session = NoSession /\ session' = SessionOf(p, "used")
    /\ Goes(p, "idle")
    /\ UNCHANGED <<ready, leaderLock, lost, pool>>
PgRefused(p) ==
    /\ leaderPc[p] = "pg"
    /\ \/ session' = session
       \/ session = NoSession /\ session' = SessionOf(p, "broken")
    /\ Goes(p, "idle")
    /\ UNCHANGED <<ready, leaderLock, lost, pool>>

\* The finally block: unlock; when that fails or the lock was not held any more
\* the connection is destroyed.
PgFreed(p) ==
    /\ leaderPc[p] = "pgFree"
    /\ \/ session.of = p /\ session' \in {NoSession, SessionOf(p, "broken")}
       \/ session.of # p /\ session' = session
    /\ Goes(p, "idle")
    /\ UNCHANGED <<ready, leaderLock, lost, pool>>

-----------------------------------------------------------------------------
\* fn returns or throws; finally blocks follow.
FnEnds(p) ==
    /\ leaderPc[p] \in {"cacheRun", "pgRun", "openRun"}
    /\ Goes(p, CASE leaderPc[p] = "cacheRun" -> "cacheFree"
                 [] leaderPc[p] = "pgRun" -> "pgFree"
                 [] leaderPc[p] = "openRun" -> "idle")
    /\ UNCHANGED <<ready, leaderLock, session, lost, pool>>

\* The pod dies and is restarted: its cache lock stays, its session breaks.
LeaderCrash(p) ==
    /\ leaderPc[p] # "idle"
    /\ Goes(p, "idle")
    /\ session' = IF session.of = p THEN SessionOf(p, "broken") ELSE session
    /\ UNCHANGED <<ready, leaderLock, lost, pool>>

\* The pod's own cache connection comes and goes.
Flap(p) ==
    /\ ready' = [ready EXCEPT ![p] = ~@]
    /\ UNCHANGED <<leaderPc, leaderLock, session, lost, pool>>

\* A lock that ends while its run goes on is lost to that run.
Loses(p, stages) == lost' = IF leaderPc[p] \in stages THEN lost \cup {p} ELSE lost

\* Time passes over the lease.
LeaderTick ==
    /\ leaderLock # LeaderNoLock
    /\ IF leaderLock.left = 1
         THEN leaderLock' = LeaderNoLock /\ Loses(leaderLock.by, OnCache)
         ELSE leaderLock' = [leaderLock EXCEPT !.left = @ - 1] /\ UNCHANGED lost
    /\ UNCHANGED <<leaderPc, ready, session, pool>>

\* A failover or a dropped connection takes the session of a running job.
SessionCut ==
    /\ session.st = "used"
    /\ session' = [session EXCEPT !.st = "broken"]
    /\ UNCHANGED <<leaderPc, ready, leaderLock, lost, pool>>

\* The server ends a broken session and frees its advisory lock.
SessionEnds ==
    /\ session.st = "broken"
    /\ session' = NoSession
    /\ Loses(session.of, OnPg)
    /\ UNCHANGED <<leaderPc, ready, leaderLock, pool>>

LeaderNext ==
    \/ \E p \in Pods :
         \/ Fire(p) \/ CacheTaken(p) \/ CacheRefused(p) \/ CacheFreed(p)
         \/ PgTaken(p) \/ PgRefused(p) \/ PgFreed(p)
         \/ FnEnds(p) \/ LeaderCrash(p) \/ Flap(p)
    \/ LeaderTick \/ SessionCut \/ SessionEnds

LeaderSpec == LeaderInit /\ [][LeaderNext]_leaderVars

\* Valkey expires keys and Postgres notices dead connections.
LeaderLiveSpec == LeaderSpec /\ WF_leaderVars(LeaderTick) /\ WF_leaderVars(SessionEnds)

-----------------------------------------------------------------------------
(* Refinement: each of the two locks is a lock with a lease *)

On(stages) == {p \in Pods : leaderPc[p] \in stages}
CacheLease == INSTANCE Lease WITH Holders <- Pods, NoHolder <- LeaderNobody,
    owner <- leaderLock.by, inside <- On(OnCache), overran <- lost \cap On(OnCache)
PgLease == INSTANCE Lease WITH Holders <- Pods, NoHolder <- LeaderNobody,
    owner <- session.of, inside <- On(OnPg), overran <- lost \cap On(OnPg)

-----------------------------------------------------------------------------
(* Properties *)

\* Every variable holds a value of its shape, and a session in use belongs to a
\* run of withAdvisoryLock that has not given its connection back.
LeaderTypeOK ==
    /\ leaderPc \in [Pods -> Stages]
    /\ ready \in [Pods -> BOOLEAN]
    /\ leaderLock \in {LeaderNoLock} \cup [by : Pods, left : 1..LeaderLease]
    /\ session \in {NoSession} \cup [of : Pods, st : {"used", "broken"}]
    /\ session.st = "used" => leaderPc[session.of] \in OnPg
    /\ lost \subseteq Pods
    /\ pool \in BOOLEAN

\* "Run a scheduled job on exactly one pod": two pods that run the job under the
\* same kind of lock do so only after one of them lost its own.  (A pod without
\* its cache takes the other lock, the limit ExclusiveJob documents.)
OneRunnerPerLock ==
    \A p, q \in Pods :
        (p # q /\ \/ leaderPc[p] \in OnCache /\ leaderPc[q] \in OnCache
                  \/ leaderPc[p] \in OnPg /\ leaderPc[q] \in OnPg)
            => (p \in lost \/ q \in lost)

\* Lease holds of the cache lock and of the advisory lock, with its liveness: a pod never ends
\* another running pod's lock, and "a crash can never deadlock the job permanently".
LeadsUnderLease == CacheLease!LeaseLiveSpec /\ PgLease!LeaseLiveSpec

\* An exclusive job: its shape, and that two pods run it under one lock only after one lost it.
LeaderSafe == LeaderTypeOK /\ OneRunnerPerLock
=============================================================================
