----------------------------- MODULE CacheLock -----------------------------
(***************************************************************************)
(* The distributed lock of platform-cache, for one key: tryLock, whose     *)
(* caller gets a handle to release and extend, and the deprecated          *)
(* acquireLock / releaseLock, where the process remembers the locks it     *)
(* took in a list and a release carries no handle.                         *)
(*                                                                         *)
(* Every member of Callers takes the lock at most once; those of Local do  *)
(* it with acquireLock, in one process.  The random token is represented   *)
(* by the caller.                                                          *)
(***************************************************************************)
EXTENDS Integers, Sequences, FiniteSets

CONSTANTS
    Callers,   \* takers of the lock, in any process
    Local,     \* the ones that use acquireLock and releaseLock in this process
    Nobody,    \* no caller
    Lease,     \* ttlMs, in time units
    HeldCap    \* remembered locks per key: 16 in the code

ASSUME CacheLockAssumption ==
    /\ Local \subseteq Callers
    /\ Nobody \notin Callers
    /\ Lease \in Nat \ {0}
    /\ HeldCap \in Nat \ {0}

VARIABLES
    lock,    \* lock:<key>: whose token it holds and for how long
    pc,      \* [Callers -> stage]
    replies, \* acquireLock calls whose SET was executed, in the connection's order
    held,    \* this.held.get(key), oldest first
    lapsed,  \* callers whose lease ran out
    dropped  \* history: callers whose entry the sweep or the bound dropped from held

lockVars == <<lock, pc, replies, held, lapsed, dropped>>

-----------------------------------------------------------------------------
NoLock == [by |-> Nobody, left |-> 0]
LockOf(c) == [by |-> c, left |-> Lease]

LockInit ==
    /\ lock = NoLock
    /\ pc = [c \in Callers |-> "idle"]
    /\ replies = << >>
    /\ held = << >>
    /\ lapsed = {}
    /\ dropped = {}

\* RELEASE_LUA: compare and delete.
\* Mutant: the lock is deleted whoever holds it.
MutReleasedAny(c) == NoLock
Released(c) == IF lock.by = c THEN NoLock ELSE lock

-----------------------------------------------------------------------------
(* tryLock *)

\* SET NX PX: a handle, or for acquireLock an answer still to be processed.
TryLock(c) ==
    /\ pc[c] = "idle" /\ lock = NoLock
    /\ lock' = LockOf(c)
    /\ pc' = [pc EXCEPT ![c] = IF c \in Local THEN "granted" ELSE "work"]
    /\ replies' = IF c \in Local THEN Append(replies, c) ELSE replies
    /\ UNCHANGED <<held, lapsed, dropped>>

\* The lock is held by somebody, or the command failed.
TryLockRefused(c) ==
    /\ pc[c] = "idle"
    /\ pc' = [pc EXCEPT ![c] = "over"]
    /\ UNCHANGED <<lock, replies, held, lapsed, dropped>>

\* The lock was taken but the answer was lost: the client resends SET NX and is
\* told that the lock is held, or gives up.  Nobody will release this token.
TryLockLost(c) ==
    /\ pc[c] = "idle" /\ lock = NoLock
    /\ lock' = LockOf(c)
    /\ pc' = [pc EXCEPT ![c] = "over"]
    /\ UNCHANGED <<replies, held, lapsed, dropped>>

\* The handle's release; an error leaves the lock to its lease.
Release(c) ==
    /\ c \notin Local /\ pc[c] = "work"
    /\ lock' \in {lock, Released(c)}
    /\ pc' = [pc EXCEPT ![c] = "over"]
    /\ UNCHANGED <<replies, held, lapsed, dropped>>

\* The handle's extend: EXTEND_LUA, compare and expire.
\* Mutant: the expiry is pushed out whoever holds the lock.
MutExtendAny(c) ==
    /\ c \notin Local /\ pc[c] = "work" /\ lock # NoLock
    /\ lock' = [lock EXCEPT !.left = Lease]
    /\ UNCHANGED <<pc, replies, held, lapsed, dropped>>
Extend(c) ==
    /\ c \notin Local /\ pc[c] = "work" /\ lock.by = c
    /\ lock' = LockOf(c)
    /\ UNCHANGED <<pc, replies, held, lapsed, dropped>>

-----------------------------------------------------------------------------
(* acquireLock and releaseLock *)

\* Above 1000 keys, of any name, a sweep drops the entries whose lease is over.
Stale == {held[i] : i \in 1..Len(held)} \cap lapsed
\* entries.filter: the k-th entry that stays is the one with k of them up to it.
UpTo(i, stay) == Cardinality({j \in stay : j <= i})
Without(gone) ==
    LET stay == {i \in 1..Len(held) : held[i] \notin gone}
    IN  IF gone = {} THEN held
        ELSE [k \in 1..Cardinality(stay) |-> held[CHOOSE i \in stay : UpTo(i, stay) = k]]

\* acquireLock after its await: sweep if the map is large, remember the lock, and
\* entries.shift() when there are too many.
Remember(c) ==
    /\ pc[c] = "granted" /\ c = Head(replies)
    /\ replies' = Tail(replies)
    /\ \E gone \in {{}, Stale} :
         LET entries == Append(Without(gone), c)
             over == Len(entries) > HeldCap
         IN  /\ held' = IF over THEN Tail(entries) ELSE entries
             /\ dropped' = dropped \cup gone \cup (IF over THEN {Head(entries)} ELSE {})
    /\ pc' = [pc EXCEPT ![c] = "work"]
    /\ UNCHANGED <<lock, lapsed>>

\* acquireLock of another key sweeps this one too.
SweepByOther ==
    /\ held' = Without(Stale) /\ dropped' = dropped \cup Stale
    /\ UNCHANGED <<lock, pc, replies, lapsed>>

\* releaseLock: the oldest remembered lock, whoever calls.
\* Mutant: the newest remembered lock.
MutReleaseKeyNewest(c) ==
    /\ c \in Local /\ pc[c] = "work"
    /\ held # << >>
    /\ held' = SubSeq(held, 1, Len(held) - 1)
    /\ lock' = Released(held[Len(held)])
    /\ pc' = [pc EXCEPT ![c] = "over"]
    /\ UNCHANGED <<replies, lapsed, dropped>>
ReleaseKey(c) ==
    /\ c \in Local /\ pc[c] = "work"
    /\ \/ held = << >> /\ UNCHANGED <<lock, held>>
       \/ /\ held # << >>
          /\ held' = Tail(held)
          /\ lock' \in {lock, Released(Head(held))}
    /\ pc' = [pc EXCEPT ![c] = "over"]
    /\ UNCHANGED <<replies, lapsed, dropped>>

-----------------------------------------------------------------------------
(* The environment *)

\* Another process dies with its lock.
LockCrash(c) ==
    /\ c \notin Local /\ pc[c] = "work"
    /\ pc' = [pc EXCEPT ![c] = "over"]
    /\ UNCHANGED <<lock, replies, held, lapsed, dropped>>

\* This process dies, and with it what it remembers.
CrashLocal ==
    /\ \E c \in Local : pc[c] \in {"granted", "work"}
    /\ pc' = [c \in Callers |->
                IF c \in Local /\ pc[c] \in {"granted", "work"} THEN "over" ELSE pc[c]]
    /\ held' = << >> /\ replies' = << >>
    /\ UNCHANGED <<lock, lapsed, dropped>>

LockTick ==
    /\ lock # NoLock
    /\ IF lock.left = 1
         THEN lock' = NoLock /\ lapsed' = lapsed \cup {lock.by}
         ELSE lock' = [lock EXCEPT !.left = @ - 1] /\ UNCHANGED lapsed
    /\ UNCHANGED <<pc, replies, held, dropped>>

LockNext ==
    \/ \E c \in Callers :
         \/ TryLock(c) \/ TryLockRefused(c) \/ TryLockLost(c)
         \/ Release(c) \/ Extend(c) \/ Remember(c) \/ ReleaseKey(c) \/ LockCrash(c)
    \/ SweepByOther \/ CrashLocal \/ LockTick

LockSpec == LockInit /\ [][LockNext]_lockVars

\* Valkey expires keys by itself.
LockLiveSpec == LockSpec /\ WF_lockVars(LockTick)

-----------------------------------------------------------------------------
(* Properties *)

\* Every variable holds a value of its shape; a process remembers a lock once.
LockTypeOK ==
    /\ lock \in [by : Callers \cup {Nobody}, left : 0..Lease]
    /\ lock.by = Nobody <=> lock = NoLock
    /\ pc \in [Callers -> {"idle", "granted", "work", "over"}]
    /\ replies \in Seq(Local)
    /\ held \in Seq(Local) /\ Len(held) <= HeldCap
    /\ \A i, j \in 1..Len(held) : held[i] = held[j] => i = j
    /\ lapsed \subseteq Callers /\ dropped \subseteq Local

\* The lock excludes: of two callers that believe they hold it, one overran its
\* lease (tryLock: "a lock cannot make an overrunning job stop"), as long as the
\* process dropped no entry of a running holder.
Exclusion ==
    \A c, d \in Callers :
        (c # d /\ pc[c] \in {"granted", "work"} /\ pc[d] \in {"granted", "work"})
            => (c \in lapsed \/ d \in lapsed \/ dropped # {})

\* While its holder works, a lock ends by its lease or by its holder's own call.
KeptWhileWorking(c) ==
    (lock.by = c /\ lock'.by # c /\ pc[c] \in {"granted", "work"})
        => (c \in lapsed' \/ pc'[c] = "over")

\* No late release, with or without a handle, frees the live lock of a holder that
\* took over, unless the process had dropped the entry of a running holder.
LateReleaseSafe == [][dropped # {} \/ \A c \in Callers : KeptWhileWorking(c)]_lockVars

\* releaseLock: a first holder's late release "can never free the second holder's
\* live lock".
NeverFreesSecond == [][\A c \in Callers : KeptWhileWorking(c)]_lockVars

\* The lock of a caller that is gone is freed, although an earlier holder that
\* overran its lease may go on extending.
GoneLockFreed == \A c \in Callers : pc[c] = "over" ~> lock.by # c

\* The lock of withLock: its shape, and that it excludes.
LockSafe == LockTypeOK /\ Exclusion
=============================================================================
