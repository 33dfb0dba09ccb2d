----------------------------- MODULE LockProofs -----------------------------
(***************************************************************************)
(* Proofs about the locks: CacheLock, ExclusiveJob and Idempotency.        *)
(***************************************************************************)
EXTENDS CacheLock, ExclusiveJob, Idempotency, FiniteSetTheorems, TLAPS

-----------------------------------------------------------------------------
(***************************************************************************)
(* Proofs about CacheLock, for any number of callers, any lease and any    *)
(* bound of the remembered locks.                                          *)
(*                                                                         *)
(* releaseLock carries no handle: it releases the oldest remembered lock,  *)
(* whoever calls.  That is safe as long as the process remembers exactly   *)
(* one lock for each caller that works under one: when the oldest entry is *)
(* the live lock it is the only entry, so the only caller at work is its   *)
(* holder.                                                                 *)
(***************************************************************************)

USE CacheLockAssumption

\* The callers of this process between acquireLock and releaseLock.
Workers == {c \in Local : pc[c] = "work"}

BusyPcs == {"granted", "work"}

\* The shapes the argument needs; what a sweep leaves of held is not among them.
Shapes ==
    /\ lock \in [by : Callers \cup {Nobody}, left : 0..Lease]
    /\ lock.by = Nobody <=> lock = NoLock
    /\ lock.by # Nobody => lock.left > 0
    /\ pc \in [Callers -> {"idle", "granted", "work", "over"}]
    /\ replies \in Seq(Local)

\* The answers to be processed are those of the callers that wait for one.
AnswersOK ==
    /\ \A c \in Callers : pc[c] = "granted" => \E i \in 1..Len(replies) : replies[i] = c
    /\ \A i \in 1..Len(replies) : pc[replies[i]] = "granted"
    /\ \A i, j \in 1..Len(replies) : replies[i] = replies[j] => i = j

\* A holder in time has the lock.
InTimeHolds == \A c \in Callers : (pc[c] \in BusyPcs /\ c \notin lapsed) => lock.by = c

\* One remembered lock for each caller at work.
OneEach ==
    /\ held \in Seq(Local)
    /\ \A i \in 1..Len(held) : pc[held[i]] \in {"work", "over"}
    /\ IsFiniteSet(Workers) /\ Cardinality(Workers) = Len(held)

\* The live lock is the newest that this process took, remembered or not yet.
LiveIsNewest ==
    /\ \A i \in 1..Len(held) : lock.by = held[i] => i = Len(held) /\ replies = << >>
    /\ \A j \in 1..Len(replies) : lock.by = replies[j] => j = Len(replies)

LockInv == Shapes /\ AnswersOK /\ (dropped = {} => InTimeHolds /\ OneEach /\ LiveIsNewest)

-----------------------------------------------------------------------------
\* Initially nobody holds anything.
LEMMA LockInitInv == LockInit => LockInv
  <1> SUFFICES ASSUME LockInit PROVE LockInv
    OBVIOUS
  <1>1. Workers = {}
    BY DEF LockInit, Workers
  <1>2. OneEach
    BY <1>1, FS_EmptySet DEF LockInit, OneEach
  <1> QED
    BY <1>2 DEF LockInit, LockInv, Shapes, AnswersOK, InTimeHolds, LiveIsNewest, NoLock, BusyPcs

\* When the oldest remembered lock is the live one, whoever calls releaseLock is
\* its holder.
LEMMA OldestIsOwn ==
    ASSUME LockInv, dropped = {}, NEW c \in Local, pc[c] = "work",
           held # << >>, lock.by = Head(held)
    PROVE  Workers = {c} /\ Len(held) = 1
  <1>1. OneEach /\ LiveIsNewest
    BY DEF LockInv
  <1>2. Len(held) = 1
    BY <1>1 DEF OneEach, LiveIsNewest
  <1>3. \E x : Workers = {x}
    BY <1>1, <1>2, FS_Singleton DEF OneEach
  <1>4. c \in Workers
    BY DEF Workers
  <1> QED BY <1>2, <1>3, <1>4

\* A caller at work is remembered somewhere: the list is not empty.
LEMMA SomeHeld ==
    ASSUME LockInv, dropped = {}, NEW c \in Local, pc[c] = "work"
    PROVE  held # << >>
  <1>1. OneEach
    BY DEF LockInv
  <1>2. c \in Workers
    BY DEF Workers
  <1>3. Cardinality(Workers) # 0
    BY <1>1, <1>2, FS_EmptySet DEF OneEach
  <1> QED BY <1>1, <1>3 DEF OneEach
-----------------------------------------------------------------------------
\* Every step keeps the shapes.
LEMMA ShapesStep ==
    ASSUME LockInv, [LockNext]_lockVars
    PROVE  Shapes'
  <1> USE DEF LockInv, Shapes, NoLock, LockOf, Released
  <1>1. CASE UNCHANGED lockVars
    BY <1>1 DEF lockVars
  <1>2. ASSUME NEW c \in Callers,
               \/ TryLock(c) \/ TryLockRefused(c) \/ TryLockLost(c)
               \/ Release(c) \/ Extend(c) \/ ReleaseKey(c) \/ LockCrash(c)
        PROVE  Shapes'
    <2>1. CASE TryLock(c)
      BY <2>1 DEF TryLock
    <2>2. CASE TryLockRefused(c) \/ TryLockLost(c) \/ LockCrash(c)
      BY <2>2 DEF TryLockRefused, TryLockLost, LockCrash
    <2>3. CASE Release(c)
      BY <2>3 DEF Release
    <2>4. CASE Extend(c)
      BY <2>4 DEF Extend
    <2>5. CASE ReleaseKey(c)
      BY <2>5 DEF ReleaseKey
    <2> QED BY <1>2, <2>1, <2>2, <2>3, <2>4, <2>5
  <1>3. ASSUME NEW c \in Callers, Remember(c) PROVE Shapes'
    <2>1. replies # << >>
      BY <1>3 DEF Remember, AnswersOK
    <2>2. replies' \in Seq(Local)
      BY <1>3, <2>1 DEF Remember
    <2> QED BY <1>3, <2>2 DEF Remember
  <1>4. CASE SweepByOther \/ CrashLocal
    <2>1. CASE SweepByOther
      BY <2>1 DEF SweepByOther
    <2>2. CASE CrashLocal
      <3>1. pc' \in [Callers -> {"idle", "granted", "work", "over"}]
        BY <2>2 DEF CrashLocal
      <3> QED BY <2>2, <3>1 DEF CrashLocal
    <2> QED BY <1>4, <2>1, <2>2
  <1>5. CASE LockTick
    <2>1. CASE lock.left = 1
      BY <1>5, <2>1 DEF LockTick
    <2>2. CASE lock.left # 1
      <3>1. lock.left \in 0..Lease /\ lock.left > 0 /\ lock.left - 1 \in 0..Lease /\ lock.left - 1 > 0
        BY <1>5, <2>2 DEF LockTick
      <3>2. lock' = [lock EXCEPT !.left = @ - 1] /\ pc' = pc /\ replies' = replies
        BY <1>5, <2>2 DEF LockTick
      <3> QED BY <3>1, <3>2
    <2> QED BY <2>1, <2>2
  <1> QED BY <1>1, <1>2, <1>3, <1>4, <1>5 DEF LockNext

\* Every step keeps the answers.
LEMMA AnswersStep ==
    ASSUME LockInv, [LockNext]_lockVars
    PROVE  AnswersOK'
  <1> USE DEF LockInv, Shapes, AnswersOK
  <1>1. CASE UNCHANGED lockVars
    BY <1>1 DEF lockVars
  <1>2. ASSUME NEW c \in Callers, TryLock(c) PROVE AnswersOK'
    <2>1. CASE c \in Local
      BY <1>2, <2>1 DEF TryLock
    <2>2. CASE c \notin Local
      BY <1>2, <2>2 DEF TryLock
    <2> QED BY <2>1, <2>2
  <1>3. ASSUME NEW c \in Callers,
               \/ TryLockRefused(c) \/ TryLockLost(c)
               \/ Release(c) \/ Extend(c) \/ ReleaseKey(c) \/ LockCrash(c)
        PROVE  AnswersOK'
    BY <1>3 DEF TryLockRefused, TryLockLost, Release, Extend, ReleaseKey, LockCrash
  <1>4. ASSUME NEW c \in Callers, Remember(c) PROVE AnswersOK'
    <2>1. replies # << >> /\ c = replies[1]
      BY <1>4 DEF Remember
    <2>2. /\ replies' = Tail(replies) /\ Len(replies') = Len(replies) - 1
          /\ \A i \in 1..Len(replies') : replies'[i] = replies[i + 1]
          /\ pc' = [pc EXCEPT ![c] = "work"]
      BY <1>4, <2>1 DEF Remember
    <2>3. \A d \in Callers : pc'[d] = "granted" => \E i \in 1..Len(replies') : replies'[i] = d
      <3> SUFFICES ASSUME NEW d \in Callers, pc'[d] = "granted"
                   PROVE  \E i \in 1..Len(replies') : replies'[i] = d
        OBVIOUS
      <3>1. PICK i \in 1..Len(replies) : replies[i] = d
        BY <2>2
      <3>2. i # 1
        BY <2>1, <2>2, <3>1
      <3>3. i - 1 \in 1..Len(replies') /\ replies'[i - 1] = d
        BY <2>2, <3>1, <3>2
      <3> QED BY <3>3
    <2>4. \A i \in 1..Len(replies') : pc'[replies'[i]] = "granted"
      BY <2>1, <2>2
    <2>5. \A i, j \in 1..Len(replies') : replies'[i] = replies'[j] => i = j
      BY <2>1, <2>2
    <2> QED BY <2>3, <2>4, <2>5
  <1>5. CASE SweepByOther \/ LockTick
    BY <1>5 DEF SweepByOther, LockTick
  <1>6. CASE CrashLocal
    <2>1. replies' = << >>
      BY <1>6 DEF CrashLocal
    <2>2. \A d \in Callers : pc'[d] # "granted"
      <3> SUFFICES ASSUME NEW d \in Callers, pc[d] = "granted" PROVE d \in Local
        BY <1>6 DEF CrashLocal
      <3> QED BY DEF AnswersOK
    <2> QED BY <2>1, <2>2
  <1> QED BY <1>1, <1>2, <1>3, <1>4, <1>5, <1>6 DEF LockNext

\* While nothing was dropped, every step keeps who has the lock.
LEMMA HoldsStep ==
    ASSUME LockInv, [LockNext]_lockVars, dropped' = {}
    PROVE  InTimeHolds'
  <1>1. dropped = {}
    BY DEF LockNext, lockVars, TryLock, TryLockRefused, TryLockLost, Release, Extend, Remember,
           ReleaseKey, LockCrash, SweepByOther, CrashLocal, LockTick
  <1>2. Shapes /\ InTimeHolds
    BY <1>1 DEF LockInv
  <1> USE <1>2 DEF Shapes, InTimeHolds, BusyPcs, NoLock, LockOf, Released
  <1>3. CASE UNCHANGED lockVars
    BY <1>3 DEF lockVars
  <1>4. ASSUME NEW c \in Callers, TryLock(c) \/ TryLockLost(c) PROVE InTimeHolds'
    BY <1>4 DEF TryLock, TryLockLost
  <1>5. ASSUME NEW c \in Callers, TryLockRefused(c) \/ LockCrash(c) PROVE InTimeHolds'
    BY <1>5 DEF TryLockRefused, LockCrash
  <1>6. ASSUME NEW c \in Callers, Release(c) \/ Extend(c) PROVE InTimeHolds'
    BY <1>6 DEF Release, Extend
  <1>7. ASSUME NEW c \in Callers, Remember(c) PROVE InTimeHolds'
    BY <1>7 DEF Remember
  <1>8. ASSUME NEW c \in Callers, ReleaseKey(c) PROVE InTimeHolds'
    <2>1. held # << >> /\ c \in Local /\ pc[c] = "work"
      BY <1>1, <1>8, SomeHeld DEF ReleaseKey
    <2>2. CASE lock' = lock
      BY <1>8, <2>2 DEF ReleaseKey
    <2>3. CASE lock' # lock
      <3>1. lock.by = Head(held)
        BY <1>8, <2>1, <2>3 DEF ReleaseKey
      <3>2. Workers = {c} /\ Len(held) = 1
        BY <1>1, <2>1, <3>1, OldestIsOwn
      <3>3. OneEach
        BY <1>1 DEF LockInv
      <3>4. lock.by \in Local /\ pc[lock.by] \in {"work", "over"}
        BY <2>1, <3>1, <3>2, <3>3 DEF OneEach
      <3>5. \A d \in Callers : (pc[d] \in BusyPcs /\ d \notin lapsed) => d = c
        BY <3>2, <3>4 DEF Workers
      <3> QED BY <1>8, <3>5 DEF ReleaseKey
    <2> QED BY <2>2, <2>3
  <1>9. CASE SweepByOther \/ LockTick
    BY <1>9 DEF SweepByOther, LockTick
  <1>10. CASE CrashLocal
    BY <1>10 DEF CrashLocal
  <1> QED BY <1>3, <1>4, <1>5, <1>6, <1>7, <1>8, <1>9, <1>10 DEF LockNext
\* Nothing that was dropped comes back; while nothing is dropped, the entry that
\* Remember adds is the only change of the list.
LEMMA Undropped ==
    ASSUME LockInv, [LockNext]_lockVars, dropped' = {}
    PROVE  /\ dropped = {} /\ Shapes /\ AnswersOK /\ OneEach /\ LiveIsNewest
           /\ SweepByOther => held' = held
           /\ \A c \in Callers : Remember(c) => held' = Append(held, c) /\ c \in Local /\ replies # << >>
  <1>1. dropped = {}
    BY DEF LockNext, lockVars, TryLock, TryLockRefused, TryLockLost, Release, Extend, Remember,
           ReleaseKey, LockCrash, SweepByOther, CrashLocal, LockTick
  <1>2. Shapes /\ AnswersOK /\ OneEach /\ LiveIsNewest
    BY <1>1 DEF LockInv
  <1>3. SweepByOther => held' = held
    BY DEF SweepByOther, Without
  <1>4. ASSUME NEW c \in Callers, Remember(c)
        PROVE  held' = Append(held, c) /\ c \in Local /\ replies # << >>
    <2>1. replies # << >>
      BY <1>2, <1>4 DEF Remember, AnswersOK
    <2>2. PICK gone \in {{}, Stale} :
             LET entries == Append(Without(gone), c)
                 over == Len(entries) > HeldCap
             IN  /\ held' = IF over THEN Tail(entries) ELSE entries
                 /\ dropped' = dropped \cup gone \cup (IF over THEN {Head(entries)} ELSE {})
      BY <1>4 DEF Remember
    <2>3. gone = {} /\ Without(gone) = held
      BY <2>2 DEF Without
    <2>4. ~(Len(Append(held, c)) > HeldCap)
      BY <2>2, <2>3
    <2>5. held' = Append(held, c)
      BY <2>2, <2>3, <2>4
    <2>6. c \in Local
      BY <1>2, <1>4, <2>1 DEF Remember, Shapes
    <2> QED BY <2>1, <2>5, <2>6
  <1> QED BY <1>1, <1>2, <1>3, <1>4

\* While nothing was dropped, every step keeps one remembered lock for each caller
\* at work.
LEMMA OneEachStep ==
    ASSUME LockInv, [LockNext]_lockVars, dropped' = {}
    PROVE  OneEach'
  <1>1. dropped = {} /\ Shapes /\ AnswersOK /\ OneEach
    BY Undropped
  <1> USE <1>1 DEF Shapes, OneEach
  <1>2. ASSUME held' = held, Workers' = Workers,
               \A d \in Local : pc'[d] = pc[d] \/ pc[d] \in {"idle", "granted"} \/ pc'[d] = "over"
        PROVE  OneEach'
    BY <1>2
  <1>3. CASE UNCHANGED lockVars
    BY <1>2, <1>3 DEF lockVars, Workers
  <1>4. ASSUME NEW c \in Callers, TryLock(c) PROVE OneEach'
    <2>1. Workers' = Workers
      BY <1>4 DEF TryLock, Workers
    <2> QED BY <1>2, <1>4, <2>1 DEF TryLock
  <1>5. ASSUME NEW c \in Callers, TryLockRefused(c) \/ TryLockLost(c) PROVE OneEach'
    <2>1. Workers' = Workers
      BY <1>5 DEF TryLockRefused, TryLockLost, Workers
    <2> QED BY <1>2, <1>5, <2>1 DEF TryLockRefused, TryLockLost
  <1>6. ASSUME NEW c \in Callers, Release(c) \/ LockCrash(c) \/ Extend(c) PROVE OneEach'
    <2>1. Workers' = Workers
      BY <1>6 DEF Release, LockCrash, Extend, Workers
    <2> QED BY <1>2, <1>6, <2>1 DEF Release, LockCrash, Extend
  <1>7. ASSUME NEW c \in Callers, Remember(c) PROVE OneEach'
    <2>1. held' = Append(held, c) /\ c \in Local /\ pc[c] = "granted" /\ pc' = [pc EXCEPT ![c] = "work"]
      BY <1>7, Undropped DEF Remember
    <2>2. Workers' = Workers \cup {c} /\ c \notin Workers
      BY <2>1 DEF Workers
    <2>3. IsFiniteSet(Workers') /\ Cardinality(Workers') = Len(held) + 1
      BY <2>2, FS_AddElement
    <2>4. held' \in Seq(Local) /\ Len(held') = Len(held) + 1
      BY <2>1
    <2>5. \A i \in 1..Len(held') : pc'[held'[i]] \in {"work", "over"}
      BY <2>1
    <2> QED BY <2>3, <2>4, <2>5
  <1>8. ASSUME NEW c \in Callers, ReleaseKey(c) PROVE OneEach'
    <2>1. c \in Local /\ pc[c] = "work" /\ pc' = [pc EXCEPT ![c] = "over"]
      BY <1>8 DEF ReleaseKey
    <2>2. held # << >> /\ held' = Tail(held)
      BY <1>8, <2>1, SomeHeld DEF ReleaseKey
    <2>3. Workers' = Workers \ {c} /\ c \in Workers
      BY <2>1 DEF Workers
    <2>4. IsFiniteSet(Workers') /\ Cardinality(Workers') = Len(held) - 1
      BY <2>3, FS_RemoveElement
    <2>5. held' \in Seq(Local) /\ Len(held') = Len(held) - 1
      BY <2>2
    <2>6. \A i \in 1..Len(held') : pc'[held'[i]] \in {"work", "over"}
      BY <2>1, <2>2
    <2> QED BY <2>4, <2>5, <2>6
  <1>9. CASE SweepByOther
    <2>1. held' = held
      BY <1>9, Undropped
    <2> QED BY <1>2, <1>9, <2>1 DEF SweepByOther, Workers
  <1>10. CASE CrashLocal
    <2>1. Workers' = {} /\ held' = << >>
      BY <1>10 DEF CrashLocal, Workers
    <2> QED BY <2>1, FS_EmptySet
  <1>11. CASE LockTick
    BY <1>2, <1>11 DEF LockTick, Workers
  <1> QED BY <1>3, <1>4, <1>5, <1>6, <1>7, <1>8, <1>9, <1>10, <1>11 DEF LockNext

\* The tail of a sequence holds its elements one place further on.
LEMMA TailShifts ==
    ASSUME NEW S, NEW s \in Seq(S), s # << >>
    PROVE  /\ Len(s) \in Nat /\ Len(Tail(s)) = Len(s) - 1 /\ s[1] = Head(s)
           /\ \A i \in 1..Len(Tail(s)) : i \in Nat /\ i + 1 \in 1..Len(s) /\ Tail(s)[i] = s[i + 1]
  OBVIOUS

\* While nothing was dropped, every step keeps the live lock the newest.
LEMMA NewestStep ==
    ASSUME LockInv, [LockNext]_lockVars, dropped' = {}
    PROVE  LiveIsNewest'
  <1>1. dropped = {} /\ Shapes /\ AnswersOK /\ OneEach /\ LiveIsNewest
    BY Undropped
  <1> USE <1>1 DEF Shapes, LiveIsNewest, NoLock, LockOf, Released
  <1>2. held \in Seq(Local) /\ replies \in Seq(Local) /\ Nobody \notin Local
    BY DEF OneEach
  <1>3. ASSUME held' = held, replies' = replies, lock'.by \in {lock.by, Nobody}
        PROVE  LiveIsNewest'
    BY <1>2, <1>3
  <1>4. CASE UNCHANGED lockVars
    BY <1>3, <1>4 DEF lockVars
  <1>5. ASSUME NEW c \in Callers, TryLock(c) \/ TryLockLost(c) PROVE LiveIsNewest'
    <2>1. pc[c] = "idle" /\ lock'.by = c /\ held' = held
      BY <1>5 DEF TryLock, TryLockLost
    <2>2. \A i \in 1..Len(held') : lock'.by # held'[i]
      BY <2>1 DEF OneEach
    <2>3. \A j \in 1..Len(replies) : replies[j] # c
      BY <2>1 DEF AnswersOK
    <2>4. CASE replies' = replies
      BY <2>1, <2>2, <2>3, <2>4
    <2>5. CASE replies' = Append(replies, c)
      BY <1>2, <2>1, <2>2, <2>3, <2>5
    <2> QED BY <1>5, <2>4, <2>5 DEF TryLock, TryLockLost
  <1>6. ASSUME NEW c \in Callers, TryLockRefused(c) \/ Release(c) \/ Extend(c) \/ LockCrash(c)
        PROVE  LiveIsNewest'
    BY <1>3, <1>6 DEF TryLockRefused, Release, Extend, LockCrash
  <1>7. ASSUME NEW c \in Callers, Remember(c) PROVE LiveIsNewest'
    <2>1. /\ held' = Append(held, c) /\ lock' = lock
          /\ replies # << >> /\ c = replies[1] /\ replies' = Tail(replies)
      <3>1. held' = Append(held, c) /\ replies # << >>
        BY <1>7, Undropped
      <3>2. replies[1] = Head(replies)
        BY <1>2, <3>1, TailShifts
      <3> QED BY <1>7, <3>1, <3>2 DEF Remember
    <2>2. /\ Len(replies) \in Nat /\ Len(replies') = Len(replies) - 1
          /\ \A j \in 1..Len(replies') :
                j \in Nat /\ j + 1 \in 1..Len(replies) /\ replies'[j] = replies[j + 1]
      BY <1>2, <2>1, TailShifts
    <2>3. ASSUME NEW j \in 1..Len(replies'), lock'.by = replies'[j]
          PROVE  j = Len(replies')
      <3>1. j + 1 \in 1..Len(replies) /\ lock.by = replies[j + 1]
        BY <2>1, <2>2, <2>3
      <3>2. j + 1 = Len(replies)
        BY <1>1, <3>1 DEF LiveIsNewest
      <3> QED BY <1>2, <2>2, <3>2
    <2>4. ASSUME NEW i \in 1..Len(held'), lock'.by = held'[i]
          PROVE  i = Len(held') /\ replies' = << >>
      <3>1. i = Len(held) + 1 /\ Len(held') = Len(held) + 1
        BY <1>2, <2>1, <2>4
      <3>2. lock.by = replies[1]
        BY <1>2, <2>1, <2>4, <3>1
      <3>3. Len(replies) = 1
        <4>1. 1 \in 1..Len(replies)
          BY <1>2, <2>1
        <4> QED BY <1>1, <3>2, <4>1 DEF LiveIsNewest
      <3> QED BY <1>2, <2>1, <3>1, <3>3
    <2> QED BY <2>3, <2>4
  <1>8. ASSUME NEW c \in Callers, ReleaseKey(c) PROVE LiveIsNewest'
    <2>1. held # << >> /\ held' = Tail(held) /\ replies' = replies /\ lock'.by \in {lock.by, Nobody}
      BY <1>1, <1>8, SomeHeld DEF ReleaseKey
    <2>2. /\ Len(held) \in Nat /\ Len(held') = Len(held) - 1
          /\ \A i \in 1..Len(held') : i \in Nat /\ i + 1 \in 1..Len(held) /\ held'[i] = held[i + 1]
      BY <1>2, <2>1, TailShifts
    <2>3. ASSUME NEW i \in 1..Len(held'), lock'.by = held'[i]
          PROVE  i = Len(held') /\ replies' = << >>
      <3>1. i + 1 \in 1..Len(held) /\ lock.by = held[i + 1]
        <4>1. i + 1 \in 1..Len(held) /\ held'[i] = held[i + 1] /\ held[i + 1] \in Local
          BY <1>2, <2>2
        <4> QED BY <1>2, <2>1, <2>3, <4>1
      <3>2. i + 1 = Len(held) /\ replies = << >>
        BY <1>1, <3>1 DEF LiveIsNewest
      <3>3. i = Len(held')
        <4> HIDE DEF Shapes, LiveIsNewest, Released, NoLock, LockOf
        <4> QED BY <2>2, <3>2
      <3> QED BY <2>1, <3>2, <3>3
    <2>4. \A j \in 1..Len(replies') : lock'.by = replies'[j] => j = Len(replies')
      BY <1>2, <2>1
    <2> QED BY <2>3, <2>4
  <1>9. CASE SweepByOther
    BY <1>3, <1>9, Undropped DEF SweepByOther
  <1>10. CASE CrashLocal
    BY <1>10 DEF CrashLocal
  <1>11. CASE LockTick
    BY <1>3, <1>11 DEF LockTick
  <1> QED BY <1>4, <1>5, <1>6, <1>7, <1>8, <1>9, <1>10, <1>11 DEF LockNext

-----------------------------------------------------------------------------
\* The inductive invariant of the lock (acquireLock, releaseLock, the handles).
THEOREM LockInductive == LockSpec => []LockInv
  <1>1. LockInv /\ [LockNext]_lockVars => LockInv'
    BY ShapesStep, AnswersStep, HoldsStep, OneEachStep, NewestStep DEF LockInv
  <1> QED BY LockInitInv, <1>1, PTL DEF LockSpec

\* The lock excludes: of two callers that believe they hold it one overran its
\* lease, unless the process dropped the entry of a running holder.
THEOREM Excludes == LockSpec => []Exclusion
  <1>1. LockInv => Exclusion
    <2> SUFFICES ASSUME LockInv, NEW c \in Callers, NEW d \in Callers, c # d,
                        pc[c] \in BusyPcs, pc[d] \in BusyPcs, dropped = {},
                        c \notin lapsed, d \notin lapsed
                 PROVE  FALSE
      BY DEF Exclusion, BusyPcs
    <2>1. InTimeHolds
      BY DEF LockInv
    <2> QED BY <2>1 DEF InTimeHolds
  <1> QED BY <1>1, LockInductive, PTL

\* No late release, with a handle or without one, frees the live lock of a holder
\* that took over, unless the process dropped the entry of a running holder.
THEOREM LateReleasesSafe == LockSpec => LateReleaseSafe
  <1> DEFINE Kept == dropped # {} \/ \A c \in Callers : KeptWhileWorking(c)
  <1>1. LockInv /\ [LockNext]_lockVars => Kept
    <2> SUFFICES ASSUME LockInv, [LockNext]_lockVars, dropped = {}, NEW h \in Callers,
                        lock.by = h, lock'.by # h, pc[h] \in BusyPcs
                 PROVE  h \in lapsed' \/ pc'[h] = "over"
      BY DEF KeptWhileWorking, BusyPcs
    <2>1. Shapes /\ OneEach /\ h # Nobody /\ lock # NoLock
      BY DEF LockInv, Shapes, NoLock
    <2> USE <2>1 DEF Shapes, NoLock, LockOf, Released
    <2>2. CASE UNCHANGED lockVars
      BY <2>2 DEF lockVars
    <2>3. ASSUME NEW c \in Callers, TryLock(c) \/ TryLockRefused(c) \/ TryLockLost(c)
          PROVE  h \in lapsed' \/ pc'[h] = "over"
      BY <2>3 DEF TryLock, TryLockRefused, TryLockLost
    <2>4. ASSUME NEW c \in Callers, Release(c) \/ Extend(c) \/ Remember(c) \/ LockCrash(c)
          PROVE  h \in lapsed' \/ pc'[h] = "over"
      BY <2>4 DEF Release, Extend, Remember, LockCrash
    <2>5. ASSUME NEW c \in Callers, ReleaseKey(c)
          PROVE  h \in lapsed' \/ pc'[h] = "over"
      <3>1. held # << >> /\ c \in Local /\ pc[c] = "work" /\ lock.by = Head(held)
        BY <2>5 DEF ReleaseKey
      <3>2. Workers = {c} /\ Len(held) = 1
        BY <3>1, OldestIsOwn
      <3>3. h \in Local /\ pc[h] = "work"
        BY <3>1, <3>2 DEF OneEach, BusyPcs
      <3>4. h = c
        BY <3>2, <3>3 DEF Workers
      <3> QED BY <2>5, <3>4 DEF ReleaseKey
    <2>6. CASE SweepByOther \/ CrashLocal \/ LockTick
      BY <2>6 DEF SweepByOther, CrashLocal, LockTick
    <2> QED BY <2>2, <2>3, <2>4, <2>5, <2>6 DEF LockNext
  <1>2. [][Kept]_lockVars => LateReleaseSafe
    BY PTL DEF LateReleaseSafe
  <1> QED BY <1>1, <1>2, LockInductive, PTL DEF LockSpec
-----------------------------------------------------------------------------
(* What the process remembers, sweeps included *)

\* The places that stay are numbered without a gap: for each k up to their number there is one
\* with k of them up to it.
LEMMA FilterIs ==
    ASSUME NEW n \in Nat, NEW K \in SUBSET (1..n)
    PROVE  /\ IsFiniteSet(K) /\ Cardinality(K) \in Nat /\ Cardinality(K) <= n
           /\ \A k \in 1..Cardinality(K) : \E i \in K : UpTo(i, K) = k
  <1>1. IsFiniteSet(1..n) /\ Cardinality(1..n) = n
    BY FS_Interval
  <1>2. IsFiniteSet(K) /\ Cardinality(K) \in Nat /\ Cardinality(K) <= n
    BY <1>1, FS_Subset, FS_CardinalityType
  <1>3. ASSUME NEW i \in K
        PROVE  /\ IsFiniteSet({j \in K : j <= i}) /\ UpTo(i, K) \in Nat
               /\ UpTo(i, K) <= Cardinality(K) /\ UpTo(i, K) # 0
    <2>1. PICK T : T = {j \in K : j <= i}
      OBVIOUS
    <2>2. T \in SUBSET K /\ i \in T
      BY <2>1
    <2>3. IsFiniteSet(T) /\ Cardinality(T) <= Cardinality(K) /\ Cardinality(T) \in Nat
      BY <1>2, <2>2, FS_Subset, FS_CardinalityType
    <2>4. Cardinality(T) # 0
      BY <2>2, <2>3, FS_EmptySet
    <2> QED BY <2>1, <2>3, <2>4 DEF UpTo
  <1>4. ASSUME NEW i \in K, NEW j \in K, i < j PROVE UpTo(i, K) # UpTo(j, K)
    <2>1. PICK T : T = {m \in K : m <= i}
      OBVIOUS
    <2>2. PICK U : U = {m \in K : m <= j}
      OBVIOUS
    <2>3. IsFiniteSet(U)
      BY <1>3, <2>2
    <2>4. T \in SUBSET U /\ j \in U /\ j \notin T
      <3>1. i \in Int /\ j \in Int /\ \A m \in K : m \in Int
        OBVIOUS
      <3>2. \A m \in K : m <= i => m <= j
        BY <1>4, <3>1
      <3>3. j <= j /\ ~(j <= i)
        BY <1>4, <3>1
      <3> QED BY <2>1, <2>2, <3>2, <3>3
    <2>5. Cardinality(U) # Cardinality(T)
      BY <2>3, <2>4, FS_Subset
    <2> QED BY <2>1, <2>2, <2>5 DEF UpTo
  <1>5. PICK r : r = [i \in K |-> UpTo(i, K)]
    OBVIOUS
  <1>6. r \in [K -> 1..Cardinality(K)]
    <2>1. ASSUME NEW i \in K PROVE UpTo(i, K) \in 1..Cardinality(K)
      <3>1. PICK u : u = UpTo(i, K)
        OBVIOUS
      <3>2. u \in Nat /\ u <= Cardinality(K) /\ u # 0
        BY <1>3, <3>1
      <3>3. u \in 1..Cardinality(K)
        BY <1>2, <3>2
      <3> QED BY <3>1, <3>3
    <2> QED BY <1>5, <2>1
  <1>7. \A i, j \in K : r[i] = r[j] => i = j
    <2> SUFFICES ASSUME NEW i \in K, NEW j \in K, r[i] = r[j], i # j PROVE FALSE
      OBVIOUS
    <2>1. i < j \/ j < i
      OBVIOUS
    <2> QED BY <1>4, <1>5, <2>1
  <1>8. r \in Injection(K, 1..Cardinality(K))
    BY <1>6, <1>7 DEF Injection, IsInjective
  <1>9. IsFiniteSet(1..Cardinality(K)) /\ Cardinality(1..Cardinality(K)) = Cardinality(K)
    BY <1>2, FS_Interval
  <1>10. r \in Surjection(K, 1..Cardinality(K))
    BY <1>8, <1>9, FS_Injection
  <1>11. \A k \in 1..Cardinality(K) : \E i \in K : r[i] = k
    BY <1>10 DEF Surjection
  <1> QED BY <1>2, <1>5, <1>11

\* The list of remembered locks is one of distinct callers of this process that were answered.
Listed(s) ==
    /\ s \in Seq(Local)
    /\ \A i, j \in 1..Len(s) : s[i] = s[j] => i = j

\* A sweep leaves a list of locks that were remembered, no longer than before.
LEMMA WithoutIs ==
    ASSUME Listed(held), NEW gone
    PROVE  /\ Listed(Without(gone)) /\ Len(Without(gone)) <= Len(held)
           /\ \A k \in 1..Len(Without(gone)) :
                 \E i \in 1..Len(held) : Without(gone)[k] = held[i]
  <1>1. CASE gone = {}
    <2>1. Without(gone) = held
      BY <1>1 DEF Without
    <2> QED BY <2>1 DEF Listed
  <1>2. CASE gone # {}
    <2>1. PICK K : K = {i \in 1..Len(held) : held[i] \notin gone}
      OBVIOUS
    <2>2. Len(held) \in Nat /\ K \in SUBSET (1..Len(held)) /\ held \in Seq(Local)
      BY <2>1 DEF Listed
    <2>3. /\ Cardinality(K) \in Nat /\ Cardinality(K) <= Len(held)
          /\ \A k \in 1..Cardinality(K) : \E i \in K : UpTo(i, K) = k
      BY <2>2, FilterIs
    <2>4. PICK n : n = Cardinality(K)
      OBVIOUS
    <2>5. PICK p : p = [k \in 1..n |-> CHOOSE i \in K : UpTo(i, K) = k]
      OBVIOUS
    <2>6. \A k \in 1..n : p[k] \in K /\ UpTo(p[k], K) = k
      BY <2>3, <2>4, <2>5
    <2>7. PICK w : w = [k \in 1..n |-> held[p[k]]]
      OBVIOUS
    <2>8. Without(gone) = w
      <3>1. Without(gone) = [k \in 1..Cardinality(K) |-> held[CHOOSE i \in K : UpTo(i, K) = k]]
        BY <1>2, <2>1 DEF Without
      <3>2. \A k \in 1..n : p[k] = CHOOSE i \in K : UpTo(i, K) = k
        BY <2>5
      <3> QED BY <2>4, <2>7, <3>1, <3>2
    <2>9. w \in Seq(Local) /\ Len(w) = n
      <3>1. ASSUME NEW k \in 1..n PROVE held[p[k]] \in Local
        <4>1. p[k] \in 1..Len(held)
          BY <2>2, <2>6
        <4> QED BY <2>2, <4>1
      <3> QED BY <2>3, <2>4, <2>7, <3>1
    <2>10. \A k \in 1..n : w[k] = held[p[k]] /\ p[k] \in 1..Len(held)
      BY <2>2, <2>6, <2>7
    <2>11. \A k, l \in 1..n : w[k] = w[l] => k = l
      <3> SUFFICES ASSUME NEW k \in 1..n, NEW l \in 1..n, w[k] = w[l] PROVE k = l
        OBVIOUS
      <3>1. p[k] = p[l]
        BY <2>10 DEF Listed
      <3> QED BY <2>6, <3>1
    <2> QED BY <2>3, <2>4, <2>8, <2>9, <2>10, <2>11 DEF Listed
  <1> QED BY <1>1, <1>2

\* e is s with a new entry at the end, and its tail what is left when the oldest is dropped for it.
Grown(s, c, e) ==
    /\ Listed(e) /\ Len(e) = Len(s) + 1 /\ Head(e) \in Local
    /\ \A k \in 1..Len(e) : e[k] = c \/ \E i \in 1..Len(s) : e[k] = s[i]
    /\ Listed(Tail(e)) /\ Len(Tail(e)) = Len(s)
    /\ \A k \in 1..Len(Tail(e)) : Tail(e)[k] = c \/ \E i \in 1..Len(s) : Tail(e)[k] = s[i]

\* A caller that was not remembered is added to a list as acquireLock does it.
LEMMA AddedIs ==
    ASSUME NEW s, Listed(s), NEW c \in Local, \A i \in 1..Len(s) : s[i] # c,
           NEW e, e = Append(s, c)
    PROVE  Grown(s, c, e)
  <1>1. s \in Seq(Local) /\ Len(s) \in Nat
    BY DEF Listed
  <1>2. /\ e \in Seq(Local) /\ Len(e) = Len(s) + 1 /\ e # << >>
        /\ \A i \in 1..Len(s) : e[i] = s[i]
        /\ e[Len(s) + 1] = c
    BY <1>1
  <1>3. \A k \in 1..Len(e) : k = Len(s) + 1 \/ k \in 1..Len(s)
    BY <1>1, <1>2
  <1>4. \A k \in 1..Len(e) : e[k] = c \/ \E i \in 1..Len(s) : e[k] = s[i]
    BY <1>2, <1>3
  <1>5. \A i, j \in 1..Len(e) : e[i] = e[j] => i = j
    BY <1>2, <1>3 DEF Listed
  <1>6. PICK t : t = Tail(e)
    OBVIOUS
  <1>7. /\ t \in Seq(Local) /\ Len(t) = Len(s)
        /\ \A i \in 1..Len(t) : i \in Nat /\ i + 1 \in 1..Len(e) /\ t[i] = e[i + 1]
    <2>1. t \in Seq(Local)
      BY <1>2, <1>6
    <2> QED BY <1>1, <1>2, <1>6, <2>1, TailShifts
  <1>8. ASSUME NEW i \in 1..Len(t), NEW j \in 1..Len(t), t[i] = t[j] PROVE i = j
    <2>1. /\ i + 1 \in 1..Len(e) /\ j + 1 \in 1..Len(e) /\ i \in Nat /\ j \in Nat
          /\ t[i] = e[i + 1] /\ t[j] = e[j + 1]
      BY <1>7
    <2>2. i + 1 = j + 1
      BY <1>5, <1>8, <2>1
    <2> QED BY <2>1, <2>2
  <1>9. \A k \in 1..Len(t) : t[k] = c \/ \E i \in 1..Len(s) : t[k] = s[i]
    BY <1>4, <1>7
  <1>10. Head(e) \in Local
    BY <1>2
  <1>11. Listed(e) /\ Listed(t)
    BY <1>2, <1>5, <1>7, <1>8 DEF Listed
  <1> QED BY <1>2, <1>4, <1>6, <1>7, <1>9, <1>10, <1>11 DEF Grown

\* What is remembered: each lock once and at most HeldCap, of callers that were answered.
HeldInv ==
    /\ Listed(held) /\ Len(held) <= HeldCap
    /\ \A i \in 1..Len(held) : pc[held[i]] \in {"work", "over"}
    /\ lapsed \subseteq Callers /\ dropped \subseteq Local

\* Every step keeps what is remembered in order.
LEMMA HeldStep ==
    ASSUME LockInv, HeldInv, [LockNext]_lockVars
    PROVE  HeldInv'
  <1>1. Shapes /\ AnswersOK
    BY DEF LockInv
  <1>2. Listed(held) /\ held \in Seq(Local) /\ Len(held) \in Nat /\ Len(held) <= HeldCap
    BY DEF HeldInv, Listed
  <1>3. \A i \in 1..Len(held) : held[i] \in Callers /\ pc[held[i]] \in {"work", "over"}
    BY <1>2 DEF HeldInv
  <1>4. Stale \subseteq Local
    BY <1>2 DEF Stale
  <1>5. ASSUME NEW s, held' = s, Listed(s), Len(s) <= HeldCap,
               \A k \in 1..Len(s) : pc'[s[k]] \in {"work", "over"},
               lapsed' \subseteq Callers, dropped' \subseteq Local
        PROVE  HeldInv'
    BY <1>5 DEF HeldInv, Listed
  <1>6. ASSUME held' = held, dropped' = dropped, lapsed' \subseteq Callers,
               \A d \in Callers : pc[d] \in {"work", "over"} => pc'[d] \in {"work", "over"}
        PROVE  HeldInv'
    BY <1>2, <1>3, <1>6 DEF HeldInv, Listed
  <1>7. CASE UNCHANGED lockVars
    BY <1>6, <1>7 DEF lockVars, HeldInv
  <1>8. ASSUME NEW c \in Callers, TryLock(c) \/ TryLockRefused(c) \/ TryLockLost(c) PROVE HeldInv'
    BY <1>1, <1>6, <1>8 DEF TryLock, TryLockRefused, TryLockLost, HeldInv, Shapes
  <1>9. ASSUME NEW c \in Callers, Release(c) \/ Extend(c) \/ LockCrash(c) PROVE HeldInv'
    BY <1>1, <1>6, <1>9 DEF Release, Extend, LockCrash, HeldInv, Shapes
  <1>10. ASSUME NEW c \in Callers, Remember(c) PROVE HeldInv'
    <2>1. PICK gone \in {{}, Stale} :
             LET entries == Append(Without(gone), c)
                 over == Len(entries) > HeldCap
             IN  /\ held' = IF over THEN Tail(entries) ELSE entries
                 /\ dropped' = dropped \cup gone \cup (IF over THEN {Head(entries)} ELSE {})
      BY <1>10 DEF Remember
    <2>2. pc[c] = "granted" /\ pc' = [pc EXCEPT ![c] = "work"] /\ lapsed' = lapsed
      BY <1>10 DEF Remember
    <2>3. c \in Local
      <3>1. PICK i \in 1..Len(replies) : replies[i] = c
        BY <1>1, <2>2 DEF AnswersOK
      <3> QED BY <1>1, <3>1 DEF Shapes
    <2>4. PICK w : w = Without(gone)
      OBVIOUS
    <2>5. /\ Listed(w) /\ Len(w) <= Len(held)
          /\ \A k \in 1..Len(w) : \E i \in 1..Len(held) : w[k] = held[i]
      BY <1>2, <2>4, WithoutIs
    <2>6. \A k \in 1..Len(w) : w[k] # c /\ w[k] \in Callers /\ pc[w[k]] \in {"work", "over"}
      BY <1>3, <2>2, <2>5
    <2>7. PICK e : e = Append(w, c)
      OBVIOUS
    <2>8. Grown(w, c, e)
      <3>1. Listed(w) /\ \A k \in 1..Len(w) : w[k] # c
        BY <2>5, <2>6
      <3> QED BY <2>3, <2>7, <3>1, AddedIs
    <2>9. \A d \in Callers : d = c \/ pc[d] \in {"work", "over"} => pc'[d] \in {"work", "over"}
      BY <1>1, <2>2 DEF Shapes
    <2>10. lapsed' \subseteq Callers /\ dropped \subseteq Local /\ gone \subseteq Local
      BY <1>4, <2>1, <2>2 DEF HeldInv
    <2>11. CASE Len(e) > HeldCap
      <3>1. PICK t : t = Tail(e)
        OBVIOUS
      <3>2. held' = t /\ dropped' = dropped \cup gone \cup {Head(e)}
        BY <2>1, <2>4, <2>7, <2>11, <3>1
      <3>3. \A k \in 1..Len(t) : pc'[t[k]] \in {"work", "over"}
        BY <2>6, <2>8, <2>9, <3>1 DEF Grown
      <3>4. Listed(t) /\ Len(t) <= HeldCap
        BY <1>2, <2>5, <2>8, <3>1 DEF Listed, Grown
      <3>5. dropped' \subseteq Local
        BY <2>8, <2>10, <3>2 DEF Grown
      <3> QED BY <1>5, <2>10, <3>2, <3>3, <3>4, <3>5
    <2>12. CASE ~(Len(e) > HeldCap)
      <3>1. held' = e /\ dropped' = dropped \cup gone
        BY <2>1, <2>4, <2>7, <2>12
      <3>2. \A k \in 1..Len(e) : pc'[e[k]] \in {"work", "over"}
        BY <2>6, <2>8, <2>9 DEF Grown
      <3>3. Len(e) <= HeldCap
        BY <2>8, <2>12 DEF Listed, Grown
      <3> QED BY <1>5, <2>8, <2>10, <3>1, <3>2, <3>3 DEF Grown
    <2> QED BY <2>11, <2>12
  <1>11. ASSUME NEW c \in Callers, ReleaseKey(c) PROVE HeldInv'
    <2>1. /\ \A d \in Callers : pc[d] \in {"work", "over"} => pc'[d] \in {"work", "over"}
          /\ lapsed' \subseteq Callers /\ dropped' \subseteq Local /\ dropped' = dropped
      BY <1>1, <1>11 DEF ReleaseKey, Shapes, HeldInv
    <2>2. CASE held = << >>
      BY <1>6, <1>11, <2>1, <2>2 DEF ReleaseKey
    <2>3. CASE held # << >>
      <3>1. PICK t : t = Tail(held)
        OBVIOUS
      <3>2. t \in Seq(Local)
        BY <1>2, <2>3, <3>1
      <3>3. /\ Len(t) = Len(held) - 1
            /\ \A i \in 1..Len(t) : i \in Nat /\ i + 1 \in 1..Len(held) /\ t[i] = held[i + 1]
        BY <1>2, <2>3, <3>1, TailShifts
      <3>4. \A i, j \in 1..Len(t) : t[i] = t[j] => i = j
        BY <1>2, <3>3 DEF Listed
      <3>5. \A i \in 1..Len(t) : pc'[t[i]] \in {"work", "over"}
        BY <1>3, <2>1, <3>3
      <3>6. held' = t /\ Len(t) <= HeldCap
        BY <1>2, <1>11, <2>3, <3>1, <3>3 DEF ReleaseKey
      <3> QED BY <1>5, <2>1, <3>2, <3>4, <3>5, <3>6 DEF Listed
    <2> QED BY <2>2, <2>3
  <1>12. CASE SweepByOther
    <2>1. PICK w : w = Without(Stale)
      OBVIOUS
    <2>2. /\ Listed(w) /\ Len(w) <= Len(held)
          /\ \A k \in 1..Len(w) : \E i \in 1..Len(held) : w[k] = held[i]
      BY <1>2, <2>1, WithoutIs
    <2>3. /\ held' = w /\ pc' = pc /\ lapsed' \subseteq Callers /\ dropped' \subseteq Local
      BY <1>4, <1>12, <2>1 DEF SweepByOther, HeldInv
    <2>4. \A k \in 1..Len(w) : pc'[w[k]] \in {"work", "over"}
      BY <1>3, <2>2, <2>3
    <2>5. Len(w) <= HeldCap
      BY <1>2, <2>2 DEF Listed
    <2> QED BY <1>5, <2>2, <2>3, <2>4, <2>5
  <1>13. CASE CrashLocal
    <2>1. held' = << >> /\ lapsed' \subseteq Callers /\ dropped' \subseteq Local
      BY <1>13 DEF CrashLocal, HeldInv
    <2>2. Listed(<< >>) /\ Len(<< >>) = 0
      BY DEF Listed
    <2> QED BY <1>5, <2>1, <2>2
  <1>14. CASE LockTick
    BY <1>1, <1>6, <1>14 DEF LockTick, HeldInv, Shapes, NoLock
  <1> QED BY <1>7, <1>8, <1>9, <1>10, <1>11, <1>12, <1>13, <1>14 DEF LockNext

\* The lock of withLock: acquireLock remembers each lock of this process once and never more than
\* the bound, through every sweep, eviction, release and crash, and the lock excludes.
THEOREM LockHolds == LockSpec => []LockSafe
  <1>1. LockInit => HeldInv
    <2>1. Listed(<< >>) /\ Len(<< >>) = 0
      BY DEF Listed
    <2> QED BY <2>1 DEF LockInit, HeldInv
  <1>2. LockInv /\ HeldInv /\ [LockNext]_lockVars => HeldInv'
    BY HeldStep
  <1>3. LockSpec => []HeldInv
    BY <1>1, <1>2, LockInductive, PTL DEF LockSpec
  <1>4. LockInv /\ HeldInv /\ Exclusion => LockSafe
    BY DEF LockInv, Shapes, HeldInv, Listed, LockSafe, LockTypeOK
  <1> QED BY <1>3, <1>4, LockInductive, Excludes, PTL

HIDE CacheLockAssumption

-----------------------------------------------------------------------------
(***************************************************************************)
(* Proofs about ExclusiveJob, for any number of pods and any lease.        *)
(***************************************************************************)

USE ExclusiveJobAssumption

\* A run that has not lost its lock holds it.
CacheHeld == \A p \in Pods : (leaderPc[p] \in OnCache /\ p \notin lost) => leaderLock.by = p
PgHeld == \A p \in Pods : (leaderPc[p] \in OnPg /\ p \notin lost) => session.of = p

LeaderInv == LeaderTypeOK /\ CacheHeld /\ PgHeld

\* Every step of the pods and of the environment keeps the invariant of the leader lock.
LEMMA LeaderStep ==
    ASSUME LeaderInv, [LeaderNext]_leaderVars
    PROVE  LeaderInv'
  <1> USE DEF LeaderInv, LeaderTypeOK, CacheHeld, PgHeld, LeaderNoLock, LeaderLockOf, NoSession, SessionOf, Stages, OnCache, OnPg, Goes, Loses
  <1>1. ASSUME NEW p \in Pods, Fire(p) PROVE LeaderInv'
    BY <1>1 DEF Fire
  <1>2. ASSUME NEW p \in Pods, CacheTaken(p) PROVE LeaderInv'
    BY <1>2 DEF CacheTaken
  <1>3. ASSUME NEW p \in Pods, CacheRefused(p) PROVE LeaderInv'
    BY <1>3 DEF CacheRefused
  <1>4. ASSUME NEW p \in Pods, CacheFreed(p) PROVE LeaderInv'
    BY <1>4 DEF CacheFreed
  <1>5. ASSUME NEW p \in Pods, PgTaken(p) PROVE LeaderInv'
    BY <1>5 DEF PgTaken
  <1>6. ASSUME NEW p \in Pods, PgRefused(p) PROVE LeaderInv'
    BY <1>6 DEF PgRefused
  <1>7. ASSUME NEW p \in Pods, PgFreed(p) PROVE LeaderInv'
    BY <1>7 DEF PgFreed
  <1>8. ASSUME NEW p \in Pods, FnEnds(p) PROVE LeaderInv'
    BY <1>8 DEF FnEnds
  <1>9. ASSUME NEW p \in Pods, LeaderCrash(p) PROVE LeaderInv'
    BY <1>9 DEF LeaderCrash
  <1>10. ASSUME NEW p \in Pods, Flap(p) PROVE LeaderInv'
    BY <1>10 DEF Flap
  <1>11. CASE LeaderTick
    BY <1>11 DEF LeaderTick
  <1>12. CASE SessionCut
    BY <1>12 DEF SessionCut
  <1>13. CASE SessionEnds
    BY <1>13 DEF SessionEnds
  <1>14. CASE UNCHANGED leaderVars
    BY <1>14 DEF leaderVars
  <1> QED
    BY <1>1, <1>2, <1>3, <1>4, <1>5, <1>6, <1>7, <1>8, <1>9, <1>10, <1>11, <1>12, <1>13, <1>14 DEF LeaderNext

\* LeaderInv is an invariant of the election.
THEOREM LeaderInductive == LeaderSpec => []LeaderInv
  <1>1. LeaderInit => LeaderInv
    BY DEF LeaderInit, LeaderInv, LeaderTypeOK, CacheHeld, PgHeld, LeaderNoLock, NoSession, Stages, OnCache, OnPg
  <1> QED BY <1>1, LeaderStep, PTL DEF LeaderSpec

\* Type correctness, and no advisory lock outlives the run that took it on a
\* connection that is still in use.
THEOREM LeaderTypeCorrect == LeaderSpec => []LeaderTypeOK
  <1>1. LeaderInv => LeaderTypeOK
    BY DEF LeaderInv
  <1> QED BY <1>1, LeaderInductive, PTL

\* ExclusiveJob.run: two runs under one kind of lock need a lost lock, for any
\* number of pods.
THEOREM ElectsOne == LeaderSpec => []OneRunnerPerLock
  <1>1. LeaderInv => OneRunnerPerLock
    BY DEF LeaderInv, CacheHeld, PgHeld, OneRunnerPerLock
  <1> QED BY <1>1, LeaderInductive, PTL
-----------------------------------------------------------------------------
(* Each step of the election is a step of Lease, or none *)

\* Every step of ExclusiveJob is a step of the cache lock taken as a lease, or leaves it alone.
LEMMA CacheStep ==
    ASSUME LeaderInv, [LeaderNext]_leaderVars
    PROVE  [CacheLease!LeaseNext]_(CacheLease!leaseVars)
  <1> USE DEF LeaderInv, LeaderTypeOK, CacheHeld, LeaderNoLock, LeaderLockOf, Stages, OnCache, OnPg, Goes, Loses, On,
              CacheLease!LeaseNext, CacheLease!leaseVars
  <1>1. ASSUME NEW p \in Pods, Fire(p) PROVE UNCHANGED CacheLease!leaseVars
    BY <1>1 DEF Fire
  <1>2. ASSUME NEW p \in Pods, CacheTaken(p) PROVE CacheLease!Enter(p)
    BY <1>2 DEF CacheTaken, CacheLease!Enter
  <1>3. ASSUME NEW p \in Pods, CacheRefused(p) PROVE CacheLease!Orphan(p) \/ UNCHANGED CacheLease!leaseVars
    BY <1>3 DEF CacheRefused, CacheLease!Orphan
  <1>4. ASSUME NEW p \in Pods, CacheFreed(p) PROVE CacheLease!Leave(p)
    BY <1>4 DEF CacheFreed, CacheLease!Leave
  <1>5. ASSUME NEW p \in Pods, PgTaken(p) \/ PgRefused(p) \/ PgFreed(p) \/ FnEnds(p) \/ Flap(p)
        PROVE  UNCHANGED CacheLease!leaseVars
    BY <1>5 DEF PgTaken, PgRefused, PgFreed, FnEnds, Flap
  <1>6. ASSUME NEW p \in Pods, LeaderCrash(p) PROVE CacheLease!Leave(p) \/ UNCHANGED CacheLease!leaseVars
    BY <1>6 DEF LeaderCrash, CacheLease!Leave
  <1>7. CASE LeaderTick
    BY <1>7 DEF LeaderTick, CacheLease!Lapse, CacheLease!Reap
  <1>8. CASE SessionCut \/ SessionEnds
    BY <1>8 DEF SessionCut, SessionEnds, NoSession
  <1>9. CASE UNCHANGED leaderVars
    BY <1>9 DEF leaderVars
  <1> QED
    BY <1>1, <1>2, <1>3, <1>4, <1>5, <1>6, <1>7, <1>8, <1>9 DEF LeaderNext

\* Every step of ExclusiveJob is a step of the PostgreSQL lock taken as a lease, or leaves it alone.
LEMMA PgStep ==
    ASSUME LeaderInv, [LeaderNext]_leaderVars
    PROVE  [PgLease!LeaseNext]_(PgLease!leaseVars)
  <1> USE DEF LeaderInv, LeaderTypeOK, PgHeld, NoSession, SessionOf, Stages, OnCache, OnPg, Goes, Loses, On,
              PgLease!LeaseNext, PgLease!leaseVars
  <1>1. ASSUME NEW p \in Pods, Fire(p) PROVE UNCHANGED PgLease!leaseVars
    BY <1>1 DEF Fire
  <1>2. ASSUME NEW p \in Pods, PgTaken(p) PROVE PgLease!Enter(p)
    BY <1>2 DEF PgTaken, PgLease!Enter
  <1>3. ASSUME NEW p \in Pods, PgRefused(p) PROVE PgLease!Orphan(p) \/ UNCHANGED PgLease!leaseVars
    BY <1>3 DEF PgRefused, PgLease!Orphan
  <1>4. ASSUME NEW p \in Pods, PgFreed(p) PROVE PgLease!Leave(p)
    BY <1>4 DEF PgFreed, PgLease!Leave
  <1>5. ASSUME NEW p \in Pods, CacheTaken(p) \/ CacheRefused(p) \/ CacheFreed(p) \/ FnEnds(p) \/ Flap(p)
        PROVE  UNCHANGED PgLease!leaseVars
    BY <1>5 DEF CacheTaken, CacheRefused, CacheFreed, FnEnds, Flap
  <1>6. ASSUME NEW p \in Pods, LeaderCrash(p) PROVE PgLease!Leave(p) \/ UNCHANGED PgLease!leaseVars
    BY <1>6 DEF LeaderCrash, PgLease!Leave
  <1>7. CASE SessionEnds
    BY <1>7 DEF SessionEnds, PgLease!Lapse, PgLease!Reap
  <1>8. CASE SessionCut \/ LeaderTick
    BY <1>8 DEF SessionCut, LeaderTick
  <1>9. CASE UNCHANGED leaderVars
    BY <1>9 DEF leaderVars
  <1> QED
    BY <1>1, <1>2, <1>3, <1>4, <1>5, <1>6, <1>7, <1>8, <1>9 DEF LeaderNext

\* The cache lock of runExclusively implements a lock with a lease, for any number of pods.
THEOREM CacheLockIsLease == LeaderSpec => CacheLease!LeaseSpec
  <1>1. LeaderInit => CacheLease!LeaseInit
    BY DEF LeaderInit, LeaderNoLock, OnCache, On, CacheLease!LeaseInit
  <1> QED BY <1>1, CacheStep, LeaderInductive, PTL DEF LeaderSpec, CacheLease!LeaseSpec

\* So does the advisory lock of runWithoutCache.
THEOREM AdvisoryLockIsLease == LeaderSpec => PgLease!LeaseSpec
  <1>1. LeaderInit => PgLease!LeaseInit
    BY DEF LeaderInit, NoSession, OnPg, On, PgLease!LeaseInit
  <1> QED BY <1>1, PgStep, LeaderInductive, PTL DEF LeaderSpec, PgLease!LeaseSpec


\* Types and election, together.
THEOREM LeaderIsSafe == LeaderSpec => []LeaderSafe
  BY LeaderTypeCorrect, ElectsOne, PTL DEF LeaderSafe

HIDE ExclusiveJobAssumption

-----------------------------------------------------------------------------
(***************************************************************************)
(* Proofs about Idempotency, for any number of requests and fingerprints   *)
(* and any lease.                                                          *)
(***************************************************************************)

USE IdempotencyAssumption

\* The handler of the request runs or succeeded.
Active(r) == effect[r] \in {"running", "ok"}

\* What the stage of a request says of its handler.
StagesOK ==
    \A r \in Requests :
        /\ idemPc[r] = "new" => effect[r] = "none"
        /\ idemPc[r] \in {"run", "open"} => effect[r] = "running"
        /\ idemPc[r] = "open" => r \in loose
        /\ idemPc[r] = "store" => effect[r] = "ok"
        /\ idemPc[r] = "release" => effect[r] \in {"ok", "failed"}
        /\ (idemPc[r] = "release" /\ effect[r] = "ok" /\ r \notin loose) => record.st # "none"

\* The key stands for every request that is not loose: it holds the claim, or
\* there is a record.
Guarded ==
    \A r \in Requests : (Active(r) /\ r \notin loose) => (claim.by = r \/ record.st # "none")

\* A stored outcome is the outcome of a handler that succeeded.
RecordOK ==
    record.st \in Readable => record.by \in Requests /\ effect[record.by] = "ok"

IdemInv ==
    /\ IdemTypeOK /\ StagesOK /\ Guarded /\ RecordOK /\ ReplayFaithful /\ RunOnce

\* A handler that succeeded stays so, whatever the next step does.
LEMMA OkStays ==
    ASSUME IdemInv, [IdemNext]_idemVars, NEW r \in Requests, effect[r] = "ok"
    PROVE  effect'[r] = "ok"
  <1>1. effect \in [Requests -> Effects] /\ idemPc \in [Requests -> IdemStages] /\ idemPc[r] \notin {"new", "run", "open"}
    BY DEF IdemInv, IdemTypeOK, StagesOK
  <1>2. CASE UNCHANGED idemVars
    BY <1>2 DEF idemVars
  <1>3. ASSUME NEW s \in Requests,
               \/ FailOpen(s) \/ MissUnreadable(s) \/ Replay(s) \/ KeyReused(s)
               \/ InFlight(s) \/ Claim(s) \/ ClaimResent(s) \/ HandlerOk(s) \/ HandlerFails(s)
               \/ Store(s) \/ IdemRelease(s) \/ Renew(s) \/ IdemCrash(s)
        PROVE  effect'[r] = "ok"
    BY <1>1, <1>3 DEF FailOpen, MissUnreadable, Replay, KeyReused, InFlight, Claim, ClaimResent,
          HandlerOk, HandlerFails, Store, IdemRelease, Renew, IdemCrash, Starts, Refuses
  <1>4. CASE IdemTick \/ Forget \/ Damage
    BY <1>4 DEF IdemTick, Forget, Damage
  <1> QED BY <1>2, <1>3, <1>4 DEF IdemNext

\* Every step keeps the types.
LEMMA TypeStep ==
    ASSUME IdemInv, [IdemNext]_idemVars
    PROVE  IdemTypeOK'
  <1> USE DEF IdemTypeOK, NoRecord, NoClaim, ClaimOf, Readable, Told, IdemStages, Effects, Answers
  <1>1. IdemTypeOK /\ RecordOK
    BY DEF IdemInv
  <1>2. CASE UNCHANGED idemVars
    BY <1>1, <1>2 DEF idemVars
  <1>3. ASSUME NEW r \in Requests
        PROVE  /\ FailOpen(r) => IdemTypeOK'
               /\ MissUnreadable(r) => IdemTypeOK'
               /\ Replay(r) => IdemTypeOK'
               /\ KeyReused(r) => IdemTypeOK'
               /\ InFlight(r) => IdemTypeOK'
               /\ Claim(r) => IdemTypeOK'
               /\ ClaimResent(r) => IdemTypeOK'
               /\ HandlerOk(r) => IdemTypeOK'
               /\ HandlerFails(r) => IdemTypeOK'
               /\ Store(r) => IdemTypeOK'
               /\ IdemRelease(r) => IdemTypeOK'
               /\ Renew(r) => IdemTypeOK'
               /\ IdemCrash(r) => IdemTypeOK'
    <2>1. FailOpen(r) => IdemTypeOK'
      BY <1>1 DEF FailOpen, Starts
    <2>2. MissUnreadable(r) => IdemTypeOK'
      BY <1>1 DEF MissUnreadable, Starts
    <2>3. Replay(r) => IdemTypeOK'
      BY <1>1 DEF Replay, Refuses
    <2>4. KeyReused(r) => IdemTypeOK'
      BY <1>1 DEF KeyReused, Refuses
    <2>5. InFlight(r) => IdemTypeOK'
      BY <1>1 DEF InFlight, Refuses
    <2>6. Claim(r) => IdemTypeOK'
      BY <1>1 DEF Claim, Starts
    <2>7. ClaimResent(r) => IdemTypeOK'
      BY <1>1 DEF ClaimResent
    <2>8. ASSUME HandlerOk(r)
          PROVE  IdemTypeOK'
      <3>1. effect' \in [Requests -> Effects]
        BY <1>1, <2>8 DEF HandlerOk
      <3>2. idemPc' \in [Requests -> IdemStages]
        BY <1>1, <2>8 DEF HandlerOk
      <3>3. answer' \in [Requests -> [kind : Answers, of : Requests \cup {IdemNobody}]]
        BY <1>1, <2>8 DEF HandlerOk
      <3> QED BY <1>1, <2>8, <3>1, <3>2, <3>3 DEF HandlerOk
    <2>9. HandlerFails(r) => IdemTypeOK'
      BY <1>1 DEF HandlerFails
    <2>10. Store(r) => IdemTypeOK'
      BY <1>1 DEF Store
    <2>11. IdemRelease(r) => IdemTypeOK'
      BY <1>1 DEF IdemRelease
    <2>12. Renew(r) => IdemTypeOK'
      BY <1>1 DEF Renew
    <2>13. IdemCrash(r) => IdemTypeOK'
      BY <1>1 DEF IdemCrash
    <2> QED BY <2>1, <2>2, <2>3, <2>4, <2>5, <2>6, <2>7, <2>8, <2>9, <2>10, <2>11, <2>12, <2>13
  <1>4. CASE IdemTick
    BY <1>1, <1>4 DEF IdemTick
  <1>5. CASE Forget
    BY <1>1, <1>5 DEF Forget
  <1>6. CASE Damage
    BY <1>1, <1>6 DEF Damage, Unreadable
  <1> QED BY <1>2, <1>3, <1>4, <1>5, <1>6 DEF IdemNext

\* Every step keeps what the stages say of the handlers.
LEMMA StagesStep ==
    ASSUME IdemInv, [IdemNext]_idemVars
    PROVE  StagesOK'
  <1> USE DEF IdemTypeOK, StagesOK, IdemStages, Effects
  <1>1. IdemTypeOK /\ StagesOK
    BY DEF IdemInv
  <1>2. CASE UNCHANGED idemVars
    BY <1>1, <1>2 DEF idemVars
  <1>3. ASSUME NEW r \in Requests, Replay(r) \/ KeyReused(r) \/ InFlight(r) \/ ClaimResent(r)
        PROVE  StagesOK'
    BY <1>1, <1>3 DEF Replay, KeyReused, InFlight, ClaimResent, Refuses
  <1>4. ASSUME NEW r \in Requests, FailOpen(r) \/ MissUnreadable(r) \/ Claim(r)
        PROVE  StagesOK'
    BY <1>1, <1>4 DEF FailOpen, MissUnreadable, Claim, Starts
  <1>5. ASSUME NEW r \in Requests, HandlerOk(r) \/ HandlerFails(r)
        PROVE  StagesOK'
    BY <1>1, <1>5 DEF HandlerOk, HandlerFails
  <1>6. ASSUME NEW r \in Requests, Store(r)
        PROVE  StagesOK'
    BY <1>1, <1>6 DEF Store, Readable
  <1>7. ASSUME NEW r \in Requests, IdemRelease(r) \/ Renew(r) \/ IdemCrash(r)
        PROVE  StagesOK'
    BY <1>1, <1>7 DEF IdemRelease, Renew, IdemCrash
  <1>8. CASE IdemTick
    BY <1>1, <1>8 DEF IdemTick
  <1>9. CASE Forget
    BY <1>1, <1>9 DEF Forget, Busy
  <1>10. CASE Damage
    BY <1>1, <1>10 DEF Damage, Unreadable
  <1> QED BY <1>2, <1>3, <1>4, <1>5, <1>6, <1>7, <1>8, <1>9, <1>10 DEF IdemNext

\* Every step keeps the key guarded for the requests that are not loose.
LEMMA GuardedStep ==
    ASSUME IdemInv, [IdemNext]_idemVars
    PROVE  Guarded'
  <1> USE DEF IdemTypeOK, StagesOK, Guarded, Active, IdemStages, Effects
  <1>1. IdemTypeOK /\ StagesOK /\ Guarded
    BY DEF IdemInv
  <1>2. CASE UNCHANGED idemVars
    BY <1>1, <1>2 DEF idemVars
  <1>3. ASSUME NEW r \in Requests, Replay(r) \/ KeyReused(r) \/ InFlight(r) \/ IdemCrash(r) \/ Renew(r)
        PROVE  Guarded'
    BY <1>1, <1>3 DEF Replay, KeyReused, InFlight, IdemCrash, Renew, Refuses, ClaimOf
  <1>4. ASSUME NEW r \in Requests, FailOpen(r) \/ MissUnreadable(r)
        PROVE  Guarded'
    BY <1>1, <1>4 DEF FailOpen, MissUnreadable, Starts, NoClaim
  <1>5. ASSUME NEW r \in Requests, Claim(r) \/ ClaimResent(r)
        PROVE  Guarded'
    BY <1>1, <1>5 DEF Claim, ClaimResent, Starts, ClaimOf, NoClaim
  <1>6. ASSUME NEW r \in Requests, HandlerOk(r) \/ HandlerFails(r)
        PROVE  Guarded'
    BY <1>1, <1>6 DEF HandlerOk, HandlerFails
  <1>7. ASSUME NEW r \in Requests, Store(r)
        PROVE  Guarded'
    BY <1>1, <1>7 DEF Store, Readable
  <1>8. ASSUME NEW r \in Requests, IdemRelease(r)
        PROVE  Guarded'
    BY <1>1, <1>8 DEF IdemRelease, NoClaim
  <1>9. CASE IdemTick
    BY <1>1, <1>9 DEF IdemTick, NoClaim
  <1>10. CASE Forget
    BY <1>1, <1>10 DEF Forget
  <1>11. CASE Damage
    BY <1>1, <1>11 DEF Damage, Unreadable
  <1> QED BY <1>2, <1>3, <1>4, <1>5, <1>6, <1>7, <1>8, <1>9, <1>10, <1>11 DEF IdemNext

\* Every step keeps the record that of a success.
LEMMA RecordStep ==
    ASSUME IdemInv, [IdemNext]_idemVars
    PROVE  RecordOK'
  <1>1. IdemTypeOK /\ StagesOK /\ RecordOK
    BY DEF IdemInv
  <1>2. CASE UNCHANGED record
    BY <1>1, <1>2, OkStays DEF RecordOK
  <1>3. ASSUME NEW r \in Requests, Store(r)
        PROVE  RecordOK'
    BY <1>1, <1>3, OkStays DEF Store, RecordOK, StagesOK
  <1>4. CASE Forget \/ Damage
    BY <1>4 DEF Forget, Damage, NoRecord, Unreadable, RecordOK, Readable
  <1> QED
    BY <1>2, <1>3, <1>4 DEF IdemNext, idemVars, FailOpen, MissUnreadable, Replay, KeyReused, InFlight,
          Claim, ClaimResent, HandlerOk, HandlerFails, IdemRelease, Renew, IdemCrash, IdemTick, Refuses

\* Every step keeps the answers faithful.
LEMMA ReplayStep ==
    ASSUME IdemInv, [IdemNext]_idemVars
    PROVE  ReplayFaithful'
  <1>1. IdemTypeOK /\ RecordOK /\ ReplayFaithful
    BY DEF IdemInv
  <1>2. SUFFICES ASSUME NEW r \in Requests, answer'[r].kind \in {"replay", "not-replayable"}
                 PROVE  answer'[r].of \in Requests /\ effect'[answer'[r].of] = "ok"
                        /\ PrintOf[answer'[r].of] = PrintOf[r]
    BY DEF ReplayFaithful
  <1>3. CASE answer'[r] = answer[r]
    BY <1>1, <1>2, <1>3, OkStays DEF ReplayFaithful
  <1>4. CASE Replay(r)
    BY <1>1, <1>4, OkStays DEF Replay, Refuses, Told, IdemTypeOK, RecordOK
  <1>5. answer'[r] = answer[r] \/ Replay(r)
    <2>1. answer \in [Requests -> [kind : Answers, of : Requests \cup {IdemNobody}]]
      BY <1>1 DEF IdemTypeOK
    <2>2. ASSUME NEW s \in Requests, s # r,
                 \/ FailOpen(s) \/ MissUnreadable(s) \/ Replay(s) \/ KeyReused(s)
                 \/ InFlight(s) \/ Claim(s) \/ ClaimResent(s) \/ HandlerOk(s) \/ HandlerFails(s)
                 \/ Store(s) \/ IdemRelease(s) \/ Renew(s) \/ IdemCrash(s)
          PROVE  answer'[r] = answer[r]
      BY <2>1, <2>2 DEF FailOpen, MissUnreadable, Replay, KeyReused, InFlight, Claim, ClaimResent,
            HandlerOk, HandlerFails, Store, IdemRelease, Renew, IdemCrash, Starts, Refuses
    <2>3. ASSUME KeyReused(r) \/ InFlight(r) \/ ClaimResent(r) \/ HandlerFails(r) \/ Store(r)
          PROVE  FALSE
      BY <1>2, <2>1, <2>3 DEF KeyReused, InFlight, ClaimResent, HandlerFails, Store, Refuses, Told
    <2>4. ASSUME HandlerOk(r)
          PROVE  answer'[r] = answer[r]
      BY <1>2, <2>1, <2>4 DEF HandlerOk, Told
    <2>5. ASSUME FailOpen(r) \/ MissUnreadable(r) \/ Claim(r) \/ IdemRelease(r) \/ Renew(r) \/ IdemCrash(r)
                 \/ IdemTick \/ Forget \/ Damage \/ UNCHANGED idemVars
          PROVE  answer'[r] = answer[r]
      BY <2>5 DEF FailOpen, MissUnreadable, Claim, IdemRelease, Renew, IdemCrash, IdemTick, Forget, Damage, Starts, idemVars
    <2> QED BY <2>2, <2>3, <2>4, <2>5 DEF IdemNext
  <1> QED BY <1>3, <1>4, <1>5

\* A step that starts a handler under the claim finds no other request that the
\* key stands for: by Guarded that request would hold the claim or there would be
\* a record, and Claim found neither.
LEMMA RunStep ==
    ASSUME IdemInv, [IdemNext]_idemVars
    PROVE  RunOnce'
  <1>1. IdemTypeOK /\ StagesOK /\ Guarded /\ RunOnce
    BY DEF IdemInv
  <1>2. SUFFICES ASSUME NEW r \in Requests, NEW s \in Requests, r # s,
                        Active(r)', Active(s)', r \notin loose', s \notin loose'
                 PROVE  FALSE
    BY DEF RunOnce, Active
  <1>3. loose \subseteq loose'
    BY DEF IdemNext, idemVars, FailOpen, MissUnreadable, Replay, KeyReused, InFlight, Claim, ClaimResent,
          HandlerOk, HandlerFails, Store, IdemRelease, Renew, IdemCrash, IdemTick, Forget, Damage, Refuses
  <1>4. ASSUME NEW t \in Requests, Active(t)', t \notin loose'
        PROVE  Active(t) \/ Claim(t)
    <2>1. effect \in [Requests -> Effects] /\ idemPc \in [Requests -> IdemStages]
      BY <1>1 DEF IdemTypeOK
    <2>2. CASE effect'[t] = effect[t]
      BY <1>4, <2>2 DEF Active
    <2>3. ASSUME FailOpen(t) \/ MissUnreadable(t)
          PROVE  FALSE
      BY <1>4, <2>3 DEF FailOpen, MissUnreadable
    <2>4. ASSUME HandlerOk(t) \/ HandlerFails(t)
          PROVE  Active(t)
      BY <1>1, <2>4 DEF HandlerOk, HandlerFails, StagesOK, Active
    <2>5. \/ effect'[t] = effect[t] \/ Claim(t) \/ FailOpen(t) \/ MissUnreadable(t)
          \/ HandlerOk(t) \/ HandlerFails(t)
      BY <2>1 DEF IdemNext, idemVars, FailOpen, MissUnreadable, Replay, KeyReused, InFlight, Claim, ClaimResent,
            HandlerOk, HandlerFails, Store, IdemRelease, Renew, IdemCrash, IdemTick, Forget, Damage, Starts, Refuses
    <2> QED BY <2>2, <2>3, <2>4, <2>5
  <1>5. ASSUME NEW t \in Requests, NEW u \in Requests, t # u, Claim(t), Active(u)', u \notin loose'
        PROVE  FALSE
    <2>1. Active(u)
      BY <1>1, <1>5 DEF Claim, Starts, Active, IdemTypeOK
    <2> QED BY <1>1, <1>3, <1>5, <2>1 DEF Claim, NoClaim, Guarded
  <1>6. ~ Claim(r) /\ ~ Claim(s)
    BY <1>2, <1>5
  <1>7. Active(r) /\ Active(s)
    BY <1>2, <1>4, <1>6
  <1> QED BY <1>1, <1>2, <1>3, <1>7 DEF RunOnce, Active

\* IdemInv is an invariant of the interceptor.
THEOREM IdemInductive == IdemSpec => []IdemInv
  <1>1. IdemInit => IdemInv
    BY DEF IdemInit, IdemInv, IdemTypeOK, StagesOK, Guarded, RecordOK, ReplayFaithful, RunOnce, Active,
          NoRecord, NoClaim, NoAnswer, Readable, IdemStages, Effects, Answers
  <1>2. IdemInv /\ [IdemNext]_idemVars => IdemInv'
    BY TypeStep, StagesStep, GuardedStep, RecordStep, ReplayStep, RunStep DEF IdemInv
  <1> QED BY <1>1, <1>2, PTL DEF IdemSpec

\* Type correctness.
THEOREM IdemTypeCorrect == IdemSpec => []IdemTypeOK
  <1>1. IdemInv => IdemTypeOK
    BY DEF IdemInv
  <1> QED BY <1>1, IdemInductive, PTL

\* Of two requests whose handlers run or succeeded one lost its protection, for any
\* number of requests with the key.
THEOREM RunsOnce == IdemSpec => []RunOnce
  <1>1. IdemInv => RunOnce
    BY DEF IdemInv
  <1> QED BY <1>1, IdemInductive, PTL

\* Nobody is told of work that was not done, or that was another question's.
THEOREM ReplaysFaithful == IdemSpec => []ReplayFaithful
  <1>1. IdemInv => ReplayFaithful
    BY DEF IdemInv
  <1> QED BY <1>1, IdemInductive, PTL

\* A stored outcome is replaced only between requests one of which was unprotected.
THEOREM RecordsStable == IdemSpec => RecordStable
  <1> DEFINE Stable == (record.st \in Readable /\ record'.st \in Readable /\ record'.by # record.by)
                          => (record.by \in loose \/ record'.by \in loose)
  <1>1. IdemInv /\ [IdemNext]_idemVars => [Stable]_idemVars
    <2> SUFFICES ASSUME IdemInv, IdemNext, record.st \in Readable, record'.st \in Readable,
                        record'.by # record.by
                 PROVE  record.by \in loose \/ record'.by \in loose
      BY DEF idemVars
    <2>1. PICK r \in Requests : Store(r)
      BY DEF IdemNext, FailOpen, MissUnreadable, Replay, KeyReused, InFlight, Claim, ClaimResent,
            HandlerOk, HandlerFails, IdemRelease, Renew, IdemCrash, IdemTick, Forget, Damage, Refuses,
            NoRecord, Unreadable, Readable
    <2>2. effect[r] = "ok" /\ record'.by = r
      BY <2>1 DEF Store, IdemInv, StagesOK
    <2>3. record.by \in Requests /\ effect[record.by] = "ok"
      BY DEF IdemInv, RecordOK
    <2> QED BY <2>2, <2>3 DEF IdemInv, RunOnce
  <1> QED BY <1>1, IdemInductive, PTL DEF IdemSpec, RecordStable


\* One key, one run of the handler, and replays that tell the truth.
THEOREM IdemIsSafe == IdemSpec => []IdemSafe
  BY IdemTypeCorrect, RunsOnce, ReplaysFaithful, PTL DEF IdemSafe

HIDE IdempotencyAssumption
=============================================================================
