--------------------------- MODULE RuntimeProofs ----------------------------
(***************************************************************************)
(* Proofs about what a process runs on: its shutdown, its jobs engine and  *)
(* queues, its connections, their breaker and its transactions.            *)
(***************************************************************************)
EXTENDS OnceEffect, OrgCreate, JobsLifecycle, DbConnect, Process, QueueConfig, PoolGuard, FiniteSetTheorems, WellFoundedInduction, TLAPS

-----------------------------------------------------------------------------
(***************************************************************************)
(* Proofs about OnceEffect, for any number of deliveries and installers    *)
(* and any number of purges.                                               *)
(***************************************************************************)

USE OnceAssumption

\* A delivery may have an uncommitted row only while no row is committed: the
\* insert of any other one conflicts.
OwnerFirst == owner # Nobody => ~marker

\* An installer that is past its lock has it.
LockHeld == \A i \in Installers : inst[i] \in {"ddl", "unlock"} => locked = i

OnceInv == OnceTypeOK /\ OwnerFirst /\ LockHeld /\ MarkerMeansEffect

\* Initially nothing has run.
LEMMA OnceInitInv == OnceInit => OnceInv
  <1> SUFFICES ASSUME OnceInit PROVE OnceInv
    OBVIOUS
  <1>1. OnceTypeOK
    <2>1. marker \in BOOLEAN /\ joins \subseteq Deliveries
      BY DEF OnceInit
    <2>2. effects \in Nat /\ purges \in 0..MaxPurges
      BY DEF OnceInit
    <2>3. \A d \in Deliveries : txn[d] \in {"claimed", "effected"} <=> owner = d
      BY DEF OnceInit
    <2> QED BY <2>1, <2>2, <2>3 DEF OnceInit, OnceTypeOK
  <1>2. MarkerMeansEffect
    BY DEF OnceInit, MarkerMeansEffect
  <1> QED BY <1>1, <1>2 DEF OnceInit, OnceInv, OwnerFirst, LockHeld

\* Every step keeps the invariant.
LEMMA OnceStepInv == OnceInv /\ [OnceNext]_onceAll => OnceInv'
  <1> SUFFICES ASSUME OnceInv, [OnceNext]_onceAll PROVE OnceInv'
    OBVIOUS
  <1> USE DEF OnceInv, OnceTypeOK, OwnerFirst, LockHeld, MarkerMeansEffect, onceVars, instVars
  <1>1. CASE UNCHANGED onceAll
    BY <1>1 DEF onceAll
  <1>2. CASE Purge
    <2>1. /\ marker /\ ~marker' /\ marker' \in BOOLEAN
          /\ purges' = purges + 1 /\ purges' \in 0..MaxPurges /\ effects' = effects
      <3>1. marker /\ marker' = FALSE
        BY <1>2 DEF Purge
      <3>2. purges' = purges + 1 /\ purges' \in 0..MaxPurges /\ effects' = effects
        BY <1>2 DEF Purge
      <3> QED BY <3>1, <3>2
    <2>2. MarkerMeansEffect'
      BY <2>1
    <2> QED BY <1>2, <2>1, <2>2 DEF Purge
  <1>3. ASSUME NEW d \in Deliveries, Claim(d) PROVE OnceInv'
    <2>1. CASE marker
      BY <1>3, <2>1 DEF Claim
    <2>2. CASE ~marker
      BY <1>3, <2>2 DEF Claim
    <2> QED BY <2>1, <2>2
  <1>4. ASSUME NEW d \in Deliveries, EffectRan(d) PROVE OnceInv'
    BY <1>4 DEF EffectRan
  <1>5. ASSUME NEW d \in Deliveries, EffectThrew(d) PROVE OnceInv'
    <2>1. owner = d
      BY <1>5 DEF EffectThrew
    <2> QED BY <1>5, <2>1 DEF EffectThrew
  <1>6. ASSUME NEW d \in Deliveries, Commit(d) PROVE OnceInv'
    <2>1. CASE txn[d] = "effected"
      <3>1. owner = d /\ ~marker
        BY <2>1
      <3>2. marker' = TRUE /\ effects' = effects + 1 /\ purges' = purges
        BY <1>6, <2>1, <3>1 DEF Commit
      <3>3. MarkerMeansEffect'
        BY <3>1, <3>2
      <3>4. owner' = Nobody /\ txn' = [txn EXCEPT ![d] = "done"]
        BY <1>6, <2>1, <3>1 DEF Commit
      <3>5. OnceTypeOK'
        BY <1>6, <2>1, <3>1, <3>2, <3>4 DEF Commit
      <3> QED BY <1>6, <3>3, <3>4, <3>5 DEF Commit
    <2>2. CASE txn[d] = "caught"
      <3>1. owner # d
        BY <2>2
      <3> QED BY <1>6, <2>2, <3>1 DEF Commit
    <2> QED BY <1>6, <2>1, <2>2 DEF Commit
  <1>7. ASSUME NEW d \in Deliveries, Rollback(d) PROVE OnceInv'
    <2>1. CASE owner = d
      BY <1>7, <2>1 DEF Rollback
    <2>2. CASE owner # d
      BY <1>7, <2>2 DEF Rollback
    <2> QED BY <2>1, <2>2
  <1>8. ASSUME NEW i \in Installers, Lock(i) \/ Installed(i) \/ Unlock(i) \/ UnlockFails(i)
        PROVE  OnceInv'
    BY <1>8 DEF Lock, Installed, Unlock, UnlockFails
  <1> QED BY <1>1, <1>2, <1>3, <1>4, <1>5, <1>6, <1>7, <1>8 DEF OnceNext

-----------------------------------------------------------------------------
\* The inductive invariant of once and of the lock of installs.
THEOREM OnceInductive == OnceSpec => []OnceInv
  BY OnceInitInv, OnceStepInv, PTL DEF OnceSpec

\* jobs.once: the effect of a key commits once per marker, and the marker stands
\* exactly for an effect that committed, however deliveries overlap and fail.
THEOREM OnceIsSafe == OnceSpec => []OnceSafe
  <1>1. OnceInv => OnceSafe
    BY DEF OnceInv, OnceSafe, OnceTypeOK, EffectOnce, MarkerMeansEffect
  <1> QED BY <1>1, OnceInductive, PTL

\* One installer at a time is in installJobsSchema's critical section.
THEOREM OneInstalls ==
    OnceSpec => [](\A i, j \in Installers :
                     (inst[i] \in {"ddl", "unlock"} /\ inst[j] \in {"ddl", "unlock"}) => i = j)
  <1>1. OnceInv => \A i, j \in Installers :
                  (inst[i] \in {"ddl", "unlock"} /\ inst[j] \in {"ddl", "unlock"}) => i = j
    BY DEF OnceInv, LockHeld
  <1> QED BY <1>1, OnceInductive, PTL

HIDE OnceAssumption

-----------------------------------------------------------------------------
(***************************************************************************)
(* OrgCreate, for any creates and any pool: the invariant adds that the    *)
(* connections in use are finitely many and that whoever was answered has  *)
(* ended.                                                                  *)
(***************************************************************************)

\* What makes OrgSafe inductive: the connections in use are finitely many, whoever was
\* answered "ok" has ended, and so has the create whose organization is committed.
OrgInv ==
    /\ OrgSafe
    /\ IsFiniteSet(open)
    /\ \A c \in Creates : answer[c] = "ok" => cp[c] = "end"

\* Initially no transaction is open.
LEMMA OrgInitInv == OrgInit => OrgInv
<1> SUFFICES ASSUME OrgInit PROVE OrgInv
  OBVIOUS
<1>1. IsFiniteSet({}) /\ Cardinality({}) = 0
  BY FS_EmptySet
<1>2. IsFiniteSet(open) /\ InUse <= PoolSize
  BY <1>1, OrgAssumption DEF OrgInit, InUse
<1>3. open = {c \in Creates : cp[c] \in {"insert", "member", "answered", "failed"}}
  BY DEF OrgInit
<1>4. QED
  BY <1>2, <1>3, OrgAssumption DEF OrgInit, OrgInv, OrgSafe, OrgTypeOK, NoOrphanOrg, AnswerTrue

\* Every step of a create keeps the invariant of the organizations.
LEMMA OrgStepInv == OrgInv /\ [OrgNext]_orgVars => OrgInv'
<1> SUFFICES ASSUME OrgInv, [OrgNext]_orgVars PROVE OrgInv'
  OBVIOUS
<1> USE OrgAssumption DEF OrgInv, OrgSafe, OrgTypeOK, NoOrphanOrg, AnswerTrue
<1>1. ASSUME NEW c \in Creates, Check(c) PROVE OrgInv'
  BY <1>1 DEF Check, InUse
<1>2. ASSUME NEW c \in Creates, Begin(c) PROVE OrgInv'
  <2>1. IsFiniteSet(open') /\ Cardinality(open') <= PoolSize
    <3>1. /\ IsFiniteSet(open \cup {c})
          /\ Cardinality(open \cup {c}) = IF c \in open THEN Cardinality(open) ELSE Cardinality(open) + 1
      BY FS_AddElement
    <3>2. Cardinality(open) \in Nat
      BY FS_CardinalityType
    <3>3. QED
      BY <1>2, <3>1, <3>2 DEF Begin, InUse
  <2>2. QED
    BY <1>2, <2>1 DEF Begin, InUse
<1>3. ASSUME NEW c \in Creates, InsertOrg(c) PROVE OrgInv'
  BY <1>3 DEF InsertOrg, ThroughProxy, InUse
<1>4. ASSUME NEW c \in Creates, InsertOwner(c) PROVE OrgInv'
  BY <1>4 DEF InsertOwner, ThroughProxy, InUse
<1>5. ASSUME NEW c \in Creates, Fails(c) PROVE OrgInv'
  BY <1>5 DEF Fails, ThroughProxy, InUse
<1>6. ASSUME NEW c \in Creates, Swallowed(c) PROVE OrgInv'
  BY <1>6 DEF Swallowed, InUse
<1>7. ASSUME NEW c \in Creates, NEW a \in {"ok", "error"}, Ends(c, a),
             cp[c] \in {"failed", "answered"}
      PROVE  /\ IsFiniteSet(open') /\ InUse' <= PoolSize
             /\ viaApi' \subseteq Creates /\ signedIn' \subseteq Creates /\ aborted' \subseteq Creates
             /\ cp' \in [Creates -> {"new", "begin", "insert", "member", "answered", "failed", "end"}]
             /\ open' = {d \in Creates : cp'[d] \in {"insert", "member", "answered", "failed"}}
             /\ answer' \in [Creates -> {"none", "ok", "error"}]
             /\ \A d \in Creates : answer'[d] = "ok" => cp'[d] = "end"
  <2>1. IsFiniteSet(open') /\ Cardinality(open') <= PoolSize
    <3>1. /\ IsFiniteSet(open \ {c})
          /\ Cardinality(open \ {c}) = IF c \in open THEN Cardinality(open) - 1 ELSE Cardinality(open)
      BY FS_RemoveElement
    <3>2. Cardinality(open) \in Nat
      BY FS_CardinalityType
    <3>3. QED
      BY <1>7, <3>1, <3>2 DEF Ends, InUse
  <2>2. QED
    BY <1>7, <2>1 DEF Ends, InUse
<1>8. ASSUME NEW c \in Creates, RolledBack(c) PROVE OrgInv'
  BY <1>7, <1>8 DEF RolledBack, Ends
<1>9. ASSUME NEW c \in Creates, Committed(c) PROVE OrgInv'
  <2>1. CASE c \in aborted \/ org # NoOrg
    BY <1>7, <1>9, <2>1 DEF Committed, Ends
  <2>2. CASE ~(c \in aborted \/ org # NoOrg)
    BY <1>7, <1>9, <2>2 DEF Committed, Ends
  <2>3. QED
    BY <2>1, <2>2
<1>10. CASE UNCHANGED orgVars
  BY <1>10 DEF orgVars, InUse
<1>11. QED
  BY <1>1, <1>2, <1>3, <1>4, <1>5, <1>6, <1>8, <1>9, <1>10 DEF OrgNext

\* "Both rows commit or neither does", each caller is told what was written, and the open
\* transactions fit the pool, for any creates and any pool.
THEOREM OrgAtomic == OrgSpec => []OrgSafe
<1>1. OrgInv => OrgSafe
  BY DEF OrgInv
<1>2. QED
  BY <1>1, OrgInitInv, OrgStepInv, PTL DEF OrgSpec

-----------------------------------------------------------------------------
(***************************************************************************)
(* JobsLifecycle, for any queues, configurations and workers: the          *)
(* invariant says, for each place start, stop, handle and defineQueue can  *)
(* be, what they have left behind.                                         *)
(***************************************************************************)

\* Where a call on a queue can be, for a queue with and without a handler.
CallsFit ==
    \A q \in Queues :
        /\ call[q] # "none" => q \in Defined
        /\ q \in handlers => call[q] \in {"handle", "work", "told", "failed"}
        /\ q \notin handlers => call[q] \in {"none", "define", "told", "failed"} /\ workers[q] = 0
        /\ call[q] = "work" => role = "worker" /\ q \in created
\* What has happened by the time start() is where it is; the state says whether a
\* start() got past boss.start().
StartFits ==
    /\ start \in {"idle", "boss"} => /\ state # "started"
    /\ start \in {"queues", "workers", "done"} => state # "new"
    /\ state = "new" => start \in {"idle", "boss", "failed"}
    /\ state = "new" \/ start \in {"idle", "boss"} =>
           \A q \in Queues : call[q] \in {"none", "told"} /\ workers[q] = 0
    /\ start = "workers" => role = "worker"
    /\ start # "done" => timers = 0
    /\ start = "queues" => visited \subseteq created
    /\ start = "workers" => visited \subseteq handlers
\* After the loop over the queues, who was told of a queue finds it.
ToldFits ==
    start \in {"workers", "done"} =>
        \A q \in Queues : call[q] = "told" => q \in created \/ state = "stopped"
\* A stop() that met nothing in progress is followed by no worker.
StopFits ==
    "stop" \notin overlap =>
        /\ start = "boss" => state = "new"
        /\ state = "stopped" => /\ start \in {"idle", "done", "failed"}
                                /\ timers = 0
                                /\ \A q \in Queues : call[q] \notin {"handle", "work"} /\ workers[q] = 0
\* The workers of a handler, loop by loop, as long as nothing was stopped.
Unstopped == role = "worker" /\ state = "started" /\ "stop" \notin overlap
WorkersFit ==
    Unstopped => \A q \in handlers :
        /\ start = "queues" /\ q \notin overlap => call[q] = "told" /\ workers[q] = 0
        /\ start = "workers" /\ q \notin overlap =>
               call[q] = "told" /\ workers[q] = IF q \in visited THEN 1 ELSE 0
        /\ start = "workers" /\ q \in visited => workers[q] >= 1
        /\ start = "done" /\ q \notin overlap =>
               /\ call[q] = "told" => workers[q] = 1
               /\ call[q] \in {"handle", "work"} => workers[q] = 0
        /\ start = "done" /\ call[q] = "told" => workers[q] >= 1

EngineInv ==
    EngineTypeOK /\ CallsFit /\ StartFits /\ ToldFits /\ StopFits /\ WorkersFit

\* Initially the engine was not started and no call is under way.
LEMMA EngineInitInv == EngineInit => EngineInv
  BY EngineAssumption
  DEF EngineInit, EngineInv, EngineTypeOK, CallsFit, StartFits, ToldFits, StopFits, WorkersFit, Unstopped, Defined

\* Every step of start, stop, handle and defineQueue keeps the invariant of the engine.
LEMMA EngineStepInv == EngineInv /\ [EngineNext]_engineVars => EngineInv'
<1> SUFFICES ASSUME EngineInv, [EngineNext]_engineVars PROVE EngineInv'
  OBVIOUS
<1> USE EngineAssumption DEF EngineInv, EngineTypeOK, CallsFit, StartFits, ToldFits, StopFits, WorkersFit, Unstopped, Defined
<1>1. CASE StartCall
  BY <1>1 DEF StartCall
<1>2. CASE BossStarted
  BY <1>2 DEF BossStarted
<1>3. CASE StartFailed
  BY <1>3 DEF StartFailed
<1>4. CASE QueuesDone
  BY <1>4 DEF QueuesDone
<1>5. CASE WorkersDone
  BY <1>5 DEF WorkersDone
<1>6. CASE Stop
  BY <1>6 DEF Stop, InProgress
<1>7. ASSUME NEW q \in Queues, StartQueue(q) PROVE EngineInv'
  BY <1>7 DEF StartQueue
<1>8. ASSUME NEW q \in Queues, StartHandler(q) PROVE EngineInv'
  <2>1. CASE workers[q] < WorkerCap
    BY <1>8, <2>1 DEF StartHandler, Polls
  <2>2. CASE workers[q] = WorkerCap
    BY <1>8, <2>2 DEF StartHandler, Polls
  <2>3. QED
    BY <2>1, <2>2
<1>9. ASSUME NEW q \in Queues, Ensured(q) PROVE EngineInv'
  <2>1. CASE call[q] = "handle" /\ role = "worker"
    BY <1>9, <2>1 DEF Ensured
  <2>2. CASE ~(call[q] = "handle" /\ role = "worker")
    BY <1>9, <2>2 DEF Ensured
  <2>3. QED
    BY <2>1, <2>2
<1>10. ASSUME NEW q \in Queues, HandlerPolls(q) PROVE EngineInv'
  <2>1. CASE workers[q] < WorkerCap
    BY <1>10, <2>1 DEF HandlerPolls, Polls
  <2>2. CASE workers[q] = WorkerCap
    BY <1>10, <2>2 DEF HandlerPolls, Polls
  <2>3. QED
    BY <2>1, <2>2
<1>11. ASSUME NEW q \in Queues, CallFailed(q) PROVE EngineInv'
  BY <1>11 DEF CallFailed
<1>12. ASSUME NEW q \in Queues, NEW c \in Configs, DefineQueue(q, c) PROVE EngineInv'
  BY <1>12 DEF DefineQueue, Fresh
<1>13. ASSUME NEW q \in Queues, NEW c \in Configs, Handle(q, c) PROVE EngineInv'
  BY <1>13 DEF Handle, Fresh
<1>14. CASE UNCHANGED engineVars
  BY <1>14 DEF engineVars
<1>15. QED
  BY <1>1, <1>2, <1>3, <1>4, <1>5, <1>6, <1>7, <1>8, <1>9, <1>10, <1>11, <1>12, <1>13, <1>14 DEF EngineNext

\* A caller is told of a queue that exists, a queue has one worker and a stopped engine
\* polls nothing, however start, stop, handle and defineQueue overlap, for any queues
\* and configurations.
THEOREM EngineHolds == EngineSpec => []EngineSafe
<1>1. EngineInv => EngineSafe
  BY EngineAssumption
  DEF EngineInv, EngineSafe, EngineTypeOK, CallsFit, StartFits, ToldFits, StopFits, WorkersFit, Unstopped, Defined,
      ToldExists, OneWorkerEach, StoppedIdle
<1>2. QED
  BY <1>1, EngineInitInv, EngineStepInv, PTL DEF EngineSpec

-----------------------------------------------------------------------------
(***************************************************************************)
(* DbConnect, for any pods and pools: every fault has one cause, and the   *)
(* code it is given follows from the order in which the causes are looked  *)
(* for.                                                                    *)
(***************************************************************************)

Faults == {"busy", "down", "starting", "no tls", "other ca", "bad cert", "password", "slots"}
Servers == [up : {"up", "down", "starting"}, tls : BOOLEAN, ca : {"ca1", "ca2"}, cert : {"ok", "expired"},
            password : {1, 2}]

\* The code a fault is to be given.
Named(f) ==
    CASE f = "none" -> "none"
      [] f = "busy" -> "CONNECT_TIMEOUT"
      [] f \in {"down", "starting"} -> "UNREACHABLE"
      [] f = "no tls" -> "TLS_NOT_OFFERED"
      [] f = "other ca" -> "TLS_UNTRUSTED_CA"
      [] f = "bad cert" -> "TLS_CERT_INVALID"
      [] f = "password" -> "AUTH_FAILED"
      [] f = "slots" -> "CONNECTION_LIMIT"

\* The chain of a wrapped error holds the driver's error and, besides it, only wrappers.
LEMMA ChainIs ==
  ASSUME NEW f, NEW n \in 0..7
  PROVE  /\ \A i \in DOMAIN Chain(Wrapped(f, n)) : \/ Chain(Wrapped(f, n))[i] = Driver(f)
                                                    \/ Chain(Wrapped(f, n))[i] = [code |-> "", text |-> ""]
         /\ \E i \in DOMAIN Chain(Wrapped(f, n)) : Chain(Wrapped(f, n))[i] = Driver(f)
<1> DEFINE d == Driver(f)
           b == [code |-> "", text |-> ""]
           w == [i \in 1..n + 1 |-> IF i = n + 1 THEN d ELSE b]
<1>1. Wrapped(f, n) = w
  BY DEF Wrapped
<1> HIDE DEF d, b
<1>2. w \in Seq({d, b})
  OBVIOUS
<1>3. Len(w) = n + 1
  OBVIOUS
<1>4. Chain(w) = SubSeq(w, 1, n + 1)
  BY <1>3 DEF Chain
<1>5. SubSeq(w, 1, n + 1) = w
  BY <1>2, <1>3
<1>6. Chain(Wrapped(f, n)) = w
  BY <1>1, <1>4, <1>5
<1>7. /\ \A i \in DOMAIN w : w[i] = d \/ w[i] = b
      /\ n + 1 \in DOMAIN w /\ w[n + 1] = d
  OBVIOUS
<1>8. QED
  BY <1>6, <1>7 DEF d, b

\* A fault wrapped in other errors, up to the depth looked at, is told under its own code.
LEMMA ClassifyNames ==
  ASSUME NEW f \in Faults, NEW n \in 0..7
  PROVE  Classify(Wrapped(f, n)) = Named(f)
<1> DEFINE c == Chain(Wrapped(f, n))
           codes == {c[i].code : i \in DOMAIN c}
           texts == {c[i].text : i \in DOMAIN c}
           d == Driver(f)
<1>1. /\ \A i \in DOMAIN c : c[i] = d \/ c[i] = [code |-> "", text |-> ""]
      /\ \E i \in DOMAIN c : c[i] = d
  BY ChainIs
<1>2. /\ \A x \in codes : x = d.code \/ x = ""
      /\ \A x \in texts : x = d.text \/ x = ""
      /\ d.code \in codes /\ d.text \in texts
  <2> DEFINE b == [code |-> "", text |-> ""]
  <2>1. b.code = "" /\ b.text = "" /\ \A i \in DOMAIN c : c[i] = d \/ c[i] = b
    BY <1>1
  <2>2. PICK k \in DOMAIN c : c[k] = d
    BY <1>1
  <2> HIDE DEF c, d, b
  <2>3. (\A x \in codes : x = d.code \/ x = "") /\ d.code \in codes
    BY <2>1, <2>2
  <2>4. (\A x \in texts : x = d.text \/ x = "") /\ d.text \in texts
    BY <2>1, <2>2
  <2>5. QED
    BY <2>3, <2>4
<1>3. Classify(Wrapped(f, n)) =
       IF codes \cap {"28P01", "28000"} # {} THEN "AUTH_FAILED"
       ELSE IF "53300" \in codes \/ "too many" \in texts THEN "CONNECTION_LIMIT"
       ELSE IF "SELF_SIGNED_CERT_IN_CHAIN" \in codes THEN "TLS_UNTRUSTED_CA"
       ELSE IF "CERT_HAS_EXPIRED" \in codes THEN "TLS_CERT_INVALID"
       ELSE IF "no ssl" \in texts THEN "TLS_NOT_OFFERED"
       ELSE IF "timeout" \in texts THEN "CONNECT_TIMEOUT"
       ELSE IF codes \cap {"ECONNREFUSED", "57P03"} # {} THEN "UNREACHABLE"
       ELSE "UNKNOWN"
  BY DEF Classify
<1> HIDE DEF codes, texts, c
<1>4. CASE f = "busy"
  BY <1>2, <1>3, <1>4 DEF Driver, Named
<1>5. CASE f = "down" \/ f = "starting"
  BY <1>2, <1>3, <1>5 DEF Driver, Named
<1>6. CASE f = "no tls"
  BY <1>2, <1>3, <1>6 DEF Driver, Named
<1>7. CASE f = "other ca"
  BY <1>2, <1>3, <1>7 DEF Driver, Named
<1>8. CASE f = "bad cert"
  BY <1>2, <1>3, <1>8 DEF Driver, Named
<1>9. CASE f = "password"
  BY <1>2, <1>3, <1>9 DEF Driver, Named
<1>10. CASE f = "slots"
  BY <1>2, <1>3, <1>10 DEF Driver, Named
<1>11. QED
  BY <1>4, <1>5, <1>6, <1>7, <1>8, <1>9, <1>10 DEF Faults

\* A pod with a CA that meets no fault reached a server with TLS, a good certificate and that CA.
LEMMA FaultIs ==
  ASSUME NEW p \in DbPods, dbServer \in Servers
  PROVE  /\ Fault(p) \in Faults \cup {"none"}
         /\ Fault(p) = "none" => \/ dbPods[p].ca = "none"
                                 \/ dbServer.tls /\ dbServer.cert = "ok" /\ dbPods[p].ca = dbServer.ca
<1>1. dbServer.up \in {"up", "down", "starting"}
  BY DEF Servers
<1>2. QED
  BY <1>1 DEF Fault, Faults

\* A pool is one of an accepted configuration, and a connection of a production pod is
\* to a server it checked; a report carries the code of its fault.
PodFits(p) ==
    /\ dbPods[p].open \in Nat
    /\ dbPods[p].st = "pool" => (dbPods[p].ca = "none" => ~dbPods[p].env.production)
    /\ dbPods[p].open > 0 =>
         /\ dbPods[p].st = "pool"
         /\ dbPods[p].ca # "none" => dbServer.tls /\ dbServer.cert = "ok" /\ dbPods[p].ca = dbServer.ca
ReportFits(p) == dbReport[p].fault \in Faults \cup {"none"} /\ dbReport[p].code = Named(dbReport[p].fault)
PodRecords == [st : {"none", "refused", "pool"}, env : DbEnvs \cup {"none"}, password : {0, 1, 2},
               ca : {"none", "ca1", "ca2"}, open : Nat]
DbInv ==
    /\ dbServer \in Servers /\ dbSecret \in {1, 2}
    /\ dbPods \in [DbPods -> PodRecords] /\ DOMAIN dbReport = DbPods
    /\ dbReport = [p \in DbPods |-> dbReport[p]]
    /\ \A p \in DbPods : PodFits(p) /\ ReportFits(p)

\* Initially no pod was started.
LEMMA DbInitInv == DbInit => DbInv
<1> SUFFICES ASSUME DbInit PROVE DbInv
  OBVIOUS
<1>1. Unborn \in PodRecords /\ Unborn.open = 0 /\ Unborn.st = "none"
  BY DEF Unborn, PodRecords
<1>2. dbServer \in Servers /\ dbSecret \in {1, 2}
  BY DEF DbInit, Servers
<1>3. NoReport.fault = "none" /\ NoReport.code = Named("none")
  BY DEF NoReport, Named
<1>4. QED
  BY <1>1, <1>2, <1>3 DEF DbInit, DbInv, PodFits, ReportFits

\* The start of a pod, whatever it reads from its environment, keeps the invariant.
LEMMA StartIs ==
  ASSUME DbInv, NEW p \in DbPods, NEW e \in DbEnvs, StartPod(p, e)
  PROVE  DbInv'
<1> DEFINE a == IF e.ssl = "disable" THEN "none" ELSE dbServer.ca
           r == [st |-> "pool", env |-> e, password |-> dbSecret, open |-> 0, ca |-> a]
           u == [Unborn EXCEPT !.st = "refused", !.env = e]
           q == IF DbConfigOK(e) THEN r ELSE u
<1>0. dbServer \in Servers /\ dbSecret \in {1, 2} /\ dbServer.ca \in {"ca1", "ca2"}
  BY DEF DbInv, Servers
<1>1. a \in {"none", "ca1", "ca2"} /\ (a = "none" => e.ssl = "disable")
  BY <1>0
<1>2. DbConfigOK(e) => (a = "none" => ~e.production)
  BY <1>1 DEF DbConfigOK, TlsOK
<1> HIDE DEF a
<1>3. r \in PodRecords /\ r.open = 0 /\ r.ca = a /\ r.env = e
  BY <1>0, <1>1 DEF PodRecords
<1>4. u \in PodRecords /\ u.open = 0 /\ u.st = "refused"
  BY DEF PodRecords, Unborn
<1>5. dbPods' = [dbPods EXCEPT ![p] = q] /\ UNCHANGED <<dbServer, dbSecret, dbReport, dbChanges>>
  BY DEF StartPod, a
<1> HIDE DEF r, u
<1>6. q \in PodRecords /\ q.open = 0 /\ (q.st = "pool" => (q.ca = "none" => ~q.env.production))
  BY <1>2, <1>3, <1>4
<1> HIDE DEF q
<1>7. PodFits(p)'
  BY <1>5, <1>6 DEF PodFits, DbInv
<1>8. ASSUME NEW o \in DbPods, o # p PROVE PodFits(o)'
  BY <1>5, <1>8 DEF PodFits, DbInv
<1>9. QED
  BY <1>5, <1>6, <1>7, <1>8 DEF DbInv, ReportFits

\* A pod that does not move, under a server that does not change, keeps its facts.
LEMMA DbStepInv == DbInv /\ [DbNext]_dbVars => DbInv'
<1> SUFFICES ASSUME DbInv, [DbNext]_dbVars PROVE DbInv'
  OBVIOUS
<1>0. /\ dbServer \in Servers /\ dbSecret \in {1, 2}
      /\ dbPods \in [DbPods -> PodRecords] /\ DOMAIN dbReport = DbPods
      /\ dbReport = [p \in DbPods |-> dbReport[p]]
      /\ \A p \in DbPods : PodFits(p) /\ ReportFits(p)
  BY DEF DbInv
<1>1. ASSUME NEW p \in DbPods, NEW e \in DbEnvs, StartPod(p, e) PROVE DbInv'
  BY <1>1, StartIs
<1>2. ASSUME NEW p \in DbPods, RestartPod(p) PROVE DbInv'
  <2>1. Unborn \in PodRecords /\ Unborn.open = 0 /\ Unborn.st = "none"
    BY DEF Unborn, PodRecords
  <2>2. NoReport.fault = "none" /\ NoReport.code = Named("none")
    BY DEF NoReport, Named
  <2>3. /\ dbPods' = [dbPods EXCEPT ![p] = Unborn] /\ dbReport' = [dbReport EXCEPT ![p] = NoReport]
        /\ UNCHANGED <<dbServer, dbSecret>>
    BY <1>2 DEF RestartPod
  <2>4. QED
    BY <1>0, <2>1, <2>2, <2>3 DEF DbInv, PodFits, ReportFits
<1>3. ASSUME NEW p \in DbPods, DbDial(p) PROVE DbInv'
  <2>1. /\ dbPods[p].st = "pool" /\ Fault(p) = "none"
        /\ dbPods' = [dbPods EXCEPT ![p].open = @ + 1] /\ dbReport' = [dbReport EXCEPT ![p] = NoReport]
        /\ UNCHANGED <<dbServer, dbSecret, dbChanges>>
    BY <1>3 DEF DbDial
  <2>2. dbPods[p] \in PodRecords /\ dbPods[p].open \in Nat
    BY <1>0 DEF PodRecords
  <2>3. /\ dbPods' \in [DbPods -> PodRecords] /\ dbPods'[p].open \in Nat /\ dbPods'[p].st = "pool"
        /\ dbPods'[p].ca = dbPods[p].ca /\ dbPods'[p].env = dbPods[p].env
        /\ \A o \in DbPods : o # p => dbPods'[o] = dbPods[o]
    BY <1>0, <2>1, <2>2 DEF PodRecords
  <2>4. dbPods[p].ca # "none" => dbServer.tls /\ dbServer.cert = "ok" /\ dbPods[p].ca = dbServer.ca
    BY <1>0, <2>1, FaultIs
  <2>5. PodFits(p)'
    BY <1>0, <2>1, <2>3, <2>4 DEF PodFits
  <2>6. NoReport.fault = "none" /\ NoReport.code = Named("none")
    BY DEF NoReport, Named
  <2>7. QED
    BY <1>0, <2>1, <2>3, <2>5, <2>6 DEF DbInv, PodFits, ReportFits
<1>4. ASSUME NEW p \in DbPods, DbHangUp(p) PROVE DbInv'
  <2>1. /\ dbPods[p].open > 0 /\ dbPods' = [dbPods EXCEPT ![p].open = @ - 1]
        /\ UNCHANGED <<dbServer, dbSecret, dbReport, dbChanges>>
    BY <1>4 DEF DbHangUp
  <2>2. dbPods[p] \in PodRecords /\ dbPods[p].open \in Nat
    BY <1>0 DEF PodRecords
  <2>3. /\ dbPods' \in [DbPods -> PodRecords] /\ dbPods'[p].open \in Nat /\ dbPods'[p].st = dbPods[p].st
        /\ dbPods'[p].ca = dbPods[p].ca /\ dbPods'[p].env = dbPods[p].env
        /\ \A o \in DbPods : o # p => dbPods'[o] = dbPods[o]
    BY <1>0, <2>1, <2>2 DEF PodRecords
  <2>4. PodFits(p)'
    BY <1>0, <2>1, <2>3 DEF PodFits
  <2>5. QED
    BY <1>0, <2>1, <2>3, <2>4 DEF DbInv, PodFits, ReportFits
<1>5. ASSUME NEW p \in DbPods, NEW n \in 0..MaxWraps, DbDialFails(p, n) PROVE DbInv'
  <2> DEFINE r == [code |-> Classify(Wrapped(Fault(p), n)), fault |-> Fault(p)]
  <2>1. /\ Fault(p) # "none" /\ dbReport' = [dbReport EXCEPT ![p] = r]
        /\ UNCHANGED <<dbServer, dbSecret, dbPods, dbChanges>>
    BY <1>5 DEF DbDialFails
  <2>2. Fault(p) \in Faults
    BY <1>0, <2>1, FaultIs
  <2>3. n \in 0..7
    BY DbAssumption
  <2>4. r.fault \in Faults /\ r.code = Named(r.fault)
    BY <2>2, <2>3, ClassifyNames
  <2> HIDE DEF r
  <2>5. QED
    BY <1>0, <2>1, <2>4 DEF DbInv, PodFits, ReportFits
<1>6. CASE ServerChanges
  <2>1. PICK up \in {"up", "down", "starting"}, tls \in BOOLEAN, ca \in {"ca1", "ca2"}, cert \in {"ok", "expired"} :
           dbServer' = [dbServer EXCEPT !.up = up, !.tls = tls, !.ca = ca, !.cert = cert]
    BY <1>6 DEF ServerChanges
  <2>2. dbPods' = [p \in DbPods |-> [dbPods[p] EXCEPT !.open = 0]] /\ UNCHANGED <<dbSecret, dbReport>>
    BY <1>6 DEF ServerChanges
  <2>3. dbServer' \in Servers
    BY <1>0, <2>1 DEF Servers
  <2>4. /\ dbPods' \in [DbPods -> PodRecords]
        /\ \A o \in DbPods : /\ dbPods'[o].open = 0 /\ dbPods'[o].st = dbPods[o].st
                             /\ dbPods'[o].ca = dbPods[o].ca /\ dbPods'[o].env = dbPods[o].env
    BY <1>0, <2>2 DEF PodRecords
  <2>5. ASSUME NEW o \in DbPods PROVE PodFits(o)'
    BY <1>0, <2>4 DEF PodFits
  <2>6. QED
    BY <1>0, <2>2, <2>3, <2>4, <2>5 DEF DbInv, ReportFits
<1>7. CASE RotateSecret
  BY <1>0, <1>7 DEF RotateSecret, DbInv, PodFits, ReportFits
<1>8. CASE RotateRole
  <2>1. dbServer' = [dbServer EXCEPT !.password = 2] /\ UNCHANGED <<dbSecret, dbPods, dbReport>>
    BY <1>8 DEF RotateRole
  <2>2. /\ dbServer' \in Servers /\ dbServer'.tls = dbServer.tls /\ dbServer'.cert = dbServer.cert
        /\ dbServer'.ca = dbServer.ca
    BY <1>0, <2>1 DEF Servers
  <2>3. QED
    BY <1>0, <2>1, <2>2 DEF DbInv, PodFits, ReportFits
<1>9. CASE UNCHANGED dbVars
  BY <1>0, <1>9 DEF dbVars, DbInv, PodFits, ReportFits
<1>10. QED
  BY <1>1, <1>2, <1>3, <1>4, <1>5, <1>6, <1>7, <1>8, <1>9 DEF DbNext

\* For any pods, environments and pools, however the server changes under them: an open connection of
\* a production pod is to a server with TLS under the mounted CA, and a failed attempt is given the code
\* of what stood in its way, if the error was wrapped less than eight times, as deep as the code looks.
THEOREM DbHolds == DbSpec => []DbSafe
<1>1. DbInit => DbInv
  BY DbInitInv
<1>2. DbInv /\ [DbNext]_dbVars => DbInv'
  BY DbStepInv
<1>3. DbInv => DbSafe
  <2> SUFFICES ASSUME DbInv PROVE DbSafe
    OBVIOUS
  <2>1. NeverInClear
    BY DEF DbInv, PodFits, NeverInClear
  <2>2. CauseNamed
    BY DEF DbInv, ReportFits, CauseNamed, Named
  <2>3. QED
    BY <2>1, <2>2 DEF DbSafe
<1>4. QED
  BY <1>1, <1>2, <1>3, PTL DEF DbSpec

-----------------------------------------------------------------------------
(***************************************************************************)
(* Process, for any requests, jobs and durations: the invariant says what  *)
(* each step of the shutdown has set by then, that the prober met the      *)
(* drain before the port closes, and who still runs.                       *)
(***************************************************************************)

Running == {"none", "delay"}
Ending  == {"drain", "close", "jobs", "release", "flush"}
Past    == {"close", "jobs", "release", "flush"}

\* Where the sequence is, and what it has set by then.
PhaseInv ==
    /\ step \notin {"none", "exited"} => boot \in {"armed", "up"}
    /\ step = "none" => clock = 0
    /\ step = "delay" => http /\ draining
    /\ stopAt <= clock /\ (stopAt # -1 => step \in {"jobs", "release", "flush", "exited"})
    /\ step \in {"jobs", "release"} => stopAt # -1
    /\ ~pool => step \in {"flush", "exited"}
    /\ code # "none" => step = "exited"

\* The port is open from listen to the end of the delay.
ListenInv ==
    /\ listening => http /\ boot = "up" /\ step \in Running
    /\ http /\ boot = "up" /\ step \in Running => listening

\* The prober has met the drain before the port closes.
RouteInv ==
    /\ boot # "up" => probe = "idle" /\ ~routed
    /\ Delay > Period =>
         /\ step = "delay" /\ listening => age >= clock \/ (~routed /\ probe = "idle")
         /\ step \in Ending => ~routed /\ probe = "idle"

\* Who still has a request here.
ConnInv ==
    /\ boot # "up" \/ ~http => \A r \in Requests : conn[r] # "busy"
    /\ step \in Past => "drain" \in failures \/ \A r \in Requests : conn[r] # "busy"
    /\ (\E r \in Requests : conn[r] = "cut") => step = "exited" /\ code = "1"

\* Which jobs still run.
JobInv ==
    /\ (step = "release" \/ (~pool /\ step = "flush")) =>
         stopAt # -1 /\ ("jobs" \in failures \/ \A j \in Jobs : job[j] # "run")
    /\ step = "flush" /\ pool => "close" \in failures
    /\ step = "exited" => \A j \in Jobs : job[j] # "run"
    /\ (\E j \in Jobs : job[j] = "lost") => step = "exited"
    /\ code = "0" => ~pool /\ ("jobs" \in failures \/ \A j \in Jobs : job[j] # "lost")
    /\ step = "jobs" => clock - stopAt <= Budget

ProcessInv == ProcessTypeOK /\ PhaseInv /\ ListenInv /\ RouteInv /\ NoneRefused /\ ConnInv /\ JobInv

\* The times of an accepted setting, and the budget they leave for stopping.
LEMMA SettingIs ==
  ASSUME ProcessTypeOK
  PROVE  /\ Timeout \in Nat /\ Delay \in Nat /\ Period \in Nat \ {0} /\ Budget \in Nat
         /\ Timeout - Delay - Reserve >= MinBudget => Budget = Timeout - Delay - Reserve
         /\ Delay > Period => http
<1>0. setting \in Settings /\ http \in BOOLEAN
  BY DEF ProcessTypeOK
<1>1. Timeout \in Nat /\ setting[2] \in Nat
  BY <1>0, ProcessAssumption DEF Timeout
<1>2. Delay \in Nat /\ (Delay > 0 => http)
  BY <1>0, <1>1 DEF Delay
<1>3. Period \in Nat \ {0} /\ Reserve \in Nat /\ MinBudget \in Nat
  BY ProcessAssumption
<1>4. Budget \in Nat /\ (Timeout - Delay - Reserve >= MinBudget => Budget = Timeout - Delay - Reserve)
  BY <1>1, <1>2, <1>3 DEF Budget
<1>5. QED
  BY <1>1, <1>2, <1>3, <1>4

\* No step changes the setting.
LEMMA SettingStays ==
  ASSUME [ProcessNext]_procVars
  PROVE  /\ http' = http /\ setting' = setting /\ Timeout' = Timeout /\ Delay' = Delay /\ Budget' = Budget
<1>1. http' = http /\ setting' = setting
  BY DEF ProcessNext, ShutdownNext, procVars, settings, Compose, Arm, Listen, Fatal, Probe, ProbeAnswer, Signal, DelayOver, Sweep, Drained, HooksRan, HookThrew, JobsStopped, JobsStopThrew, Released, Flushed, HardStop, Tick, JobBegins, JobEnds, Route, Answered, Leave, Exit
<1>2. Timeout' = Timeout /\ Delay' = Delay
  BY <1>1 DEF Timeout, Delay
<1>3. QED
  BY <1>1, <1>2 DEF Budget

\* Initially the process listens and nothing runs.
LEMMA ProcessInitInv == ProcessInit => ProcessInv
<1> SUFFICES ASSUME ProcessInit PROVE ProcessInv
  OBVIOUS
<1>0. setting[1] \in Nat /\ Period \in Nat
  BY ProcessAssumption DEF ProcessInit
<1>5. Timeout \in Nat
  BY <1>0 DEF Timeout
<1>6. clock \in 0..Timeout /\ stopAt \in -1..Timeout /\ age \in 0..Period
  BY <1>0, <1>5 DEF ProcessInit
<1>1. ProcessTypeOK
  BY <1>6 DEF ProcessInit, ProcessTypeOK
<1>2. PhaseInv /\ ListenInv /\ NoneRefused /\ ConnInv
  BY DEF ProcessInit, PhaseInv, ListenInv, NoneRefused, ConnInv, Running, Past
<1>3. RouteInv /\ JobInv
  BY DEF ProcessInit, RouteInv, JobInv, Ending
<1>4. QED
  BY <1>1, <1>2, <1>3 DEF ProcessInv

\* Every step keeps the shape of the process.
LEMMA TypeStep ==
  ASSUME ProcessTypeOK, [ProcessNext]_procVars
  PROVE  ProcessTypeOK'
<1>a. Timeout \in Nat /\ Delay \in Nat /\ Period \in Nat \ {0} /\ Budget \in Nat /\ (Delay > Period => http)
  BY SettingIs
<1>b. /\ http' = http /\ setting' = setting /\ Timeout' = Timeout /\ Delay' = Delay /\ Budget' = Budget
  BY SettingStays
<1>1. CASE Compose
  BY <1>a, <1>b, <1>1 DEF Compose, Alive, settings, world, ProcessTypeOK
<1>2. CASE Arm
  BY <1>a, <1>b, <1>2 DEF Arm, Alive, settings, world, ProcessTypeOK
<1>3. CASE Listen
  BY <1>a, <1>b, <1>3 DEF Listen, Alive, settings, world, ProcessTypeOK
<1>4. CASE Fatal
  BY <1>a, <1>b, <1>4 DEF Fatal, Exit, Alive, settings, world, ProcessTypeOK
<1>5. CASE Probe
  <2>1. routed' \in BOOLEAN /\ probe' \in {"idle", "running"}
    BY <1>5 DEF Probe, ProcessTypeOK
  <2>2. age' \in 0..Period
    BY <1>a, <1>5 DEF Probe
  <2>3. QED
    BY <1>b, <1>5, <2>1, <2>2 DEF Probe, settings, ProcessTypeOK
<1>6. CASE ProbeAnswer
  BY <1>a, <1>b, <1>6 DEF ProbeAnswer, Alive, settings, world, ProcessTypeOK
<1>7. CASE Signal
  <2>1. CASE Exit("killed")
    BY <1>b, <2>1 DEF Exit, settings, ProcessTypeOK
  <2>2. CASE UNCHANGED procVars
    BY <1>b, <2>2 DEF procVars, ProcessTypeOK
  <2>3. CASE /\ step' = (IF http THEN "delay" ELSE "close") /\ draining' = http
             /\ UNCHANGED <<settings, boot, clock, stopAt, failures, code, listening, job, pool, world>>
    <3>1. draining' \in BOOLEAN /\ step' \in {"delay", "close"}
      BY <2>3 DEF ProcessTypeOK
    <3>2. QED
      BY <1>b, <2>3, <3>1 DEF settings, world, ProcessTypeOK
  <2>4. QED
    BY <1>7, <2>1, <2>2, <2>3 DEF Signal
<1>8. CASE DelayOver
  BY <1>a, <1>b, <1>8 DEF DelayOver, settings, world, ProcessTypeOK
<1>9. CASE Sweep
  BY <1>a, <1>b, <1>9 DEF Sweep, settings, world, ProcessTypeOK
<1>10. CASE Drained
  BY <1>a, <1>b, <1>10 DEF Drained, Leave, settings, world, ProcessTypeOK
<1>11. CASE HooksRan
  BY <1>a, <1>b, <1>11 DEF HooksRan, Leave, settings, world, ProcessTypeOK
<1>12. CASE HookThrew
  BY <1>a, <1>b, <1>12 DEF HookThrew, Leave, settings, world, ProcessTypeOK
<1>13. CASE JobsStopped
  BY <1>a, <1>b, <1>13 DEF JobsStopped, Leave, settings, world, ProcessTypeOK
<1>14. CASE JobsStopThrew
  BY <1>a, <1>b, <1>14 DEF JobsStopThrew, settings, world, ProcessTypeOK
<1>15. CASE Released
  BY <1>a, <1>b, <1>15 DEF Released, Leave, settings, world, ProcessTypeOK
<1>16. CASE Flushed
  BY <1>a, <1>b, <1>16 DEF Flushed, Exit, settings, world, ProcessTypeOK
<1>17. CASE HardStop
  BY <1>a, <1>b, <1>17 DEF HardStop, Exit, Alive, settings, world, ProcessTypeOK
<1>18. CASE Tick
  BY <1>a, <1>b, <1>18 DEF Tick, Alive, settings, world, ProcessTypeOK
<1>19. CASE \E j \in Jobs : JobBegins(j) \/ JobEnds(j)
  <2>1. job' \in [Jobs -> {"queued", "run", "done", "failed", "lost"}]
    BY <1>19 DEF JobBegins, JobEnds, ProcessTypeOK
  <2>2. UNCHANGED <<settings, boot, step, clock, stopAt, failures, code, draining, listening, pool, world>>
    BY <1>19 DEF JobBegins, JobEnds
  <2>3. QED
    BY <1>b, <2>1, <2>2 DEF settings, world, ProcessTypeOK
<1>20. CASE \E r \in Requests : Route(r) \/ Answered(r)
  <2>1. conn' \in [Requests -> {"new", "busy", "idle", "closed", "refused", "cut"}]
    BY <1>20 DEF Route, Answered, ProcessTypeOK
  <2>2. UNCHANGED <<settings, boot, step, clock, stopAt, failures, code, draining, listening, job, pool,
                    probe, age, routed>>
    BY <1>20 DEF Route, Answered
  <2>3. QED
    BY <1>b, <2>1, <2>2 DEF settings, ProcessTypeOK
<1>21. CASE UNCHANGED procVars
  BY <1>a, <1>b, <1>21 DEF procVars, ProcessTypeOK
<1>22. QED
  BY <1>1, <1>2, <1>3, <1>4, <1>5, <1>6, <1>7, <1>8, <1>9, <1>10, <1>11, <1>12, <1>13, <1>14, <1>15, <1>16, <1>17, <1>18, <1>19, <1>20, <1>21 DEF ProcessNext, ShutdownNext

\* Every step keeps each phase of the shutdown within the clock it started at.
LEMMA PhaseStep ==
  ASSUME ProcessTypeOK, PhaseInv, [ProcessNext]_procVars
  PROVE  PhaseInv'
<1>a. Timeout \in Nat /\ Delay \in Nat /\ Period \in Nat \ {0} /\ Budget \in Nat /\ (Delay > Period => http)
  BY SettingIs
<1>b. /\ http' = http /\ setting' = setting /\ Timeout' = Timeout /\ Delay' = Delay /\ Budget' = Budget
  BY SettingStays
<1>1. CASE Compose
  BY <1>a, <1>b, <1>1 DEF Compose, Alive, settings, world, ProcessTypeOK, PhaseInv
<1>2. CASE Arm
  BY <1>a, <1>b, <1>2 DEF Arm, Alive, settings, world, ProcessTypeOK, PhaseInv
<1>3. CASE Listen
  BY <1>a, <1>b, <1>3 DEF Listen, Alive, settings, world, ProcessTypeOK, PhaseInv
<1>4. CASE Fatal
  BY <1>a, <1>b, <1>4 DEF Fatal, Exit, Alive, settings, world, ProcessTypeOK, PhaseInv
<1>5. CASE Probe
  BY <1>a, <1>b, <1>5 DEF Probe, Alive, settings, world, ProcessTypeOK, PhaseInv
<1>6. CASE ProbeAnswer
  BY <1>a, <1>b, <1>6 DEF ProbeAnswer, Alive, settings, world, ProcessTypeOK, PhaseInv
<1>7. CASE Signal
  BY <1>a, <1>b, <1>7 DEF Signal, Exit, Alive, settings, world, procVars, ProcessTypeOK, PhaseInv
<1>8. CASE DelayOver
  BY <1>a, <1>b, <1>8 DEF DelayOver, settings, world, ProcessTypeOK, PhaseInv
<1>9. CASE Sweep
  BY <1>a, <1>b, <1>9 DEF Sweep, settings, world, ProcessTypeOK, PhaseInv
<1>10. CASE Drained
  BY <1>a, <1>b, <1>10 DEF Drained, Leave, settings, world, ProcessTypeOK, PhaseInv
<1>11. CASE HooksRan
  BY <1>a, <1>b, <1>11 DEF HooksRan, Leave, settings, world, ProcessTypeOK, PhaseInv
<1>12. CASE HookThrew
  BY <1>a, <1>b, <1>12 DEF HookThrew, Leave, settings, world, ProcessTypeOK, PhaseInv
<1>13. CASE JobsStopped
  BY <1>a, <1>b, <1>13 DEF JobsStopped, Leave, settings, world, ProcessTypeOK, PhaseInv
<1>14. CASE JobsStopThrew
  BY <1>a, <1>b, <1>14 DEF JobsStopThrew, settings, world, ProcessTypeOK, PhaseInv
<1>15. CASE Released
  BY <1>a, <1>b, <1>15 DEF Released, Leave, settings, world, ProcessTypeOK, PhaseInv
<1>16. CASE Flushed
  BY <1>a, <1>b, <1>16 DEF Flushed, Exit, settings, world, ProcessTypeOK, PhaseInv
<1>17. CASE HardStop
  BY <1>a, <1>b, <1>17 DEF HardStop, Exit, Alive, settings, world, ProcessTypeOK, PhaseInv
<1>18. CASE Tick
  BY <1>a, <1>b, <1>18 DEF Tick, Alive, settings, world, ProcessTypeOK, PhaseInv
<1>19. CASE \E j \in Jobs : JobBegins(j) \/ JobEnds(j)
  BY <1>a, <1>b, <1>19 DEF JobBegins, JobEnds, JobsOn, Alive, settings, world, ProcessTypeOK, PhaseInv
<1>20. CASE \E r \in Requests : Route(r) \/ Answered(r)
  BY <1>a, <1>b, <1>20 DEF Route, Answered, Alive, settings, ProcessTypeOK, PhaseInv
<1>21. CASE UNCHANGED procVars
  BY <1>a, <1>b, <1>21 DEF procVars, ProcessTypeOK, PhaseInv
<1>22. QED
  BY <1>1, <1>2, <1>3, <1>4, <1>5, <1>6, <1>7, <1>8, <1>9, <1>10, <1>11, <1>12, <1>13, <1>14, <1>15, <1>16, <1>17, <1>18, <1>19, <1>20, <1>21 DEF ProcessNext, ShutdownNext

\* Every step keeps the port open exactly while a process with HTTP is up and not yet closing.
LEMMA ListenStep ==
  ASSUME ProcessTypeOK, PhaseInv, ListenInv, [ProcessNext]_procVars
  PROVE  ListenInv'
<1>a. Timeout \in Nat /\ Delay \in Nat /\ Period \in Nat \ {0} /\ Budget \in Nat /\ (Delay > Period => http)
  BY SettingIs
<1>b. /\ http' = http /\ setting' = setting /\ Timeout' = Timeout /\ Delay' = Delay /\ Budget' = Budget
  BY SettingStays
<1>1. CASE Compose
  BY <1>a, <1>b, <1>1 DEF Compose, Alive, settings, world, ProcessTypeOK, PhaseInv, ListenInv, Running
<1>2. CASE Arm
  BY <1>a, <1>b, <1>2 DEF Arm, Alive, settings, world, ProcessTypeOK, PhaseInv, ListenInv, Running
<1>3. CASE Listen
  BY <1>a, <1>b, <1>3 DEF Listen, Alive, settings, world, ProcessTypeOK, PhaseInv, ListenInv, Running
<1>4. CASE Fatal
  BY <1>a, <1>b, <1>4 DEF Fatal, Exit, Alive, settings, world, ProcessTypeOK, PhaseInv, ListenInv, Running
<1>5. CASE Probe
  BY <1>a, <1>b, <1>5 DEF Probe, Alive, settings, world, ProcessTypeOK, PhaseInv, ListenInv, Running
<1>6. CASE ProbeAnswer
  BY <1>a, <1>b, <1>6 DEF ProbeAnswer, Alive, settings, world, ProcessTypeOK, PhaseInv, ListenInv, Running
<1>7. CASE Signal
  BY <1>a, <1>b, <1>7 DEF Signal, Exit, Alive, settings, world, procVars, ProcessTypeOK, PhaseInv, ListenInv, Running
<1>8. CASE DelayOver
  BY <1>a, <1>b, <1>8 DEF DelayOver, settings, world, ProcessTypeOK, PhaseInv, ListenInv, Running
<1>9. CASE Sweep
  BY <1>a, <1>b, <1>9 DEF Sweep, settings, world, ProcessTypeOK, PhaseInv, ListenInv, Running
<1>10. CASE Drained
  BY <1>a, <1>b, <1>10 DEF Drained, Leave, settings, world, ProcessTypeOK, PhaseInv, ListenInv, Running
<1>11. CASE HooksRan
  BY <1>a, <1>b, <1>11 DEF HooksRan, Leave, settings, world, ProcessTypeOK, PhaseInv, ListenInv, Running
<1>12. CASE HookThrew
  BY <1>a, <1>b, <1>12 DEF HookThrew, Leave, settings, world, ProcessTypeOK, PhaseInv, ListenInv, Running
<1>13. CASE JobsStopped
  BY <1>a, <1>b, <1>13 DEF JobsStopped, Leave, settings, world, ProcessTypeOK, PhaseInv, ListenInv, Running
<1>14. CASE JobsStopThrew
  BY <1>a, <1>b, <1>14 DEF JobsStopThrew, settings, world, ProcessTypeOK, PhaseInv, ListenInv, Running
<1>15. CASE Released
  BY <1>a, <1>b, <1>15 DEF Released, Leave, settings, world, ProcessTypeOK, PhaseInv, ListenInv, Running
<1>16. CASE Flushed
  BY <1>a, <1>b, <1>16 DEF Flushed, Exit, settings, world, ProcessTypeOK, PhaseInv, ListenInv, Running
<1>17. CASE HardStop
  BY <1>a, <1>b, <1>17 DEF HardStop, Exit, Alive, settings, world, ProcessTypeOK, PhaseInv, ListenInv, Running
<1>18. CASE Tick
  BY <1>a, <1>b, <1>18 DEF Tick, Alive, settings, world, ProcessTypeOK, PhaseInv, ListenInv, Running
<1>19. CASE \E j \in Jobs : JobBegins(j) \/ JobEnds(j)
  BY <1>a, <1>b, <1>19 DEF JobBegins, JobEnds, JobsOn, Alive, settings, world, ProcessTypeOK, PhaseInv, ListenInv, Running
<1>20. CASE \E r \in Requests : Route(r) \/ Answered(r)
  BY <1>a, <1>b, <1>20 DEF Route, Answered, Alive, settings, ProcessTypeOK, PhaseInv, ListenInv, Running
<1>21. CASE UNCHANGED procVars
  BY <1>a, <1>b, <1>21 DEF procVars, ProcessTypeOK, PhaseInv, ListenInv, Running
<1>22. QED
  BY <1>1, <1>2, <1>3, <1>4, <1>5, <1>6, <1>7, <1>8, <1>9, <1>10, <1>11, <1>12, <1>13, <1>14, <1>15, <1>16, <1>17, <1>18, <1>19, <1>20, <1>21 DEF ProcessNext, ShutdownNext

\* Every step keeps that the prober meets the drain before the port closes.
LEMMA RouteStep ==
  ASSUME ProcessTypeOK, PhaseInv, ListenInv, RouteInv, [ProcessNext]_procVars
  PROVE  RouteInv'
<1>a. Timeout \in Nat /\ Delay \in Nat /\ Period \in Nat \ {0} /\ Budget \in Nat /\ (Delay > Period => http)
  BY SettingIs
<1>b. /\ http' = http /\ setting' = setting /\ Timeout' = Timeout /\ Delay' = Delay /\ Budget' = Budget
  BY SettingStays
<1>1. CASE Compose
  BY <1>a, <1>b, <1>1 DEF Compose, Alive, settings, world, ProcessTypeOK, PhaseInv, ListenInv, RouteInv, Running, Ending
<1>2. CASE Arm
  BY <1>a, <1>b, <1>2 DEF Arm, Alive, settings, world, ProcessTypeOK, PhaseInv, ListenInv, RouteInv, Running, Ending
<1>3. CASE Listen
  BY <1>a, <1>b, <1>3 DEF Listen, Alive, settings, world, ProcessTypeOK, PhaseInv, ListenInv, RouteInv, Running, Ending
<1>4. CASE Fatal
  BY <1>a, <1>b, <1>4 DEF Fatal, Exit, Alive, settings, world, ProcessTypeOK, PhaseInv, ListenInv, RouteInv, Running, Ending
<1>5. CASE Probe
  BY <1>a, <1>b, <1>5 DEF Probe, Alive, settings, world, ProcessTypeOK, PhaseInv, ListenInv, RouteInv, Running, Ending
<1>6. CASE ProbeAnswer
  BY <1>a, <1>b, <1>6 DEF ProbeAnswer, Alive, settings, world, ProcessTypeOK, PhaseInv, ListenInv, RouteInv, Running, Ending
<1>7. CASE Signal
  BY <1>a, <1>b, <1>7 DEF Signal, Exit, Alive, settings, world, procVars, ProcessTypeOK, PhaseInv, ListenInv, RouteInv, Running, Ending
<1>8. CASE DelayOver
  BY <1>a, <1>b, <1>8 DEF DelayOver, settings, world, ProcessTypeOK, PhaseInv, ListenInv, RouteInv, Running, Ending
<1>9. CASE Sweep
  BY <1>a, <1>b, <1>9 DEF Sweep, settings, world, ProcessTypeOK, PhaseInv, ListenInv, RouteInv, Running, Ending
<1>10. CASE Drained
  BY <1>a, <1>b, <1>10 DEF Drained, Leave, settings, world, ProcessTypeOK, PhaseInv, ListenInv, RouteInv, Running, Ending
<1>11. CASE HooksRan
  BY <1>a, <1>b, <1>11 DEF HooksRan, Leave, settings, world, ProcessTypeOK, PhaseInv, ListenInv, RouteInv, Running, Ending
<1>12. CASE HookThrew
  BY <1>a, <1>b, <1>12 DEF HookThrew, Leave, settings, world, ProcessTypeOK, PhaseInv, ListenInv, RouteInv, Running, Ending
<1>13. CASE JobsStopped
  BY <1>a, <1>b, <1>13 DEF JobsStopped, Leave, settings, world, ProcessTypeOK, PhaseInv, ListenInv, RouteInv, Running, Ending
<1>14. CASE JobsStopThrew
  BY <1>a, <1>b, <1>14 DEF JobsStopThrew, settings, world, ProcessTypeOK, PhaseInv, ListenInv, RouteInv, Running, Ending
<1>15. CASE Released
  BY <1>a, <1>b, <1>15 DEF Released, Leave, settings, world, ProcessTypeOK, PhaseInv, ListenInv, RouteInv, Running, Ending
<1>16. CASE Flushed
  BY <1>a, <1>b, <1>16 DEF Flushed, Exit, settings, world, ProcessTypeOK, PhaseInv, ListenInv, RouteInv, Running, Ending
<1>17. CASE HardStop
  BY <1>a, <1>b, <1>17 DEF HardStop, Exit, Alive, settings, world, ProcessTypeOK, PhaseInv, ListenInv, RouteInv, Running, Ending
<1>18. CASE Tick
  BY <1>a, <1>b, <1>18 DEF Tick, Alive, settings, world, ProcessTypeOK, PhaseInv, ListenInv, RouteInv, Running, Ending
<1>19. CASE \E j \in Jobs : JobBegins(j) \/ JobEnds(j)
  BY <1>a, <1>b, <1>19 DEF JobBegins, JobEnds, JobsOn, Alive, settings, world, ProcessTypeOK, PhaseInv, ListenInv, RouteInv, Running, Ending
<1>20. CASE \E r \in Requests : Route(r) \/ Answered(r)
  BY <1>a, <1>b, <1>20 DEF Route, Answered, Alive, settings, ProcessTypeOK, PhaseInv, ListenInv, RouteInv, Running, Ending
<1>21. CASE UNCHANGED procVars
  BY <1>a, <1>b, <1>21 DEF procVars, ProcessTypeOK, PhaseInv, ListenInv, RouteInv, Running, Ending
<1>22. QED
  BY <1>1, <1>2, <1>3, <1>4, <1>5, <1>6, <1>7, <1>8, <1>9, <1>10, <1>11, <1>12, <1>13, <1>14, <1>15, <1>16, <1>17, <1>18, <1>19, <1>20, <1>21 DEF ProcessNext, ShutdownNext

\* Every step keeps that nobody is refused when the delay is longer than the probe period.
LEMMA RefusedStep ==
  ASSUME ProcessTypeOK, PhaseInv, ListenInv, RouteInv, NoneRefused, [ProcessNext]_procVars
  PROVE  NoneRefused'
<1>a. Timeout \in Nat /\ Delay \in Nat /\ Period \in Nat \ {0} /\ Budget \in Nat /\ (Delay > Period => http)
  BY SettingIs
<1>b. /\ http' = http /\ setting' = setting /\ Timeout' = Timeout /\ Delay' = Delay /\ Budget' = Budget
  BY SettingStays
<1>1. CASE Compose
  BY <1>a, <1>b, <1>1 DEF Compose, Alive, settings, world, ProcessTypeOK, PhaseInv, ListenInv, RouteInv, NoneRefused, Running, Ending
<1>2. CASE Arm
  BY <1>a, <1>b, <1>2 DEF Arm, Alive, settings, world, ProcessTypeOK, PhaseInv, ListenInv, RouteInv, NoneRefused, Running, Ending
<1>3. CASE Listen
  BY <1>a, <1>b, <1>3 DEF Listen, Alive, settings, world, ProcessTypeOK, PhaseInv, ListenInv, RouteInv, NoneRefused, Running, Ending
<1>4. CASE Fatal
  BY <1>a, <1>b, <1>4 DEF Fatal, Exit, Alive, settings, world, ProcessTypeOK, PhaseInv, ListenInv, RouteInv, NoneRefused, Running, Ending
<1>5. CASE Probe
  BY <1>a, <1>b, <1>5 DEF Probe, Alive, settings, world, ProcessTypeOK, PhaseInv, ListenInv, RouteInv, NoneRefused, Running, Ending
<1>6. CASE ProbeAnswer
  BY <1>a, <1>b, <1>6 DEF ProbeAnswer, Alive, settings, world, ProcessTypeOK, PhaseInv, ListenInv, RouteInv, NoneRefused, Running, Ending
<1>7. CASE Signal
  BY <1>a, <1>b, <1>7 DEF Signal, Exit, Alive, settings, world, procVars, ProcessTypeOK, PhaseInv, ListenInv, RouteInv, NoneRefused, Running, Ending
<1>8. CASE DelayOver
  BY <1>a, <1>b, <1>8 DEF DelayOver, settings, world, ProcessTypeOK, PhaseInv, ListenInv, RouteInv, NoneRefused, Running, Ending
<1>9. CASE Sweep
  BY <1>a, <1>b, <1>9 DEF Sweep, settings, world, ProcessTypeOK, PhaseInv, ListenInv, RouteInv, NoneRefused, Running, Ending
<1>10. CASE Drained
  BY <1>a, <1>b, <1>10 DEF Drained, Leave, settings, world, ProcessTypeOK, PhaseInv, ListenInv, RouteInv, NoneRefused, Running, Ending
<1>11. CASE HooksRan
  BY <1>a, <1>b, <1>11 DEF HooksRan, Leave, settings, world, ProcessTypeOK, PhaseInv, ListenInv, RouteInv, NoneRefused, Running, Ending
<1>12. CASE HookThrew
  BY <1>a, <1>b, <1>12 DEF HookThrew, Leave, settings, world, ProcessTypeOK, PhaseInv, ListenInv, RouteInv, NoneRefused, Running, Ending
<1>13. CASE JobsStopped
  BY <1>a, <1>b, <1>13 DEF JobsStopped, Leave, settings, world, ProcessTypeOK, PhaseInv, ListenInv, RouteInv, NoneRefused, Running, Ending
<1>14. CASE JobsStopThrew
  BY <1>a, <1>b, <1>14 DEF JobsStopThrew, settings, world, ProcessTypeOK, PhaseInv, ListenInv, RouteInv, NoneRefused, Running, Ending
<1>15. CASE Released
  BY <1>a, <1>b, <1>15 DEF Released, Leave, settings, world, ProcessTypeOK, PhaseInv, ListenInv, RouteInv, NoneRefused, Running, Ending
<1>16. CASE Flushed
  BY <1>a, <1>b, <1>16 DEF Flushed, Exit, settings, world, ProcessTypeOK, PhaseInv, ListenInv, RouteInv, NoneRefused, Running, Ending
<1>17. CASE HardStop
  BY <1>a, <1>b, <1>17 DEF HardStop, Exit, Alive, settings, world, ProcessTypeOK, PhaseInv, ListenInv, RouteInv, NoneRefused, Running, Ending
<1>18. CASE Tick
  BY <1>a, <1>b, <1>18 DEF Tick, Alive, settings, world, ProcessTypeOK, PhaseInv, ListenInv, RouteInv, NoneRefused, Running, Ending
<1>19. CASE \E j \in Jobs : JobBegins(j) \/ JobEnds(j)
  BY <1>a, <1>b, <1>19 DEF JobBegins, JobEnds, JobsOn, Alive, settings, world, ProcessTypeOK, PhaseInv, ListenInv, RouteInv, NoneRefused, Running, Ending
<1>20. CASE \E r \in Requests : Route(r) \/ Answered(r)
  BY <1>a, <1>b, <1>20 DEF Route, Answered, Alive, settings, ProcessTypeOK, PhaseInv, ListenInv, RouteInv, NoneRefused, Running, Ending
<1>21. CASE UNCHANGED procVars
  BY <1>a, <1>b, <1>21 DEF procVars, ProcessTypeOK, PhaseInv, ListenInv, RouteInv, NoneRefused, Running, Ending
<1>22. QED
  BY <1>1, <1>2, <1>3, <1>4, <1>5, <1>6, <1>7, <1>8, <1>9, <1>10, <1>11, <1>12, <1>13, <1>14, <1>15, <1>16, <1>17, <1>18, <1>19, <1>20, <1>21 DEF ProcessNext, ShutdownNext

\* Every step keeps what is known of the requests still in flight.
LEMMA ConnStep ==
  ASSUME ProcessTypeOK, PhaseInv, ListenInv, JobInv, ConnInv, [ProcessNext]_procVars
  PROVE  ConnInv'
<1>a. Timeout \in Nat /\ Delay \in Nat /\ Period \in Nat \ {0} /\ Budget \in Nat /\ (Delay > Period => http)
  BY SettingIs
<1>b. /\ http' = http /\ setting' = setting /\ Timeout' = Timeout /\ Delay' = Delay /\ Budget' = Budget
  BY SettingStays
<1>1. CASE Compose
  BY <1>a, <1>b, <1>1 DEF Compose, Alive, settings, world, ProcessTypeOK, PhaseInv, ListenInv, JobInv, ConnInv, Running, Past
<1>2. CASE Arm
  BY <1>a, <1>b, <1>2 DEF Arm, Alive, settings, world, ProcessTypeOK, PhaseInv, ListenInv, JobInv, ConnInv, Running, Past
<1>3. CASE Listen
  BY <1>a, <1>b, <1>3 DEF Listen, Alive, settings, world, ProcessTypeOK, PhaseInv, ListenInv, JobInv, ConnInv, Running, Past
<1>4. CASE Fatal
  BY <1>a, <1>b, <1>4 DEF Fatal, Exit, Alive, settings, world, ProcessTypeOK, PhaseInv, ListenInv, JobInv, ConnInv, Running, Past
<1>5. CASE Probe
  BY <1>a, <1>b, <1>5 DEF Probe, Alive, settings, world, ProcessTypeOK, PhaseInv, ListenInv, JobInv, ConnInv, Running, Past
<1>6. CASE ProbeAnswer
  BY <1>a, <1>b, <1>6 DEF ProbeAnswer, Alive, settings, world, ProcessTypeOK, PhaseInv, ListenInv, JobInv, ConnInv, Running, Past
<1>7. CASE Signal
  BY <1>a, <1>b, <1>7 DEF Signal, Exit, Alive, settings, world, procVars, ProcessTypeOK, PhaseInv, ListenInv, JobInv, ConnInv, Running, Past
<1>8. CASE DelayOver
  BY <1>a, <1>b, <1>8 DEF DelayOver, settings, world, ProcessTypeOK, PhaseInv, ListenInv, JobInv, ConnInv, Running, Past
<1>9. CASE Sweep
  BY <1>a, <1>b, <1>9 DEF Sweep, settings, world, ProcessTypeOK, PhaseInv, ListenInv, JobInv, ConnInv, Running, Past
<1>10. CASE Drained
  BY <1>a, <1>b, <1>10 DEF Drained, Leave, settings, world, ProcessTypeOK, PhaseInv, ListenInv, JobInv, ConnInv, Running, Past
<1>11. CASE HooksRan
  BY <1>a, <1>b, <1>11 DEF HooksRan, Leave, settings, world, ProcessTypeOK, PhaseInv, ListenInv, JobInv, ConnInv, Running, Past
<1>12. CASE HookThrew
  BY <1>a, <1>b, <1>12 DEF HookThrew, Leave, settings, world, ProcessTypeOK, PhaseInv, ListenInv, JobInv, ConnInv, Running, Past
<1>13. CASE JobsStopped
  BY <1>a, <1>b, <1>13 DEF JobsStopped, Leave, settings, world, ProcessTypeOK, PhaseInv, ListenInv, JobInv, ConnInv, Running, Past
<1>14. CASE JobsStopThrew
  BY <1>a, <1>b, <1>14 DEF JobsStopThrew, settings, world, ProcessTypeOK, PhaseInv, ListenInv, JobInv, ConnInv, Running, Past
<1>15. CASE Released
  BY <1>a, <1>b, <1>15 DEF Released, Leave, settings, world, ProcessTypeOK, PhaseInv, ListenInv, JobInv, ConnInv, Running, Past
<1>16. CASE Flushed
  BY <1>a, <1>b, <1>16 DEF Flushed, Exit, settings, world, ProcessTypeOK, PhaseInv, ListenInv, JobInv, ConnInv, Running, Past
<1>17. CASE HardStop
  BY <1>a, <1>b, <1>17 DEF HardStop, Exit, Alive, settings, world, ProcessTypeOK, PhaseInv, ListenInv, JobInv, ConnInv, Running, Past
<1>18. CASE Tick
  BY <1>a, <1>b, <1>18 DEF Tick, Alive, settings, world, ProcessTypeOK, PhaseInv, ListenInv, JobInv, ConnInv, Running, Past
<1>19. CASE \E j \in Jobs : JobBegins(j) \/ JobEnds(j)
  BY <1>a, <1>b, <1>19 DEF JobBegins, JobEnds, JobsOn, Alive, settings, world, ProcessTypeOK, PhaseInv, ListenInv, JobInv, ConnInv, Running, Past
<1>20. CASE \E r \in Requests : Route(r) \/ Answered(r)
  BY <1>a, <1>b, <1>20 DEF Route, Answered, Alive, settings, ProcessTypeOK, PhaseInv, ListenInv, JobInv, ConnInv, Running, Past
<1>21. CASE UNCHANGED procVars
  BY <1>a, <1>b, <1>21 DEF procVars, ProcessTypeOK, PhaseInv, ListenInv, JobInv, ConnInv, Running, Past
<1>22. QED
  BY <1>1, <1>2, <1>3, <1>4, <1>5, <1>6, <1>7, <1>8, <1>9, <1>10, <1>11, <1>12, <1>13, <1>14, <1>15, <1>16, <1>17, <1>18, <1>19, <1>20, <1>21 DEF ProcessNext, ShutdownNext

\* Every step keeps what is known of the jobs still running.
LEMMA JobStep ==
  ASSUME ProcessTypeOK, PhaseInv, JobInv, [ProcessNext]_procVars
  PROVE  JobInv'
<1>a. Timeout \in Nat /\ Delay \in Nat /\ Period \in Nat \ {0} /\ Budget \in Nat /\ (Delay > Period => http)
  BY SettingIs
<1>b. /\ http' = http /\ setting' = setting /\ Timeout' = Timeout /\ Delay' = Delay /\ Budget' = Budget
  BY SettingStays
<1>1. CASE Compose
  BY <1>a, <1>b, <1>1 DEF Compose, Alive, settings, world, ProcessTypeOK, PhaseInv, JobInv
<1>2. CASE Arm
  BY <1>a, <1>b, <1>2 DEF Arm, Alive, settings, world, ProcessTypeOK, PhaseInv, JobInv
<1>3. CASE Listen
  BY <1>a, <1>b, <1>3 DEF Listen, Alive, settings, world, ProcessTypeOK, PhaseInv, JobInv
<1>4. CASE Fatal
  BY <1>a, <1>b, <1>4 DEF Fatal, Exit, Alive, settings, world, ProcessTypeOK, PhaseInv, JobInv
<1>5. CASE Probe
  BY <1>a, <1>b, <1>5 DEF Probe, Alive, settings, world, ProcessTypeOK, PhaseInv, JobInv
<1>6. CASE ProbeAnswer
  BY <1>a, <1>b, <1>6 DEF ProbeAnswer, Alive, settings, world, ProcessTypeOK, PhaseInv, JobInv
<1>7. CASE Signal
  BY <1>a, <1>b, <1>7 DEF Signal, Exit, Alive, settings, world, procVars, ProcessTypeOK, PhaseInv, JobInv
<1>8. CASE DelayOver
  BY <1>a, <1>b, <1>8 DEF DelayOver, settings, world, ProcessTypeOK, PhaseInv, JobInv
<1>9. CASE Sweep
  BY <1>a, <1>b, <1>9 DEF Sweep, settings, world, ProcessTypeOK, PhaseInv, JobInv
<1>10. CASE Drained
  BY <1>a, <1>b, <1>10 DEF Drained, Leave, settings, world, ProcessTypeOK, PhaseInv, JobInv
<1>11. CASE HooksRan
  BY <1>a, <1>b, <1>11 DEF HooksRan, Leave, settings, world, ProcessTypeOK, PhaseInv, JobInv
<1>12. CASE HookThrew
  BY <1>a, <1>b, <1>12 DEF HookThrew, Leave, settings, world, ProcessTypeOK, PhaseInv, JobInv
<1>13. CASE JobsStopped
  BY <1>a, <1>b, <1>13 DEF JobsStopped, Leave, settings, world, ProcessTypeOK, PhaseInv, JobInv, BudgetSpent
<1>14. CASE JobsStopThrew
  BY <1>a, <1>b, <1>14 DEF JobsStopThrew, settings, world, ProcessTypeOK, PhaseInv, JobInv
<1>15. CASE Released
  BY <1>a, <1>b, <1>15 DEF Released, Leave, settings, world, ProcessTypeOK, PhaseInv, JobInv
<1>16. CASE Flushed
  BY <1>a, <1>b, <1>16 DEF Flushed, Exit, settings, world, ProcessTypeOK, PhaseInv, JobInv
<1>17. CASE HardStop
  BY <1>a, <1>b, <1>17 DEF HardStop, Exit, Alive, settings, world, ProcessTypeOK, PhaseInv, JobInv
<1>18. CASE Tick
  BY <1>a, <1>b, <1>18 DEF Tick, Alive, settings, world, ProcessTypeOK, PhaseInv, JobInv, BudgetSpent
<1>19. CASE \E j \in Jobs : JobBegins(j) \/ JobEnds(j)
  BY <1>a, <1>b, <1>19 DEF JobBegins, JobEnds, JobsOn, Alive, settings, world, ProcessTypeOK, PhaseInv, JobInv
<1>20. CASE \E r \in Requests : Route(r) \/ Answered(r)
  BY <1>a, <1>b, <1>20 DEF Route, Answered, Alive, settings, ProcessTypeOK, PhaseInv, JobInv
<1>21. CASE UNCHANGED procVars
  BY <1>a, <1>b, <1>21 DEF procVars, ProcessTypeOK, PhaseInv, JobInv
<1>22. QED
  BY <1>1, <1>2, <1>3, <1>4, <1>5, <1>6, <1>7, <1>8, <1>9, <1>10, <1>11, <1>12, <1>13, <1>14, <1>15, <1>16, <1>17, <1>18, <1>19, <1>20, <1>21 DEF ProcessNext, ShutdownNext

\* Every step keeps the invariant of the process.
LEMMA ProcessStepInv == ProcessInv /\ [ProcessNext]_procVars => ProcessInv'
BY TypeStep, PhaseStep, ListenStep, RouteStep, RefusedStep, ConnStep, JobStep DEF ProcessInv

\* The invariant gives the graceful shutdown.
LEMMA ProcessInvSafe == ProcessInv => ProcessSafe
<1> SUFFICES ASSUME ProcessInv PROVE ProcessSafe
  OBVIOUS
<1>0. ProcessTypeOK /\ PhaseInv /\ NoneRefused /\ ConnInv /\ JobInv
  BY DEF ProcessInv
<1>1. CutIsReported /\ CleanExit
  BY <1>0 DEF ConnInv, JobInv, CutIsReported, CleanExit
<1>2. ResourcesOutliveWork
  BY <1>0 DEF ConnInv, JobInv, PhaseInv, ResourcesOutliveWork, Alive, Past
<1>3. LostJobExplained
  <2> SUFFICES ASSUME stopAt # -1, stopAt < Delay + Reserve, clock = Timeout, failures = {},
                      Timeout - Delay - Reserve >= MinBudget
               PROVE  \A j \in Jobs : job[j] # "run"
    BY DEF LostJobExplained
  <2>1. /\ Timeout \in Nat /\ Delay \in Nat /\ Budget = Timeout - Delay - Reserve
        /\ clock \in Int /\ stopAt \in Int /\ Reserve \in Nat
    BY <1>0, SettingIs, ProcessAssumption DEF ProcessTypeOK
  <2>2. step # "jobs"
    <3>1. step = "jobs" => clock - stopAt <= Budget
      BY <1>0 DEF JobInv
    <3>2. QED
      BY <2>1, <3>1
  <2>3. step \in {"release", "flush", "exited"}
    BY <1>0, <2>2 DEF PhaseInv
  <2>4. QED
    BY <1>0, <2>3 DEF JobInv, ProcessTypeOK
<1>4. QED
  BY <1>0, <1>1, <1>2, <1>3 DEF ProcessSafe

\* For any requests, jobs, settings and prober: no request meets a closed port, what is cut is reported
\* by the exit code, a clean exit ended the pools and lost no job, resources outlive the work that uses
\* them, and a job is still running at the deadline only for one of the reasons that are named.
THEOREM ProcessHolds == ProcessSpec => []ProcessSafe
<1>1. ProcessInit => ProcessInv
  BY ProcessInitInv
<1>2. ProcessInv /\ [ProcessNext]_procVars => ProcessInv'
  BY ProcessStepInv
<1>3. ProcessInv => ProcessSafe
  BY ProcessInvSafe
<1>4. QED
  BY <1>1, <1>2, <1>3, PTL DEF ProcessSpec

-----------------------------------------------------------------------------
(***************************************************************************)
(* QueueConfig, for any queue configurations: what acceptance checks of    *)
(* one queue bounds the sum of its waits.                                  *)
(***************************************************************************)

\* What acceptance says of a resolved queue.
LEMMA AcceptedIs ==
  ASSUME NEW c, Accepted(c)
  PROVE  LET q == Resolved(c)
             r == c.retention
         IN  /\ q.expire \in Nat \ {0} /\ q.retryLimit \in Nat /\ q.delay \in Nat /\ q.delayMax \in Nat
             /\ q.finished \in Nat \ {0}
             /\ q.watch => q.pending \in Nat /\ q.pending >= LeastWindow(q)
             /\ q.deleteOnSuccess <=> r.completed = Immediate
             /\ q.retryLimit >= Default.minRetryLimit \/ c.acceptDeadLetterOnDrain
             /\ q.expire > Default.heartbeatAbove => q.heartbeat # NotGiven
             /\ r.failed # NotGiven => q.finished = r.failed
             /\ r.completed \in {NotGiven, Immediate, q.finished}
<1> DEFINE q == Resolved(c)
           r == c.retention
           x == Or(c.expire, Default.expire)
<1>1. /\ q.expire = x /\ q.heartbeat = Heartbeat(c, x) /\ q.pending = Or(r.pending, Default.pending)
      /\ q.watch = (r.pending # NotGiven) /\ q.finished = Finished(r)
      /\ q.deleteOnSuccess = (r.completed = Immediate)
  BY DEF Resolved
<1>2. /\ Integer(q.expire, 1, LongestTime)
      /\ Integer(q.retryLimit, 0, LongestTime) /\ RetriesOK(c, q)
      /\ Integer(q.delay, 1, LongestTime) /\ Integer(q.delayMax, q.delay, LongestTime)
      /\ RetentionOK(r) /\ WindowOK(q)
  BY DEF Accepted
<1>3. LongestTime \in Nat /\ Default.minPending \in Nat /\ Default.completed \in Nat \ {0} /\ Default.heartbeat # NotGiven
  BY DefaultAssumption
<1> HIDE DEF q, r, x
<1>4. q.expire \in Nat \ {0} /\ q.retryLimit \in Nat /\ q.delay \in Nat /\ q.delayMax \in Nat
  BY <1>2, <1>3 DEF Integer
<1>5. /\ q.finished \in Nat \ {0}
      /\ r.failed # NotGiven => q.finished = r.failed
      /\ r.completed \in {NotGiven, Immediate, q.finished}
  <2>1. /\ r.failed # NotGiven => r.failed \in Nat \ {0}
        /\ r.completed \notin {NotGiven, Immediate} => r.completed \in Nat \ {0}
        /\ r.completed \notin {NotGiven, Immediate} /\ r.failed # NotGiven => r.completed = r.failed
    BY <1>2, <1>3 DEF RetentionOK, Given, Integer
  <2>2. CASE r.completed \in {NotGiven, Immediate}
    <3>1. q.finished = (IF r.failed = NotGiven THEN Default.completed ELSE r.failed)
      BY <1>1, <2>2 DEF Finished, Or
    <3>2. QED
      BY <1>3, <2>1, <2>2, <3>1
  <2>3. CASE r.completed \notin {NotGiven, Immediate}
    <3>1. q.finished = r.completed
      BY <1>1, <2>3 DEF Finished
    <3>2. QED
      BY <2>1, <2>3, <3>1
  <2>4. QED
    BY <2>2, <2>3
<1>6. q.watch => q.pending \in Nat /\ q.pending >= LeastWindow(q)
  <2>1. q.watch => r.pending # NotGiven /\ q.pending = r.pending
    BY <1>1 DEF Or
  <2>2. r.pending # NotGiven => r.pending \in Nat
    BY <1>2, <1>3 DEF RetentionOK, Given, Integer
  <2>3. QED
    BY <1>2, <2>1, <2>2 DEF WindowOK
<1>7. q.expire > Default.heartbeatAbove => q.heartbeat # NotGiven
  BY <1>1, <1>3 DEF Heartbeat
<1>8. q.retryLimit >= Default.minRetryLimit \/ c.acceptDeadLetterOnDrain
  BY <1>2 DEF RetriesOK
<1>9. q.deleteOnSuccess <=> r.completed = Immediate
  BY <1>1
<1>10. QED
  BY <1>4, <1>5, <1>6, <1>7, <1>8, <1>9 DEF q, r

JobRecords == [phase : {"none", "due", "completed", "failed", "gone", "cut"}, tries : Nat, age : Nat, kept : Nat,
               drains : {0, 1}]

\* How long the job can have taken: each attempt spent was detected late and its back-off capped.
Worst(q, tries) == tries * (q.expire + Default.detection) + tries * q.delayMax

ConfigInv ==
    /\ queuedJob \in JobRecords
    /\ queuedJob.phase # "none" => queue # NotGiven
    /\ config = NotGiven => queue = NotGiven
    /\ queue # NotGiven => Accepted(config) /\ queue = Resolved(config)
    /\ queuedJob.phase = "none" => queuedJob = NoJob
    /\ queue # NotGiven => queuedJob.tries <= queue.retryLimit + 1
    /\ queuedJob.phase = "due" => queuedJob.tries <= queue.retryLimit /\ queuedJob.age <= Worst(queue, queuedJob.tries)
    /\ queuedJob.phase = "cut" => ~queue.watch
    /\ queuedJob.phase = "failed" => queuedJob.tries = queue.retryLimit + 1
    /\ queuedJob.phase = "completed" => ~queue.deleteOnSuccess
    /\ queuedJob.phase = "gone" /\ queuedJob.kept = 0 => queue.deleteOnSuccess

\* Multiplying keeps the order.
LEMMA TimesMonotone ==
  ASSUME NEW a \in Nat, NEW b \in Nat, NEW c \in Nat, a <= b
  PROVE  a * c <= b * c
OBVIOUS

\* One attempt more takes one wait more.
LEMMA TimesSucc ==
  ASSUME NEW a \in Nat, NEW c \in Nat
  PROVE  (a + 1) * c = a * c + c /\ a * c \in Nat
OBVIOUS

\* Where the expiry of waiting jobs is watched, a job that is due is younger than that expiry.
LEMMA NotCut ==
  ASSUME ConfigInv, queuedJob.phase = "due", queue.watch
  PROVE  queuedJob.age <= queue.pending
<1> DEFINE e == queue.expire + Default.detection
           t == queuedJob.tries
           n == queue.retryLimit
           m == queue.delayMax
<1>1. /\ queue # NotGiven /\ queue = Resolved(config) /\ Accepted(config)
      /\ t \in Nat /\ queuedJob.age \in Nat /\ t <= n /\ queuedJob.age <= t * e + t * m
  BY DEF ConfigInv, JobRecords, Worst
<1>2. n \in Nat /\ m \in Nat /\ e \in Nat /\ queue.pending \in Nat /\ queue.pending >= LeastWindow(queue)
  BY <1>1, AcceptedIs, DefaultAssumption
<1>3. LeastWindow(queue) = (n + 1) * e + n * m
  BY DEF LeastWindow
<1> HIDE DEF e, t, n, m
<1>4. t * e <= n * e /\ t * m <= n * m
  BY <1>1, <1>2, TimesMonotone
<1>5. (n + 1) * e = n * e + e /\ n * e \in Nat /\ n * m \in Nat /\ t * e \in Nat /\ t * m \in Nat
  BY <1>1, <1>2, TimesSucc
<1>6. LeastWindow(queue) \in Nat
  BY <1>2, <1>3, <1>5
<1>7. QED
  BY <1>1, <1>2, <1>3, <1>4, <1>5, <1>6

\* Initially no configuration was read.
LEMMA ConfigInitInv == ConfigInit => ConfigInv
<1> SUFFICES ASSUME ConfigInit PROVE ConfigInv
  OBVIOUS
<1>1. NoJob \in JobRecords /\ NoJob.phase = "none" /\ NoJob.tries = 0
  BY DEF NoJob, JobRecords
<1>2. QED
  BY <1>1 DEF ConfigInit, ConfigInv

\* Every step keeps the invariant of the queue configuration.
LEMMA ConfigStepInv == ConfigInv /\ [ConfigNext]_configVars => ConfigInv'
<1> SUFFICES ASSUME ConfigInv, [ConfigNext]_configVars PROVE ConfigInv'
  OBVIOUS
<1>0. /\ queuedJob \in JobRecords
      /\ queuedJob.phase # "none" => queue # NotGiven
      /\ config = NotGiven => queue = NotGiven
      /\ queue # NotGiven => Accepted(config) /\ queue = Resolved(config)
      /\ queuedJob.phase = "none" => queuedJob = NoJob
      /\ queue # NotGiven => queuedJob.tries <= queue.retryLimit + 1
      /\ queuedJob.phase = "due" => queuedJob.tries <= queue.retryLimit /\ queuedJob.age <= Worst(queue, queuedJob.tries)
      /\ queuedJob.phase = "cut" => ~queue.watch
      /\ queuedJob.phase = "failed" => queuedJob.tries = queue.retryLimit + 1
      /\ queuedJob.phase = "completed" => ~queue.deleteOnSuccess
      /\ queuedJob.phase = "gone" /\ queuedJob.kept = 0 => queue.deleteOnSuccess
  BY DEF ConfigInv
<1>a. queue # NotGiven =>
        /\ queue.expire \in Nat \ {0} /\ queue.retryLimit \in Nat /\ queue.delay \in Nat /\ queue.delayMax \in Nat
        /\ queue.finished \in Nat \ {0}
  BY <1>0, AcceptedIs
<1>b. NoJob \in JobRecords /\ NoJob.phase = "none" /\ NoJob.tries = 0 /\ NoJob.age = 0 /\ NoJob.drains = 0 /\ NoJob.kept = 0
  BY DEF NoJob, JobRecords
\* An accepted configuration that resolves to a queue: the job has not begun.
<1>1. CASE Define
  <2>1. PICK c \in QueueConfigs : config' = c /\ queue' = IF Accepted(c) THEN Resolved(c) ELSE NotGiven
    BY <1>1 DEF Define
  <2>2. config = NotGiven /\ queuedJob' = queuedJob
    BY <1>1 DEF Define
  <2>3. queuedJob = NoJob /\ c # NotGiven
    BY <1>0, <2>2, DefaultAssumption
  <2>4. queue' # NotGiven => Accepted(c) /\ queue' = Resolved(c) /\ Resolved(c).retryLimit \in Nat
    BY <2>1, AcceptedIs
  <2>5. QED
    BY <1>b, <2>1, <2>2, <2>3, <2>4 DEF ConfigInv
<1>2. CASE Send
  <2>1. /\ queue # NotGiven /\ queuedJob' = [NoJob EXCEPT !.phase = "due"] /\ UNCHANGED <<config, queue>>
    BY <1>2 DEF Send
  <2>2. /\ queuedJob' \in JobRecords /\ queuedJob'.phase = "due" /\ queuedJob'.tries = 0 /\ queuedJob'.age = 0
    BY <2>1 DEF NoJob, JobRecords
  <2>3. Worst(queue, 0) = 0
    BY <1>a, <2>1, DefaultAssumption DEF Worst
  <2>4. QED
    BY <1>0, <1>a, <2>1, <2>2, <2>3 DEF ConfigInv, Worst
<1>3. CASE Expires
  <2>1. /\ queuedJob.phase = "due" /\ queuedJob.age > queue.pending
        /\ queuedJob' = [queuedJob EXCEPT !.phase = "cut"] /\ UNCHANGED <<config, queue>>
    BY <1>3 DEF Expires
  <2>2. ~queue.watch
    <3>1. SUFFICES ASSUME queue.watch PROVE FALSE
      OBVIOUS
    <3>2. queuedJob.age <= queue.pending /\ queuedJob.age \in Nat /\ queue.pending \in Nat
      BY <1>0, <2>1, <3>1, NotCut, AcceptedIs DEF JobRecords
    <3>3. QED
      BY <2>1, <3>2
  <2>3. queuedJob' \in JobRecords /\ queuedJob'.phase = "cut" /\ queuedJob'.tries = queuedJob.tries
    BY <1>0, <2>1 DEF JobRecords
  <2>4. QED
    BY <1>0, <2>1, <2>2, <2>3 DEF ConfigInv
<1>4. CASE Ages
  <2>1. /\ queuedJob.phase \in {"completed", "failed"} /\ UNCHANGED <<config, queue>>
        /\ queuedJob' = IF queuedJob.kept >= queue.finished THEN [queuedJob EXCEPT !.phase = "gone"]
                        ELSE [queuedJob EXCEPT !.kept = @ + 1]
    BY <1>4 DEF Ages
  <2>2. CASE queuedJob.kept >= queue.finished
    <3>1. queuedJob' = [queuedJob EXCEPT !.phase = "gone"]
      BY <2>1, <2>2
    <3>2. /\ queuedJob' \in JobRecords /\ queuedJob'.phase = "gone" /\ queuedJob'.tries = queuedJob.tries
          /\ queuedJob'.kept = queuedJob.kept
      BY <1>0, <3>1 DEF JobRecords
    <3>3. queuedJob.kept # 0
      BY <1>0, <1>a, <2>1, <2>2 DEF JobRecords
    <3>4. QED
      BY <1>0, <2>1, <3>2, <3>3 DEF ConfigInv
  <2>3. CASE ~(queuedJob.kept >= queue.finished)
    <3>1. queuedJob' = [queuedJob EXCEPT !.kept = @ + 1]
      BY <2>1, <2>3
    <3>2. /\ queuedJob' \in JobRecords /\ queuedJob'.phase = queuedJob.phase /\ queuedJob'.tries = queuedJob.tries
      BY <1>0, <3>1 DEF JobRecords
    <3>3. QED
      BY <1>0, <2>1, <3>2 DEF ConfigInv
  <2>4. QED
    BY <2>2, <2>3
<1>5. ASSUME queue # NotGiven, NEW d \in Attempts, Succeeds(d) PROVE ConfigInv'
  <2> DEFINE f == IF queue.deleteOnSuccess THEN "gone" ELSE "completed"
  <2>1. /\ queuedJob.phase = "due" /\ UNCHANGED <<config, queue>>
        /\ queuedJob' = [queuedJob EXCEPT !.phase = f, !.tries = @ + 1, !.age = @ + d, !.kept = 0]
    BY <1>5 DEF Succeeds
  <2>2. d \in Nat
    BY <1>5, <1>a, DefaultAssumption DEF Attempts
  <2>3. f \in {"gone", "completed"} /\ (f = "gone" <=> queue.deleteOnSuccess)
    OBVIOUS
  <2> HIDE DEF f
  <2>8. queuedJob.tries + 1 \in Nat /\ queuedJob.age + d \in Nat
    BY <1>0, <2>2 DEF JobRecords
  <2>9. f \in {"none", "due", "completed", "failed", "gone", "cut"}
    BY <2>3
  <2>4. queuedJob' \in JobRecords /\ queuedJob'.phase = f /\ queuedJob'.tries = queuedJob.tries + 1
    BY <1>0, <2>1, <2>8, <2>9 DEF JobRecords
  <2>5. queuedJob.tries \in Nat /\ queuedJob.tries <= queue.retryLimit /\ queue.retryLimit \in Nat
    BY <1>0, <1>5, <1>a, <2>1 DEF JobRecords
  <2>6. queuedJob'.tries <= queue.retryLimit + 1
    BY <2>4, <2>5
  <2>7. QED
    BY <1>0, <1>5, <2>1, <2>3, <2>4, <2>6 DEF ConfigInv
<1>6. ASSUME queue # NotGiven, NEW d \in Attempts, NEW b \in BOOLEAN, Spent(d, b) PROVE ConfigInv'
  <2>1. PICK wait \in queue.delay .. queue.delayMax :
          queuedJob' = [phase |-> IF queuedJob.tries >= queue.retryLimit THEN "failed" ELSE "due",
                        tries |-> queuedJob.tries + 1,
                        age |-> queuedJob.age + d + (IF queuedJob.tries >= queue.retryLimit THEN 0 ELSE wait), kept |-> 0,
                        drains |-> queuedJob.drains + (IF b THEN 1 ELSE 0)]
    BY <1>6 DEF Spent
  <2>2. queuedJob.phase = "due" /\ (b => queuedJob.drains = 0) /\ UNCHANGED <<config, queue>>
    BY <1>6 DEF Spent
  <2> DEFINE g == queuedJob.drains + (IF b THEN 1 ELSE 0)
             t == queuedJob.tries
             e == queue.expire + Default.detection
             m == queue.delayMax
  <2>3. g \in {0, 1}
    <3>1. queuedJob.drains \in {0, 1}
      BY <1>0 DEF JobRecords
    <3>2. QED
      BY <2>2, <3>1
  <2>4. /\ t \in Nat /\ queuedJob.age \in Nat /\ t <= queue.retryLimit /\ queue.retryLimit \in Nat
        /\ d \in Nat /\ d <= e /\ e \in Nat /\ m \in Nat /\ wait \in Nat /\ wait <= m
        /\ queuedJob.age <= t * e + t * m
    BY <1>0, <1>6, <1>a, <2>2, DefaultAssumption DEF JobRecords, Attempts, Worst
  <2> HIDE DEF g, e, m
  <2>5. CASE t >= queue.retryLimit
    <3>1. queuedJob' = [phase |-> "failed", tries |-> t + 1, age |-> queuedJob.age + d + 0, kept |-> 0, drains |-> g]
      BY <2>1, <2>5 DEF g
    <3>2. queuedJob' \in JobRecords /\ queuedJob'.phase = "failed" /\ queuedJob'.tries = queue.retryLimit + 1
      BY <2>3, <2>4, <2>5, <3>1 DEF JobRecords
    <3>3. QED
      BY <1>0, <1>6, <2>2, <2>4, <3>2 DEF ConfigInv
  <2>6. CASE ~(t >= queue.retryLimit)
    <3>1. queuedJob' = [phase |-> "due", tries |-> t + 1, age |-> queuedJob.age + d + wait, kept |-> 0, drains |-> g]
      BY <2>1, <2>6 DEF g
    <3>2. /\ queuedJob' \in JobRecords /\ queuedJob'.phase = "due" /\ queuedJob'.tries = t + 1
          /\ queuedJob'.age = queuedJob.age + d + wait
      BY <2>3, <2>4, <3>1 DEF JobRecords
    <3>3. (t + 1) * e = t * e + e /\ (t + 1) * m = t * m + m /\ t * e \in Nat /\ t * m \in Nat
      BY <2>4, TimesSucc
    <3>4. queuedJob'.age <= (t + 1) * e + (t + 1) * m /\ t + 1 <= queue.retryLimit
      BY <2>4, <2>6, <3>2, <3>3
    <3>5. queuedJob'.age <= Worst(queue, t + 1)
      BY <3>4 DEF Worst, e, m
    <3>6. queuedJob'.tries <= queue.retryLimit + 1
      BY <2>4, <3>2, <3>4
    <3>7. QED
      BY <1>0, <1>6, <2>2, <3>2, <3>4, <3>5, <3>6 DEF ConfigInv, Worst
  <2>7. QED
    BY <2>5, <2>6
<1>7. CASE UNCHANGED configVars
  BY <1>0, <1>7 DEF configVars, ConfigInv, Worst
<1>8. QED
  BY <1>1, <1>2, <1>3, <1>4, <1>5, <1>6, <1>7 DEF ConfigNext

\* For any queue configuration that is accepted: no job is deleted while it is still being retried, a
\* drain alone dead-letters none, and rows are kept as long as was asked.
THEOREM QueueHolds == ConfigSpec => []QueueSafe
<1>1. ConfigInit => ConfigInv
  BY ConfigInitInv
<1>2. ConfigInv /\ [ConfigNext]_configVars => ConfigInv'
  BY ConfigStepInv
<1>3. ConfigInv => QueueSafe
  <2> SUFFICES ASSUME ConfigInv PROVE QueueSafe
    OBVIOUS
  <2>1. ConfigTypeOK
    BY AcceptedIs DEF ConfigInv, ConfigTypeOK
  <2>2. NeverCutShort
    BY DEF ConfigInv, NeverCutShort
  <2>3. DrainSurvived
    <3> SUFFICES ASSUME queuedJob.phase = "failed", ~config.acceptDeadLetterOnDrain
                 PROVE  queuedJob.tries > queuedJob.drains
      BY DEF DrainSurvived
    <3>1. /\ queuedJob.tries = queue.retryLimit + 1 /\ queuedJob.drains \in {0, 1}
          /\ Accepted(config) /\ queue = Resolved(config)
      BY DEF ConfigInv, JobRecords
    <3>2. queue.retryLimit \in Nat /\ queue.retryLimit >= Default.minRetryLimit
      BY <3>1, AcceptedIs
    <3>3. QED
      BY <3>1, <3>2, DefaultAssumption
  <2>4. RetentionKept
    <3>1. /\ queuedJob.phase \in {"failed", "completed", "gone"} => Accepted(config) /\ queue = Resolved(config)
          /\ queuedJob.phase = "completed" => ~queue.deleteOnSuccess
          /\ queuedJob.phase = "gone" /\ queuedJob.kept = 0 => queue.deleteOnSuccess
      BY DEF ConfigInv
    <3>2. Accepted(config) /\ queue = Resolved(config) =>
            /\ queue.deleteOnSuccess <=> config.retention.completed = Immediate
            /\ config.retention.failed # NotGiven => queue.finished = config.retention.failed
            /\ config.retention.completed \in {NotGiven, Immediate, queue.finished}
      BY AcceptedIs
    <3>3. QED
      BY <3>1, <3>2 DEF RetentionKept
  <2>5. QED
    BY <2>1, <2>2, <2>3, <2>4 DEF QueueSafe
<1>4. QED
  BY <1>1, <1>2, <1>3, PTL DEF ConfigSpec

-----------------------------------------------------------------------------
(***************************************************************************)
(* PoolGuard, for any finite set of callers, any pool and any back-off:    *)
(* the failures counted are of callers that failed, and while a failure is *)
(* remembered the window reaches minBackoff past it.  That the powers of   *)
(* two are positive needs an induction, made here from the least number of *)
(* a set.                                                                  *)
(***************************************************************************)

\* Every set of naturals has a least member.
LEMMA LeastNat ==
    ASSUME NEW S, S \subseteq Nat, S # {}
    PROVE  \E m \in S : \A k \in S : m <= k
  <1>1. PICK R : R = OpToRel(<, Nat)
    OBVIOUS
  <1>2. IsWellFoundedOn(R, Nat)
    BY <1>1, NatLessThanWellFounded
  <1>3. PICK m \in S : \A k \in S : <<k, m>> \notin R
    BY <1>2, WFMin
  <1>4. \A k \in S : ~(k < m)
    BY <1>1, <1>3 DEF OpToRel
  <1>5. \A k \in S : m <= k
    BY <1>4
  <1> QED BY <1>5

\* g holds the powers of two up to n.
Powers(n, g) == /\ g \in [0..n -> Nat \ {0}] /\ g[0] = 1
                /\ \A i \in 1..n : g[i] = 2 * g[i - 1]

\* There are powers of two up to every n: the least n without them would have them.
LEMMA PowersExist == \A n \in Nat : \E g : Powers(n, g)
  <1>1. PICK S : S = {n \in Nat : ~ \E g : Powers(n, g)}
    OBVIOUS
  <1>2. SUFFICES ASSUME S # {} PROVE FALSE
    BY <1>1
  <1>3. PICK m \in S : \A k \in S : m <= k
    BY <1>1, <1>2, LeastNat
  <1>4. m \in Nat /\ ~ \E g : Powers(m, g)
    BY <1>1, <1>3
  <1>5. CASE m = 0
    <2>1. PICK g : g = [i \in 0..0 |-> 1]
      OBVIOUS
    <2>2. Powers(0, g)
      BY <2>1 DEF Powers
    <2> QED BY <1>4, <1>5, <2>2
  <1>6. CASE m # 0
    <2>1. m - 1 \in Nat /\ m - 1 \notin S
      BY <1>3, <1>4, <1>6
    <2>2. PICK g : Powers(m - 1, g)
      BY <1>1, <2>1
    <2>3. PICK h : h = [i \in 0..m |-> IF i = m THEN 2 * g[m - 1] ELSE g[i]]
      OBVIOUS
    <2>4. \A i \in 0..(m - 1) : g[i] \in Nat \ {0} /\ h[i] = g[i]
      BY <1>4, <2>1, <2>2, <2>3 DEF Powers
    <2>5. h[m] = 2 * g[m - 1] /\ g[m - 1] \in Nat \ {0} /\ h[m - 1] = g[m - 1]
      BY <1>4, <2>1, <2>3, <2>4
    <2>6. h[m] \in Nat \ {0}
      BY <2>5
    <2>7. h \in [0..m -> Nat \ {0}]
      <3>1. \A i \in 0..m : i = m \/ i \in 0..(m - 1)
        BY <1>4, <2>1
      <3>2. \A i \in 0..m : h[i] \in Nat \ {0}
        BY <2>4, <2>6, <3>1
      <3> QED BY <2>3, <3>2
    <2>8. \A i \in 1..m : h[i] = 2 * h[i - 1]
      <3> SUFFICES ASSUME NEW i \in 1..m PROVE h[i] = 2 * h[i - 1]
        OBVIOUS
      <3>1. CASE i = m
        BY <2>5, <3>1
      <3>2. CASE i # m
        <4>1. i \in 1..(m - 1) /\ i \in 0..(m - 1) /\ i - 1 \in 0..(m - 1)
          BY <1>4, <3>2
        <4> QED BY <2>2, <2>4, <4>1 DEF Powers
      <3> QED BY <3>1, <3>2
    <2>9. h[0] = 1
      BY <1>4, <2>1, <2>2, <2>4 DEF Powers
    <2> QED BY <1>4, <2>7, <2>8, <2>9 DEF Powers
  <1> QED BY <1>5, <1>6

\* Two lists of powers agree where both are defined.
LEMMA PowersAgree ==
    ASSUME NEW n \in Nat, NEW m \in Nat, n <= m, NEW g, NEW h, Powers(n, g), Powers(m, h)
    PROVE  \A i \in 0..n : g[i] = h[i]
  <1>1. PICK S : S = {i \in 0..n : g[i] # h[i]}
    OBVIOUS
  <1>2. SUFFICES ASSUME S # {} PROVE FALSE
    BY <1>1
  <1>3. S \subseteq Nat
    BY <1>1
  <1>4. PICK i \in S : \A k \in S : i <= k
    BY <1>2, <1>3, LeastNat
  <1>5. i \in 0..n /\ g[i] # h[i] /\ i # 0
    BY <1>1, <1>4 DEF Powers
  <1>6. i \in 1..n /\ i \in 1..m /\ i - 1 \in 0..n /\ i - 1 \notin S
    BY <1>4, <1>5
  <1>7. g[i - 1] = h[i - 1]
    BY <1>1, <1>6
  <1> QED BY <1>5, <1>6, <1>7 DEF Powers

\* TwoTo is what its definition says, and positive.
LEMMA TwoToIs == \A n \in Nat : TwoTo[n] \in Nat \ {0}
  <1>1. PICK F : F = [n \in Nat |-> CHOOSE g : Powers(n, g)]
    OBVIOUS
  <1>2. \A n \in Nat : Powers(n, F[n])
    BY <1>1, PowersExist
  <1>3. PICK f : f = [n \in Nat |-> F[n][n]]
    OBVIOUS
  <1>4. \A n \in Nat : f[n] \in Nat \ {0}
    BY <1>2, <1>3 DEF Powers
  <1>5. ASSUME NEW n \in Nat, n # 0 PROVE f[n] = 2 * f[n - 1]
    <2>1. n - 1 \in Nat /\ n - 1 <= n /\ n \in 1..n /\ n - 1 \in 0..(n - 1)
      BY <1>5
    <2>2. Powers(n - 1, F[n - 1]) /\ Powers(n, F[n])
      BY <1>2, <2>1
    <2>3. F[n - 1][n - 1] = F[n][n - 1]
      BY <2>1, <2>2, PowersAgree
    <2>4. F[n][n] = 2 * F[n][n - 1]
      BY <2>1, <2>2 DEF Powers
    <2> QED BY <1>3, <2>1, <2>3, <2>4
  <1>6. f[0] = 1
    BY <1>2, <1>3 DEF Powers
  <1>7. f = [n \in Nat |-> IF n = 0 THEN 1 ELSE 2 * f[n - 1]]
    BY <1>3, <1>5, <1>6
  <1>8. TwoTo = [n \in Nat |-> IF n = 0 THEN 1 ELSE 2 * TwoTo[n - 1]]
    BY <1>7, Zenon DEF TwoTo
  <1>9. PICK t : t = TwoTo
    OBVIOUS
  <1>10. ASSUME NEW n \in Nat PROVE t[n] = IF n = 0 THEN 1 ELSE 2 * t[n - 1]
    BY <1>8, <1>9
  <1>11. PICK S : S = {n \in Nat : t[n] \notin Nat \ {0}}
    OBVIOUS
  <1>12. CASE S = {}
    BY <1>9, <1>11, <1>12
  <1>13. CASE S # {}
    <2>1. PICK m \in S : \A k \in S : m <= k
      BY <1>11, <1>13, LeastNat
    <2>2. m \in Nat /\ t[m] \notin Nat \ {0}
      BY <1>11, <2>1
    <2>3. m # 0
      BY <1>10, <2>2
    <2>4. m - 1 \in Nat /\ m - 1 \notin S
      BY <2>1, <2>2, <2>3
    <2>5. t[m - 1] \in Nat \ {0}
      BY <1>11, <2>4
    <2>6. t[m] = 2 * t[m - 1]
      BY <1>10, <2>2, <2>3
    <2> QED BY <2>2, <2>5, <2>6
  <1> QED BY <1>12, <1>13

\* Every back-off lies between its two bounds.
LEMMA BackoffIs == \A n \in Nat \ {0} : Backoff(n) \in Nat /\ MinBackoff <= Backoff(n) /\ Backoff(n) <= MaxBackoff
  <1> SUFFICES ASSUME NEW n \in Nat \ {0}
               PROVE  Backoff(n) \in Nat /\ MinBackoff <= Backoff(n) /\ Backoff(n) <= MaxBackoff
    OBVIOUS
  <1>1. MinBackoff \in Nat \ {0} /\ MaxBackoff \in Nat /\ MinBackoff <= MaxBackoff
    BY PoolGuardAssumption
  <1>2. PICK k : k = IF n - 1 > 20 THEN 20 ELSE n - 1
    OBVIOUS
  <1>3. k \in Nat
    BY <1>2
  <1>4. PICK t : t = TwoTo[k]
    OBVIOUS
  <1>5. t \in Nat /\ t >= 1
    BY <1>3, <1>4, TwoToIs
  <1>6. MinBackoff * t \in Nat /\ MinBackoff <= MinBackoff * t
    BY <1>1, <1>5
  <1>7. Doubled(n) = MinBackoff * t
    BY <1>2, <1>4 DEF Doubled
  <1> QED BY <1>1, <1>6, <1>7 DEF Backoff

-----------------------------------------------------------------------------
Places == {"idle", "queued", "dial", "holds", "failed", "done"}
In(f, p) == Cardinality({c \in Callers : f[c] = p})

\* A caller that moves is counted where it goes and no longer where it was.
Moved(f, c, q, g) ==
    /\ g \in [Callers -> Places] /\ g[c] = q /\ \A d \in Callers : d # c => g[d] = f[d]
    /\ \A p \in Places : In(f, p) \in Nat /\ In(g, p) \in Nat
    /\ In(g, q) = In(f, q) + 1 /\ In(g, f[c]) = In(f, f[c]) - 1
    /\ \A p \in Places : p # q /\ p # f[c] => In(g, p) = In(f, p)

\* The places are finite sets, and no larger than the set of callers.
LEMMA InIs ==
    ASSUME NEW f, NEW p
    PROVE  In(f, p) \in Nat /\ In(f, p) <= Cardinality(Callers) /\ IsFiniteSet({c \in Callers : f[c] = p})
  <1>1. PICK S : S = {c \in Callers : f[c] = p}
    OBVIOUS
  <1>2. S \in SUBSET Callers /\ IsFiniteSet(Callers)
    BY <1>1, PoolGuardAssumption
  <1>3. IsFiniteSet(S) /\ Cardinality(S) <= Cardinality(Callers) /\ Cardinality(S) \in Nat
    BY <1>2, FS_Subset, FS_CardinalityType
  <1> QED BY <1>1, <1>3 DEF In

\* Moving one caller.
LEMMA MovedIs ==
    ASSUME NEW f \in [Callers -> Places], NEW c \in Callers, NEW q \in Places, f[c] # q,
           NEW g, g = [f EXCEPT ![c] = q]
    PROVE  Moved(f, c, q, g)
  <1>1. /\ g \in [Callers -> Places] /\ g[c] = q /\ f[c] \in Places
        /\ \A d \in Callers : d # c => g[d] = f[d]
    OBVIOUS
  <1>2. \A p \in Places : In(f, p) \in Nat /\ In(g, p) \in Nat
    BY InIs
  <1>3. In(g, q) = In(f, q) + 1
    <2>1. PICK S : S = {d \in Callers : f[d] = q}
      OBVIOUS
    <2>2. c \notin S /\ {d \in Callers : g[d] = q} = S \cup {c}
      BY <1>1, <2>1
    <2>4. IsFiniteSet(S)
      BY <2>1, InIs
    <2>3. Cardinality(S \cup {c}) = Cardinality(S) + 1
      BY <2>2, <2>4, FS_AddElement
    <2> QED BY <2>1, <2>2, <2>3 DEF In
  <1>4. In(g, f[c]) = In(f, f[c]) - 1
    <2>1. PICK S : S = {d \in Callers : f[d] = f[c]}
      OBVIOUS
    <2>2. c \in S /\ {d \in Callers : g[d] = f[c]} = S \ {c}
      BY <1>1, <2>1
    <2>4. IsFiniteSet(S)
      BY <2>1, InIs
    <2>3. Cardinality(S \ {c}) = Cardinality(S) - 1
      BY <2>2, <2>4, FS_RemoveElement
    <2> QED BY <2>1, <2>2, <2>3 DEF In
  <1>5. ASSUME NEW p \in Places, p # q, p # f[c] PROVE In(g, p) = In(f, p)
    <2>1. {d \in Callers : g[d] = p} = {d \in Callers : f[d] = p}
      BY <1>1, <1>5
    <2> QED BY <2>1 DEF In
  <1> QED BY <1>1, <1>2, <1>3, <1>4, <1>5 DEF Moved

-----------------------------------------------------------------------------
\* The shapes.
PoolShape ==
    /\ now \in 0..LastNow /\ at \in [Callers -> Places] /\ pending \in Seq(Callers)
    /\ idle \in Nat /\ failed \in Nat /\ retryAt \in Nat /\ failedAt \in Int /\ since \in {0, 1}
    /\ pump \in BOOLEAN /\ lastError \in BOOLEAN

\* The queue holds each waiter once and nobody else.
Waiting ==
    /\ \A c \in Callers : at[c] = "queued" <=> \E i \in 1..Len(pending) : pending[i] = c
    /\ \A i, j \in 1..Len(pending) : pending[i] = pending[j] => i = j
    /\ Len(pending) = In(at, "queued")

\* The pool has room for its clients, and the failures in a row are of callers that failed.
Sized ==
    /\ In(at, "dial") + In(at, "holds") + idle <= PoolMax
    /\ failed <= In(at, "failed")

\* The window is open only after a failure, for minBackoff at least and maxBackoff at most.
Window ==
    /\ retryAt <= now + MaxBackoff
    /\ retryAt > 0 => since = 1
    /\ since = 1 => lastError /\ failedAt \in 0..now /\ failedAt + MinBackoff <= retryAt

PoolInv == PoolShape /\ Waiting /\ Sized /\ Window

\* Initially nobody connects.
LEMMA PoolInitInv == PoolInit => PoolInv
  <1> SUFFICES ASSUME PoolInit PROVE PoolInv
    OBVIOUS
  <1>1. \A p \in Places \ {"idle"} : {c \in Callers : at[c] = p} = {}
    BY DEF PoolInit, Places
  <1>2. In(at, "dial") = 0 /\ In(at, "holds") = 0 /\ In(at, "failed") = 0 /\ In(at, "queued") = 0
    BY <1>1, FS_EmptySet DEF In, Places
  <1>3. Len(<< >>) = 0 /\ << >> \in Seq(Callers)
    OBVIOUS
  <1>4. PoolShape
    <2>1. at \in [Callers -> Places]
      BY DEF PoolInit, Places
    <2>2. now \in 0..LastNow
      BY PoolGuardAssumption DEF PoolInit
    <2>3. pump \in BOOLEAN /\ lastError \in BOOLEAN
      BY DEF PoolInit
    <2>4. pending \in Seq(Callers) /\ failedAt \in Int /\ since \in {0, 1} /\ {idle, failed, retryAt} \subseteq Nat
      BY <1>3 DEF PoolInit
    <2> QED BY <2>1, <2>2, <2>3, <2>4 DEF PoolShape
  <1>5. Waiting
    BY <1>2, <1>3 DEF PoolInit, Waiting
  <1>6. Sized /\ Window
    BY <1>2, PoolGuardAssumption DEF PoolInit, Sized, Window
  <1> QED BY <1>4, <1>5, <1>6 DEF PoolInv

-----------------------------------------------------------------------------
\* Nobody joins or leaves the queue.
LEMMA QueueStays ==
    ASSUME Waiting, NEW c \in Callers, NEW q \in Places \ {"queued"}, at[c] # "queued",
           Moved(at, c, q, at'), pending' = pending
    PROVE  Waiting'
  <1>1. \A d \in Callers : at'[d] = "queued" <=> at[d] = "queued"
    BY DEF Moved, Places
  <1>2. In(at', "queued") = In(at, "queued")
    BY DEF Moved, Places
  <1> QED BY <1>1, <1>2 DEF Waiting

\* The first of the queue is served.
LEMMA QueueShrinks ==
    ASSUME PoolShape, Waiting, pending # << >>, NEW q \in Places \ {"queued"},
           Moved(at, Head(pending), q, at'), pending' = Tail(pending)
    PROVE  Waiting'
  <1>1. PICK s : s = pending
    OBVIOUS
  <1>2. s \in Seq(Callers) /\ s # << >> /\ Len(s) \in Nat /\ 1 \in 1..Len(s) /\ Head(s) = s[1] /\ s[1] \in Callers
    BY <1>1 DEF PoolShape
  <1>3. PICK t : t = Tail(s)
    OBVIOUS
  <1>4. Len(t) = Len(s) - 1 /\ \A i \in 1..Len(t) : i \in Nat /\ i + 1 \in 1..Len(s) /\ t[i] = s[i + 1]
    BY <1>2, <1>3
  <1>5. at[s[1]] = "queued"
    BY <1>1, <1>2 DEF Waiting
  <1>6. In(at', "queued") = In(at, "queued") - 1
    BY <1>1, <1>2, <1>5 DEF Moved
  <1>7. Len(t) = In(at', "queued")
    BY <1>1, <1>4, <1>6 DEF Waiting
  <1>8. ASSUME NEW i \in 1..Len(t), NEW j \in 1..Len(t), t[i] = t[j] PROVE i = j
    <2>1. /\ i + 1 \in 1..Len(s) /\ j + 1 \in 1..Len(s) /\ i \in Nat /\ j \in Nat
          /\ s[i + 1] = s[j + 1]
      BY <1>4, <1>8
    <2>2. i + 1 = j + 1
      BY <1>1, <2>1 DEF Waiting
    <2> QED BY <2>1, <2>2
  <1>9. ASSUME NEW d \in Callers PROVE at'[d] = "queued" <=> \E i \in 1..Len(t) : t[i] = d
    <2>1. CASE d = s[1]
      <3>1. at'[d] # "queued"
        BY <1>1, <1>2, <2>1 DEF Moved
      <3>2. ASSUME NEW i \in 1..Len(t), t[i] = d PROVE FALSE
        <4>1. i + 1 \in 1..Len(s) /\ s[i + 1] = s[1] /\ i \in Nat
          BY <1>4, <2>1, <3>2
        <4>2. i + 1 = 1
          BY <1>1, <1>2, <4>1 DEF Waiting
        <4>3. i >= 1
          OBVIOUS
        <4> QED BY <4>1, <4>2, <4>3
      <3> QED BY <3>1, <3>2
    <2>2. CASE d # s[1]
      <3>1. at'[d] = at[d]
        BY <1>1, <1>2, <2>2 DEF Moved
      <3>2. ASSUME NEW i \in 1..Len(t), t[i] = d PROVE at[d] = "queued"
        <4>1. i + 1 \in 1..Len(s) /\ s[i + 1] = d
          BY <1>4, <3>2
        <4> QED BY <1>1, <4>1 DEF Waiting
      <3>3. ASSUME at[d] = "queued" PROVE \E i \in 1..Len(t) : t[i] = d
        <4>1. PICK k \in 1..Len(s) : s[k] = d
          BY <1>1, <3>3 DEF Waiting
        <4>2. k # 1 /\ k - 1 \in 1..Len(t)
          BY <1>2, <1>4, <2>2, <4>1
        <4>3. t[k - 1] = s[(k - 1) + 1] /\ (k - 1) + 1 = k
          BY <1>4, <4>1, <4>2
        <4>4. t[k - 1] = d
          BY <4>1, <4>3
        <4> QED BY <4>2, <4>4
      <3> QED BY <3>1, <3>2, <3>3
    <2> QED BY <2>1, <2>2
  <1>10. pending' = t
    BY <1>1, <1>3
  <1> QED BY <1>7, <1>8, <1>9, <1>10 DEF Waiting

\* A caller joins the end of the queue.
LEMMA QueueGrows ==
    ASSUME PoolShape, Waiting, NEW c \in Callers, at[c] # "queued",
           Moved(at, c, "queued", at'), pending' = Append(pending, c)
    PROVE  Waiting'
  <1>1. PICK s : s = pending
    OBVIOUS
  <1>2. s \in Seq(Callers) /\ Len(s) \in Nat
    BY <1>1 DEF PoolShape
  <1>3. PICK e : e = Append(s, c)
    OBVIOUS
  <1>4. Len(e) = Len(s) + 1 /\ e[Len(s) + 1] = c /\ \A i \in 1..Len(s) : e[i] = s[i]
    BY <1>2, <1>3
  <1>5. \A i \in 1..Len(e) : i = Len(s) + 1 \/ i \in 1..Len(s)
    BY <1>2, <1>4
  <1>6. \A i \in 1..Len(s) : s[i] # c
    BY <1>1 DEF Waiting
  <1>7. Len(e) = In(at', "queued")
    BY <1>1, <1>4 DEF Waiting, Moved
  <1>8. \A i, j \in 1..Len(e) : e[i] = e[j] => i = j
    <2>1. \A i, j \in 1..Len(s) : s[i] = s[j] => i = j
      BY <1>1 DEF Waiting
    <2> QED BY <1>4, <1>5, <1>6, <2>1
  <1>9. ASSUME NEW d \in Callers PROVE at'[d] = "queued" <=> \E i \in 1..Len(e) : e[i] = d
    <2>1. CASE d = c
      <3>1. Len(s) + 1 \in 1..Len(e)
        BY <1>2, <1>4
      <3> QED BY <1>4, <2>1, <3>1 DEF Moved
    <2>2. CASE d # c
      <3>1. at'[d] = at[d]
        BY <2>2 DEF Moved
      <3>2. at[d] = "queued" <=> \E i \in 1..Len(s) : s[i] = d
        BY <1>1 DEF Waiting
      <3>3. \A i \in 1..Len(s) : i \in 1..Len(e)
        BY <1>2, <1>4
      <3> QED BY <1>4, <1>5, <2>2, <3>1, <3>2, <3>3
    <2> QED BY <2>1, <2>2
  <1>10. pending' = e
    BY <1>1, <1>3
  <1> QED BY <1>7, <1>8, <1>9, <1>10 DEF Waiting

-----------------------------------------------------------------------------
\* newClient either fails the caller at once or lets it dial outside the window.
LEMMA NewClientIs ==
    ASSUME PoolShape, NEW c \in Callers, NEW p \in BOOLEAN, NewClient(c, p)
    PROVE  /\ pump' \in BOOLEAN
           /\ \/ at' = [at EXCEPT ![c] = "failed"]
              \/ at' = [at EXCEPT ![c] = "dial"] /\ ~(lastError /\ now < retryAt)
  BY DEF NewClient

\* Every step keeps the invariant; and a step lets a caller dial only outside the window.
LEMMA PoolStepInv ==
    ASSUME PoolInv, [PoolNext]_guardVars
    PROVE  /\ PoolInv'
           /\ \A d \in Callers : (at[d] # "dial" /\ at'[d] = "dial") => ~(lastError /\ now < retryAt)
  <1>0. PoolShape /\ Waiting /\ Sized /\ Window
    BY DEF PoolInv
  <1>a. /\ PoolMax \in Nat \ {0} /\ LastNow \in Nat /\ MinBackoff \in Nat \ {0} /\ MaxBackoff \in Nat
        /\ MinBackoff <= MaxBackoff
    BY PoolGuardAssumption
  <1>b. \A p \in Places : In(at, p) \in Nat
    BY InIs
  <1>c. /\ now \in Nat /\ now <= LastNow /\ at \in [Callers -> Places] /\ pending \in Seq(Callers)
        /\ idle \in Nat /\ failed \in Nat /\ retryAt \in Nat /\ failedAt \in Int /\ since \in {0, 1}
    BY <1>0, <1>a DEF PoolShape
  <1>1. CASE UNCHANGED guardVars
    BY <1>0, <1>1 DEF guardVars, PoolInv, PoolShape, Waiting, Sized, Window
  <1>2. ASSUME NEW c \in Callers, Connect(c)
        PROVE  /\ PoolInv'
               /\ \A d \in Callers : (at[d] # "dial" /\ at'[d] = "dial") => ~(lastError /\ now < retryAt)
    <2>1. at[c] = "idle" /\ UNCHANGED <<now, idle, failed, retryAt, lastError, failedAt, since>>
      BY <1>2 DEF Connect
    <2>2. Window'
      BY <1>0, <2>1 DEF Window
    <2>3. CASE Full \/ idle > 0
      <3>1. at' = [at EXCEPT ![c] = "queued"] /\ pending' = Append(pending, c)
        BY <1>2, <2>3 DEF Connect
      <3>2. pump' \in BOOLEAN
        BY <1>0, <1>2, <2>3 DEF Connect, PoolShape
      <3>3. Moved(at, c, "queued", at')
        BY <1>c, <2>1, <3>1, MovedIs DEF Places
      <3>4. Waiting'
        BY <1>0, <2>1, <3>1, <3>3, QueueGrows
      <3>5. /\ In(at', "dial") = In(at, "dial") /\ In(at', "holds") = In(at, "holds")
            /\ In(at', "failed") = In(at, "failed")
        BY <2>1, <3>3 DEF Moved, Places
      <3>6. Sized'
        BY <1>0, <2>1, <3>5 DEF Sized
      <3>7. PoolShape'
        BY <1>0, <2>1, <3>1, <3>2, <3>3 DEF PoolShape, Moved
      <3> QED BY <2>1, <2>2, <3>1, <3>3, <3>4, <3>6, <3>7 DEF PoolInv, Moved
    <2>4. CASE ~(Full \/ idle > 0)
      <3>1. NewClient(c, pump) /\ pending' = pending
        BY <1>2, <2>4 DEF Connect
      <3>2. PICK q \in {"failed", "dial"} :
                /\ at' = [at EXCEPT ![c] = q] /\ pump' \in BOOLEAN
                /\ q = "dial" => ~(lastError /\ now < retryAt)
        <4>1. pump \in BOOLEAN
          BY <1>0 DEF PoolShape
        <4> QED BY <1>0, <3>1, <4>1, NewClientIs
      <3>3. Moved(at, c, q, at')
        BY <1>c, <2>1, <3>2, MovedIs DEF Places
      <3>4. Waiting'
        BY <1>0, <2>1, <3>1, <3>3, QueueStays DEF Places
      <3>5. /\ In(at', "dial") <= In(at, "dial") + 1 /\ In(at', "holds") = In(at, "holds")
            /\ In(at', "failed") >= In(at, "failed") /\ In(at', "dial") \in Nat /\ In(at', "failed") \in Nat
        BY <1>b, <2>1, <3>3 DEF Moved, Places
      <3>6. idle = 0 /\ In(at, "dial") + In(at, "holds") + 1 <= PoolMax
        BY <1>a, <1>b, <1>c, <2>4 DEF Full, Count, In, Places
      <3>7. Sized'
        BY <1>0, <1>a, <1>b, <1>c, <2>1, <3>5, <3>6 DEF Sized, Places
      <3>8. PoolShape'
        BY <1>0, <2>1, <3>1, <3>2, <3>3 DEF PoolShape, Moved
      <3> QED BY <2>1, <2>2, <3>2, <3>3, <3>4, <3>7, <3>8 DEF PoolInv, Moved
    <2> QED BY <2>3, <2>4
  <1>3. ASSUME Pump
        PROVE  /\ PoolInv'
               /\ \A d \in Callers : (at[d] # "dial" /\ at'[d] = "dial") => ~(lastError /\ now < retryAt)
    <2>1. UNCHANGED <<now, failed, retryAt, lastError, failedAt, since>>
      BY <1>3 DEF Pump
    <2>2. Window'
      BY <1>0, <2>1 DEF Window
    <2>3. CASE pending = << >> \/ (idle = 0 /\ Full)
      <3>1. UNCHANGED <<at, pending, idle>> /\ pump' \in BOOLEAN
        BY <1>3, <2>3 DEF Pump
      <3> QED BY <1>0, <2>1, <2>2, <3>1 DEF PoolInv, PoolShape, Waiting, Sized
    <2>4. CASE ~(pending = << >> \/ (idle = 0 /\ Full))
      <3>1. PICK c : c = Head(pending)
        OBVIOUS
      <3>2. c \in Callers /\ at[c] = "queued" /\ pending # << >>
        <4>1. c = pending[1] /\ 1 \in 1..Len(pending) /\ c \in Callers
          BY <1>c, <2>4, <3>1
        <4> QED BY <1>0, <2>4, <4>1 DEF Waiting
      <3>3. pending' = Tail(pending) /\ pending' \in Seq(Callers)
        BY <1>3, <1>c, <2>4 DEF Pump
      <3>4. PICK q \in {"holds", "failed", "dial"} :
                /\ at' = [at EXCEPT ![c] = q] /\ pump' \in BOOLEAN
                /\ q = "dial" => ~(lastError /\ now < retryAt)
                /\ q = "holds" => idle > 0 /\ idle' = idle - 1
                /\ q # "holds" => idle = 0 /\ idle' = 0
        <4>1. CASE idle > 0
          <5>1. at' = [at EXCEPT ![c] = "holds"] /\ idle' = idle - 1 /\ pump' = FALSE
            BY <1>3, <2>4, <3>1, <4>1 DEF Pump
          <5> QED BY <4>1, <5>1
        <4>2. CASE ~(idle > 0)
          <5>1. NewClient(c, FALSE) /\ idle' = idle /\ idle = 0
            <6>1. NewClient(Head(pending), FALSE) /\ idle' = idle
              BY <1>3, <2>4, <4>2 DEF Pump
            <6>2. idle = 0
              BY <1>c, <4>2
            <6> QED BY <3>1, <6>1, <6>2
          <5>2. /\ pump' \in BOOLEAN
                /\ \/ at' = [at EXCEPT ![c] = "failed"]
                   \/ at' = [at EXCEPT ![c] = "dial"] /\ ~(lastError /\ now < retryAt)
            BY <1>0, <3>2, <5>1, NewClientIs
          <5> QED BY <5>1, <5>2
        <4> QED BY <4>1, <4>2
      <3>5. Moved(at, c, q, at')
        BY <1>c, <3>2, <3>4, MovedIs DEF Places
      <3>6. Waiting'
        BY <1>0, <3>1, <3>2, <3>3, <3>5, QueueShrinks DEF Places
      <3>7. Sized'
        <4>1. CASE q = "holds"
          <5>1. /\ In(at', "dial") = In(at, "dial") /\ In(at', "holds") = In(at, "holds") + 1
                /\ In(at', "failed") = In(at, "failed")
            BY <3>2, <3>5, <4>1 DEF Moved, Places
          <5> QED BY <1>0, <1>a, <1>b, <1>c, <2>1, <3>4, <4>1, <5>1 DEF Sized, Places
        <4>2. CASE q # "holds"
          <5>1. /\ In(at', "dial") <= In(at, "dial") + 1 /\ In(at', "holds") = In(at, "holds")
                /\ In(at', "failed") >= In(at, "failed") /\ In(at', "dial") \in Nat /\ In(at', "failed") \in Nat
            BY <1>b, <3>2, <3>5, <4>2 DEF Moved, Places
          <5>2. In(at, "dial") + In(at, "holds") + 1 <= PoolMax
            BY <1>a, <1>b, <1>c, <2>4, <3>2, <3>4, <4>2 DEF Full, Count, In, Places
          <5> QED BY <1>0, <1>a, <1>b, <1>c, <2>1, <3>4, <4>2, <5>1, <5>2 DEF Sized, Places
        <4> QED BY <4>1, <4>2
      <3>8. PoolShape'
        <4>1. idle' \in Nat
          BY <1>c, <3>4
        <4> QED BY <1>0, <2>1, <3>3, <3>4, <3>5, <4>1 DEF PoolShape, Moved
      <3> QED BY <2>1, <2>2, <3>2, <3>4, <3>5, <3>6, <3>7, <3>8 DEF PoolInv, Moved
    <2> QED BY <2>3, <2>4
  <1>4. ASSUME NEW c \in Callers, DialFails(c)
        PROVE  /\ PoolInv'
               /\ \A d \in Callers : (at[d] # "dial" /\ at'[d] = "dial") => ~(lastError /\ now < retryAt)
    <2>1. /\ at[c] = "dial" /\ at' = [at EXCEPT ![c] = "failed"] /\ UNCHANGED <<now, pending, idle>>
          /\ failed' = failed + 1 /\ retryAt' = now + Backoff(failed + 1) /\ lastError' = TRUE
          /\ failedAt' = now /\ since' = 1 /\ pump' = TRUE
      BY <1>4 DEF DialFails
    <2>2. Moved(at, c, "failed", at')
      BY <1>c, <2>1, MovedIs DEF Places
    <2>3. Waiting'
      BY <1>0, <2>1, <2>2, QueueStays DEF Places
    <2>4. PICK b : b = Backoff(failed + 1)
      OBVIOUS
    <2>5. b \in Nat /\ MinBackoff <= b /\ b <= MaxBackoff
      <3>1. failed + 1 \in Nat \ {0}
        BY <1>c
      <3> QED BY <2>4, <3>1, BackoffIs
    <2>6. retryAt' = now + b
      BY <2>1, <2>4
    <2>7. Window'
      BY <1>a, <1>c, <2>1, <2>5, <2>6 DEF Window
    <2>8. Sized'
      <3>1. /\ In(at', "dial") = In(at, "dial") - 1 /\ In(at', "holds") = In(at, "holds")
            /\ In(at', "failed") = In(at, "failed") + 1
        BY <2>1, <2>2 DEF Moved, Places
      <3>2. /\ In(at, "dial") \in Nat /\ In(at, "holds") \in Nat /\ In(at, "failed") \in Nat
            /\ In(at, "dial") + In(at, "holds") + idle <= PoolMax /\ failed <= In(at, "failed")
        BY <1>0, <1>b DEF Sized, Places
      <3>3. idle' = idle /\ failed' = failed + 1
        BY <2>1
      <3>4. In(at', "dial") + In(at', "holds") + idle' <= PoolMax
        BY <1>a, <1>c, <3>1, <3>2, <3>3
      <3>5. failed' <= In(at', "failed")
        BY <1>c, <3>1, <3>2, <3>3
      <3> QED BY <3>4, <3>5 DEF Sized
    <2>9. PoolShape'
      <3>1. retryAt' \in Nat /\ failed' \in Nat /\ failedAt' \in Int
        BY <1>c, <2>1, <2>5, <2>6
      <3> QED BY <1>0, <2>1, <2>2, <3>1 DEF PoolShape, Moved
    <2> QED BY <2>1, <2>2, <2>3, <2>7, <2>8, <2>9 DEF PoolInv, Moved
  <1>5. ASSUME NEW c \in Callers, DialWorks(c)
        PROVE  /\ PoolInv'
               /\ \A d \in Callers : (at[d] # "dial" /\ at'[d] = "dial") => ~(lastError /\ now < retryAt)
    <2>1. /\ at[c] = "dial" /\ at' = [at EXCEPT ![c] = "holds"] /\ UNCHANGED <<now, pending, idle, pump, failedAt>>
          /\ failed' = 0 /\ retryAt' = 0 /\ lastError' = FALSE /\ since' = 0
      BY <1>5 DEF DialWorks
    <2>2. Moved(at, c, "holds", at')
      BY <1>c, <2>1, MovedIs DEF Places
    <2>3. Waiting'
      BY <1>0, <2>1, <2>2, QueueStays DEF Places
    <2>4. Window'
      BY <1>a, <1>c, <2>1 DEF Window
    <2>5. Sized'
      <3>1. /\ In(at', "dial") = In(at, "dial") - 1 /\ In(at', "holds") = In(at, "holds") + 1
            /\ In(at', "failed") = In(at, "failed")
        BY <2>1, <2>2 DEF Moved, Places
      <3>2. /\ In(at, "dial") \in Nat /\ In(at, "holds") \in Nat /\ In(at, "failed") \in Nat
            /\ In(at, "dial") + In(at, "holds") + idle <= PoolMax
        BY <1>0, <1>b DEF Sized, Places
      <3>3. idle' = idle /\ failed' = 0
        BY <2>1
      <3>4. In(at', "dial") + In(at', "holds") + idle' <= PoolMax
        BY <1>a, <1>c, <3>1, <3>2, <3>3
      <3> QED BY <3>1, <3>2, <3>3, <3>4 DEF Sized
    <2>6. PoolShape'
      BY <1>0, <2>1, <2>2 DEF PoolShape, Moved
    <2> QED BY <2>1, <2>2, <2>3, <2>4, <2>5, <2>6 DEF PoolInv, Moved
  <1>6. ASSUME NEW c \in Callers, Release(c)
        PROVE  /\ PoolInv'
               /\ \A d \in Callers : (at[d] # "dial" /\ at'[d] = "dial") => ~(lastError /\ now < retryAt)
    <2>1. /\ at[c] = "holds" /\ at' = [at EXCEPT ![c] = "done"] /\ idle' \in {idle, idle + 1} /\ pump' = TRUE
          /\ UNCHANGED <<now, pending, failed, retryAt, lastError, failedAt, since>>
      BY <1>6 DEF Release
    <2>2. Moved(at, c, "done", at')
      BY <1>c, <2>1, MovedIs DEF Places
    <2>3. Waiting'
      BY <1>0, <2>1, <2>2, QueueStays DEF Places
    <2>4. Window'
      BY <1>0, <2>1 DEF Window
    <2>5. Sized'
      <3>1. /\ In(at', "dial") = In(at, "dial") /\ In(at', "holds") = In(at, "holds") - 1
            /\ In(at', "failed") = In(at, "failed")
        BY <2>1, <2>2 DEF Moved, Places
      <3>2. idle' \in Nat /\ idle' <= idle + 1
        BY <1>c, <2>1
      <3>3. /\ In(at, "dial") \in Nat /\ In(at, "holds") \in Nat
            /\ In(at, "dial") + In(at, "holds") + idle <= PoolMax /\ failed <= In(at, "failed")
        BY <1>0, <1>b DEF Sized, Places
      <3>4. In(at', "dial") + In(at', "holds") + idle' <= PoolMax
        BY <1>a, <1>c, <3>1, <3>2, <3>3
      <3> QED BY <2>1, <3>1, <3>3, <3>4 DEF Sized
    <2>6. PoolShape'
      <3>1. idle' \in Nat
        BY <1>c, <2>1
      <3> QED BY <1>0, <2>1, <2>2, <3>1 DEF PoolShape, Moved
    <2> QED BY <2>1, <2>2, <2>3, <2>4, <2>5, <2>6 DEF PoolInv, Moved
  <1>7. CASE IdleDies
    <2>1. /\ idle > 0 /\ idle' = idle - 1
          /\ UNCHANGED <<now, at, pending, pump, failed, retryAt, lastError, failedAt, since>>
      BY <1>7 DEF IdleDies
    <2>2. Sized'
      BY <1>0, <1>a, <1>b, <1>c, <2>1 DEF Sized, Places
    <2> QED BY <1>0, <1>c, <2>1, <2>2 DEF PoolInv, PoolShape, Waiting, Window
  <1>8. CASE PoolTick
    <2>1. /\ now < LastNow /\ now' = now + 1
          /\ UNCHANGED <<at, pending, idle, pump, failed, retryAt, lastError, failedAt, since>>
      BY <1>8 DEF PoolTick
    <2>2. Window'
      BY <1>0, <1>a, <1>c, <2>1 DEF Window
    <2>3. now' \in 0..LastNow
      BY <1>a, <1>c, <2>1
    <2>4. PoolShape'
      BY <1>0, <2>1, <2>3 DEF PoolShape
    <2> QED BY <1>0, <2>1, <2>2, <2>4 DEF PoolInv, Waiting, Sized
  <1> QED BY <1>1, <1>2, <1>3, <1>4, <1>5, <1>6, <1>7, <1>8 DEF PoolNext

\* The invariant gives the shapes, the size of the pool and the bounds of the window.
LEMMA PoolInvSafe == PoolInv => PoolTypeOK /\ WindowBounded
  <1> SUFFICES ASSUME PoolInv PROVE PoolTypeOK /\ WindowBounded
    OBVIOUS
  <1>1. PoolShape /\ Waiting /\ Sized /\ Window
    BY DEF PoolInv
  <1>2. /\ In(at, "dial") = Count("dial") /\ In(at, "holds") = Count("holds") /\ In(at, "queued") = Count("queued")
    BY DEF In, Count
  <1>3. /\ \A p \in Places : In(at, p) \in Nat
        /\ In(at, "failed") <= Cardinality(Callers) /\ Cardinality(Callers) \in Nat
    BY InIs, FS_CardinalityType, PoolGuardAssumption
  <1>4. failed \in 0..Cardinality(Callers)
    BY <1>1, <1>3 DEF PoolShape, Sized, Places
  <1>5. idle \in 0..PoolMax /\ Count("dial") + Count("holds") + idle <= PoolMax
    BY <1>1, <1>2, <1>3, PoolGuardAssumption DEF PoolShape, Sized, Places
  <1>6. retryAt \in 0..(LastNow + MaxBackoff)
    BY <1>1, PoolGuardAssumption DEF PoolShape, Window
  <1>7. PoolTypeOK
    BY <1>1, <1>2, <1>4, <1>5, <1>6 DEF PoolTypeOK, PoolShape, Waiting, Places
  <1>8. WindowBounded
    BY <1>1, PoolGuardAssumption DEF WindowBounded, PoolShape, Window
  <1> QED BY <1>7, <1>8

\* For any callers, pool size and back-off, however connects, failures and recoveries overlap: the
\* pool never has more clients than its size, the window that guardPool opens ends within maxBackoff,
\* and nobody, a caller or a waiter that the queue pumps, dials inside it.
THEOREM PoolHolds == PoolSpec => PoolKept
  <1> DEFINE Calm == \A c \in Callers : (at[c] # "dial" /\ at'[c] = "dial" /\ since = 1)
                                           => now - failedAt >= MinBackoff
  <1>1. PoolInv /\ [PoolNext]_guardVars => PoolInv'
    BY PoolStepInv
  <1>2. PoolSpec => []PoolInv
    BY <1>1, PoolInitInv, PTL DEF PoolSpec
  <1>3. PoolInv /\ [PoolNext]_guardVars => Calm
    <2> SUFFICES ASSUME PoolInv, [PoolNext]_guardVars, NEW c \in Callers, at[c] # "dial", at'[c] = "dial", since = 1
                 PROVE  now - failedAt >= MinBackoff
      OBVIOUS
    <2>1. ~(lastError /\ now < retryAt)
      BY PoolStepInv
    <2>2. lastError /\ failedAt \in 0..now /\ failedAt + MinBackoff <= retryAt
      BY DEF PoolInv, Window
    <2>3. now \in Nat /\ retryAt \in Nat
      BY PoolGuardAssumption DEF PoolInv, PoolShape
    <2> QED BY <2>1, <2>2, <2>3, PoolGuardAssumption
  <1>4. PoolSpec => [](PoolTypeOK /\ WindowBounded)
    BY <1>2, PoolInvSafe, PTL
  <1>5. PoolSpec => [][Calm]_guardVars
    BY <1>2, <1>3, PTL DEF PoolSpec
  <1> QED BY <1>4, <1>5, PTL DEF PoolKept, NoDialInWindow
=============================================================================
