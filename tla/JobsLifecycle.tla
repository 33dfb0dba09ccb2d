--------------------------- MODULE JobsLifecycle ---------------------------
(***************************************************************************)
(* The lifecycle of the jobs engine in one process: start, stop, handle    *)
(* and defineQueue, whose awaits interleave.  pg-boss is external: start   *)
(* resolves or rejects, stop ends every worker it knows, and work on a     *)
(* stopped instance either rejects or starts a worker all the same.        *)
(***************************************************************************)
EXTENDS Integers, FiniteSets

CONSTANTS
    Queues,
    Configs,   \* resolved configurations: their fingerprints
    NoConfig,
    WorkerCap  \* bound: workers of a queue

ASSUME EngineAssumption == NoConfig \notin Configs /\ WorkerCap \in Nat \ {0}

VARIABLES
    role, state,
    start,     \* where start() is; one call, as JobsLifecycle makes
    visited,   \* what the loop start() is in has passed
    queues,    \* this.queues: [Queues -> Configs \cup {NoConfig}]
    handlers,  \* this.handlers
    created,   \* queues that exist in the database
    call,      \* [Queues -> where a defineQueue or handle call on it is]
    workers,   \* [Queues -> pg-boss workers polling]
    timers,    \* housekeeping timers that are running
    overlap    \* history: queues handled while start() was in its loops, and
               \* "stop" when stop() met a start() or a handle() in progress

engineVars == <<role, state, start, visited, queues, handlers, created, call, workers, timers, overlap>>

Defined == {q \in Queues : queues[q] # NoConfig}

EngineInit ==
    /\ role \in {"worker", "api"} /\ state = "new" /\ start = "idle" /\ visited = {}
    /\ queues = [q \in Queues |-> NoConfig] /\ handlers = {} /\ created = {}
    /\ call = [q \in Queues |-> "none"]
    /\ workers = [q \in Queues |-> 0] /\ timers = 0 /\ overlap = {}

-----------------------------------------------------------------------------
(* start *)

\* A started engine returns at once, a stopped one refuses: nothing changes.
StartCall ==
    /\ start = "idle" /\ state = "new" /\ start' = "boss"
    /\ UNCHANGED <<role, state, visited, queues, handlers, created, call, workers, timers, overlap>>

\* boss.start() resolved; the state is set whatever happened during the await.
BossStarted ==
    /\ start = "boss" /\ start' = "queues" /\ state' = "started" /\ visited' = {}
    /\ UNCHANGED <<role, queues, handlers, created, call, workers, timers, overlap>>

\* boss.start() or a command of the loops rejected.
StartFailed ==
    /\ start \in {"boss", "queues", "workers"} /\ start' = "failed"
    /\ UNCHANGED <<role, state, visited, queues, handlers, created, call, workers, timers, overlap>>

\* The loops iterate live maps: what is added during an await is visited too.
StartQueue(q) ==
    /\ start = "queues" /\ q \in Defined \ visited
    /\ visited' = visited \cup {q} /\ created' = created \cup {q}
    /\ UNCHANGED <<role, state, start, queues, handlers, call, workers, timers, overlap>>

QueuesDone ==
    /\ start = "queues" /\ Defined \subseteq visited
    /\ start' = (IF role = "worker" THEN "workers" ELSE "done") /\ visited' = {}
    /\ UNCHANGED <<role, state, queues, handlers, created, call, workers, timers, overlap>>

\* startWorker, with pg-boss's answer on a stopped instance left open.
Polls(q) == workers' = [workers EXCEPT ![q] = IF @ < WorkerCap THEN @ + 1 ELSE @]
StartHandler(q) ==
    /\ start = "workers" /\ q \in handlers \ visited
    /\ visited' = visited \cup {q} /\ Polls(q)
    /\ UNCHANGED <<role, state, start, queues, handlers, created, call, timers, overlap>>

\* startWorkerHousekeeping
WorkersDone ==
    /\ start = "workers" /\ handlers \subseteq visited
    /\ start' = "done" /\ timers' = timers + 1
    /\ UNCHANGED <<role, state, visited, queues, handlers, created, call, workers, overlap>>

-----------------------------------------------------------------------------
(* stop *)

InProgress == start \in {"boss", "queues", "workers"} \/ \E q \in Queues : call[q] \in {"handle", "work"}

Stop ==
    /\ state' = "stopped"
    /\ overlap' = IF InProgress THEN overlap \cup {"stop"} ELSE overlap
    /\ IF state = "started" THEN workers' = [q \in Queues |-> 0] /\ timers' = 0
                            ELSE UNCHANGED <<workers, timers>>
    /\ UNCHANGED <<role, start, visited, queues, handlers, created, call>>

-----------------------------------------------------------------------------
(* queues and handlers *)

\* A second definition with another fingerprint throws, with the same one returns.
Fresh(q, c) == queues[q] \in {NoConfig, c} /\ queues' = [queues EXCEPT ![q] = c]

DefineQueue(q, c) ==
    /\ queues[q] = NoConfig /\ Fresh(q, c) /\ call[q] = "none"
    /\ call' = [call EXCEPT ![q] = IF state = "started" THEN "define" ELSE "told"]
    /\ UNCHANGED <<role, state, start, visited, handlers, created, workers, timers, overlap>>

\* handle: one handler per queue.
\* Mutant: only the queue is created, the worker is left to start.
MutHandle(q, c) ==
    /\ q \notin handlers /\ call[q] \in {"none", "told"} /\ Fresh(q, c)
    /\ handlers' = handlers \cup {q}
    /\ call' = [call EXCEPT ![q] = IF state = "started" THEN "define" ELSE "told"]
    /\ overlap' = IF state = "started" /\ start \in {"queues", "workers"} THEN overlap \cup {q} ELSE overlap
    /\ UNCHANGED <<role, state, start, visited, created, workers, timers>>
Handle(q, c) ==
    /\ q \notin handlers /\ call[q] \in {"none", "told"} /\ Fresh(q, c)
    /\ handlers' = handlers \cup {q}
    /\ call' = [call EXCEPT ![q] = IF state = "started" THEN "handle" ELSE "told"]
    /\ overlap' = IF state = "started" /\ start \in {"queues", "workers"} THEN overlap \cup {q} ELSE overlap
    /\ UNCHANGED <<role, state, start, visited, created, workers, timers>>

\* ensureQueue of a call made on a started engine.
Ensured(q) ==
    /\ call[q] \in {"define", "handle"} /\ created' = created \cup {q}
    /\ call' = [call EXCEPT ![q] = IF @ = "handle" /\ role = "worker" THEN "work" ELSE "told"]
    /\ UNCHANGED <<role, state, start, visited, queues, handlers, workers, timers, overlap>>

HandlerPolls(q) ==
    /\ call[q] = "work" /\ call' = [call EXCEPT ![q] = "told"] /\ Polls(q)
    /\ UNCHANGED <<role, state, start, visited, queues, handlers, created, timers, overlap>>

\* createQueue, updateQueue or work rejected: the caller is told so.
CallFailed(q) ==
    /\ call[q] \in {"define", "handle", "work"} /\ call' = [call EXCEPT ![q] = "failed"]
    /\ UNCHANGED <<role, state, start, visited, queues, handlers, created, workers, timers, overlap>>

EngineNext ==
    \/ StartCall \/ BossStarted \/ StartFailed \/ QueuesDone \/ WorkersDone \/ Stop
    \/ \E q \in Queues :
         \/ StartQueue(q) \/ StartHandler(q) \/ Ensured(q) \/ HandlerPolls(q) \/ CallFailed(q)
         \/ \E c \in Configs : DefineQueue(q, c) \/ Handle(q, c)

EngineSpec == EngineInit /\ [][EngineNext]_engineVars

-----------------------------------------------------------------------------
(* Properties *)

\* Every variable holds a value of its shape; one set of housekeeping timers runs,
\* and a worker is polling only in a worker process.
EngineTypeOK ==
    /\ role \in {"worker", "api"} /\ state \in {"new", "started", "stopped"}
    /\ start \in {"idle", "boss", "queues", "workers", "done", "failed"}
    /\ visited \subseteq Queues /\ handlers \subseteq Defined /\ created \subseteq Defined
    /\ queues \in [Queues -> Configs \cup {NoConfig}]
    /\ call \in [Queues -> {"none", "define", "handle", "work", "told", "failed"}]
    /\ workers \in [Queues -> 0..WorkerCap] /\ timers \in 0..1
    /\ role = "api" => timers = 0 /\ \A q \in Queues : workers[q] = 0

\* "the caller may send straight away": once start() returned, a queue whose
\* definition resolved exists, whether it was defined before start(), during its
\* awaits or after it.
ToldExists ==
    start = "done" => \A q \in Queues : call[q] = "told" => q \in created \/ state = "stopped"

\* On a started worker every handler whose registration resolved has a worker, and
\* a queue has one worker, so at most its concurrency of jobs: unless handle() ran
\* while start() was in its loops, which start a second one.
OneWorkerEach ==
    (role = "worker" /\ state = "started" /\ start = "done" /\ "stop" \notin overlap) =>
        \A q \in handlers : call[q] = "told" => /\ workers[q] >= 1
                                                /\ workers[q] = 1 \/ q \in overlap

\* A stopped engine polls nothing and keeps no timer, unless stop() met a start()
\* or a handle() in progress, which goes on after it.
StoppedIdle ==
    (state = "stopped" /\ "stop" \notin overlap) =>
        timers = 0 /\ \A q \in Queues : workers[q] = 0

\* JobsEngine through start, defineQueue, handle and stop in any overlap: a caller is told of a
\* queue that exists, a queue has one worker, and a stopped engine polls nothing.
EngineSafe == EngineTypeOK /\ ToldExists /\ OneWorkerEach /\ StoppedIdle
=============================================================================
