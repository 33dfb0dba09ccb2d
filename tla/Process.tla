------------------------------ MODULE Process ------------------------------
(***************************************************************************)
(* One process of a product, from its start to its exit: the bootstrap     *)
(* (createHttpApp, createWorkerApp), readiness as a prober sees it, and    *)
(* enableGracefulShutdown's sequence with the hooks that Nest runs inside  *)
(* app.close(), among them the stop of the jobs and its budget.            *)
(*                                                                         *)
(* The load balancer is external: it probes /readyz at least every Period  *)
(* and routes while the last answer was 200.  A request is a connection    *)
(* that carries one request and is then kept alive by the proxy.           *)
(***************************************************************************)
EXTENDS Integers, FiniteSets

CONSTANTS
    Settings,  \* pairs <<SHUTDOWN_TIMEOUT_MS, SHUTDOWN_ENDPOINT_DELAY_MS>>, in time units
    Requests, Jobs,
    Period,    \* the prober's interval
    Reserve,   \* RESERVE_MS
    MinBudget  \* MIN_BUDGET_MS

ASSUME ProcessAssumption ==
    /\ \A s \in Settings : s[1] \in Nat /\ s[2] \in Nat
    /\ Period \in Nat \ {0} /\ Reserve \in Nat /\ MinBudget \in Nat \ {0}

VARIABLES
    http,      \* an HTTP process, or a worker
    setting,   \* the pair in effect
    boot,      \* where the bootstrap is
    step,      \* where the shutdown sequence is
    clock,     \* time since the sequence began
    stopAt,    \* clock when the jobs were told to stop, -1 before
    failures,  \* the steps that failed
    code,      \* how the process exited
    draining,  \* HealthRegistry.draining
    listening, conn, job,
    pool,      \* the pools are open
    probe,     \* "idle" or "running": a report begun before the drain
    age,       \* time since the last probe began
    routed     \* the balancer sends requests here

settings == <<http, setting>>
world    == <<conn, probe, age, routed>>
procVars == <<http, setting, boot, step, clock, stopAt, failures, code, draining,
              listening, conn, job, pool, probe, age, routed>>

Timeout == setting[1]
\* A worker waits for no endpoint removal.
Delay == IF http THEN setting[2] ELSE 0

ProcessInit ==
    /\ http \in BOOLEAN /\ setting \in Settings
    /\ boot = "compose" /\ step = "none" /\ clock = 0 /\ stopAt = -1
    /\ failures = {} /\ code = "none"
    /\ draining = FALSE /\ listening = FALSE /\ pool = TRUE
    /\ conn = [r \in Requests |-> "new"] /\ job = [j \in Jobs |-> "queued"]
    /\ probe = "idle" /\ age = 0 /\ routed = FALSE

-----------------------------------------------------------------------------
(* What an exit does to the work in progress *)

Exit(c) ==
    /\ code' = c /\ step' = "exited"
    /\ listening' = FALSE
    /\ conn' = [r \in Requests |-> IF conn[r] = "busy" THEN "cut" ELSE conn[r]]
    /\ job' = [j \in Jobs |-> IF job[j] = "run" THEN "lost" ELSE job[j]]
    /\ UNCHANGED <<settings, boot, clock, stopAt, failures, draining, pool, probe, age, routed>>

Alive == step # "exited"

-----------------------------------------------------------------------------
(* Bootstrap *)

\* composeRoot, then NestFactory.create or createApplicationContext with the logging.
Compose ==
    /\ Alive /\ boot = "compose" /\ boot' = "created"
    /\ UNCHANGED <<settings, step, clock, stopAt, failures, code, draining, listening, job, pool, world>>

\* enableGracefulShutdown: it refuses a delay that is not below the deadline.
Arm ==
    /\ Alive /\ boot = "created" /\ setting[2] < setting[1]
    /\ boot' = "armed"
    /\ UNCHANGED <<settings, step, clock, stopAt, failures, code, draining, listening, job, pool, world>>

\* app.listen, or for a worker nothing more than the log line; the error handlers.
Listen ==
    /\ boot = "armed" /\ (http => step \in {"none", "delay"})
    /\ Alive
    /\ boot' = "up" /\ listening' = http
    /\ UNCHANGED <<settings, step, clock, stopAt, failures, code, draining, job, pool, world>>

\* failFatal: any step of the bootstrap failed.  installProcessErrorHandlers: an
\* error nobody caught ends a running process.
Fatal == Alive /\ Exit("1")

-----------------------------------------------------------------------------
(* Work *)

\* Handlers run as soon as the jobs are started: while a worker's context is
\* created, in listen for an HTTP process; nothing is fetched after stop.
JobsOn == Alive /\ stopAt = -1 /\ (boot = "up" \/ (~http /\ boot \in {"created", "armed"}))

JobBegins(j) ==
    /\ JobsOn /\ pool /\ job[j] = "queued" /\ job' = [job EXCEPT ![j] = "run"]
    /\ UNCHANGED <<settings, boot, step, clock, stopAt, failures, code, draining, listening, pool, world>>

JobEnds(j) ==
    /\ Alive /\ job[j] = "run" /\ job' = [job EXCEPT ![j] = "done"]
    /\ UNCHANGED <<settings, boot, step, clock, stopAt, failures, code, draining, listening, pool, world>>

Route(r) ==
    /\ Alive /\ routed /\ conn[r] = "new"
    /\ conn' = [conn EXCEPT ![r] = IF listening THEN "busy" ELSE "refused"]
    /\ UNCHANGED <<settings, boot, step, clock, stopAt, failures, code, draining, listening, job, pool,
                   probe, age, routed>>

Answered(r) ==
    /\ Alive /\ conn[r] = "busy" /\ conn' = [conn EXCEPT ![r] = "idle"]
    /\ UNCHANGED <<settings, boot, step, clock, stopAt, failures, code, draining, listening, job, pool,
                   probe, age, routed>>

-----------------------------------------------------------------------------
(* Readiness: HealthRegistry.report as the prober meets it *)

\* draining is read once, when the report begins: 503 without running a check.
\* Mutant: the flag is not looked at.
MutProbeBlind ==
    /\ Alive /\ listening /\ probe = "idle"
    /\ probe' = "running" /\ age' = 0 /\ UNCHANGED routed
    /\ UNCHANGED <<settings, boot, step, clock, stopAt, failures, code, draining, listening, job, pool, conn>>
Probe ==
    /\ Alive /\ listening /\ probe = "idle"
    /\ IF draining THEN routed' = FALSE /\ UNCHANGED probe
                   ELSE probe' = "running" /\ UNCHANGED routed
    /\ age' = 0
    /\ UNCHANGED <<settings, boot, step, clock, stopAt, failures, code, draining, listening, job, pool, conn>>

\* The report of the checks, whatever happened meanwhile.
ProbeAnswer ==
    /\ Alive /\ probe = "running"
    /\ probe' = "idle" /\ routed' \in BOOLEAN
    /\ UNCHANGED <<settings, boot, step, clock, stopAt, failures, code, draining, listening, job, pool,
         conn, age>>

-----------------------------------------------------------------------------
(* Shutdown *)

\* SIGTERM, or a call of shutdown.  Before the handlers exist the signal kills;
\* during the sequence it is ignored.
Signal ==
    /\ Alive
    /\ \/ boot \in {"compose", "created"} /\ Exit("killed")
       \/ boot \in {"armed", "up"} /\ step # "none" /\ UNCHANGED procVars
       \/ /\ boot \in {"armed", "up"} /\ step = "none"
          /\ step' = (IF http THEN "delay" ELSE "close") /\ draining' = http
          /\ UNCHANGED <<settings, boot, clock, stopAt, failures, code, listening, job, pool, world>>

\* The endpoint-removal delay is over: http.close() stops listening and closes the
\* sockets that are idle now.
DelayOver ==
    /\ step = "delay" /\ clock >= Delay
    /\ step' = "drain" /\ listening' = FALSE
    /\ conn' = [r \in Requests |-> IF conn[r] = "idle" THEN "closed" ELSE conn[r]]
    /\ UNCHANGED <<settings, boot, clock, stopAt, failures, code, draining, job, pool, probe, age, routed>>

\* The sweep of sockets that went idle during the drain.
Sweep ==
    /\ step = "drain" /\ \E r \in Requests : conn[r] = "idle"
    /\ conn' = [r \in Requests |-> IF conn[r] = "idle" THEN "closed" ELSE conn[r]]
    /\ UNCHANGED <<settings, boot, step, clock, stopAt, failures, code, draining, listening, job, pool,
                   probe, age, routed>>

\* step(): a rejection is noted and the sequence goes on.
Leave(from, to, fails) ==
    /\ step = from /\ step' = to
    /\ failures' \in {failures} \cup (IF fails THEN {failures \cup {from}} ELSE {})
    /\ UNCHANGED <<settings, boot, clock, code, draining, listening, world>>

\* http.close() resolves once every socket is closed, or rejects.
Drained ==
    /\ Leave("drain", "close", TRUE) /\ UNCHANGED <<stopAt, job, pool>>
    /\ \/ \A r \in Requests : conn[r] \notin {"busy", "idle"}
       \/ failures' # failures

\* app.close(): onModuleDestroy ran, the jobs are told to stop; a hook that
\* throws ends the close and leaves the rest.
HooksRan ==
    /\ Leave("close", "jobs", FALSE) /\ stopAt' = clock /\ UNCHANGED <<job, pool>>
HookThrew ==
    /\ Leave("close", "flush", TRUE) /\ failures' # failures /\ UNCHANGED <<stopAt, job, pool>>

\* stopBudgetMs
Budget ==
    IF Timeout - Delay - Reserve > MinBudget THEN Timeout - Delay - Reserve ELSE MinBudget
BudgetSpent == clock - stopAt >= Budget

\* boss.stop resolves when no job runs, or at the end of the budget, where what
\* still runs is failed; a rejection is caught inside the hook.
JobsStopped ==
    /\ BudgetSpent \/ \A j \in Jobs : job[j] # "run"
    /\ Leave("jobs", "release", FALSE)
    /\ job' = [j \in Jobs |-> IF job[j] = "run" THEN "failed" ELSE job[j]]
    /\ UNCHANGED <<stopAt, pool>>
JobsStopThrew ==
    /\ step = "jobs" /\ step' = "release" /\ failures' = failures \cup {"jobs"}
    /\ UNCHANGED <<settings, boot, clock, stopAt, code, draining, listening, job, pool, world>>

\* onApplicationShutdown: pool.end(), the cache client.
Released ==
    /\ Leave("release", "flush", TRUE) /\ pool' = FALSE /\ UNCHANGED <<stopAt, job>>

\* flushTelemetry, clearTimeout, exit.
Flushed ==
    /\ step = "flush"
    /\ \/ Exit(IF failures \ {"jobs"} = {} THEN "0" ELSE "1")
       \/ Exit("1")

\* Mutant: the deadline is armed with the HTTP steps only.
MutHardStop == http /\ Alive /\ step # "none" /\ clock = Timeout /\ Exit("1")
HardStop == Alive /\ step # "none" /\ clock = Timeout /\ Exit("1")

\* Time passes; the prober is punctual, and so is the stop's own deadline.
Tick ==
    /\ Alive
    /\ step = "none" \/ clock < Timeout
    /\ ~(step = "jobs" /\ BudgetSpent)
    /\ listening => age < Period
    /\ age' = IF age < Period THEN age + 1 ELSE age
    /\ clock' = IF step = "none" THEN 0 ELSE clock + 1
    /\ UNCHANGED <<settings, boot, step, stopAt, failures, code, draining, listening, job, pool, conn,
         probe, routed>>

ShutdownNext ==
    \/ Signal \/ DelayOver \/ Sweep \/ Drained \/ HooksRan \/ HookThrew
    \/ JobsStopped \/ JobsStopThrew \/ Released \/ Flushed \/ HardStop \/ Tick
ProcessNext ==
    \/ Compose \/ Arm \/ Listen \/ Fatal \/ Probe \/ ProbeAnswer \/ ShutdownNext
    \/ \E j \in Jobs : JobBegins(j) \/ JobEnds(j)
    \/ \E r \in Requests : Route(r) \/ Answered(r)

ProcessSpec == ProcessInit /\ [][ProcessNext]_procVars

\* Timers fire: the hard deadline keeps the event loop alive by itself.
ProcessFairness ==
    /\ WF_procVars(Tick) /\ WF_procVars(HardStop) /\ WF_procVars(JobsStopped)
    /\ WF_procVars(Probe) /\ WF_procVars(ProbeAnswer)
-----------------------------------------------------------------------------
(* Properties *)

\* Every variable holds a value of its shape, and the sequence's clock never
\* passes the deadline.
ProcessTypeOK ==
    /\ http \in BOOLEAN /\ setting \in Settings
    /\ boot \in {"compose", "created", "armed", "up"}
    /\ step \in {"none", "delay", "drain", "close", "jobs", "release", "flush", "exited"}
    /\ clock \in 0..Timeout /\ stopAt \in -1..Timeout
    /\ failures \subseteq {"drain", "close", "jobs", "release"}
    /\ code \in {"none", "0", "1", "killed"}
    /\ draining \in BOOLEAN /\ listening \in BOOLEAN /\ pool \in BOOLEAN /\ routed \in BOOLEAN
    /\ conn \in [Requests -> {"new", "busy", "idle", "closed", "refused", "cut"}]
    /\ job \in [Jobs -> {"queued", "run", "done", "failed", "lost"}]
    /\ probe \in {"idle", "running"} /\ age \in 0..Period

\* "requests already routed here land": with a delay longer than the prober's
\* interval, no request meets a closed port, although a report that began before
\* the signal may still answer 200 after it.
NoneRefused == (Delay > Period) => \A r \in Requests : conn[r] # "refused"

\* A request in flight is cut by a failure that exit code 1 reports, never by a
\* signal and never in a shutdown that ends as clean.
CutIsReported == (\E r \in Requests : conn[r] = "cut") => code = "1"

\* "exit 0": every step ran; the pools were ended and no job was lost, except by a
\* stop that rejected, which the hook catches.
CleanExit ==
    code = "0" => /\ ~pool
                  /\ "jobs" \in failures \/ \A j \in Jobs : job[j] # "lost"

\* "work stops before the resources it uses are released."
ResourcesOutliveWork ==
    (Alive /\ ~pool) =>
        /\ "drain" \in failures \/ \A r \in Requests : conn[r] # "busy"
        /\ "jobs" \in failures \/ \A j \in Jobs : job[j] # "run"

\* The stop's budget fits inside the deadline: a shutdown loses a job only if the
\* steps before the stop overran the reserve (the budget does not know how long
\* the drain took), a step failed, or the deadline leaves less than the minimal
\* budget.
LostJobExplained ==
    (stopAt # -1 /\ stopAt < Delay + Reserve /\ clock = Timeout
     /\ failures = {} /\ Timeout - Delay - Reserve >= MinBudget)
        => \A j \in Jobs : job[j] # "run"

\* A shutdown that began ends, whatever hangs and however many signals arrive.
ShutdownEnds == step # "none" ~> step = "exited"

\* The promises of enableGracefulShutdown and the health endpoint together: no request meets a
\* closed socket, what is cut is reported, a clean exit is clean, resources outlive the work that
\* uses them, and a lost job is one the budget could not save.
ProcessSafe ==
    /\ ProcessTypeOK /\ NoneRefused /\ CutIsReported /\ CleanExit
    /\ ResourcesOutliveWork /\ LostJobExplained
=============================================================================
