----------------------------- MODULE Telemetry -----------------------------
(***************************************************************************)
(* Metrics and tracing of a process: startOtel and shutdownOtel            *)
(* (otel.bootstrap.ts), the label guard and the recorders (metrics.ts),    *)
(* and the exporter, which sends what has accumulated on an interval       *)
(* (external: the OpenTelemetry SDK; an instrument has one stream per view *)
(* that selects it, and the default one when none does).                   *)
(***************************************************************************)
EXTENDS Integers, Sequences, FiniteSets, FiniteSetsExt, Functions

CONSTANTS
    Options,    \* what startOtel is called with and the environment: records
    Labels,     \* label keys of the recorders
    Paths, Queued, Jobs, \* request paths (sequences of segments), queues and jobs
    LabelLimit, \* LABEL_LIMITS[label] ?? DEFAULT_LABEL_LIMIT
    Timed,      \* calls of JobMetrics.time
    MaxCount    \* bound: data points recorded

ASSUME TelemetryAssumption ==
    /\ {LabelLimit, MaxCount} \subseteq Nat /\ {"route", "queue", "job_name"} \subseteq Labels
    /\ IsFiniteSet(Paths) /\ IsFiniteSet(Queued) /\ IsFiniteSet(Jobs) /\ IsFiniteSet(Timed)
    /\ Paths \cup Queued \cup Jobs \subseteq Seq([kind : {"word", "uuid", "number", "opaque"}, of : Int])
    /\ \A o \in Options : o.interval \in Int

VARIABLES
    options,    \* fixed
    sdk,        \* "none", "running", "shut"
    config,     \* what NodeSDK was given
    registered, \* SDKs that were started
    seen,       \* [Labels -> the values with a series of their own]
    series,     \* [Labels -> [values -> sum]]: the counters, before export
    asked,      \* history: [Labels -> [Texts -> points recorded for it]]
    dropped,    \* history: [Labels -> points a throwing recorder lost]
    failures,   \* [values -> sum, or -1 while there is no series]: job.failures
    exported,   \* the failures the backend last saw, or -1
    timed,      \* [Timed -> [pc, job, early]]: early, a run of the job began before the last export
    fresh       \* history: failures recorded since the last export

telemetryVars == <<options, sdk, config, registered, seen, series, asked, dropped, failures, exported,
    timed, fresh>>

Overflow == <<[kind |-> "__other__", of |-> 0]>>
\* Every text a label is asked for, and the ones it can show.
Texts == Paths \cup {[i \in DOMAIN p |-> IF p[i].kind = "word" THEN p[i]
    ELSE [kind |-> "id", of |-> 0]] : p \in Paths} \cup Queued \cup Jobs
Values == Texts \cup {Overflow}
Zero == [v \in Values |-> 0]

TelemetryInit ==
    /\ options \in Options /\ sdk = "none" /\ config = [views |-> {}, sampling |-> -1, interval |-> 0,
         timeout |-> 0]
    /\ registered = 0
    /\ seen = [l \in Labels |-> {}] /\ series = [l \in Labels |-> Zero]
    /\ asked = [l \in Labels |-> [t \in Texts |-> 0]] /\ dropped = [l \in Labels |-> 0]
    /\ failures = [v \in Values |-> -1] /\ exported = [v \in Values |-> -1]
    /\ timed = [c \in Timed |-> [pc |-> "idle", job |-> Overflow, early |-> FALSE]]
    /\ fresh = {}

-----------------------------------------------------------------------------
(* startOtel *)

\* validateHttpDurationBoundaries: not empty, nothing negative, strictly ascending.
BoundariesOK(b) ==
    /\ b # << >>
    /\ \A i \in DOMAIN b : b[i] >= 0 /\ (i > 1 => b[i] > b[i - 1])

\* resolveSamplingProbability, in tenths; an override that is no number is not used.
Production(o) == o.env \in {"production", "prod"}
Sampling(o) == IF o.sampling \in {"unset", "junk"} THEN (IF Production(o) THEN 1 ELSE 10) ELSE 5

\* resolveMetricExportInterval: whole milliseconds of at least a second, or the default.
Interval(o) == IF o.interval >= 1000 THEN o.interval ELSE 60000

\* The views, as <<meter, instrument, what it does>>; a meter "any" selects by name alone.
Unused == {<<"qnsc", "job.duration", "drop">>} \cup
          {<<"runtime-node", n, "drop">> : n \in {"v8js.gc.duration", "v8js.memory.heap.space.size"}}
Views(o) ==
    (IF o.unused = "drop" THEN Unused ELSE {})
    \cup (IF o.http = "drop" THEN {<<"instrumentation-http", n, "drop">> : n \in {"http.server.duration",
        "http.server.request.duration"}} ELSE {})
    \cup (IF o.boundaries = << >> THEN {}
          ELSE {<<IF o.http = "drop" THEN "qnsc" ELSE "any", "http.server.duration", "buckets">>})

\* Called with boundaries or without (<< >>); the check comes before the gate.
StartOtel ==
    /\ options.boundaries = << >> \/ BoundariesOK(options.boundaries)
    /\ options.enabled /\ sdk = "none"
    /\ sdk' = "running" /\ registered' = registered + 1
    /\ config' = [views |-> Views(options), sampling |-> Sampling(options), interval |-> Interval(options),
                  timeout |-> Min({30000, Interval(options)})]
    /\ UNCHANGED <<options, seen, series, asked, dropped, failures, exported, timed, fresh>>

\* shutdownOtel: what has accumulated is exported.
ShutdownOtel ==
    /\ sdk = "running" /\ sdk' = "shut" /\ exported' = failures /\ fresh' = {}
    /\ UNCHANGED <<options, config, registered, seen, series, asked, dropped, failures, timed>>

-----------------------------------------------------------------------------
(* LabelCardinalityGuard.bound and the recorders *)

\* Mutant: at the limit nothing is looked up any more.
MutBound(l, t) == IF Cardinality(seen[l]) < LabelLimit THEN t ELSE Overflow
Bound(l, t) == IF t \in seen[l] \/ Cardinality(seen[l]) < LabelLimit THEN t ELSE Overflow
Seen(l, t) == [seen EXCEPT ![l] = @ \cup ({Bound(l, t)} \ {Overflow})]

\* normalizeRoute: an id segment becomes ":id" (a long dashed one is taken for a word).
Template(path) == [i \in DOMAIN path |-> IF path[i].kind \in {"uuid", "number", "opaque"}
    THEN [kind |-> "id", of |-> 0] ELSE path[i]]

\* One point under the bounded label; or the instrument throws inside safely() and the
\* point is lost, the caller is not.
Added(l, t) == [series EXCEPT ![l][Bound(l, t)] = @ + 1]
Record(l, t, throws) ==
    /\ MapThenSumSet(LAMBDA k : SumFunction(asked[k]), Labels) < MaxCount
    /\ asked' = [asked EXCEPT ![l][t] = @ + 1] /\ seen' = Seen(l, t)
    /\ IF throws THEN dropped' = [dropped EXCEPT ![l] = @ + 1] /\ UNCHANGED series
                 ELSE series' = Added(l, t) /\ UNCHANGED dropped
    /\ UNCHANGED <<options, sdk, config, registered, failures, exported, timed, fresh>>
\* HttpMetrics.record and its route; QueueMetrics.recordProcessed, recordFailure, recordLag.
RecordHttp(path, throws) == Record("route", Template(path), throws)
RecordQueue(queue, throws) == Record("queue", queue, throws)

-----------------------------------------------------------------------------
(* JobMetrics.time *)

Plus(v, n) == [failures EXCEPT ![v] = IF @ = -1 THEN n ELSE @ + n]
JobLabel(job) == Bound("job_name", job)

\* Before the run the failure series exists, at 0 at least.
Prepared(job) == Plus(JobLabel(job), 0)
TimeBegins(c, job) ==
    /\ timed[c].pc = "idle"
    /\ timed' = [timed EXCEPT ![c] = [pc |-> "run", job |-> job, early |-> FALSE]]
    /\ failures' = Prepared(job) /\ seen' = Seen("job_name", job)
    /\ UNCHANGED <<options, sdk, config, registered, series, asked, dropped, exported, fresh>>
\* The run ends; record() bounds the name again.
TimeEnds(c, failed) ==
    /\ timed[c].pc = "run" /\ timed' = [timed EXCEPT ![c].pc = "ended"]
    /\ seen' = Seen("job_name", timed[c].job)
    /\ IF failed THEN /\ failures' = Plus(JobLabel(timed[c].job), 1)
                      /\ fresh' = fresh \cup (IF timed[c].early THEN {timed[c].job} ELSE {})
                 ELSE UNCHANGED <<failures, fresh>>
    /\ UNCHANGED <<options, sdk, config, registered, series, asked, dropped, exported>>

\* The periodic reader's export.
Export ==
    /\ sdk = "running" /\ exported' = failures /\ fresh' = {}
    /\ timed' = [c \in Timed |-> [timed[c] EXCEPT !.early = @ \/ timed[c].pc = "run"]]
    /\ UNCHANGED <<options, sdk, config, registered, seen, series, asked, dropped, failures>>

TelemetryNext ==
    \/ StartOtel \/ ShutdownOtel \/ Export
    \/ \E throws \in BOOLEAN :
         \/ \E path \in Paths : RecordHttp(path, throws)
         \/ \E queue \in Queued : RecordQueue(queue, throws)
    \/ \E c \in Timed : (\E job \in Jobs : TimeBegins(c, job)) \/ \E failed \in BOOLEAN : TimeEnds(c, failed)

TelemetrySpec == TelemetryInit /\ [][TelemetryNext]_telemetryVars

-----------------------------------------------------------------------------
(* Properties *)

\* Shapes; an SDK is registered once at most, and only where it may run.
TelemetryTypeOK ==
    /\ sdk \in {"none", "running", "shut"} /\ registered <= 1
    /\ (sdk # "none") <=> (registered = 1)
    /\ seen \in [Labels -> SUBSET Texts] /\ \A l \in Labels : Cardinality(seen[l]) <= LabelLimit
    /\ failures \in [Values -> -1..Cardinality(Timed)] /\ exported \in [Values -> -1..Cardinality(Timed)]

\* "The damage stops at the limit", and "the counts that were correct stay correct; only the
\* unbounded tail is merged": at most LabelLimit + 1 series per label; but for the points a
\* throwing recorder lost, every point is in one; who has a series of its own gets all of them.
CountsStayTrue ==
    \A l \in Labels \ {"job_name"} :
        /\ Cardinality({v \in Values : series[l][v] > 0}) <= LabelLimit + 1
        /\ SumFunction(series[l]) + dropped[l] = SumFunction(asked[l])
        /\ \A t \in Texts : (t \in seen[l] /\ dropped[l] = 0) => series[l][t] = asked[l][t]

\* A route label never holds an id that can be told: two requests of one endpoint share a series.
NoIdInRoute == \A t \in seen["route"] : \A i \in DOMAIN t : t[i].kind \notin {"uuid", "number", "opaque"}

\* "A failure after an EARLIER run is an increase": a run that was under way at an export and
\* fails is, at the next one, a higher sample of a series that was there.
FailureIsIncrease ==
    [][(exported' # exported) =>
         \A job \in fresh : LET v == JobLabel(job) IN exported[v] # -1
             /\ exported'[v] > exported[v]]_telemetryVars

\* The streams of an instrument under the views the SDK was given.
Streams(meter, name) ==
    LET by == {v \in config.views : v[1] \in {meter, "any"} /\ v[2] = name}
    IN  IF by = {} THEN {"default"} ELSE {v[3] : v \in by} \ {"drop"}
\* A running SDK is what its options mean: one source of the inbound duration unless the
\* product keeps both, the buckets it gave on its own histogram, no dashboard series dropped,
\* an unreadable override never switches tracing off, and a timeout the SDK accepts.
SdkAsMeant ==
    sdk = "running" =>
        /\ options.http = "drop" => Streams("instrumentation-http", "http.server.duration") = {}
        /\ Streams("qnsc", "http.server.duration") = {IF options.boundaries = << >> THEN "default"
             ELSE "buckets"}
        /\ Streams("runtime-node", "v8js.memory.heap.used") = {"default"}
        /\ config.sampling > 0 /\ config.timeout <= config.interval

\* The exported numbers can be believed: bounded labels lose no count, routes carry no ids, the
\* SDK is set up as asked, and a first failure shows as an increase.
TelemetryHonest ==
    [](TelemetryTypeOK /\ CountsStayTrue /\ NoIdInRoute /\ SdkAsMeant) /\ FailureIsIncrease
=============================================================================
