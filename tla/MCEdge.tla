------------------------------- MODULE MCEdge -------------------------------
(***************************************************************************)
(* Small instances of platform-http and of what observability makes of its *)
(* requests, side by side: the initial state picks the part that runs, the *)
(* others stay as they start.  The requests of HttpRequest and those of    *)
(* EdgeAddress with their targets share the model values r1, r2, so one    *)
(* permutation acts on them all.                                           *)
(***************************************************************************)
EXTENDS HttpRequest, EdgeAddress, PageWalk, Telemetry

VARIABLE part

-----------------------------------------------------------------------------
(* HttpRequest *)
V(route, cred, caller, supplied, skew) ==
    [route |-> route, cred |-> cred, caller |-> caller, supplied |-> supplied, skew |-> skew]
S(mode, production, client, seeded, ambient, first) ==
    [mode |-> mode, production |-> production, client |-> client, seeded |-> seeded,
     ambient |-> ambient, first |-> first]
MCVisitors ==
    {V("guarded", "cookie", "ann", "valid", 0), V("guarded", "cookie", "bob", "bad", 1),
     V("guarded", "mark", "ann", "bad", 0), V("guarded", "unnamed", NoCaller, "bad", 0),
     V("public", "mark", "ann", "bad", 0), V("public", "none", NoCaller, "bad", 1),
     V("skipped", "none", NoCaller, "valid", 0),
     V("guarded", "none", NoCaller, "valid", 0)}
MCSetups ==
    {S("cache", TRUE, TRUE, TRUE, TRUE, "session"), S("cache", TRUE, TRUE, TRUE, FALSE, "limit"),
     S("cache", TRUE, TRUE, FALSE, FALSE, "session"), S("cache", TRUE, FALSE, TRUE, TRUE, "session"),
     S("cache", FALSE, FALSE, FALSE, TRUE, "limit"), S("disabled", TRUE, TRUE, TRUE, TRUE, "session"),
     S("edge-only", TRUE, FALSE, TRUE, FALSE, "limit")}

(* PageWalk: two pairs of rows with equal keys *)
MCRows == {<<1, 1>>, <<1, 2>>, <<2, 3>>, <<2, 4>>}

(* Telemetry *)
W(k, n) == [kind |-> k, of |-> n]
MCPaths == {<<W("word", 1), W("number", 1)>>, <<W("word", 1), W("number", 2)>>, <<W("word", 2)>>}
MCQueued == {<<W("word", 3)>>, <<W("word", 4)>>}
MCJobs == {<<W("word", 5)>>, <<W("word", 6)>>}
O(env, sampling, interval, unused, http, boundaries, enabled) ==
    [env |-> env, sampling |-> sampling, interval |-> interval, unused |-> unused, http |-> http,
     boundaries |-> boundaries, enabled |-> enabled]
MCOptions ==
    {O("prod", "junk", 10, "drop", "drop", <<100, 20000>>, TRUE),
        O("dev", "unset", 1500, "keep", "keep", <<0, 5>>, TRUE),
     O("production", "half", 90000, "drop", "keep", << >>, TRUE),
         O("prod", "junk", 10, "drop", "drop", <<100, 100>>, TRUE),
     O("prod", "junk", 10, "drop", "drop", << >>, FALSE)}

Symmetry == Permutations(Requests) \cup Permutations(Askers)

-----------------------------------------------------------------------------
(* Side by side *)

FirstVisitor == V("public", "none", NoCaller, "bad", 1)
FirstSetup == S("disabled", TRUE, TRUE, TRUE, TRUE, "session")
FirstWalk == [mode |-> "cursor", dir |-> "asc", limit |-> 1, pc |-> "walk", cursor |-> NoCursor, offset |-> 0]
FirstOptions == O("prod", "junk", 10, "drop", "drop", << >>, FALSE)

\* A part that does not run has one initial state.
MCInit ==
    /\ part \in {"http", "edge", "page", "telemetry"}
    /\ HttpInit /\ (part # "http" => setup = FirstSetup /\ \A r \in Requests : visitor[r] = FirstVisitor)
    /\ EdgeInit /\ (part # "edge" => workerKey = [key |-> "old", padded |-> FALSE])
    /\ PageInit /\ (part # "page" => pageTable = {} /\ walk = FirstWalk)
    /\ TelemetryInit /\ (part # "telemetry" => options = FirstOptions)

MCNext ==
    /\ UNCHANGED part
    /\ \/ part = "http" /\ HttpNext
       \/ part # "http" /\ UNCHANGED httpVars
    /\ \/ part = "edge" /\ EdgeNext
       \/ part # "edge" /\ UNCHANGED edgeVars
    /\ \/ part = "page" /\ PageNext
       \/ part # "page" /\ UNCHANGED pageVars
    /\ \/ part = "telemetry" /\ TelemetryNext
       \/ part # "telemetry" /\ UNCHANGED telemetryVars

MCSpec == MCInit /\ [][MCNext]_<<part, httpVars, edgeVars, pageVars, telemetryVars>>
=============================================================================
