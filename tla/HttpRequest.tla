---------------------------- MODULE HttpRequest ----------------------------
(***************************************************************************)
(* A request on its way through the HTTP pipeline of one product process:  *)
(* enableCorrelationId, identity's SessionGuard and platform-http's        *)
(* RateLimitGuard in the order they were registered, the handler under     *)
(* HttpLoggingInterceptor, and GlobalExceptionFilter.  Requests interleave *)
(* at every await; each one reads and writes "its" context through the     *)
(* AsyncLocalStorage.  The sliding windows live in Valkey and are scored   *)
(* with the clock of the pod that asked.                                   *)
(***************************************************************************)
EXTENDS Integers, FiniteSets

CONSTANTS
    Requests,     \* request objects
    Visitors,     \* what a request brings: records of route, cred, caller, supplied, skew
    Setups,       \* how the process is configured: records of mode, production, client, seeded, ambient, first
    NoCaller,     \* no user
    Ambient,      \* the context the server was started in
    Limit,        \* RATE_LIMIT_TIERS[tier].limit
    Window,       \* RATE_LIMIT_TIERS[tier].windowSeconds
    ClockSkew,    \* how far the clocks of two pods are apart
    EvalTime,     \* how long a script call is under way
    HttpLastTime  \* bound: the clock stops here

ASSUME HttpAssumption ==
    /\ {Limit, Window, ClockSkew, EvalTime, HttpLastTime} \subseteq Nat /\ Limit > 0
    /\ Ambient \notin Requests /\ NoCaller \notin Requests \cup {Ambient}
    /\ \A s \in Setups : s.first \in {"session", "limit"} /\ s.mode \in {"cache", "disabled", "edge-only"}
    /\ \A v \in Visitors : v.skew \in 0..ClockSkew /\ v.caller # "address" /\ (v.cred = "cookie" => v.caller # NoCaller)

VARIABLES
    setup,     \* the configuration, fixed
    visitor,   \* [Requests -> Visitors], fixed
    boot,      \* "starting", "up", "refused"
    stage,     \* [Requests -> where the request is]
    holds,     \* [Requests -> the context object active for it, or NoCaller]
    context,   \* [context objects -> [id, user, tenant]]: RequestContext
    reply,     \* [Requests -> [header, status, bodyId, key, calledAt]]
    lines,     \* set of [of, kind, status, id, user]: the log
    window,    \* set of [key, score, of]: the sorted sets rl:<key>
    expires,   \* [keys -> when PEXPIRE removes the sorted set]
    admitted,  \* history: set of [key, at, of] the script admitted
    failOpens, \* SecurityMetrics.recordFailOpen('rate_limit'): for the boot or a request
    warned,    \* SessionGuard.warned
    httpNow    \* the true time

httpFixed == <<setup, visitor>>
httpVars == <<setup, visitor, boot, stage, holds, context, reply, lines, window, expires,
              admitted, failOpens, warned, httpNow>>

Callers == {v.caller : v \in Visitors} \ {NoCaller}
Keys == Callers \cup {"address"}       \* every visitor sits behind one NAT
Blank == [id |-> "none", user |-> NoCaller, tenant |-> "none"]

HttpInit ==
    /\ setup \in Setups /\ visitor \in [Requests -> Visitors]
    /\ boot = "starting" /\ httpNow = 0
    /\ stage = [r \in Requests |-> "new"] /\ holds = [r \in Requests |-> NoCaller]
    /\ context = [c \in Requests \cup {Ambient} |-> [Blank EXCEPT !.id = IF c = Ambient THEN "bootstrap"
         ELSE "none"]]
    /\ reply = [r \in Requests |-> [header |-> "none", status |-> 0, bodyId |-> "none", key |-> "none",
         calledAt |-> 0]]
    /\ lines = {} /\ window = {} /\ expires = [k \in Keys |-> 0] /\ admitted = {}
    /\ failOpens = {} /\ warned = {}

-----------------------------------------------------------------------------
(* Boot: RateLimitGuard.onApplicationBootstrap *)

\* A production process that limits by cache does not start without one.
BootOK(s) == ~(s.mode = "cache" /\ s.production /\ ~s.client)
Boot ==
    /\ boot = "starting"
    /\ boot' = IF BootOK(setup) THEN "up" ELSE "refused"
    /\ failOpens' = IF setup.mode = "disabled" /\ setup.production THEN {"boot"} ELSE {}
    /\ UNCHANGED <<setup, visitor, stage, holds, context, reply, lines, window, expires, admitted, warned,
         httpNow>>

-----------------------------------------------------------------------------
(* enableCorrelationId *)

\* The id of a request: its own if it is well formed, else a generated one.
ResolvedId(r) == IF visitor[r].supplied = "valid" THEN <<"supplied", r>> ELSE <<"generated", r>>

\* The context object a request runs in: a new one, whatever is active.
ContextOf(r) == r

Enter(r) ==
    /\ boot = "up" /\ stage[r] = "new"
    /\ stage' = [stage EXCEPT ![r] = IF visitor[r].cred \in {"mark", "unnamed"} THEN "product" ELSE setup.first]
    /\ IF setup.seeded
         THEN /\ holds' = [holds EXCEPT ![r] = ContextOf(r)]
              /\ context' = [context EXCEPT ![ContextOf(r)] = [Blank EXCEPT !.id = ResolvedId(r)]]
              /\ reply' = [reply EXCEPT ![r].header = ResolvedId(r)]
         ELSE /\ holds' = [holds EXCEPT ![r] = IF setup.ambient THEN Ambient ELSE NoCaller]
              /\ UNCHANGED <<context, reply>>
    /\ UNCHANGED <<setup, visitor, boot, lines, window, expires, admitted, failOpens, warned, httpNow>>

UserOf(r) == IF holds[r] = NoCaller THEN NoCaller ELSE context[holds[r]].user
IdOf(r) == IF holds[r] = NoCaller THEN "unknown" ELSE context[holds[r]].id

\* A product guard with its own credential: setRequestPrincipal, then the mark.
\* An "unnamed" one forgets the principal and the userId.
ProductGuard(r) ==
    /\ stage[r] = "product" /\ stage' = [stage EXCEPT ![r] = setup.first]
    /\ context' = IF visitor[r].cred = "unnamed" \/ holds[r] = NoCaller THEN context
                  ELSE [context EXCEPT ![holds[r]].user = visitor[r].caller]
    /\ UNCHANGED <<setup, visitor, boot, holds, reply, lines, window, expires, admitted, failOpens, warned,
         httpNow>>

-----------------------------------------------------------------------------
(* Where a request goes next, and how it ends *)

After(guard) == IF guard = setup.first THEN (IF guard = "session" THEN "limit" ELSE "session") ELSE "handler"
Passes(r, guard) == stage' = [stage EXCEPT ![r] = After(guard)]

Line(r, kind, status, user) == [of |-> r, kind |-> kind, status |-> status, id |-> IdOf(r), user |-> user]

\* GlobalExceptionFilter.catch: the envelope, and a line for what it must report.
SecurityStatus == {401, 403, 429}
Caught(r, kind, status, before) ==
    /\ stage' = [stage EXCEPT ![r] = "done"]
    /\ reply' = [reply EXCEPT ![r].status = status, ![r].bodyId = IdOf(r)]
    /\ lines' = lines \cup before \cup
           (IF status \in SecurityStatus THEN {Line(r, "security", status, IF kind = "domain"
               THEN UserOf(r) ELSE NoCaller)}
            ELSE IF kind = "unhandled" THEN {Line(r, "unhandled", status, NoCaller)} ELSE {})

-----------------------------------------------------------------------------
(* SessionGuard.canActivate *)

SessionPublic(r) ==
    /\ stage[r] = "session" /\ visitor[r].route # "guarded" /\ Passes(r, "session")
    /\ UNCHANGED <<setup, visitor, boot, holds, context, reply, lines, window, expires, admitted,
         failOpens, warned, httpNow>>

\* admitPreAuthenticated up to the ban check: a marked request must be named.
Named(r) == visitor[r].cred = "mark" /\ (holds[r] # NoCaller => UserOf(r) # NoCaller)
Marked(r) == stage[r] = "session" /\ visitor[r].route = "guarded" /\ visitor[r].cred \in {"mark", "unnamed"}
AdmitMarked(r) ==
    /\ Marked(r) /\ Named(r) /\ stage' = [stage EXCEPT ![r] = "ban"]
    /\ warned' = IF UserOf(r) = NoCaller THEN warned \cup {"pre-authenticated-without-principal"} ELSE warned
    /\ UNCHANGED <<setup, visitor, boot, holds, context, reply, lines, window, expires, admitted,
         failOpens, httpNow>>
RefuseMarked(r) ==
    /\ Marked(r) /\ ~Named(r) /\ Caught(r, "domain", 401, {Line(r, "refused mark", 401, NoCaller)})
    /\ UNCHANGED <<setup, visitor, boot, holds, context, window, expires, admitted, failOpens, warned, httpNow>>
\* isUserBanned answers (UserSessions has its memo).
BanAnswer(r) ==
    /\ stage[r] = "ban"
    /\ \/ Passes(r, "session") /\ UNCHANGED <<reply, lines>>
       \/ Caught(r, "domain", 401, {})
    /\ UNCHANGED <<setup, visitor, boot, holds, context, window, expires, admitted, failOpens, warned, httpNow>>

\* auth.api.getSession: a session, none, or it throws.
Unmarked(r) == stage[r] = "session" /\ visitor[r].route = "guarded" /\ visitor[r].cred \in {"cookie", "none"}
HasSession(r) ==
    /\ Unmarked(r) /\ visitor[r].cred = "cookie" /\ stage' = [stage EXCEPT ![r] = "hook"]
    /\ UNCHANGED <<setup, visitor, boot, holds, context, reply, lines, window, expires, admitted,
         failOpens, warned, httpNow>>
NoSession(r) ==
    /\ Unmarked(r)
    /\ \/ visitor[r].cred = "none" /\ Caught(r, "domain", 401, {})
       \/ Caught(r, "unhandled", 500, {})
    /\ UNCHANGED <<setup, visitor, boot, holds, context, window, expires, admitted, failOpens, warned, httpNow>>

\* writePrincipal: the hook's extras, valid or not, with the session's ids last.
Written(r, extra) == visitor[r].caller
WritePrincipal(r) ==
    /\ stage[r] = "hook" /\ Passes(r, "session")
    /\ \E extra \in {"none", "tenant", "other user", "throws"} :
         context' = IF holds[r] = NoCaller THEN context
                    ELSE [context EXCEPT ![holds[r]].user = Written(r, extra),
                                         ![holds[r]].tenant = IF extra = "tenant" THEN extra ELSE @]
    /\ warned' = warned \cup (IF holds[r] = NoCaller THEN {"no-context"}
                              ELSE IF reply[r].key = "address" THEN {"too-late"} ELSE {})
    /\ UNCHANGED <<setup, visitor, boot, holds, reply, lines, window, expires, admitted, failOpens, httpNow>>

-----------------------------------------------------------------------------
(* RateLimitGuard.canActivate *)

\* Disabled, edge-only, a skipped route, or a cache that was never configured.
Unlimited(r) ==
    /\ stage[r] = "limit" /\ Passes(r, "limit")
    /\ setup.mode # "cache" \/ visitor[r].route = "skipped" \/ ~setup.client
    /\ failOpens' = IF setup.mode = "disabled" /\ setup.production THEN failOpens \cup {r} ELSE failOpens
    /\ UNCHANGED <<setup, visitor, boot, holds, context, reply, lines, window, expires, admitted, warned,
         httpNow>>

\* The bucket is the user's if the context knows one, else the address's.
BucketOf(r) == IF UserOf(r) # NoCaller THEN UserOf(r) ELSE "address"

\* The key and the pod's time are taken, the script is sent.
Ask(r) ==
    /\ stage[r] = "limit" /\ setup.mode = "cache" /\ visitor[r].route # "skipped" /\ setup.client
    /\ stage' = [stage EXCEPT ![r] = "consume"]
    /\ reply' = [reply EXCEPT ![r].key = BucketOf(r), ![r].calledAt = httpNow]
    /\ UNCHANGED <<setup, visitor, boot, holds, context, lines, window, expires, admitted, failOpens,
         warned, httpNow>>

\* SLIDING_WINDOW_LUA: evict by score, count, admit or refuse.
ScoreOf(r) == reply[r].calledAt + visitor[r].skew
\* Mutant: entries leave one time unit early.
MutKept(r) == {e \in window : e.key = reply[r].key /\ httpNow < expires[e.key]
    /\ e.score > ScoreOf(r) - Window + 1}
Kept(r) == {e \in window : e.key = reply[r].key /\ httpNow < expires[e.key] /\ e.score > ScoreOf(r) - Window}
Others(r) == {e \in window : e.key # reply[r].key}
Consume(r) ==
    /\ stage[r] = "consume"
    /\ IF Cardinality(Kept(r)) < Limit
         THEN /\ window' = Others(r) \cup Kept(r) \cup {[key |-> reply[r].key, score |-> ScoreOf(r), of |-> r]}
              /\ expires' = [expires EXCEPT ![reply[r].key] = httpNow + Window]
              /\ admitted' = admitted \cup {[key |-> reply[r].key, at |-> httpNow, of |-> r]}
              /\ Passes(r, "limit") /\ UNCHANGED <<reply, lines>>
         ELSE /\ window' = Others(r) \cup Kept(r) /\ UNCHANGED <<expires, admitted>>
              /\ Caught(r, "domain", 429, {Line(r, "limited", 429, UserOf(r))})
    /\ UNCHANGED <<setup, visitor, boot, holds, context, failOpens, warned, httpNow>>

\* The call throws: the request passes, and that is recorded.
FailedOpen(r) == failOpens \cup {r}
ConsumeThrew(r) ==
    /\ stage[r] = "consume" /\ Passes(r, "limit") /\ failOpens' = FailedOpen(r)
    /\ lines' = lines \cup {Line(r, "fail open", 0, UserOf(r))}
    /\ UNCHANGED <<setup, visitor, boot, holds, context, reply, window, expires, admitted, warned, httpNow>>

-----------------------------------------------------------------------------
(* The handler, under HttpLoggingInterceptor *)

\* What the interceptor's error callback logs: getStatus() or 500.
LoggedStatus(kind, status) == IF kind = "http" THEN status ELSE 500
Answers(r) ==
    /\ stage[r] = "handler" /\ stage' = [stage EXCEPT ![r] = "done"]
    /\ reply' = [reply EXCEPT ![r].status = 200]
    /\ lines' = lines \cup {Line(r, "access", 200, UserOf(r))}
    /\ UNCHANGED <<setup, visitor, boot, holds, context, window, expires, admitted, failOpens, warned, httpNow>>
Throws(r, kind, status) ==
    /\ stage[r] = "handler" /\ Caught(r, kind, status, {Line(r, "access", LoggedStatus(kind, status),
         UserOf(r))})
    /\ UNCHANGED <<setup, visitor, boot, holds, context, window, expires, admitted, failOpens, warned, httpNow>>

Failures == {<<"zod", 422>>, <<"domain", 404>>, <<"http", 403>>, <<"unhandled", 500>>}

\* A script call is answered, or fails, within EvalTime.
Tick ==
    /\ boot = "up" /\ httpNow < HttpLastTime
    /\ \A r \in Requests : stage[r] = "consume" => httpNow < reply[r].calledAt + EvalTime
    /\ httpNow' = httpNow + 1
    /\ UNCHANGED <<setup, visitor, boot, stage, holds, context, reply, lines, window, expires, admitted,
         failOpens, warned>>

HttpNext ==
    \/ Boot \/ Tick
    \/ \E r \in Requests :
         \/ Enter(r) \/ ProductGuard(r)
         \/ SessionPublic(r) \/ AdmitMarked(r) \/ RefuseMarked(r) \/ BanAnswer(r)
         \/ HasSession(r) \/ NoSession(r) \/ WritePrincipal(r)
         \/ Unlimited(r) \/ Ask(r) \/ Consume(r) \/ ConsumeThrew(r)
         \/ Answers(r) \/ \E f \in Failures : Throws(r, f[1], f[2])

HttpSpec == HttpInit /\ [][HttpNext]_httpVars

-----------------------------------------------------------------------------
(* Properties *)

\* Shapes; a request has its status exactly when it is done, and a refused boot serves nothing.
HttpTypeOK ==
    /\ boot \in {"starting", "up", "refused"}
    /\ stage \in [Requests -> {"new", "product", "session", "ban", "hook", "limit", "consume", "handler",
         "done"}]
    /\ \A r \in Requests : (stage[r] = "done") <=> (reply[r].status # 0)
    /\ boot # "up" => \A r \in Requests : stage[r] = "new"
    /\ failOpens \subseteq Requests \cup {"boot"}

\* Under enableCorrelationId every line and error body of a request carries the id of its
\* response header, and no line ever names another request's user: contexts do not leak between
\* interleaved requests, and no principal hook can change who the caller is.
OwnIdentity ==
    setup.seeded =>
        /\ \A l \in lines : l.id = reply[l.of].header /\ l.user \in {NoCaller, visitor[l.of].caller}
        /\ \A r \in Requests : reply[r].status \notin {0, 200} => reply[r].bodyId = reply[r].header

\* Whoever reached the handler of a guarded route is somebody: with a context, it names
\* exactly that caller; nothing got there by a mark without a name.
HandlerKnowsCaller ==
    \A r \in Requests :
        (stage[r] = "handler" /\ visitor[r].route = "guarded" /\ (setup.seeded \/ ~setup.ambient)) =>
            /\ visitor[r].cred \in {"cookie", "mark"}
            /\ setup.seeded => UserOf(r) = visitor[r].caller

\* "So there is no burst at a boundary" (RateLimitGuard): any Limit + 1 admissions of one key
\* span at least the window, less what the pods' clocks differ and a call is under way.
WindowHolds ==
    \A burst \in SUBSET admitted :
        (Cardinality(burst) = Limit + 1 /\ \A x, y \in burst : x.key = y.key) =>
            \E x, y \in burst : y.at - x.at >= Window - ClockSkew - EvalTime

\* "A guard that quietly allows everything is the same as no guard": in production, unless the
\* edge limits or the route skips, who passed the limiter was counted or recorded as a fail-open.
NoSilentBypass ==
    \A r \in Requests :
        /\ setup.production /\ setup.mode # "edge-only" /\ visitor[r].route # "skipped"
        /\ stage[r] = "handler" \/ (setup.first = "limit" /\ stage[r] \in {"session", "ban", "hook"})
        => r \in failOpens \/ \E a \in admitted : a.of = r

\* "Fairer for users behind NAT": with the guards in the right order a caller with a principal
\* is refused only for its own requests.
RefusedForOwn ==
    \A r \in Requests :
        (reply[r].status = 429 /\ setup.seeded /\ setup.first = "session" /\ visitor[r].route = "guarded")
            => Cardinality({a \in admitted : a.key = visitor[r].caller
                /\ visitor[a.of].caller = visitor[r].caller}) >= Limit

\* "Logs at WARN for 4xx, ERROR for 5xx": the access line has the status the client got.
LogTellsStatus == \A l \in lines : l.kind = "access" => l.status = reply[l.of].status

\* The guarantees of one request of platform-http, whatever other requests do meanwhile.
HttpSafe ==
    /\ HttpTypeOK /\ OwnIdentity /\ HandlerKnowsCaller
    /\ WindowHolds /\ NoSilentBypass /\ RefusedForOwn
=============================================================================
