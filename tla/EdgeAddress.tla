---------------------------- MODULE EdgeAddress ----------------------------
(***************************************************************************)
(* The signed client address: the Worker's forwardToOrigin (edge.ts), the  *)
(* API's verifyEdgeClientIp and reportEdgeRejection (edge-client-ip.ts)    *)
(* and clientIp (client-ip.ts), which the rate limit, the access log, the  *)
(* idempotency key and identity's mount each call for the same request.    *)
(* The secret is rotated while requests are under way.  A signature is the *)
(* tuple of what was signed and cannot be made without the secret          *)
(* (external: HMAC-SHA256).                                                *)
(***************************************************************************)
EXTENDS Integers, FiniteSets, Sequences

CONSTANTS
    EdgeRequests, \* requests the API receives
    Askers,       \* the places that call clientIp for a request
    Targets,      \* method and path of a request, as signed: no query, upper case
    Addresses,    \* what cf-connecting-ip shows the Worker; not every one is usable
    Usable,       \* addresses shaped like one: isEdgeIpText
    RealIps,      \* addresses that are one: isIP
    Socket,       \* the peer address of the API
    NoTrio,       \* no x-qnsc-edge-* header
    MaxSkew,      \* EDGE_MAX_SKEW_SECONDS
    WarnEvery,    \* WARN_EVERY_MS
    EdgeLastTime  \* bound: the clock stops here

ASSUME EdgeAssumption ==
    /\ {MaxSkew, WarnEvery, EdgeLastTime} \subseteq Nat
    /\ RealIps \subseteq Usable /\ Usable \subseteq Addresses
    /\ {"unknown", "unasked"} \cap (Addresses \cup {Socket}) = {}

VARIABLES
    edgeNow,     \* the clock of both ends, in seconds
    workerKey,   \* the Worker's EDGE_CLIENT_IP_SECRET, as it was pasted
    apiKeys,     \* the API's current and previous secret, as pasted; << >>: off
    edgeReq,     \* [EdgeRequests -> [pc, target, seen, trio, via, at]]; at is history: when it was resolved
    known,       \* resolved: [EdgeRequests -> memoised address, or "unknown"]
    told,        \* [EdgeRequests -> [Askers -> address, or "unasked"]]
    counted,     \* edge_client_ip.rejected, by request: the points added
    pendingLog,  \* rejections since the last warning
    logged,      \* rejections that warnings have reported
    lastWarnAt,
    heard        \* history: trios that have been on the wire

edgeVars == <<edgeNow, workerKey, apiKeys, edgeReq, known, told, counted, pendingLog, logged, lastWarnAt,
    heard>>

Plain == [key : {"old", "new"}, padded : BOOLEAN]
\* normalizeEdgeSecret: both ends trim what was pasted.
Normalize(s) == s.key

EdgeInit ==
    /\ edgeNow = 0 /\ workerKey \in {s \in Plain : s.key = "old"}
         /\ apiKeys = <<[key |-> "old", padded |-> FALSE]>>
    /\ edgeReq = [r \in EdgeRequests |-> [pc |-> "new", target |-> "none", seen |-> "none",
         trio |-> NoTrio, via |-> "none", at |-> 0]]
    /\ known = [r \in EdgeRequests |-> "unknown"] /\ told = [r \in EdgeRequests |-> [a \in Askers |-> "unasked"]]
    /\ counted = [r \in EdgeRequests |-> 0] /\ pendingLog = 0 /\ logged = 0 /\ lastWarnAt = 0 - WarnEvery
    /\ heard = {}

-----------------------------------------------------------------------------
(* The Worker: edgeForwardRequest, applyEdgeClientIp, signEdgeClientIp *)

Trio(ts, ip, sig) == [ts |-> ts, ip |-> ip, sig |-> sig]
\* edgeSigningString under a secret.
Signature(secret, ts, ip, target) == <<Normalize(secret), ts, ip, target>>

\* The visitor's own edge headers are stripped; a usable address is signed.
Forwarded(ip, target, brought) ==
    IF ip \in Usable THEN Trio(edgeNow, ip, Signature(workerKey, edgeNow, ip, target)) ELSE NoTrio

Forward(r, ip, target, brought) ==
    /\ edgeReq[r].pc = "new" /\ brought \in heard \cup {NoTrio}
    /\ edgeReq' = [edgeReq EXCEPT ![r] =
          [pc |-> "wire", target |-> target, seen |-> ip, trio |-> Forwarded(ip, target, brought),
              via |-> "worker", at |-> 0]]
    /\ heard' = heard \cup ({Forwarded(ip, target, brought)} \ {NoTrio})
    /\ UNCHANGED <<edgeNow, workerKey, apiKeys, known, told, counted, pendingLog, logged, lastWarnAt>>

\* A request that reaches the API without the Worker, with headers it has from anywhere:
\* an earlier trio, one with its address swapped, or an incomplete one.
Lifted == {NoTrio} \cup heard \cup {[t EXCEPT !.ip = ip] : t \in heard, ip \in Addresses}
                   \cup {[t EXCEPT !.sig = << >>] : t \in heard}
Direct(r, target, trio) ==
    /\ edgeReq[r].pc = "new"
    /\ trio \in Lifted
    /\ edgeReq' = [edgeReq EXCEPT ![r] = [pc |-> "wire", target |-> target, seen |-> "none", trio |-> trio,
         via |-> "direct", at |-> 0]]
    /\ UNCHANGED <<edgeNow, workerKey, apiKeys, known, told, counted, pendingLog, logged, lastWarnAt, heard>>

-----------------------------------------------------------------------------
(* The API: verifyEdgeClientIp *)

Stale(ts) == edgeNow - ts > MaxSkew \/ ts - edgeNow > MaxSkew
Signed(t, target) == \E i \in 1..Len(apiKeys) : t.sig = Signature(apiKeys[i], t.ts, t.ip, target)

\* The reason a trio is refused, or "none".
Rejection(t, target) ==
    IF t = NoTrio \/ apiKeys = << >> THEN "none"
    ELSE IF t.sig = << >> THEN "incomplete"
    ELSE IF t.ip \notin Usable THEN "malformed"
    ELSE IF Stale(t.ts) THEN "stale"
    ELSE IF ~Signed(t, target) THEN "bad_signature"
    ELSE IF t.ip \notin RealIps THEN "not_ip" ELSE "none"

\* resolveClientIp: the signed address, else what the connection shows.
Resolved(r) ==
    IF edgeReq[r].trio # NoTrio /\ apiKeys # << >> /\ Rejection(edgeReq[r].trio, edgeReq[r].target) = "none"
      THEN edgeReq[r].trio.ip ELSE Socket

\* reportEdgeRejection: count, and say so at most once per WarnEvery.
Report(r) ==
    LET due == edgeNow - lastWarnAt >= WarnEvery IN
    /\ counted' = [counted EXCEPT ![r] = @ + 1]
    /\ pendingLog' = IF due THEN 0 ELSE pendingLog + 1
    /\ logged' = IF due THEN logged + pendingLog + 1 ELSE logged
    /\ lastWarnAt' = IF due THEN edgeNow ELSE lastWarnAt

\* clientIp: the first caller resolves, the others get the same answer.
\* Mutant: nothing is memoised.
MutMemo(r) == "unknown"
Memo(r) == known[r]
AskFor(r, a) ==
    /\ edgeReq[r].pc = "wire" /\ told[r][a] = "unasked"
    /\ LET ip == IF Memo(r) # "unknown" THEN Memo(r) ELSE Resolved(r) IN
         /\ told' = [told EXCEPT ![r][a] = ip] /\ known' = [known EXCEPT ![r] = ip]
    /\ IF Memo(r) = "unknown" /\ Rejection(edgeReq[r].trio, edgeReq[r].target) # "none"
         THEN Report(r) ELSE UNCHANGED <<counted, pendingLog, logged, lastWarnAt>>
    /\ edgeReq' = IF known[r] = "unknown" THEN [edgeReq EXCEPT ![r].at = edgeNow] ELSE edgeReq
    /\ UNCHANGED <<edgeNow, workerKey, apiKeys, heard>>

-----------------------------------------------------------------------------
(* Rotation, as the two-secret configuration is meant for *)

\* The API takes the new secret and keeps the old one as EDGE_CLIENT_IP_SECRET_PREVIOUS.
AddSecret ==
    /\ Len(apiKeys) = 1 /\ apiKeys[1].key = "old"
    /\ \E pad \in BOOLEAN : apiKeys' = <<[key |-> "new", padded |-> pad], apiKeys[1]>>
    /\ UNCHANGED <<edgeNow, workerKey, edgeReq, known, told, counted, pendingLog, logged, lastWarnAt, heard>>
SwitchWorker ==
    /\ workerKey.key = "old" /\ Len(apiKeys) = 2
    /\ \E pad \in BOOLEAN : workerKey' = [key |-> "new", padded |-> pad]
    /\ UNCHANGED <<edgeNow, apiKeys, edgeReq, known, told, counted, pendingLog, logged, lastWarnAt, heard>>
\* The old secret goes once nothing signed with it can still be accepted.
DropSecret ==
    /\ Len(apiKeys) = 2 /\ workerKey.key = "new"
    /\ \A t \in heard : t.sig[1] = Normalize(apiKeys[2]) => Stale(t.ts)
    /\ apiKeys' = <<apiKeys[1]>>
    /\ UNCHANGED <<edgeNow, workerKey, edgeReq, known, told, counted, pendingLog, logged, lastWarnAt, heard>>

EdgeTick ==
    /\ edgeNow < EdgeLastTime /\ edgeNow' = edgeNow + 1
    /\ UNCHANGED <<workerKey, apiKeys, edgeReq, known, told, counted, pendingLog, logged, lastWarnAt, heard>>

EdgeNext ==
    \/ \E r \in EdgeRequests, target \in Targets :
         \/ \E ip \in Addresses, brought \in heard \cup {NoTrio} : Forward(r, ip, target, brought)
         \/ \E trio \in Lifted : Direct(r, target, trio)
    \/ \E r \in EdgeRequests, a \in Askers : AskFor(r, a)
    \/ AddSecret \/ SwitchWorker \/ DropSecret \/ EdgeTick

EdgeSpec == EdgeInit /\ [][EdgeNext]_edgeVars

-----------------------------------------------------------------------------
(* Properties *)

\* Shapes; a request that nobody asked about has no memoised address.
EdgeTypeOK ==
    /\ workerKey \in Plain /\ apiKeys \in Seq(Plain) /\ Len(apiKeys) \in 1..2
    /\ known \in [EdgeRequests -> {"unknown", Socket} \cup Addresses]
    /\ told \in [EdgeRequests -> [Askers -> {"unasked", Socket} \cup Addresses]]
    /\ \A r \in EdgeRequests : known[r] = "unknown" <=> \A a \in Askers : told[r][a] = "unasked"

\* An address is believed only on the request it was signed for: some request of the Worker
\* with this target showed it at most MaxSkew before, and through the Worker it is that visitor's own.
BelievedWasSigned ==
    \A r \in EdgeRequests, a \in Askers :
        told[r][a] \notin {"unasked", Socket} =>
            /\ told[r][a] \in RealIps
            /\ \E s \in EdgeRequests :
                 /\ edgeReq[s].via = "worker" /\ edgeReq[s].seen = told[r][a]
                      /\ edgeReq[s].target = edgeReq[r].target
                 /\ edgeReq[r].at - edgeReq[s].trio.ts <= MaxSkew
            /\ edgeReq[r].via = "worker" => told[r][a] = edgeReq[r].seen

\* "The guard, the access log, idempotency and the identity mount must agree": one answer per
\* request, though its signature may expire or the secret change between two of them.
AskersAgree ==
    \A r \in EdgeRequests, a, b \in Askers :
        (told[r][a] # "unasked" /\ told[r][b] # "unasked") => told[r][a] = told[r][b]

\* "Counted once, not once per caller", and nothing is lost between two warnings.
EveryRefusalCounted ==
    /\ \A r \in EdgeRequests : counted[r] <= 1
    /\ pendingLog + logged = Cardinality({r \in EdgeRequests : counted[r] > 0})

\* A rotation in three moves refuses nobody: a request the Worker signed is never a
\* bad_signature, however the secrets were pasted and whenever they changed.
RotationSeamless ==
    \A r \in EdgeRequests :
        (edgeReq[r].via = "worker" /\ edgeReq[r].trio # NoTrio) =>
            Rejection(edgeReq[r].trio, edgeReq[r].target) \in {"none", "stale", "not_ip"}

\* The client address of the signed edge headers, through skew, replays and key rotation.
EdgeSafe ==
    /\ EdgeTypeOK /\ BelievedWasSigned /\ AskersAgree
    /\ EveryRefusalCounted /\ RotationSeamless
=============================================================================
