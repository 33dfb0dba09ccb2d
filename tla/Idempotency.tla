---------------------------- MODULE Idempotency ----------------------------
(***************************************************************************)
(* The IdempotencyInterceptor of platform-http: the requests of all pods   *)
(* that carry the same Idempotency-Key (same caller, method and URL), the  *)
(* record and the claim they share in Valkey.  Records and claims of       *)
(* different keys never meet, so one key is modelled.                      *)
(*                                                                         *)
(* A request runs the handler at most once; a client's retry is another    *)
(* request.  The random claim token is represented by the request.         *)
(***************************************************************************)
EXTENDS Integers, FiniteSets

CONSTANTS
    Requests,   \* requests with the key
    IdemNobody, \* no request
    Prints,     \* request fingerprints
    PrintOf,    \* requestFingerprint of a request
    IdemLease   \* IDEMPOTENCY_LEASE_SECONDS, in time units

ASSUME IdempotencyAssumption ==
    /\ PrintOf \in [Requests -> Prints]
    /\ IdemNobody \notin Requests
    /\ IdemLease \in Nat \ {0}

VARIABLES
    record, \* idem:{who:digest}: the stored response, or a marker
    claim,  \* idem:{who:digest}:claim: who holds it and for how long
    idemPc, \* [Requests -> stage of intercept]
    effect, \* [Requests -> what became of the handler]
    answer, \* [Requests -> what the client was told, and by whose execution]
    loose   \* history: requests the key no longer stands for

idemVars == <<record, claim, idemPc, effect, answer, loose>>

-----------------------------------------------------------------------------
NoRecord == [st |-> "none", by |-> IdemNobody]
Unreadable == [st |-> "corrupt", by |-> IdemNobody]
Readable == {"response", "marker"}

NoClaim == [by |-> IdemNobody, left |-> 0]
ClaimOf(r) == [by |-> r, left |-> IdemLease]

NoAnswer == [kind |-> "none", of |-> IdemNobody]
Told(kind, s) == [kind |-> kind, of |-> s]

\* "run" and "open" execute the handler: under the claim, or unprotected.
IdemStages == {"new", "run", "open", "store", "release", "over", "crashed"}
Busy == {"run", "open", "store", "release"}
Effects == {"none", "running", "ok", "failed"}
Answers == {"none", "own", "error", "replay", "not-replayable", "key-reused", "in-flight"}

IdemInit ==
    /\ record = NoRecord
    /\ claim = NoClaim
    /\ idemPc = [r \in Requests |-> "new"]
    /\ effect = [r \in Requests |-> "none"]
    /\ answer = [r \in Requests |-> NoAnswer]
    /\ loose = {}

\* The handler starts, with or without the claim.
Starts(r, stage) ==
    /\ idemPc' = [idemPc EXCEPT ![r] = stage]
    /\ effect' = [effect EXCEPT ![r] = "running"]
    /\ UNCHANGED answer

\* The request is answered without running the handler.
Refuses(r, kind, s) ==
    /\ idemPc' = [idemPc EXCEPT ![r] = "over"]
    /\ answer' = [answer EXCEPT ![r] = Told(kind, s)]
    /\ UNCHANGED <<effect, record, claim, loose>>

-----------------------------------------------------------------------------
(* begin: READ_OR_CLAIM and what follows from its reply *)

\* The cache fails: run as if there were no key.  The script may have run and
\* taken the claim before the reply was lost.
FailOpen(r) ==
    /\ idemPc[r] = "new"
    /\ Starts(r, "open")
    /\ \/ claim' = claim
       \/ record.st = "none" /\ claim = NoClaim /\ claim' = ClaimOf(r)
    /\ loose' = loose \cup {r}
    /\ UNCHANGED record

\* An unreadable record is a miss: run, unprotected.
MissUnreadable(r) ==
    /\ idemPc[r] = "new"
    /\ record.st = "corrupt"
    /\ Starts(r, "open")
    /\ loose' = loose \cup {r}
    /\ UNCHANGED <<record, claim>>

\* The stored response, or 409 for a marker, for the same question only.
Replay(r) ==
    /\ idemPc[r] = "new"
    /\ record.st \in Readable
    /\ PrintOf[record.by] = PrintOf[r]
    /\ Refuses(r, IF record.st = "marker" THEN "not-replayable" ELSE "replay", record.by)

KeyReused(r) ==
    /\ idemPc[r] = "new"
    /\ record.st \in Readable
    /\ PrintOf[record.by] # PrintOf[r]
    /\ Refuses(r, "key-reused", record.by)

InFlight(r) ==
    /\ idemPc[r] = "new"
    /\ record.st = "none" /\ claim # NoClaim
    /\ Refuses(r, "in-flight", IdemNobody)

Claim(r) ==
    /\ idemPc[r] = "new"
    /\ record.st = "none" /\ claim = NoClaim
    /\ claim' = ClaimOf(r)
    /\ Starts(r, "run")
    /\ UNCHANGED <<record, loose>>

\* The claim was taken but the reply was lost and the client resent the script:
\* the request meets its own claim.  Nobody runs, and nobody will release it.
ClaimResent(r) ==
    /\ idemPc[r] = "new"
    /\ record.st = "none" /\ claim = NoClaim
    /\ claim' = ClaimOf(r)
    /\ idemPc' = [idemPc EXCEPT ![r] = "over"]
    /\ answer' = [answer EXCEPT ![r] = Told("in-flight", IdemNobody)]
    /\ UNCHANGED <<record, effect, loose>>

-----------------------------------------------------------------------------
(* run: the handler, store, release *)

\* The handler succeeds with a 2xx.  An unprotected one is answered at once;
\* a protected one is answered when its outcome is stored.
\* Mutant: the claim is released when the handler is done, before the store.
MutHandlerOkFrees(r) ==
    /\ idemPc[r] \in {"run", "open"}
    /\ effect' = [effect EXCEPT ![r] = "ok"]
    /\ idemPc' = [idemPc EXCEPT ![r] = IF @ = "run" THEN "store" ELSE "over"]
    /\ claim' = IF claim.by = r THEN NoClaim ELSE claim
    /\ answer' = IF idemPc[r] = "open" THEN [answer EXCEPT ![r] = Told("own", r)] ELSE answer
    /\ UNCHANGED <<record, loose>>
HandlerOk(r) ==
    /\ effect' = [effect EXCEPT ![r] = "ok"]
    /\ \/ /\ idemPc[r] = "run"
          /\ idemPc' = [idemPc EXCEPT ![r] = "store"]
          /\ UNCHANGED answer
       \/ /\ idemPc[r] = "open"
          /\ idemPc' = [idemPc EXCEPT ![r] = "over"]
          /\ answer' = [answer EXCEPT ![r] = Told("own", r)]
    /\ UNCHANGED <<record, claim, loose>>

\* The handler throws or answers with another status: nothing is stored, the
\* retry is entitled to run.
HandlerFails(r) ==
    /\ idemPc[r] \in {"run", "open"}
    /\ effect' = [effect EXCEPT ![r] = "failed"]
    /\ idemPc' = [idemPc EXCEPT ![r] = IF @ = "run" THEN "release" ELSE "over"]
    /\ answer' = [answer EXCEPT ![r] = Told("error", r)]
    /\ UNCHANGED <<record, claim, loose>>

\* The response or a marker is stored, over any record; or the cache fails and
\* the retry will run again.  Then the response goes out.
Store(r) ==
    /\ idemPc[r] = "store"
    /\ idemPc' = [idemPc EXCEPT ![r] = "release"]
    /\ answer' = [answer EXCEPT ![r] = Told("own", r)]
    /\ \/ /\ \E st \in Readable : record' = [st |-> st, by |-> r]
          /\ UNCHANGED loose
       \/ /\ UNCHANGED record
          /\ loose' = loose \cup {r}
    /\ UNCHANGED <<claim, effect>>

\* RELEASE_IF_OURS; an error is swallowed and the lease frees the key.
IdemRelease(r) ==
    /\ idemPc[r] = "release"
    /\ idemPc' = [idemPc EXCEPT ![r] = "over"]
    /\ claim' \in {claim, IF claim.by = r THEN NoClaim ELSE claim}
    /\ UNCHANGED <<record, effect, answer, loose>>

\* RENEW_IF_OURS, by the interval that runs until finalize.
\* Mutant: the interval outlives the request.
MutRenewForever(r) ==
    /\ idemPc[r] \in {"run", "store", "release", "over"}
    /\ claim.by = r
    /\ claim' = ClaimOf(r)
    /\ UNCHANGED <<record, idemPc, effect, answer, loose>>
Renew(r) ==
    /\ idemPc[r] \in {"run", "store"}
    /\ claim.by = r
    /\ claim' = ClaimOf(r)
    /\ UNCHANGED <<record, idemPc, effect, answer, loose>>

-----------------------------------------------------------------------------
(* The environment *)

\* The pod dies with the request in it.
IdemCrash(r) ==
    /\ idemPc[r] \in Busy
    /\ idemPc' = [idemPc EXCEPT ![r] = "crashed"]
    /\ UNCHANGED <<record, claim, effect, answer, loose>>

\* Time passes over the lease; renewals may be late or fail.
IdemTick ==
    /\ claim # NoClaim
    /\ IF claim.left = 1
         THEN claim' = NoClaim /\ loose' = loose \cup {claim.by}
         ELSE claim' = [claim EXCEPT !.left = @ - 1] /\ UNCHANGED loose
    /\ UNCHANGED <<record, idemPc, effect, answer>>

\* IDEMPOTENCY_TTL_SECONDS (24 hours) end the record and, with it, what the
\* key stood for.  No request is that slow.
Forget ==
    /\ record # NoRecord
    /\ \A r \in Requests : idemPc[r] \notin Busy
    /\ record' = NoRecord
    /\ loose' = loose \cup {r \in Requests : idemPc[r] # "new"}
    /\ UNCHANGED <<claim, idemPc, effect, answer>>

\* Another version of the platform, or damage, leaves an entry parseStored refuses.
Damage ==
    /\ record.st \in Readable
    /\ record' = Unreadable
    /\ UNCHANGED <<claim, idemPc, effect, answer, loose>>

IdemNext ==
    \/ \E r \in Requests :
         \/ FailOpen(r) \/ MissUnreadable(r) \/ Replay(r) \/ KeyReused(r)
         \/ InFlight(r) \/ Claim(r) \/ ClaimResent(r) \/ HandlerOk(r) \/ HandlerFails(r)
         \/ Store(r) \/ IdemRelease(r) \/ Renew(r) \/ IdemCrash(r)
    \/ IdemTick \/ Forget \/ Damage

IdemSpec == IdemInit /\ [][IdemNext]_idemVars

\* Valkey expires keys by itself.  No request and no pod needs to act.
IdemLiveSpec == IdemSpec /\ WF_idemVars(IdemTick)

-----------------------------------------------------------------------------
(* Properties *)

\* Every variable holds a value of its shape: record, claim, stages, effects, answers.
IdemTypeOK ==
    /\ record \in [st : Readable \cup {"none", "corrupt"}, by : Requests \cup {IdemNobody}]
    /\ record.st \in Readable <=> record.by # IdemNobody
    /\ claim \in {NoClaim} \cup [by : Requests, left : 1..IdemLease]
    /\ idemPc \in [Requests -> IdemStages]
    /\ effect \in [Requests -> Effects]
    /\ answer \in [Requests -> [kind : Answers, of : Requests \cup {IdemNobody}]]
    /\ loose \subseteq Requests

\* "A concurrent copy is not run, and neither is a completed one": of two requests
\* whose handlers run or succeeded, one ran unprotected, lost its claim, failed to
\* store its outcome or was forgotten after 24 hours.
RunOnce ==
    \A r, s \in Requests :
        (r # s /\ effect[r] \in {"running", "ok"} /\ effect[s] \in {"running", "ok"})
            => (r \in loose \/ s \in loose)

\* A request is told that the work is done (a replay, or "already completed") only
\* when a handler succeeded for the same question.
ReplayFaithful ==
    \A r \in Requests : answer[r].kind \in {"replay", "not-replayable"} =>
        LET s == answer[r].of IN s \in Requests /\ effect[s] = "ok" /\ PrintOf[s] = PrintOf[r]

\* What a retry is answered does not change under it: a stored outcome is replaced
\* by another one only between requests one of which lost its protection.
RecordStable ==
    [][(record.st \in Readable /\ record'.st \in Readable /\ record'.by # record.by)
          => (record.by \in loose \/ record'.by \in loose)]_idemVars

\* "A pod killed mid-request frees the key when the lease runs out", and so does a
\* request whose release failed: nobody who is gone holds the key for ever.
KeyFreed == \A r \in Requests : idemPc[r] \in {"over", "crashed"} ~> claim.by # r

\* The interceptor's promise: the handler's effect at most once per key, and a replay is the
\* response of the execution it stands for.
IdemSafe == IdemTypeOK /\ RunOnce /\ ReplayFaithful
=============================================================================
