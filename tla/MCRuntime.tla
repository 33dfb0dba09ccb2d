----------------------------- MODULE MCRuntime -----------------------------
(***************************************************************************)
(* Small instances of the components of one process, side by side: the     *)
(* initial state picks the part that runs, the others stay as they start.  *)
(***************************************************************************)
EXTENDS Process, JobsLifecycle, OnceEffect, PoolGuard, OrgCreate, QueueConfig, DbConnect,
    MailTransport, SendRate

VARIABLE part

-----------------------------------------------------------------------------
(* Process *)
MCSettings == {<<3, 0>>, <<6, 3>>, <<2, 3>>}

(* QueueConfig: defaults on a small scale, and what queues set beside them *)
MCDefault ==
    [expire |-> 2, heartbeatAbove |-> 2, heartbeat |-> 1, minHeartbeat |-> 1, retryLimit |-> 1,
     minRetryLimit |-> 1, delay |-> 1, delayMax |-> 2, completed |-> 3, deadLetter |-> 4, pending |-> 12,
     minPending |-> 2, detection |-> 1]
Base ==
    [expire |-> NotGiven, heartbeat |-> NotGiven, retryLimit |-> NotGiven, delay |-> NotGiven,
     delayMax |-> NotGiven, deadLetter |-> "dlq", acceptDeadLetterOnDrain |-> FALSE,
     retention |-> [completed |-> NotGiven, failed |-> NotGiven, deadLetter |-> NotGiven, pending |-> NotGiven]]
MCQueueConfigs ==
    {[Base EXCEPT !.retention.deadLetter = 0], [Base EXCEPT !.deadLetter = "itself"],
     [Base EXCEPT !.delay = 3], [Base EXCEPT !.heartbeat = 0]}
    \cup {[Base EXCEPT !.retention.completed = c, !.retention.failed = f] :
            c \in {NotGiven, Immediate, 1, 2}, f \in {NotGiven, 2}}
    \cup {[Base EXCEPT !.retention.pending = p, !.expire = e, !.retryLimit = n, !.delayMax = x,
                       !.acceptDeadLetterOnDrain = a] :
            p \in {NotGiven, 6, 7, 8, 9, 13}, e \in {NotGiven, 1, 3}, n \in {NotGiven, 0, 2},
            x \in {NotGiven, 1}, a \in BOOLEAN}

(* DbConnect *)
GoodDb ==
    [auth |-> "unset", named |-> TRUE, password |-> TRUE, ssl |-> "unset", caFile |-> "pem",
     production |-> TRUE, max |-> 2]
MCDbEnvs ==
    {GoodDb, [GoodDb EXCEPT !.ssl = "disable"], [GoodDb EXCEPT !.ssl = "disable", !.production = FALSE],
     [GoodDb EXCEPT !.caFile = "empty"], [GoodDb EXCEPT !.max = 0], [GoodDb EXCEPT !.auth = "iam"]}

(* MailTransport *)
GraphEnv ==
    [production |-> TRUE, transport |-> "graph", named |-> TRUE, port |-> 25, federated |-> FALSE,
     path |-> "unset", inline |-> "unset", secret |-> FALSE]
MCMailEnvs ==
    {[GraphEnv EXCEPT !.production = p, !.transport = t, !.federated = f, !.path = c, !.inline = i,
        !.secret = s] :
        p \in BOOLEAN, t \in {"unset", "smtp", "graph"}, f \in BOOLEAN,
        c \in {"unset", "pair", "no key"}, i \in {"unset", "pair"}, s \in BOOLEAN}
    \cup {[GraphEnv EXCEPT !.named = FALSE, !.federated = TRUE],
          [GraphEnv EXCEPT !.production = FALSE, !.transport = "smtp", !.port = 0]}
Letter == [to |-> 1, cc |-> 0, from |-> "omitted", broken |-> {}]
MCMails == {Letter, [Letter EXCEPT !.from = "other"], [Letter EXCEPT !.to = 2, !.cc = 1]}

-----------------------------------------------------------------------------
(* Side by side *)

\* A part that does not run has one initial state.
MCInit ==
    /\ part \in {"process", "engine", "once", "pool", "org", "queue", "db", "mail", "rate"}
    /\ ProcessInit /\ (part # "process" => ~http /\ setting = <<3, 0>>)
    /\ EngineInit /\ (part # "engine" => role = "api")
    /\ OnceInit /\ (part # "once" => joins = {})
    /\ PoolInit
    /\ OrgInit /\ (part # "org" => viaApi = {} /\ signedIn = {})
    /\ ConfigInit /\ DbInit /\ RateInit
    /\ TransportInit /\ (part # "mail" => mailEnv = GraphEnv)

MCNext ==
    /\ UNCHANGED part
    /\ \/ part = "process" /\ ProcessNext
       \/ part # "process" /\ UNCHANGED procVars
    /\ \/ part = "engine" /\ EngineNext
       \/ part # "engine" /\ UNCHANGED engineVars
    /\ \/ part = "once" /\ OnceNext
       \/ part # "once" /\ UNCHANGED onceAll
    /\ \/ part = "pool" /\ PoolNext
       \/ part # "pool" /\ UNCHANGED guardVars
    /\ \/ part = "org" /\ OrgNext
       \/ part # "org" /\ UNCHANGED orgVars
    /\ \/ part = "queue" /\ ConfigNext
       \/ part # "queue" /\ UNCHANGED configVars
    /\ \/ part = "db" /\ DbNext
       \/ part # "db" /\ UNCHANGED dbVars
    /\ \/ part = "mail" /\ TransportNext
       \/ part # "mail" /\ UNCHANGED transportVars
    /\ \/ part = "rate" /\ RateNext
       \/ part # "rate" /\ UNCHANGED rateVars

allVars == <<part, procVars, engineVars, onceAll, guardVars, orgVars, configVars, dbVars, transportVars,
    rateVars>>
MCSpec == MCInit /\ [][MCNext]_allVars
=============================================================================
