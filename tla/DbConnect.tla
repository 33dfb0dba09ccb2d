----------------------------- MODULE DbConnect -----------------------------
(***************************************************************************)
(* How a pod comes to a database connection, and what it says when it does *)
(* not: readDatabaseConfig and the pools made from it (config.ts, pool.ts) *)
(* and classifyDatabaseError (errors.ts).  The server, its certificate,    *)
(* its role's password and the Secret the pods read at start change while  *)
(* the pods run (external: PostgreSQL and CloudNativePG).  Back-off and    *)
(* the pool's queue are module PoolGuard's.                                *)
(***************************************************************************)
EXTENDS Integers, Sequences, SequencesExt, FiniteSetsExt

CONSTANTS
    DbPods,     \* processes
    DbEnvs,     \* what a pod's environment says: records of auth, named, password, ssl, caFile, production, max
    RoleLimit,  \* CONNECTION LIMIT of the role
    MaxWraps,   \* bound: how often an error is wrapped on its way (Drizzle)
    MaxChanges  \* bound: changes of the server

ASSUME DbAssumption == {RoleLimit, MaxWraps, MaxChanges} \subseteq Nat /\ MaxWraps < 8

VARIABLES
    dbServer,   \* [up, tls, ca, cert, password]
    dbSecret,   \* the password in the Secret
    dbPods,     \* [DbPods -> [st, env, password, ca, open]]
    dbReport,   \* [DbPods -> [code, fault]]: what the last attempt was classified as; fault is history
    dbChanges

dbVars == <<dbServer, dbSecret, dbPods, dbReport, dbChanges>>

NoReport == [code |-> "none", fault |-> "none"]
Unborn == [st |-> "none", env |-> "none", password |-> 0, ca |-> "none", open |-> 0]

DbInit ==
    /\ dbServer = [up |-> "up", tls |-> TRUE, ca |-> "ca1", cert |-> "ok", password |-> 1] /\ dbSecret = 1
    /\ dbPods = [p \in DbPods |-> Unborn] /\ dbReport = [p \in DbPods |-> NoReport] /\ dbChanges = 0

-----------------------------------------------------------------------------
(* readDatabaseConfig and createPool *)

TlsOK(e) == IF e.ssl = "disable" THEN ~e.production ELSE e.ssl = "unset" /\ e.caFile = "pem"
DbConfigOK(e) ==
    /\ e.auth \in {"unset", "password"} /\ e.named /\ e.password
    /\ TlsOK(e)
    /\ e.max \in 1..1000

\* The Secret and the mounted CA are read once, when the pod starts.
StartPod(p, e) ==
    /\ dbPods[p].st = "none"
    /\ dbPods' = [dbPods EXCEPT ![p] =
          IF DbConfigOK(e) THEN [st |-> "pool", env |-> e, password |-> dbSecret, open |-> 0,
                                 ca |-> IF e.ssl = "disable" THEN "none" ELSE dbServer.ca]
          ELSE [Unborn EXCEPT !.st = "refused", !.env = e]]
    /\ UNCHANGED <<dbServer, dbSecret, dbReport, dbChanges>>
RestartPod(p) ==
    /\ dbPods[p].st # "none" /\ dbPods' = [dbPods EXCEPT ![p] = Unborn]
    /\ dbReport' = [dbReport EXCEPT ![p] = NoReport]
    /\ UNCHANGED <<dbServer, dbSecret, dbChanges>>

-----------------------------------------------------------------------------
(* A connection attempt, and classifyDatabaseError *)

\* What really stands in the way, in the order a connection meets it.
OpenOf(pods) == MapThenSumSet(LAMBDA p : pods[p].open, DbPods)
Fault(p) ==
    IF dbPods[p].open = dbPods[p].env.max THEN "busy"
    ELSE IF dbServer.up # "up" THEN dbServer.up
    ELSE IF dbPods[p].ca # "none" /\ ~dbServer.tls THEN "no tls"
    ELSE IF dbPods[p].ca # "none" /\ dbPods[p].ca # dbServer.ca THEN "other ca"
    ELSE IF dbPods[p].ca # "none" /\ dbServer.cert # "ok" THEN "bad cert"
    ELSE IF dbPods[p].password # dbServer.password THEN "password"
    ELSE IF OpenOf(dbPods) >= RoleLimit THEN "slots" ELSE "none"

\* The driver's error for a fault: its code, and what its text says ("" for neither).
Driver(fault) ==
    CASE fault = "busy" -> [code |-> "", text |-> "timeout"]
      [] fault = "down" -> [code |-> "ECONNREFUSED", text |-> ""]
      [] fault = "starting" -> [code |-> "57P03", text |-> ""]
      [] fault = "no tls" -> [code |-> "", text |-> "no ssl"]
      [] fault = "other ca" -> [code |-> "SELF_SIGNED_CERT_IN_CHAIN", text |-> ""]
      [] fault = "bad cert" -> [code |-> "CERT_HAS_EXPIRED", text |-> ""]
      [] fault = "password" -> [code |-> "28P01", text |-> ""]
      [] fault = "slots" -> [code |-> "53300", text |-> "too many"]

\* chain: the error and its causes, at most eight of them.
\* Mutant: the error alone.
MutChain(err) == SubSeq(err, 1, 1)
Chain(err) == SubSeq(err, 1, IF Len(err) < 8 THEN Len(err) ELSE 8)
Classify(err) ==
    LET codes == {Chain(err)[i].code : i \in DOMAIN Chain(err)}
        texts == {Chain(err)[i].text : i \in DOMAIN Chain(err)}
    IN IF codes \cap {"28P01", "28000"} # {} THEN "AUTH_FAILED"
       ELSE IF "53300" \in codes \/ "too many" \in texts THEN "CONNECTION_LIMIT"
       ELSE IF "SELF_SIGNED_CERT_IN_CHAIN" \in codes THEN "TLS_UNTRUSTED_CA"
       ELSE IF "CERT_HAS_EXPIRED" \in codes THEN "TLS_CERT_INVALID"
       ELSE IF "no ssl" \in texts THEN "TLS_NOT_OFFERED"
       ELSE IF "timeout" \in texts THEN "CONNECT_TIMEOUT"
       ELSE IF codes \cap {"ECONNREFUSED", "57P03"} # {} THEN "UNREACHABLE"
       ELSE "UNKNOWN"

\* The error reaches the caller wrapped some times, each wrapper with no code of its own.
Wrapped(fault, n) == [i \in 1..n + 1 |-> IF i = n + 1 THEN Driver(fault) ELSE [code |-> "", text |-> ""]]
DbDial(p) ==
    /\ dbPods[p].st = "pool" /\ Fault(p) = "none"
    /\ dbPods' = [dbPods EXCEPT ![p].open = @ + 1] /\ dbReport' = [dbReport EXCEPT ![p] = NoReport]
    /\ UNCHANGED <<dbServer, dbSecret, dbChanges>>
DbDialFails(p, wraps) ==
    /\ dbPods[p].st = "pool" /\ Fault(p) # "none"
    /\ dbReport' = [dbReport EXCEPT ![p] = [code |-> Classify(Wrapped(Fault(p), wraps)), fault |-> Fault(p)]]
    /\ UNCHANGED <<dbServer, dbSecret, dbPods, dbChanges>>
DbHangUp(p) ==
    /\ dbPods[p].open > 0 /\ dbPods' = [dbPods EXCEPT ![p].open = @ - 1]
    /\ UNCHANGED <<dbServer, dbSecret, dbReport, dbChanges>>

-----------------------------------------------------------------------------
(* The cluster *)

\* A failover, another certificate, a plaintext server: every connection is gone.
ServerChanges ==
    /\ dbChanges < MaxChanges /\ dbChanges' = dbChanges + 1
    /\ \E up \in {"up", "down", "starting"}, tls \in BOOLEAN, ca \in {"ca1", "ca2"},
         cert \in {"ok", "expired"} :
         dbServer' = [dbServer EXCEPT !.up = up, !.tls = tls, !.ca = ca, !.cert = cert]
    /\ dbPods' = [p \in DbPods |-> [dbPods[p] EXCEPT !.open = 0]]
    /\ UNCHANGED <<dbSecret, dbReport>>
RotateSecret ==
    /\ dbSecret = 1 /\ dbSecret' = 2 /\ UNCHANGED <<dbServer, dbPods, dbReport, dbChanges>>
RotateRole ==
    /\ dbSecret = 2 /\ dbServer.password = 1 /\ dbServer' = [dbServer EXCEPT !.password = 2]
    /\ UNCHANGED <<dbSecret, dbPods, dbReport, dbChanges>>

DbNext ==
    \/ \E p \in DbPods :
         \/ \E e \in DbEnvs : StartPod(p, e)
         \/ RestartPod(p) \/ DbDial(p) \/ DbHangUp(p)
         \/ \E n \in 0..MaxWraps : DbDialFails(p, n)
    \/ ServerChanges \/ RotateSecret \/ RotateRole

DbSpec == DbInit /\ [][DbNext]_dbVars

-----------------------------------------------------------------------------
(* Properties *)

\* "A production pod must never talk to Postgres in the clear", and TLS is "never silently
\* downgraded": an open connection of a production pod is to a server with TLS whose
\* certificate chains to the CA the pod mounted, whatever the server became since.
NeverInClear ==
    \A p \in DbPods :
        (dbPods[p].open > 0 /\ dbPods[p].env.production) =>
            dbServer.tls /\ dbServer.cert = "ok" /\ dbPods[p].ca = dbServer.ca

\* "Errors that name their cause": wrapped less than eight times, the code a failed attempt is
\* given is the one of what stood in its way, and never another's or UNKNOWN.
CauseNamed ==
    \A p \in DbPods :
        dbReport[p].code =
            CASE dbReport[p].fault = "none" -> "none"
              [] dbReport[p].fault = "busy" -> "CONNECT_TIMEOUT"
              [] dbReport[p].fault \in {"down", "starting"} -> "UNREACHABLE"
              [] dbReport[p].fault = "no tls" -> "TLS_NOT_OFFERED"
              [] dbReport[p].fault = "other ca" -> "TLS_UNTRUSTED_CA"
              [] dbReport[p].fault = "bad cert" -> "TLS_CERT_INVALID"
              [] dbReport[p].fault = "password" -> "AUTH_FAILED"
              [] dbReport[p].fault = "slots" -> "CONNECTION_LIMIT"

\* A pod's database connections and what it says of failed ones.
DbSafe == NeverInClear /\ CauseNamed
=============================================================================
