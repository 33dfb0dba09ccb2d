----------------------------- MODULE OrgCreate -----------------------------
(***************************************************************************)
(* The atomic creation of an organization (organization-atomic.ts) over    *)
(* the transaction that withTxCapture guards.  Creates for one slug come   *)
(* through the handler or through auth.api and share a pool of             *)
(* connections.  Better Auth and PostgreSQL are external: the endpoint     *)
(* inserts the organization, then its owner, and reads through the         *)
(* internal adapter; an SQL error aborts the transaction, also when        *)
(* somebody swallows it, and COMMIT of an aborted transaction is a silent  *)
(* ROLLBACK.                                                               *)
(***************************************************************************)
EXTENDS Integers, FiniteSets

CONSTANTS
    Creates,
    PoolSize,
    NoOrg

ASSUME OrgAssumption == PoolSize \in Nat \ {0} /\ NoOrg \notin Creates

VARIABLES
    viaApi,   \* creates that call auth.api.createOrganization
    signedIn, \* creates whose session resolves
    cp,       \* [Creates -> where the create is]
    open,     \* creates whose transaction holds a connection
    aborted,  \* transactions PostgreSQL has aborted
    org,      \* the create whose organization row is committed
    owned,    \* its owner's row is committed
    answer    \* [Creates -> "none", "ok" or "error"]

orgVars == <<viaApi, signedIn, cp, open, aborted, org, owned, answer>>

OrgInit ==
    /\ viaApi \in SUBSET Creates /\ signedIn \in SUBSET Creates
    /\ cp = [c \in Creates |-> "new"] /\ open = {}
    /\ aborted = {} /\ org = NoOrg /\ owned = FALSE
    /\ answer = [c \in Creates |-> "none"]

InUse == Cardinality(open)

\* hasSession, for a request: without a session it goes to the handler as it is,
\* which refuses it without a transaction.  The lookup needs a free connection.
Check(c) ==
    /\ cp[c] = "new" /\ c \notin viaApi /\ InUse < PoolSize
    /\ IF c \in signedIn THEN cp' = [cp EXCEPT ![c] = "begin"] /\ UNCHANGED answer
                         ELSE cp' = [cp EXCEPT ![c] = "end"] /\ answer' = [answer EXCEPT ![c] = "error"]
    /\ UNCHANGED <<viaApi, signedIn, open, aborted, org, owned>>

\* atomically: adapter.transaction takes the connection of the transaction.
Begin(c) ==
    /\ cp[c] = "begin" \/ (cp[c] = "new" /\ c \in viaApi)
    /\ InUse < PoolSize
    /\ open' = open \cup {c} /\ cp' = [cp EXCEPT ![c] = "insert"]
    /\ UNCHANGED <<viaApi, signedIn, aborted, org, owned, answer>>

\* A statement of the endpoint: runWithAdapter sends it to the proxy, and the proxy
\* to the transaction, so that it needs no connection of its own.
\* Mutant: a server-side call is not run with the proxy and takes a second connection.
MutThroughProxy(c) == c \in viaApi => InUse < PoolSize
ThroughProxy(c) == c \in open

\* The slug is unique: a taken one is an error of the endpoint.
InsertOrg(c) ==
    /\ cp[c] = "insert" /\ ThroughProxy(c)
    /\ cp' = [cp EXCEPT ![c] = IF org = NoOrg THEN "member" ELSE "failed"]
    /\ UNCHANGED <<viaApi, signedIn, open, aborted, org, owned, answer>>

InsertOwner(c) ==
    /\ cp[c] = "member" /\ ThroughProxy(c)
    /\ cp' = [cp EXCEPT ![c] = "answered"]
    /\ UNCHANGED <<viaApi, signedIn, open, aborted, org, owned, answer>>

\* A statement or a hook fails: the endpoint answers with an error or throws.
Fails(c) ==
    /\ cp[c] \in {"insert", "member"} /\ ThroughProxy(c)
    /\ cp' = [cp EXCEPT ![c] = "failed"]
    /\ UNCHANGED <<viaApi, signedIn, open, aborted, org, owned, answer>>

\* A statement fails inside a callback whose error is swallowed: the transaction is
\* aborted and the endpoint goes on.
Swallowed(c) ==
    /\ cp[c] = "answered" /\ c \notin aborted
    /\ aborted' = aborted \cup {c}
    /\ UNCHANGED <<viaApi, signedIn, cp, open, org, owned, answer>>

Ends(c, a) ==
    /\ cp' = [cp EXCEPT ![c] = "end"] /\ open' = open \ {c}
    /\ answer' = [answer EXCEPT ![c] = a]
    /\ UNCHANGED <<viaApi, signedIn, aborted>>

\* A response of 400 or above is thrown inside the transaction and returned outside.
\* Mutant: an error response is returned like any other, and commits.
MutRolledBack(c) ==
    /\ cp[c] = "failed" /\ Ends(c, "error")
    /\ IF org = NoOrg THEN org' = c ELSE UNCHANGED org
    /\ UNCHANGED owned
RolledBack(c) ==
    /\ cp[c] = "failed" /\ Ends(c, "error") /\ UNCHANGED <<org, owned>>

\* withTxCapture: one more statement before COMMIT; an aborted transaction throws.
\* A row that another create committed meanwhile makes the insert wait and fail.
Committed(c) ==
    /\ cp[c] = "answered"
    /\ IF c \in aborted \/ org # NoOrg
         THEN Ends(c, "error") /\ UNCHANGED <<org, owned>>
         ELSE Ends(c, "ok") /\ org' = c /\ owned' = TRUE

OrgNext ==
    \E c \in Creates :
        \/ Check(c) \/ Begin(c) \/ InsertOrg(c) \/ InsertOwner(c) \/ Fails(c)
        \/ Swallowed(c) \/ RolledBack(c) \/ Committed(c)

OrgSpec == OrgInit /\ [][OrgNext]_orgVars

\* A step whose connection is there is taken; nobody waits forever for a free one (pg-pool queues).
OrgFairness == \A c \in Creates :
    /\ SF_orgVars(Check(c)) /\ SF_orgVars(Begin(c)) /\ WF_orgVars(InsertOrg(c) \/ Fails(c))
    /\ WF_orgVars(InsertOwner(c) \/ Fails(c)) /\ WF_orgVars(RolledBack(c)) /\ WF_orgVars(Committed(c))

-----------------------------------------------------------------------------
(* Properties *)

\* Every variable holds a value of its shape, and a create holds one connection
\* exactly while its transaction is open.
OrgTypeOK ==
    /\ viaApi \subseteq Creates /\ signedIn \subseteq Creates /\ aborted \subseteq Creates
    /\ cp \in [Creates -> {"new", "begin", "insert", "member", "answered", "failed", "end"}]
    /\ open = {c \in Creates : cp[c] \in {"insert", "member", "answered", "failed"}}
    /\ org \in Creates \cup {NoOrg} /\ owned \in BOOLEAN
    /\ answer \in [Creates -> {"none", "ok", "error"}] /\ InUse <= PoolSize

\* "Both rows commit or neither does": no organization without an owner.
NoOrphanOrg == org # NoOrg => owned

\* The caller is told what was written: success exactly for the create whose
\* organization exists, also after an error that a callback swallowed.
AnswerTrue == \A c \in Creates : answer[c] = "ok" <=> org = c

\* A create that opened its transaction ends, even when open transactions hold every connection.
EveryCreateEnds == \A c \in Creates : cp[c] = "insert" ~> cp[c] = "end"

\* An organization has its owner, and each create is told what became of it.
OrgSafe == OrgTypeOK /\ NoOrphanOrg /\ AnswerTrue
=============================================================================
