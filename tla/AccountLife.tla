---------------------------- MODULE AccountLife ----------------------------
(***************************************************************************)
(* Who may delete a user row: the accounts of one email address under      *)
(* sign-up, verification and SSO (external, Better Auth), the purge job    *)
(* and the replacement of an unverified account (accounts.ts), and a       *)
(* Microsoft sign-in that the product refuses (staff-session.ts, with the  *)
(* request's notes of callback-errors.ts).  Each await is a step; a        *)
(* statement of a transaction sees what others have committed.             *)
(***************************************************************************)
EXTENDS Integers, FiniteSets

CONSTANTS
    Ids,      \* user ids, each given out once
    Jobs,     \* runs of the purge
    Requests, \* Microsoft callbacks
    NoId

ASSUME LifeAssumption == NoId \notin Ids

VARIABLES
    acc,  \* [Ids -> [is, verified, accts, used, old]]
    task, \* [Jobs \cup Requests -> [pc, id, wasUsed, mine, dirty]]
    gone  \* who deleted which id, and whether it was in use when that began

lifeVars == <<acc, task, gone>>

LifeNoUser == [is |-> "none", verified |-> FALSE, accts |-> {}, used |-> FALSE, old |-> FALSE]
NewTask == [pc |-> "idle", id |-> NoId, wasUsed |-> FALSE, mine |-> NoId, dirty |-> FALSE]
LifeInit ==
    /\ acc = [i \in Ids |-> LifeNoUser] /\ task = [t \in Jobs \cup Requests |-> NewTask] /\ gone = {}

Live(i) == acc[i].is = "live"
LifeFree == \A i \in Ids : ~Live(i)
Put(i, verified, accts, used) ==
    acc' = [acc EXCEPT ![i] = [is |-> "live", verified |-> verified, accts |-> accts, used |-> used,
        old |-> FALSE]]

\* The owner: sign-up with a password, verification and the sign-in it allows, SSO.
SignsUp(i) == acc[i].is = "none" /\ LifeFree /\ Put(i, FALSE, {"credential"}, FALSE) /\ UNCHANGED <<task, gone>>
SsoSignsIn(i) == acc[i].is = "none" /\ LifeFree /\ Put(i, FALSE, {"sso"}, TRUE) /\ UNCHANGED <<task, gone>>
SsoSignsOut(i) == Live(i) /\ acc[i].accts = {"sso"} /\ acc[i].used /\ acc' = [acc EXCEPT ![i].used = FALSE]
    /\ UNCHANGED <<task, gone>>
Verifies(i) == Live(i) /\ ~acc[i].verified /\ acc' = [acc EXCEPT ![i].verified = TRUE]
    /\ UNCHANGED <<task, gone>>
Uses(i) == Live(i) /\ acc[i].verified /\ ~acc[i].used /\ acc' = [acc EXCEPT ![i].used = TRUE]
    /\ UNCHANGED <<task, gone>>
GrowsOld(i) == Live(i) /\ ~acc[i].old /\ acc' = [acc EXCEPT ![i].old = TRUE] /\ UNCHANGED <<task, gone>>

To(t, pc) == task' = [task EXCEPT ![t].pc = pc]
Used(i) == acc[i].verified \/ acc[i].used \/ acc[i].accts # {"credential"}

-----------------------------------------------------------------------------
\* purgeWith: the unverified users older than the cutoff; replaceUnverifiedAccount: the
\* unverified user of the asserted address.
Candidate(t, i) == Live(i) /\ ~acc[i].verified /\ (t \in Jobs => acc[i].old)
FindsCandidate(t) ==
    /\ task[t].pc = "idle"
    /\ \/ \E i \in Ids : Candidate(t, i) /\ task' = [task EXCEPT ![t].pc = "accounts", ![t].id = i,
            ![t].wasUsed = Used(i)]
       \/ t \in Requests /\ (\A i \in Ids : ~Candidate(t, i)) /\ To(t, "create")
    /\ UNCHANGED <<acc, gone>>
\* replaceable: nothing but credential accounts, and no session in the database.
Next1(t) == IF t \in Jobs THEN "ended" ELSE "create"
\* Mutant: any account without a session is replaceable.
MutOnlyCredential(i) == TRUE
OnlyCredential(i) == acc[i].accts \subseteq {"credential"}
ChecksAccounts(t) ==
    /\ task[t].pc = "accounts" /\ To(t, IF OnlyCredential(task[t].id) THEN "sessions" ELSE Next1(t))
    /\ UNCHANGED <<acc, gone>>
ChecksSessions(t) ==
    /\ task[t].pc = "sessions" /\ To(t, IF acc[task[t].id].used THEN Next1(t) ELSE "delete")
    /\ UNCHANGED <<acc, gone>>
DeletesUser(t) ==
    /\ task[t].pc = "delete" /\ To(t, Next1(t))
    /\ IF Live(task[t].id)
         THEN acc' = [acc EXCEPT ![task[t].id].is = "deleted"]
              /\ gone' = gone \cup {<<t, task[t].id, task[t].wasUsed>>}
         ELSE UNCHANGED <<acc, gone>>

-----------------------------------------------------------------------------
\* The callback: the user and the Microsoft account, created or linked; the request
\* notes the user it created (rememberCreatedUser).
CreatesOrLinks(r) ==
    /\ task[r].pc = "create"
    /\ \/ \E i \in Ids : acc[i].is = "none" /\ LifeFree /\ Put(i, TRUE, {"microsoft"}, FALSE)
             /\ task' = [task EXCEPT ![r].pc = "session", ![r].id = i, ![r].mine = i]
       \/ \E i \in Ids : Live(i) /\ acc' = [acc EXCEPT ![i].accts = @ \cup {"microsoft"}, ![i].verified = TRUE]
             /\ task' = [task EXCEPT ![r].pc = "session", ![r].id = i]
    /\ UNCHANGED gone
\* create.before: the product's hook lets the session be written, or the sign-in is
\* refused and what this request created is to be removed.
SignedIn(r) ==
    /\ task[r].pc = "session" /\ Live(task[r].id) /\ acc' = [acc EXCEPT ![task[r].id].used = TRUE]
         /\ To(r, "ended")
    /\ UNCHANGED gone
Refused(r) ==
    /\ task[r].pc = "session" /\ To(r, IF task[r].mine = NoId THEN "refused" ELSE "forget")
    /\ UNCHANGED <<acc, gone>>
\* forgetUserCreatedByThisRequest, one transaction: the check, then the delete.
ForgetChecks(r) ==
    /\ task[r].pc = "forget" /\ UNCHANGED <<acc, gone>>
    /\ task' = [task EXCEPT ![r].pc = IF acc[task[r].id].accts = {"microsoft"} /\ ~acc[task[r].id].used
         THEN "remove" ELSE "refused",
                            ![r].wasUsed = acc[task[r].id].used]
Removes(r) ==
    /\ task[r].pc = "remove" /\ To(r, "refused")
    /\ IF Live(task[r].id)
         THEN acc' = [acc EXCEPT ![task[r].id].is = "deleted"]
              /\ gone' = gone \cup {<<r, task[r].id, task[r].wasUsed>>}
         ELSE UNCHANGED <<acc, gone>>
\* The clean-up fails: rolled back, logged, and the sign-in is refused all the same.
RemovalFails(r) ==
    /\ task[r].pc \in {"forget", "remove"} /\ task' = [task EXCEPT ![r].pc = "refused", ![r].dirty = TRUE]
    /\ UNCHANGED <<acc, gone>>

LifeNext ==
    \/ \E i \in Ids : SignsUp(i) \/ SsoSignsIn(i) \/ SsoSignsOut(i) \/ Verifies(i) \/ Uses(i) \/ GrowsOld(i)
    \/ \E t \in Jobs \cup Requests : FindsCandidate(t) \/ ChecksAccounts(t) \/ ChecksSessions(t)
         \/ DeletesUser(t)
    \/ \E r \in Requests : CreatesOrLinks(r) \/ SignedIn(r) \/ Refused(r) \/ ForgetChecks(r) \/ Removes(r)
         \/ RemovalFails(r)

LifeSpec == LifeInit /\ [][LifeNext]_lifeVars

\* Types; an address has at most one user.
LifeTypeOK ==
    /\ Cardinality({i \in Ids : Live(i)}) <= 1
    /\ \A i \in Ids : acc[i].is \in {"none", "live", "deleted"}
         /\ acc[i].accts \subseteq {"credential", "sso", "microsoft"}
    /\ \A t \in Jobs \cup Requests : task[t].pc \in {"idle", "accounts", "sessions", "delete", "create",
         "session", "forget", "remove", "refused", "ended"}

\* Nobody's account is deleted for its address: a deleted user was unverified, unused and
\* password-only when the deletion began to look at it, or was created by the refused
\* sign-in that deleted it and had no session then.
OnlyUnusedDeleted == \A g \in gone : ~g[3]

\* A user that was already there is never touched by a refused sign-in, and one that the
\* sign-in created is not left behind bare: it has a session or another account, or the
\* removal failed and was logged.
RefusedLeavesNothing ==
    \A r \in Requests : task[r].pc = "refused" =>
        LET i == task[r].id IN
        /\ task[r].mine = NoId => \A g \in gone : <<g[1], g[2]>> # <<r, i>>
        /\ task[r].mine = i => acc[i].is = "deleted" \/ acc[i].used \/ acc[i].accts # {"microsoft"}
             \/ task[r].dirty

\* The account clean-ups delete what was never used, and a refused sign-up leaves nothing behind.
LifeSafe == LifeTypeOK /\ OnlyUnusedDeleted /\ RefusedLeavesNothing
=============================================================================
