--------------------------- MODULE SessionContext ---------------------------
(***************************************************************************)
(* The active context of a session (context.ts, and clearContext of        *)
(* create-identity.ts): one session of one user, its row in PostgreSQL and *)
(* its copy in Valkey, which is read first.  Every process believes for    *)
(* Revalidate that the user is a member.  The product answers membership   *)
(* and initial, and may throw; Better Auth's updateSession writes the row  *)
(* and, when Valkey takes it, the copy (external).                         *)
(***************************************************************************)
EXTENDS Integers, FiniteSets

CONSTANTS
    Contexts, Hosts, Users, None,
    Revalidate,  \* context.revalidateSeconds
    CallTime,    \* bound: from a membership answer to the end of its call
    LastTime,    \* bound: the clock stops here
    MaxDowntimes \* bound: outages of Valkey

ASSUME ContextAssumption == None \notin Contexts /\ {Revalidate, CallTime, LastTime, MaxDowntimes} \subseteq Nat

VARIABLES
    live,           \* the session has been created
    row, copy,      \* its contextId in PostgreSQL, and {copy} in Valkey or {}
    valkey, downs,
    member, lostAt, \* contexts of the user, and when one was lost
    time,
    memo,           \* [Hosts -> [Contexts -> until when membership is believed]]
    run,            \* [Users -> the call under way], Users being the callers
    warned          \* the row moved and the copy may be old: logged, or left to the next read

ctxVars == <<live, row, copy, valkey, downs, member, lostAt, time, memo, run, warned>>
world == <<valkey, downs, member, lostAt, time>>

NoRun == [pc |-> "idle", kind |-> "none", host |-> None, ctx |-> None, since |-> -1, failed |-> FALSE,
    got |-> None]

ContextInit ==
    /\ live = FALSE /\ row = None /\ copy = {} /\ valkey = TRUE /\ downs = 0
    /\ member = Contexts /\ lostAt = [x \in Contexts |-> 0] /\ time = 0
    /\ memo = [h \in Hosts |-> [x \in Contexts |-> 0]] /\ run = [u \in Users |-> NoRun] /\ warned = FALSE

Believed(h, x) == memo[h][x] > time
Believe(h, x) == memo' = [memo EXCEPT ![h][x] = IF Revalidate = 0 THEN memo[h][x] ELSE time + Revalidate]
Forget(h, x) == memo' = [memo EXCEPT ![h][x] = 0]
Visible == IF valkey /\ copy # {} THEN copy ELSE {row}
At(u, pc) == run' = [run EXCEPT ![u].pc = pc]
AtSince(u, pc) == run' = [run EXCEPT ![u].pc = pc, ![u].since = time]
Done(u) == run' = [run EXCEPT ![u] = NoRun]

\* The world: Valkey, the user's memberships, and time while no call is overdue.
Outage == valkey /\ downs < MaxDowntimes /\ valkey' = FALSE /\ downs' = downs + 1
    /\ UNCHANGED <<live, row, copy, member, lostAt, time, memo, run, warned>>
Recovery == ~valkey /\ valkey' = TRUE /\ UNCHANGED <<live, row, copy, downs, member, lostAt, time, memo,
    run, warned>>
Loses(x) == x \in member /\ member' = member \ {x} /\ lostAt' = [lostAt EXCEPT ![x] = time]
    /\ UNCHANGED <<live, row, copy, valkey, downs, time, memo, run, warned>>
TimePasses ==
    /\ time < LastTime /\ \A u \in Users : run[u].since # -1 => time - run[u].since < CallTime
    /\ time' = time + 1 /\ UNCHANGED <<live, row, copy, valkey, downs, member, lostAt, memo, run, warned>>

\* updateSession: the copy is written only when Valkey takes it, and the storage counts
\* the failure.
Update(u, x) ==
    /\ row' = x /\ copy' = (IF valkey THEN {x} ELSE copy)
    /\ warned' = (IF valkey THEN FALSE ELSE warned)

-----------------------------------------------------------------------------
\* findSession: the context that is read is believed, or asked about.
Reads(u, h) ==
    /\ run[u].pc = "idle" /\ live
    /\ \E x \in Visible \ {None} : ~Believed(h, x)
          /\ run' = [run EXCEPT ![u] = [NoRun EXCEPT !.pc = "ask", !.kind = "read", !.host = h, !.ctx = x]]
    /\ UNCHANGED <<live, row, copy, world, memo, warned>>
\* A throw keeps the context; a member is believed; a lost context is replaced.
Asks(u) ==
    /\ run[u].pc = "ask" /\ run[u].kind = "read"
    /\ \/ run[u].ctx \in member /\ AtSince(u, "believe") /\ UNCHANGED memo
       \/ run[u].ctx \notin member /\ AtSince(u, "fallback") /\ Forget(run[u].host, run[u].ctx)
       \/ Done(u) /\ UNCHANGED memo
    /\ UNCHANGED <<live, row, copy, world, warned>>
AskedTrue(u) ==
    /\ run[u].pc = "believe" /\ Believe(run[u].host, run[u].ctx) /\ Done(u)
    /\ UNCHANGED <<live, row, copy, world, warned>>
\* fallback: initial, if it is a context of the user's; a throw gives none.
Fallback(u, x) ==
    IF x \in member THEN Believe(run[u].host, x) /\ run' = [run EXCEPT ![u].pc = "write", ![u].got = x]
                    ELSE run' = [run EXCEPT ![u].pc = "write", ![u].got = None] /\ UNCHANGED memo
FallsBack(u) ==
    /\ run[u].pc = "fallback" /\ \/ \E x \in Contexts : Fallback(u, x)
                                 \/ run' = [run EXCEPT ![u].pc = "write", ![u].got = None] /\ UNCHANGED memo
    /\ UNCHANGED <<live, row, copy, world, warned>>
\* The replacement, which may fail; nothing reconciles it, the next read asks again.
Replaces(u) ==
    /\ run[u].pc = "write" /\ run[u].kind = "read" /\ Done(u)
    /\ \/ UNCHANGED <<row, copy, warned>>
       \/ row' = run[u].got /\ copy' = (IF valkey THEN {run[u].got} ELSE copy) /\ warned' = ~valkey
    /\ UNCHANGED <<live, world, memo>>

\* createBefore: a new session starts in the fallback.
SignsIn(u, h) ==
    /\ run[u].pc = "idle" /\ ~live /\ \A o \in Users : run[o] = NoRun
    /\ run' = [run EXCEPT ![u] = [NoRun EXCEPT !.pc = "fallback", !.kind = "create", !.host = h,
         !.since = time]]
    /\ UNCHANGED <<live, row, copy, world, memo, warned>>
Created(u) ==
    /\ run[u].pc = "write" /\ run[u].kind = "create" /\ live' = TRUE /\ Done(u) /\ Update(u, run[u].got)
    /\ UNCHANGED <<world, memo>>

\* The endpoint /context/set: membership, refused or failed, then the write.
Sets(u, h, x) ==
    /\ run[u].pc = "idle" /\ live /\ x \in member \cup {None}
    /\ run' = [run EXCEPT ![u] = [NoRun EXCEPT !.pc = "set", !.kind = "set", !.host = h, !.ctx = x,
         !.since = time]]
    /\ UNCHANGED <<live, row, copy, world, memo, warned>>
\* clearContext finds the session when its row holds the context.
Clears(u, h, x) ==
    /\ run[u].pc = "idle" /\ live /\ row = x /\ x # None
    /\ run' = [run EXCEPT ![u] = [NoRun EXCEPT !.pc = "set", !.kind = "clear", !.host = h, !.ctx = x,
         !.since = time]]
    /\ UNCHANGED <<live, row, copy, world, memo, warned>>
ContextWrites(u) ==
    /\ run[u].pc = "set" /\ Update(u, IF run[u].kind = "clear" THEN None ELSE run[u].ctx)
    /\ run' = [run EXCEPT ![u].pc = "reconcile", ![u].failed = ~valkey]
    /\ UNCHANGED <<live, world, memo>>
\* reconcile: if a write of the storage failed meanwhile the copy is dropped, or the
\* stale copy is logged.
\* Mutant: a failed write is not looked at.
MutReconciles(u) ==
    /\ run[u].pc = "reconcile" /\ At(u, "settle") /\ UNCHANGED <<copy, warned, live, row, world, memo>>
Reconciles(u) ==
    /\ run[u].pc = "reconcile" /\ At(u, "settle")
    /\ copy' = (IF run[u].failed /\ valkey THEN {} ELSE copy)
    /\ warned' = (warned \/ (run[u].failed /\ ~valkey))
    /\ UNCHANGED <<live, row, world, memo>>
\* Then the belief: forgotten when the context goes, kept after the write otherwise.
Settles(u) ==
    /\ run[u].pc = "settle" /\ Done(u)
    /\ IF run[u].ctx = None THEN UNCHANGED memo
       ELSE IF run[u].kind = "clear" THEN Forget(run[u].host, run[u].ctx) ELSE Believe(run[u].host, run[u].ctx)
    /\ UNCHANGED <<live, row, copy, world, warned>>

ContextNext ==
    \/ Outage \/ Recovery \/ TimePasses \/ \E x \in Contexts : Loses(x)
    \/ \E u \in Users : \/ Asks(u) \/ AskedTrue(u) \/ FallsBack(u) \/ Replaces(u) \/ Created(u)
                        \/ ContextWrites(u) \/ Reconciles(u) \/ Settles(u)
                        \/ \E h \in Hosts :
                             Reads(u, h) \/ SignsIn(u, h) \/ \E x \in Contexts \cup {None} : Sets(u, h, x) \/ Clears(u, h, x)

ContextSpec == ContextInit /\ [][ContextNext]_ctxVars

\* Types; only contexts are held, and only while the session exists.
ContextTypeOK ==
    /\ row \in Contexts \cup {None} /\ copy \subseteq Contexts \cup {None} /\ Cardinality(copy) <= 1
    /\ (~live => row = None /\ copy = {}) /\ time \in 0..LastTime /\ downs \in 0..MaxDowntimes
    /\ \A u \in Users : run[u].pc \in {"idle", "ask", "believe", "fallback", "write", "set", "reconcile",
         "settle"}

\* A membership that is lost stops being believed everywhere within revalidateSeconds
\* and the time of the call that had its answer already: the session's next read after
\* that asks again, also when a set or a clear raced with the loss.
LostContextLeaves ==
    \A x \in Contexts \ member : \A h \in Hosts : memo[h][x] <= lostAt[x] + CallTime + Revalidate

\* A switch does not silently revert (the comment of reconcile): what a read sees is
\* what the row holds, unless a writer is yet to reconcile or the stale copy was noticed.
SwitchSticks ==
    \/ Visible = {row} \/ warned
    \/ \E u \in Users : run[u].pc = "reconcile" /\ run[u].failed

\* A session leaves a context its user lost, and a switch sticks.
ContextSafe == ContextTypeOK /\ LostContextLeaves /\ SwitchSticks
=============================================================================
