----------------------------- MODULE OnceEffect -----------------------------
(***************************************************************************)
(* jobs.once for one key, and the transactions it runs in: deliveries of   *)
(* the same job race, each in the caller's transaction (withTransaction    *)
(* joins it) or in one of its own, with a savepoint around marker and      *)
(* effect.  The marker row blocks the other inserts until the savepoint or *)
(* the transaction that wrote it ends.                                     *)
(*                                                                         *)
(* And installJobsSchema, which creates that table: installers that share  *)
(* a pool take a session lock, and a session goes back to the pool.        *)
(***************************************************************************)
EXTENDS Integers, FiniteSets

CONSTANTS Deliveries, Installers, Nobody,
    MaxPurges   \* bound: purges of the markers

ASSUME OnceAssumption == MaxPurges \in Nat /\ Nobody \notin Deliveries \cup Installers

VARIABLES
    txn,      \* [Deliveries -> "idle", "claimed", "effected", "caught", "done" or "skipped"]
    joins,    \* deliveries whose caller had a transaction open
    marker,   \* the committed row
    owner,    \* the delivery whose uncommitted row is in the table
    effects,  \* committed effects
    purges,   \* markers deleted by the housekeeping
    inst,     \* [Installers -> "idle", "ddl", "unlock" or "over"]
    locked,   \* the installer whose session has the advisory lock
    dirty     \* sessions in the pool that still have the lock

onceVars == <<txn, joins, marker, owner, effects, purges>>
instVars == <<inst, locked, dirty>>
onceAll  == <<onceVars, instVars>>

OnceInit ==
    /\ txn = [d \in Deliveries |-> "idle"] /\ joins \in SUBSET Deliveries
    /\ marker = FALSE /\ owner = Nobody /\ effects = 0 /\ purges = 0
    /\ inst = [i \in Installers |-> "idle"] /\ locked = Nobody /\ dirty = {}

-----------------------------------------------------------------------------
(* once *)

\* INSERT ... ON CONFLICT DO NOTHING waits for another's uncommitted row; no row
\* returned: { ran: false }.
Claim(d) ==
    /\ txn[d] = "idle" /\ owner = Nobody
    /\ IF marker THEN txn' = [txn EXCEPT ![d] = "skipped"] /\ UNCHANGED owner
                 ELSE txn' = [txn EXCEPT ![d] = "claimed"] /\ owner' = d
    /\ UNCHANGED <<joins, marker, effects, purges, instVars>>

EffectRan(d) ==
    /\ txn[d] = "claimed" /\ txn' = [txn EXCEPT ![d] = "effected"]
    /\ UNCHANGED <<joins, marker, owner, effects, purges, instVars>>

\* The effect throws, the savepoint takes marker and writes back, and a caller that
\* opened the transaction may catch the error and go on.
\* Mutant: no savepoint; the marker stays in the caller's transaction.
MutEffectThrew(d) ==
    /\ txn[d] = "claimed" /\ d \in joins
    /\ txn' = [txn EXCEPT ![d] = "caught"]
    /\ UNCHANGED <<joins, marker, owner, effects, purges, instVars>>
EffectThrew(d) ==
    /\ txn[d] = "claimed"
    /\ owner' = Nobody
    /\ \/ d \in joins /\ txn' = [txn EXCEPT ![d] = "caught"]
       \/ txn' = [txn EXCEPT ![d] = "idle"]
    /\ UNCHANGED <<joins, marker, effects, purges, instVars>>

\* COMMIT of the transaction that was opened, here or by the caller.  A delivery
\* whose effect did not run comes again.
Commit(d) ==
    /\ txn[d] \in {"effected", "caught"}
    /\ marker' = (marker \/ owner = d)
    /\ owner' = IF owner = d THEN Nobody ELSE owner
    /\ effects' = IF txn[d] = "effected" THEN effects + 1 ELSE effects
    /\ txn' = [txn EXCEPT ![d] = IF txn[d] = "effected" THEN "done" ELSE "idle"]
    /\ UNCHANGED <<joins, purges, instVars>>

\* ROLLBACK: the caller throws later, the connection or the process dies.  Or the
\* job is delivered again after a commit whose answer was lost.
Rollback(d) ==
    /\ txn[d] \in {"claimed", "effected", "caught", "done", "skipped"}
    /\ owner' = IF owner = d THEN Nobody ELSE owner
    /\ txn' = [txn EXCEPT ![d] = "idle"]
    /\ UNCHANGED <<joins, marker, effects, purges, instVars>>

\* The housekeeping deletes markers older than onceRetentionDays.
Purge ==
    /\ marker /\ purges < MaxPurges /\ purges' = purges + 1 /\ marker' = FALSE
    /\ UNCHANGED <<txn, joins, owner, effects, instVars>>

-----------------------------------------------------------------------------
(* installJobsSchema *)

\* pg_advisory_lock waits, unless this session happens to have the lock already.
Lock(i) ==
    /\ inst[i] = "idle" /\ locked = Nobody
    /\ locked' = i /\ inst' = [inst EXCEPT ![i] = "ddl"]
    /\ UNCHANGED <<onceVars, dirty>>

\* install(): pg-boss's schema, the effect table, the grants; or an error, from
\* the application role for one.  The unlock runs either way.
Installed(i) ==
    /\ inst[i] = "ddl" /\ inst' = [inst EXCEPT ![i] = "unlock"]
    /\ UNCHANGED <<onceVars, locked, dirty>>

Unlock(i) ==
    /\ inst[i] = "unlock" /\ locked' = Nobody /\ inst' = [inst EXCEPT ![i] = "over"]
    /\ UNCHANGED <<onceVars, dirty>>

\* A session whose unlock failed is destroyed, which frees its lock.
\* Mutant: it goes back to the pool.
MutUnlockFails(i) ==
    /\ inst[i] = "unlock" /\ dirty' = dirty \cup {i} /\ inst' = [inst EXCEPT ![i] = "over"]
    /\ UNCHANGED <<onceVars, locked>>
UnlockFails(i) ==
    /\ inst[i] = "unlock" /\ locked' = Nobody /\ inst' = [inst EXCEPT ![i] = "over"]
    /\ UNCHANGED <<onceVars, dirty>>

OnceNext ==
    \/ Purge
    \/ \E d \in Deliveries : Claim(d) \/ EffectRan(d) \/ EffectThrew(d) \/ Commit(d) \/ Rollback(d)
    \/ \E i \in Installers : Lock(i) \/ Installed(i) \/ Unlock(i) \/ UnlockFails(i)

OnceSpec == OnceInit /\ [][OnceNext]_onceAll

\* The statements of an install end.
InstallFairness ==
    \A i \in Installers :
        WF_onceAll(Lock(i)) /\ WF_onceAll(Installed(i)) /\ WF_onceAll(Unlock(i) \/ UnlockFails(i))

-----------------------------------------------------------------------------
(* Properties *)

\* Every variable holds a value of its shape; the uncommitted marker belongs to a
\* delivery inside its savepoint or past it.
OnceTypeOK ==
    /\ txn \in [Deliveries -> {"idle", "claimed", "effected", "caught", "done", "skipped"}]
    /\ joins \subseteq Deliveries /\ marker \in BOOLEAN /\ owner \in Deliveries \cup {Nobody}
    /\ effects \in Nat /\ purges \in 0..MaxPurges
    /\ \A d \in Deliveries : txn[d] \in {"claimed", "effected"} <=> owner = d
    /\ inst \in [Installers -> {"idle", "ddl", "unlock", "over"}]
    /\ locked \in Installers \cup {Nobody} /\ dirty \subseteq Installers

\* The effect of a key commits at most once, however often the job is delivered,
\* until its marker is purged.
EffectOnce == effects <= purges + 1

\* "without it the marker would commit with half an effect and every later delivery
\* would skip it": the markers ever committed are the effects ever committed.
MarkerMeansEffect == effects = purges + (IF marker THEN 1 ELSE 0)

\* No pooled session keeps the lock, so every install that is asked for runs.
EveryInstallRuns == \A i \in Installers : inst[i] = "idle" ~> inst[i] = "over"

\* once: at most one delivery's effect is committed, and the marker stands exactly for it.
OnceSafe == OnceTypeOK /\ EffectOnce /\ MarkerMeansEffect
=============================================================================
