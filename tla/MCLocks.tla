------------------------------ MODULE MCLocks ------------------------------
(***************************************************************************)
(* Small instances of what is built on leases in Valkey, side by side: the *)
(* initial state picks the part that runs, the others stay as they start   *)
(* (where no fair action is enabled).                                      *)
(***************************************************************************)
EXTENDS CacheLock, ExclusiveJob, Idempotency

CONSTANTS r1, r2, r3, p1, p2

VARIABLE part

\* The last request reuses the key for another question.
TwoQuestions == [r \in Requests |-> IF r = r3 THEN p2 ELSE p1]

-----------------------------------------------------------------------------
\* A part that does not run has one initial state.
MCInit ==
    /\ part \in {"lock", "leader", "idempotency"}
    /\ LockInit
    /\ LeaderInit /\ (part # "leader" => pool /\ \A p \in Pods : ready[p])
    /\ IdemInit

MCNext ==
    /\ UNCHANGED part
    /\ \/ part = "lock" /\ LockNext
       \/ part # "lock" /\ UNCHANGED lockVars
    /\ \/ part = "leader" /\ LeaderNext
       \/ part # "leader" /\ UNCHANGED leaderVars
    /\ \/ part = "idempotency" /\ IdemNext
       \/ part # "idempotency" /\ UNCHANGED idemVars

allVars == <<part, lockVars, leaderVars, idemVars>>

\* The fairness of LockLiveSpec, LeaderLiveSpec and IdemLiveSpec.
MCSpec ==
    /\ MCInit /\ [][MCNext]_allVars
    /\ WF_lockVars(part = "lock" /\ LockTick)
    /\ WF_leaderVars(part = "leader" /\ LeaderTick) /\ WF_leaderVars(part = "leader" /\ SessionEnds)
    /\ WF_idemVars(part = "idempotency" /\ IdemTick)
=============================================================================
