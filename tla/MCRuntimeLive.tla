--------------------------- MODULE MCRuntimeLive ---------------------------
(***************************************************************************)
(* The components of one process that promise progress, side by side under *)
(* their fairness, on instances small enough for TLC's liveness check.     *)
(***************************************************************************)
EXTENDS Process, OnceEffect, PoolGuard, OrgCreate

VARIABLE part

MCSettings == {<<3, 0>>, <<2, 3>>}

-----------------------------------------------------------------------------
(* Side by side: the initial state picks the part that runs *)

\* A part that does not run has one initial state.
MCInit ==
    /\ part \in {"process", "once", "pool", "org"}
    /\ ProcessInit /\ (part # "process" => ~http /\ setting = <<3, 0>>)
    /\ OnceInit /\ (part # "once" => joins = {})
    /\ PoolInit
    /\ OrgInit /\ (part # "org" => viaApi = {} /\ signedIn = {})

MCNext ==
    /\ UNCHANGED part
    /\ \/ part = "process" /\ ProcessNext
       \/ part # "process" /\ UNCHANGED procVars
    /\ \/ part = "once" /\ OnceNext
       \/ part # "once" /\ UNCHANGED onceAll
    /\ \/ part = "pool" /\ PoolNext
       \/ part # "pool" /\ UNCHANGED guardVars
    /\ \/ part = "org" /\ OrgNext
       \/ part # "org" /\ UNCHANGED orgVars

\* ProcessFairness, InstallFairness, PoolFairness and OrgFairness, of the part that runs: one that
\* does not takes no step, and fairness asks none of it.
MCProcessFairness ==
    /\ WF_procVars(part = "process" /\ Tick) /\ WF_procVars(part = "process" /\ HardStop)
    /\ WF_procVars(part = "process" /\ JobsStopped)
    /\ WF_procVars(part = "process" /\ Probe) /\ WF_procVars(part = "process" /\ ProbeAnswer)
MCInstallFairness ==
    \A i \in Installers :
        /\ WF_onceAll(part = "once" /\ Lock(i)) /\ WF_onceAll(part = "once" /\ Installed(i))
        /\ WF_onceAll(part = "once" /\ (Unlock(i) \/ UnlockFails(i)))
MCPoolFairness ==
    /\ WF_guardVars(part = "pool" /\ Pump)
    /\ \A c \in Callers :
         /\ WF_guardVars(part = "pool" /\ (DialFails(c) \/ DialWorks(c)))
         /\ WF_guardVars(part = "pool" /\ Release(c))
MCOrgFairness ==
    \A c \in Creates :
        /\ SF_orgVars(part = "org" /\ Check(c)) /\ SF_orgVars(part = "org" /\ Begin(c))
        /\ WF_orgVars(part = "org" /\ (InsertOrg(c) \/ Fails(c)))
        /\ WF_orgVars(part = "org" /\ (InsertOwner(c) \/ Fails(c)))
        /\ WF_orgVars(part = "org" /\ RolledBack(c)) /\ WF_orgVars(part = "org" /\ Committed(c))

allVars == <<part, procVars, onceAll, guardVars, orgVars>>
MCLiveSpec ==
    /\ MCInit /\ [][MCNext]_allVars
    /\ MCProcessFairness /\ MCInstallFairness /\ MCPoolFairness /\ MCOrgFairness

-----------------------------------------------------------------------------
(* Liveness of the parts that have work from the start *)

\* once/install: EveryInstallRuns where installs are asked for.
InstallsRun == part = "once" => EveryInstallRuns

\* Organization creation: EveryCreateEnds where creates were sent.
CreatesEnd == part = "org" => EveryCreateEnds
=============================================================================
