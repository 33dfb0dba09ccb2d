------------------------------- MODULE Lease -------------------------------
(***************************************************************************)
(* What a lock with a lease promises, whatever keeps it: one owner at a    *)
(* time; a holder that goes on after its lease ran out is known to overrun *)
(* it; nobody but its owner ends the lock of a running holder before that; *)
(* and a lock nobody works under comes free.  ExclusiveJob implements it   *)
(* twice: with the cache lock and with the advisory lock.                  *)
(***************************************************************************)
CONSTANTS Holders, NoHolder

VARIABLES
    owner,    \* whose lock it is
    inside,   \* holders that work under the lock they took
    overran   \* those of them whose lock is gone

leaseVars == <<owner, inside, overran>>

LeaseInit == owner = NoHolder /\ inside = {} /\ overran = {}

Enter(h) ==
    /\ owner = NoHolder /\ h \notin inside
    /\ owner' = h /\ inside' = inside \cup {h} /\ UNCHANGED overran
\* The lock is taken for a holder that was told otherwise.
Orphan(h) ==
    /\ owner = NoHolder /\ h \notin inside
    /\ owner' = h /\ UNCHANGED <<inside, overran>>
\* A holder ends, by returning or by dying; its own lock is freed or stays behind.
Leave(h) ==
    /\ h \in inside
    /\ inside' = inside \ {h} /\ overran' = overran \ {h}
    /\ \/ owner' = owner
       \/ owner = h /\ owner' = NoHolder
Lapse ==
    /\ owner \in inside
    /\ owner' = NoHolder /\ overran' = overran \cup {owner} /\ UNCHANGED inside
\* The lock that was left behind ends.
Reap ==
    /\ owner \in Holders \ inside
    /\ owner' = NoHolder /\ UNCHANGED <<inside, overran>>

LeaseNext == Lapse \/ Reap \/ \E h \in Holders : Enter(h) \/ Orphan(h) \/ Leave(h)

LeaseSpec == LeaseInit /\ [][LeaseNext]_leaseVars
LeaseLiveSpec == LeaseSpec /\ WF_leaseVars(Reap)
=============================================================================
