--------------------------- MODULE SessionProofs ----------------------------
(***************************************************************************)
(* Proofs about who is signed in as whom: sessions and bans, staff         *)
(* sessions, the active context, access tokens and the clean-up of         *)
(* accounts.                                                               *)
(***************************************************************************)
EXTENDS UserSessions, StaffSession, SessionContext, AccessJwt, AccountLife, FiniteSetTheorems, TLAPS

-----------------------------------------------------------------------------
(***************************************************************************)
(* UserSessions, for any tokens, guards and operations: a revoke that      *)
(* answered done left a copy only where an outage stranded it.             *)
(***************************************************************************)

SessionPcs == {"idle", "ban", "find", "uncache", "rows", "list", "unlist", "purged", "done", "failed"}
SessionOps == [pc : SessionPcs, kind : {"none", "all", "user", "ban", "unlink"}, dead : SUBSET Tokens,
               batch : SUBSET Tokens, previous : Tokens \cup {NoToken}, last : BOOLEAN, nr : Nat]
Looks == [token : Tokens \cup {NoToken}, saw : BOOLEAN, since : Nat \cup {-1}]

StoreShape ==
    /\ rows \subseteq Tokens /\ cached \subseteq Tokens /\ listed \subseteq Tokens
    /\ fresh \subseteq Tokens /\ signing \subseteq Tokens /\ stranded \subseteq Tokens
    /\ delisted \subseteq Tokens /\ op \in SessionOps

GuardShape ==
    /\ outages \in 0..MaxOutages /\ clock \in 0..LastNow /\ bannedAt \in Nat
    /\ banned \in BOOLEAN /\ believed \in [Procs -> Nat] /\ look \in [Procs -> Looks]

\* A token is new, or signing in, or known to the stores and to the operation, and moves on for good.
Placed ==
    /\ fresh \cap signing = {}
    /\ (rows \cup cached \cup listed \cup op.dead \cup op.batch \cup {op.previous}) \cap (fresh \cup signing) = {}

\* Where the operation is in its purge.
PurgeFits ==
    /\ op.pc = "ban" => op.previous = NoToken /\ op.kind # "all"
    /\ op.pc = "find" => op.previous \notin rows
    /\ op.pc \in {"uncache", "rows"} => op.previous \in op.batch
    /\ op.pc = "rows" => op.batch \cap cached = {}
    /\ op.pc \in {"list", "unlist", "purged", "done"} => op.dead \cap rows = {}
    /\ op.pc \in {"list", "unlist"} => op.kind # "all"
    /\ op.pc = "unlist" => op.dead \cap listed \subseteq op.batch
    /\ op.pc \in {"purged", "done"} /\ op.kind # "all" => op.dead \cap listed = {}

\* What still leads to a copy of a session that is to end.
CopiesFound ==
    /\ cached \ listed \subseteq delisted
    /\ op.pc # "failed" /\ op.kind = "all" => op.dead \cap cached \subseteq rows \cup stranded
    /\ op.pc # "failed" /\ op.kind # "all" => op.dead \cap cached \subseteq rows \cup listed \cup (stranded \cap delisted)

StoreInv == StoreShape /\ Placed /\ PurgeFits /\ CopiesFound

LookFits(p) ==
    /\ look[p].since # -1 => look[p].since <= clock /\ clock <= look[p].since + Latency
    /\ banned /\ look[p].since # -1 /\ ~look[p].saw => look[p].since <= bannedAt
BeliefFits(p) ==
    /\ believed[p] <= clock + Ttl
    /\ banned => believed[p] <= bannedAt + Latency + Ttl
GuardInv == GuardShape /\ \A p \in Procs : LookFits(p) /\ BeliefFits(p)

SessionsInv == StoreInv /\ GuardInv

\* Initially there are no sessions, no copies of them and no operations.
LEMMA SessionsInitInv == SessionsInit => SessionsInv
<1> SUFFICES ASSUME SessionsInit PROVE SessionsInv
  OBVIOUS
<1>1. NoOp \in SessionOps /\ NoOp.pc = "idle" /\ NoOp.dead = {} /\ NoOp.batch = {} /\ NoOp.previous = NoToken
  BY DEF NoOp, SessionOps, SessionPcs
<1>2. NoLook \in Looks /\ NoLook.since = -1
  BY DEF NoLook, Looks
<1>3. StoreShape /\ Placed /\ PurgeFits /\ CopiesFound
  BY <1>1, SessionsAssumption DEF SessionsInit, StoreShape, Placed, PurgeFits, CopiesFound
<1>7. look \in [Procs -> Looks] /\ believed \in [Procs -> Nat] /\ banned \in BOOLEAN
  BY <1>2 DEF SessionsInit
<1>4. GuardShape
  BY <1>7, SessionsAssumption DEF SessionsInit, GuardShape
<1>5. \A p \in Procs : LookFits(p) /\ BeliefFits(p)
  BY <1>2, SessionsAssumption DEF SessionsInit, LookFits, BeliefFits
<1>6. QED
  BY <1>3, <1>4, <1>5 DEF SessionsInv, StoreInv, GuardInv

\* A session that ends by itself: Ended of one token, the operation waits.
LEMMA EndedKeeps ==
  ASSUME StoreInv, NEW t \in Tokens, Ended(t), UNCHANGED <<fresh, signing, delisted, op>>
  PROVE  StoreInv'
<1>1. StoreShape'
  BY DEF StoreInv, StoreShape, Ended
<1>2. Placed'
  BY DEF StoreInv, Placed, Ended
<1>3. PurgeFits'
  BY DEF StoreInv, PurgeFits, Ended
<1>4. CASE up
  <2>1. cached' = cached \ {t} /\ listed' = listed \ {t} /\ rows' = rows \ {t} /\ stranded' = stranded
    BY <1>4 DEF Ended
  <2>2. CopiesFound'
    BY <2>1 DEF StoreInv, CopiesFound
  <2>3. QED
    BY <1>1, <1>2, <1>3, <2>2 DEF StoreInv
<1>5. CASE ~up
  <2>1. cached' = cached /\ listed' = listed /\ rows' = rows \ {t} /\ stranded' = stranded \cup {t}
    BY <1>5 DEF Ended
  <2>2. CopiesFound'
    BY <2>1 DEF StoreInv, CopiesFound
  <2>3. QED
    BY <1>1, <1>2, <1>3, <2>2 DEF StoreInv
<1>6. QED
  BY <1>4, <1>5

\* Every step keeps what is known of the stored sessions and of the list a revoke reads.
LEMMA StoreStep == SessionsInv /\ [SessionsNext]_sessionVars => StoreInv'
<1> SUFFICES ASSUME SessionsInv, [SessionsNext]_sessionVars PROVE StoreInv'
  OBVIOUS
<1>0. StoreInv /\ op \in SessionOps
  BY DEF SessionsInv, StoreInv, StoreShape
<1>1. ASSUME UNCHANGED <<store, op>> PROVE StoreInv'
  BY <1>0, <1>1 DEF store, StoreInv, StoreShape, Placed, PurgeFits, CopiesFound
<1>2. ASSUME NEW t \in Tokens, SignInChecked(t) PROVE StoreInv'
  <2>1. /\ t \in fresh /\ fresh' = fresh \ {t} /\ signing' = signing \cup {t}
        /\ UNCHANGED <<rows, cached, listed, stranded, delisted, op>>
    BY <1>2 DEF SignInChecked
  <2>2. StoreShape' /\ Placed'
    BY <1>0, <2>1 DEF StoreInv, StoreShape, Placed
  <2>3. PurgeFits' /\ CopiesFound'
    BY <1>0, <2>1 DEF StoreInv, PurgeFits, CopiesFound
  <2>4. QED
    BY <2>2, <2>3 DEF StoreInv
<1>3. ASSUME NEW t \in Tokens, SessionWritten(t) PROVE StoreInv'
  <2>1. /\ t \in signing /\ signing' = signing \ {t} /\ rows' = rows \cup {t}
        /\ UNCHANGED <<fresh, stranded, delisted, op>>
        /\ \/ cached' = cached \cup {t} /\ listed' = listed \cup {t}
           \/ cached' = cached /\ listed' = listed
    BY <1>3 DEF SessionWritten
  <2>2. t \notin fresh /\ t \notin op.dead /\ t \notin op.batch /\ t # op.previous
    BY <1>0, <2>1 DEF StoreInv, Placed
  <2>3. StoreShape' /\ Placed'
    BY <1>0, <2>1, <2>2 DEF StoreInv, StoreShape, Placed
  <2>4. PurgeFits'
    BY <1>0, <2>1, <2>2 DEF StoreInv, PurgeFits
  <2>5. CopiesFound'
    BY <1>0, <2>1, <2>2 DEF StoreInv, CopiesFound
  <2>6. QED
    BY <2>3, <2>4, <2>5 DEF StoreInv
<1>4. ASSUME NEW t \in Tokens, SignOut(t) PROVE StoreInv'
  BY <1>0, <1>4, EndedKeeps DEF SignOut
<1>5. ASSUME NEW p \in Procs, LookupEnds(p) PROVE StoreInv'
  <2>1. look[p].token \in Tokens \cup {NoToken}
    BY DEF SessionsInv, GuardInv, GuardShape, Looks
  <2>2. CASE look[p].saw /\ look[p].token # NoToken
    BY <1>0, <1>5, <2>1, <2>2, EndedKeeps DEF LookupEnds
  <2>3. CASE ~(look[p].saw /\ look[p].token # NoToken)
    BY <1>1, <1>5, <2>3 DEF LookupEnds
  <2>4. QED
    BY <2>2, <2>3
<1>6. ASSUME NEW kind \in {"all", "user", "ban", "unlink"}, Starts(kind) PROVE StoreInv'
  <2> DEFINE d == rows \cup (IF kind = "all" THEN {} ELSE listed)
             q == IF kind = "ban" THEN "ban" ELSE "find"
             l == kind # "unlink"
             n == op.nr + 1
             r == [NoOp EXCEPT !.kind = kind, !.pc = q, !.last = l, !.nr = n, !.dead = d]
  <2>5. d \subseteq Tokens /\ q \in {"ban", "find"} /\ (q = "ban" => kind # "all") /\ l \in BOOLEAN /\ n \in Nat
    BY <1>0 DEF StoreInv, StoreShape, SessionOps
  <2>6. op' = r /\ UNCHANGED store
    BY <1>6 DEF Starts
  <2>7. /\ d \subseteq rows \cup listed
        /\ kind = "all" => d \subseteq rows
    OBVIOUS
  <2> HIDE DEF d, q, l, n
  <2>8. r \in SessionOps /\ r.pc = q /\ r.kind = kind /\ r.batch = {} /\ r.previous = NoToken /\ r.dead = d
    BY <2>5 DEF NoOp, SessionOps, SessionPcs
  <2> HIDE DEF r
  <2>1. /\ op' \in SessionOps /\ op'.pc \in {"ban", "find"} /\ op'.kind = kind /\ op'.batch = {}
        /\ op'.pc = "ban" => kind # "all"
        /\ op'.previous = NoToken /\ op'.dead \subseteq rows \cup listed
        /\ kind = "all" => op'.dead \subseteq rows
        /\ UNCHANGED store
    BY <2>5, <2>6, <2>7, <2>8
  <2>2. StoreShape' /\ Placed'
    BY <1>0, <2>1, SessionsAssumption DEF StoreInv, StoreShape, Placed, store
  <2>3. PurgeFits' /\ CopiesFound'
    BY <1>0, <2>1, SessionsAssumption DEF StoreInv, StoreShape, PurgeFits, CopiesFound, store
  <2>4. QED
    BY <2>2, <2>3 DEF StoreInv
<1>7. CASE Bans
  <2>1. /\ op' \in SessionOps /\ op.pc = "ban" /\ op'.pc = "find" /\ op'.kind = op.kind
        /\ op'.batch = op.batch /\ op'.previous = op.previous /\ op'.dead = rows \cup listed
        /\ UNCHANGED store
    BY <1>0, <1>7 DEF Bans, SessionOps, SessionPcs, StoreInv, StoreShape
  <2>2. StoreShape' /\ Placed'
    BY <1>0, <2>1 DEF StoreInv, StoreShape, Placed, store
  <2>3. PurgeFits' /\ CopiesFound'
    BY <1>0, <2>1, SessionsAssumption DEF StoreInv, StoreShape, PurgeFits, CopiesFound, store
  <2>4. QED
    BY <2>2, <2>3 DEF StoreInv
<1>8. CASE Unbans
  <2>1. /\ op' \in SessionOps /\ op'.pc = "idle" /\ op'.batch = {} /\ op'.previous = NoToken /\ op'.dead = {}
        /\ UNCHANGED store
    BY <1>0, <1>8 DEF Unbans, NoOp, SessionOps, SessionPcs
  <2>2. StoreShape' /\ Placed'
    BY <1>0, <2>1, SessionsAssumption DEF StoreInv, StoreShape, Placed, store
  <2>3. PurgeFits' /\ CopiesFound'
    BY <1>0, <2>1 DEF StoreInv, PurgeFits, CopiesFound, store
  <2>4. QED
    BY <2>2, <2>3 DEF StoreInv
<1>9. CASE FindRows
  <2>0. op.pc = "find" /\ UNCHANGED store /\ op.previous \notin rows
    BY <1>0, <1>9 DEF FindRows, StoreInv, PurgeFits
  <2>1. CASE rows = {}
    <3>1. /\ op' \in SessionOps /\ op'.pc = (IF op.kind = "all" THEN "purged" ELSE "list") /\ op'.kind = op.kind
          /\ op'.batch = {} /\ op'.previous = NoToken /\ op'.dead = op.dead
      BY <1>0, <1>9, <2>1 DEF FindRows, Found, SessionOps, SessionPcs
    <3>2. StoreShape' /\ Placed'
      BY <1>0, <2>0, <3>1, SessionsAssumption DEF StoreInv, StoreShape, Placed, store
    <3>3. PurgeFits' /\ CopiesFound'
      BY <1>0, <2>0, <2>1, <3>1 DEF StoreInv, PurgeFits, CopiesFound, store
    <3>4. QED
      BY <3>2, <3>3 DEF StoreInv
  <2>2. CASE rows # {}
    <3>0. PICK t \in rows : Found(rows, t)
      BY <1>9, <2>2 DEF FindRows
    <3>1. /\ op' \in SessionOps /\ op'.pc = "uncache" /\ op'.kind = op.kind
          /\ op'.batch = rows /\ op'.previous = t /\ op'.dead = op.dead
      BY <1>0, <2>0, <2>2, <3>0 DEF Found, SessionOps, SessionPcs, StoreInv, StoreShape
    <3>2. StoreShape' /\ Placed'
      BY <1>0, <2>0, <3>1 DEF StoreInv, StoreShape, Placed, store
    <3>3. PurgeFits' /\ CopiesFound'
      BY <1>0, <2>0, <3>1 DEF StoreInv, PurgeFits, CopiesFound, store
    <3>4. QED
      BY <3>2, <3>3 DEF StoreInv
  <2>3. QED
    BY <2>1, <2>2
<1>10. CASE Uncache
  <2>1. PICK deleted \in SUBSET op.batch : cached' = cached \ deleted /\ op' = [op EXCEPT !.pc = Verdict(deleted)]
    BY <1>10 DEF Uncache
  <2>2. /\ op' \in SessionOps /\ op.pc = "uncache" /\ op'.pc \in {"rows", "failed"}
        /\ op'.pc = "rows" => deleted = op.batch
        /\ op'.kind = op.kind /\ op'.batch = op.batch /\ op'.previous = op.previous /\ op'.dead = op.dead
        /\ UNCHANGED <<rows, listed, fresh, signing, stranded, delisted>>
    BY <1>0, <1>10, <2>1 DEF Uncache, Verdict, Landed, SessionOps, SessionPcs
  <2>3. StoreShape' /\ Placed'
    BY <1>0, <2>1, <2>2 DEF StoreInv, StoreShape, Placed
  <2>4. PurgeFits'
    BY <1>0, <2>1, <2>2 DEF StoreInv, PurgeFits
  <2>5. CopiesFound'
    BY <1>0, <2>1, <2>2 DEF StoreInv, CopiesFound
  <2>6. QED
    BY <2>3, <2>4, <2>5 DEF StoreInv
<1>11. CASE DeleteRows
  <2>1. /\ op' \in SessionOps /\ op.pc = "rows" /\ op'.pc = "find" /\ rows' = rows \ op.batch
        /\ op'.kind = op.kind /\ op'.batch = op.batch /\ op'.previous = op.previous /\ op'.dead = op.dead
        /\ UNCHANGED <<cached, listed, fresh, signing, stranded, delisted>>
    BY <1>0, <1>11 DEF DeleteRows, SessionOps, SessionPcs
  <2>3. StoreShape' /\ Placed'
    BY <1>0, <2>1 DEF StoreInv, StoreShape, Placed
  <2>4. PurgeFits'
    BY <1>0, <2>1 DEF StoreInv, PurgeFits
  <2>5. CopiesFound'
    BY <1>0, <2>1 DEF StoreInv, CopiesFound, PurgeFits
  <2>6. QED
    BY <2>3, <2>4, <2>5 DEF StoreInv
<1>12. CASE ReadList
  <2>1. /\ op' \in SessionOps /\ op.pc = "list" /\ op'.pc \in {"unlist", "failed"}
        /\ op'.kind = op.kind /\ op'.batch = listed /\ op'.previous = op.previous /\ op'.dead = op.dead
        /\ UNCHANGED store
    BY <1>0, <1>12 DEF ReadList, SessionOps, SessionPcs, StoreInv, StoreShape
  <2>2. StoreShape' /\ Placed'
    BY <1>0, <2>1 DEF StoreInv, StoreShape, Placed, store
  <2>3. PurgeFits' /\ CopiesFound'
    BY <1>0, <2>1 DEF StoreInv, PurgeFits, CopiesFound, store
  <2>4. QED
    BY <2>2, <2>3 DEF StoreInv
<1>13. CASE Unlist
  <2>1. PICK deleted \in SUBSET op.batch :
          /\ cached' = cached \ deleted
          /\ listed' \in (IF up THEN {{}} ELSE IF deleted = op.batch THEN {{}, listed} ELSE {listed})
          /\ op' = [op EXCEPT !.pc = IF Landed(deleted) /\ listed' = {} THEN "purged" ELSE "failed"]
    BY <1>13 DEF Unlist
  <2>2. /\ op' \in SessionOps /\ op.pc = "unlist" /\ op'.pc \in {"purged", "failed"}
        /\ op'.pc = "purged" => deleted = op.batch /\ listed' = {}
        /\ op'.kind = op.kind /\ op'.batch = op.batch /\ op'.previous = op.previous /\ op'.dead = op.dead
        /\ UNCHANGED <<rows, fresh, signing, stranded>>
        /\ delisted' = delisted \cup ((listed \ listed') \cap cached')
    BY <1>0, <1>13, <2>1 DEF Unlist, Landed, SessionOps, SessionPcs
  <2>3. listed' \subseteq listed
    BY <2>1
  <2>4. StoreShape' /\ Placed'
    BY <1>0, <2>1, <2>2, <2>3 DEF StoreInv, StoreShape, Placed
  <2>5. PurgeFits'
    BY <1>0, <2>1, <2>2, <2>3 DEF StoreInv, PurgeFits
  <2>6. CopiesFound'
    BY <1>0, <2>1, <2>2, <2>3 DEF StoreInv, CopiesFound, PurgeFits
  <2>7. QED
    BY <2>4, <2>5, <2>6 DEF StoreInv
<1>14. CASE Unlinks
  <2>1. /\ op' \in SessionOps /\ op.pc = "purged" /\ op'.pc = "find" /\ op'.previous = NoToken
        /\ op'.kind = op.kind /\ op'.batch = op.batch /\ op'.dead = op.dead \cup rows
        /\ UNCHANGED store
    BY <1>0, <1>14 DEF Unlinks, SessionOps, SessionPcs, StoreInv, StoreShape
  <2>2. StoreShape' /\ Placed'
    BY <1>0, <2>1, SessionsAssumption DEF StoreInv, StoreShape, Placed, store
  <2>3. PurgeFits' /\ CopiesFound'
    BY <1>0, <2>1, SessionsAssumption DEF StoreInv, StoreShape, PurgeFits, CopiesFound, store
  <2>4. QED
    BY <2>2, <2>3 DEF StoreInv
<1>15. CASE Answers
  <2>1. /\ op' \in SessionOps /\ op.pc = "purged" /\ op'.pc = "done" /\ op'.previous = NoToken
        /\ op'.kind = op.kind /\ op'.batch = {} /\ op'.dead = op.dead /\ UNCHANGED store
    BY <1>0, <1>15 DEF Answers, SessionOps, SessionPcs
  <2>2. StoreShape' /\ Placed'
    BY <1>0, <2>1, SessionsAssumption DEF StoreInv, StoreShape, Placed, store
  <2>3. PurgeFits' /\ CopiesFound'
    BY <1>0, <2>1 DEF StoreInv, PurgeFits, CopiesFound, store
  <2>4. QED
    BY <2>2, <2>3 DEF StoreInv
<1>16. ASSUME NEW p \in Procs, NEW t \in Tokens \cup {NoToken}, FromMemo(p, t) \/ Lookup(p, t) PROVE StoreInv'
  BY <1>1, <1>16 DEF FromMemo, Lookup, sessionVars, store
<1>17. CASE ValkeyFails \/ ValkeyRecovers \/ ClockTicks \/ UNCHANGED sessionVars
  BY <1>1, <1>17 DEF ValkeyFails, ValkeyRecovers, ClockTicks, sessionVars, store
<1>18. QED
  BY <1>2, <1>3, <1>4, <1>5, <1>6, <1>7, <1>8, <1>9, <1>10, <1>11, <1>12, <1>13, <1>14, <1>15, <1>16, <1>17
  DEF SessionsNext

\* Every step keeps what is known of the requests that a guard let through.
LEMMA GuardStep == SessionsInv /\ [SessionsNext]_sessionVars => GuardInv'
<1> SUFFICES ASSUME SessionsInv, [SessionsNext]_sessionVars PROVE GuardInv'
  OBVIOUS
<1> USE SessionsAssumption
<1>0. GuardShape /\ \A p \in Procs : LookFits(p) /\ BeliefFits(p)
  BY DEF SessionsInv, GuardInv
<1>1. ASSUME UNCHANGED <<outages, user, clock, guard>> PROVE GuardInv'
  BY <1>0, <1>1 DEF user, guard, GuardInv, GuardShape, LookFits, BeliefFits
<1>2. CASE ValkeyFails
  <2>1. outages' \in 0..MaxOutages /\ UNCHANGED <<user, clock, guard>>
    BY <1>0, <1>2 DEF ValkeyFails, GuardShape
  <2>2. QED
    BY <1>0, <2>1 DEF user, guard, GuardInv, GuardShape, LookFits, BeliefFits
<1>3. CASE ClockTicks
  <2>1. /\ clock' \in 0..LastNow /\ clock' = clock + 1 /\ UNCHANGED <<outages, user, guard>>
        /\ \A p \in Procs : look[p].since # -1 => clock - look[p].since < Latency
    BY <1>0, <1>3 DEF ClockTicks, GuardShape
  <2>2. GuardShape'
    BY <1>0, <2>1 DEF GuardShape, user, guard
  <2>3. ASSUME NEW p \in Procs PROVE LookFits(p)' /\ BeliefFits(p)'
    <3>1. look[p] \in Looks /\ believed[p] \in Nat /\ clock \in Nat /\ LookFits(p) /\ BeliefFits(p)
      BY <1>0 DEF GuardShape
    <3>2. look'[p] = look[p] /\ believed'[p] = believed[p] /\ banned' = banned /\ bannedAt' = bannedAt
      BY <2>1 DEF user, guard
    <3>3. BeliefFits(p)'
      BY <2>1, <3>1, <3>2 DEF BeliefFits
    <3>4. look[p].since # -1 => look[p].since \in Nat
      BY <3>1 DEF Looks
    <3>5. look[p].since # -1 => look[p].since <= clock' /\ clock' <= look[p].since + Latency
      BY <2>1, <3>1, <3>4 DEF LookFits
    <3>6. LookFits(p)'
      BY <3>1, <3>2, <3>5 DEF LookFits
    <3>7. QED
      BY <3>3, <3>6
  <2>4. QED
    BY <2>2, <2>3 DEF GuardInv
<1>4. ASSUME NEW q \in Procs, NEW t \in Tokens \cup {NoToken}, Lookup(q, t) PROVE GuardInv'
  <2> DEFINE r == [token |-> t, saw |-> banned, since |-> clock]
  <2>1. /\ r \in Looks /\ r.since = clock /\ r.saw = banned /\ clock \in Nat
        /\ look' = [look EXCEPT ![q] = r] /\ UNCHANGED <<outages, user, clock, believed>>
    BY <1>0, <1>4 DEF Lookup, GuardShape, Looks
  <2> HIDE DEF r
  <2>2. /\ look' \in [Procs -> Looks] /\ look'[q] = r /\ \A p \in Procs : p # q => look'[p] = look[p]
    BY <1>0, <2>1 DEF GuardShape
  <2>3. GuardShape'
    BY <1>0, <2>1, <2>2 DEF GuardShape, user
  <2>4. ASSUME NEW p \in Procs PROVE BeliefFits(p)'
    BY <1>0, <2>1 DEF BeliefFits, user
  <2>5. ASSUME NEW p \in Procs, p # q PROVE LookFits(p)'
    BY <1>0, <2>1, <2>2, <2>5 DEF LookFits, user
  <2>6. clock <= clock + Latency
    BY <2>1
  <2>7. LookFits(q)'
    BY <2>1, <2>2, <2>6 DEF LookFits, user
  <2>8. QED
    BY <2>3, <2>4, <2>5, <2>7 DEF GuardInv
<1>5. ASSUME NEW q \in Procs, LookupEnds(q) PROVE GuardInv'
  <2>1. /\ look' = [look EXCEPT ![q] = NoLook] /\ look[q].since # -1 /\ UNCHANGED <<outages, user, clock>>
        /\ \/ look[q].saw /\ believed' = [believed EXCEPT ![q] = 0]
           \/ ~look[q].saw /\ believed' = [believed EXCEPT ![q] = clock + Ttl]
    BY <1>5 DEF LookupEnds
  <2>2. NoLook \in Looks /\ NoLook.since = -1
    BY DEF NoLook, Looks
  <2>3. look' \in [Procs -> Looks] /\ look'[q] = NoLook /\ \A p \in Procs : p # q => look'[p] = look[p]
    BY <1>0, <2>1, <2>2 DEF GuardShape
  <2>4. \A p \in Procs : LookFits(p)'
    BY <1>0, <2>1, <2>2, <2>3 DEF LookFits, user
  <2>5. clock \in Nat /\ bannedAt \in Nat /\ look[q] \in Looks /\ look[q].since \in Nat
    BY <1>0, <2>1 DEF GuardShape, Looks
  <2>6. /\ believed' \in [Procs -> Nat] /\ \A p \in Procs : p # q => believed'[p] = believed[p]
        /\ believed'[q] = 0 \/ (~look[q].saw /\ believed'[q] = clock + Ttl)
    BY <1>0, <2>1, <2>5 DEF GuardShape
  <2>7. ASSUME NEW p \in Procs, p # q PROVE BeliefFits(p)'
    BY <1>0, <2>1, <2>6, <2>7 DEF BeliefFits, user
  <2>8. believed'[q] <= clock + Ttl
    BY <2>5, <2>6
  <2>9. ASSUME banned PROVE believed'[q] <= bannedAt + Latency + Ttl
    <3>1. ~look[q].saw => look[q].since <= bannedAt /\ clock <= look[q].since + Latency
      BY <1>0, <2>1, <2>9 DEF LookFits
    <3>2. QED
      BY <2>5, <2>6, <3>1
  <2>10. BeliefFits(q)'
    BY <2>1, <2>8, <2>9 DEF BeliefFits, user
  <2>11. GuardShape'
    BY <1>0, <2>1, <2>3, <2>6 DEF GuardShape, user
  <2>12. QED
    BY <2>4, <2>7, <2>10, <2>11 DEF GuardInv
<1>6. CASE Bans
  <2>1. /\ bannedAt' = clock /\ banned' = TRUE /\ believed' = [believed EXCEPT ![Home] = 0]
        /\ UNCHANGED <<outages, clock, look>>
    BY <1>6 DEF Bans
  <2>2. clock \in Nat /\ believed' \in [Procs -> Nat]
    BY <1>0, <2>1 DEF GuardShape
  <2>3. GuardShape'
    BY <1>0, <2>1, <2>2 DEF GuardShape
  <2>4. ASSUME NEW p \in Procs PROVE LookFits(p)' /\ BeliefFits(p)'
    <3>1. LookFits(p)'
      BY <1>0, <2>1 DEF LookFits
    <3>2. believed'[p] = 0 \/ believed'[p] = believed[p]
      BY <1>0, <2>1 DEF GuardShape
    <3>3. believed[p] <= clock + Ttl /\ believed[p] \in Nat
      BY <1>0 DEF BeliefFits, GuardShape
    <3>4. believed'[p] <= clock + Ttl /\ believed'[p] <= clock + Latency + Ttl
      BY <2>2, <3>2, <3>3
    <3>5. QED
      BY <2>1, <3>1, <3>4 DEF BeliefFits
  <2>5. QED
    BY <2>3, <2>4 DEF GuardInv
<1>7. CASE Unbans
  <2>1. /\ banned' = FALSE /\ believed' = [believed EXCEPT ![Home] = 0] /\ UNCHANGED <<outages, bannedAt, clock, look>>
    BY <1>7 DEF Unbans
  <2>2. clock \in Nat /\ believed' \in [Procs -> Nat]
    BY <1>0, <2>1 DEF GuardShape
  <2>3. GuardShape'
    BY <1>0, <2>1, <2>2 DEF GuardShape
  <2>4. ASSUME NEW p \in Procs PROVE LookFits(p)' /\ BeliefFits(p)'
    <3>1. LookFits(p)'
      BY <1>0, <2>1 DEF LookFits
    <3>2. believed'[p] = 0 \/ believed'[p] = believed[p]
      BY <1>0, <2>1 DEF GuardShape
    <3>3. believed[p] <= clock + Ttl /\ believed[p] \in Nat
      BY <1>0 DEF BeliefFits, GuardShape
    <3>4. believed'[p] <= clock + Ttl
      BY <2>2, <3>2, <3>3
    <3>5. QED
      BY <2>1, <3>1, <3>4 DEF BeliefFits
  <2>5. QED
    BY <2>3, <2>4 DEF GuardInv
<1>8. CASE Unlinks
  <2>1. UNCHANGED <<outages, banned, bannedAt, clock, believed, look>>
    BY <1>8 DEF Unlinks, guard
  <2>2. QED
    BY <1>0, <2>1 DEF GuardInv, GuardShape, LookFits, BeliefFits
<1>9. ASSUME NEW t \in Tokens, SignInChecked(t) \/ SessionWritten(t) \/ SignOut(t) PROVE GuardInv'
  BY <1>1, <1>9 DEF SignInChecked, SessionWritten, SignOut
<1>10. ASSUME NEW p \in Procs, NEW t \in Tokens \cup {NoToken}, FromMemo(p, t) PROVE GuardInv'
  BY <1>1, <1>10 DEF FromMemo, sessionVars, user, guard
<1>11. ASSUME NEW kind \in {"all", "user", "ban", "unlink"}, Starts(kind) PROVE GuardInv'
  BY <1>1, <1>11 DEF Starts
<1>12. CASE ValkeyRecovers \/ FindRows \/ Uncache \/ DeleteRows \/ ReadList \/ Unlist \/ Answers
  BY <1>1, <1>12 DEF ValkeyRecovers, FindRows, Uncache, DeleteRows, ReadList, Unlist, Answers
<1>13. CASE UNCHANGED sessionVars
  BY <1>1, <1>13 DEF sessionVars, user, guard
<1>14. QED
  BY <1>2, <1>3, <1>4, <1>5, <1>6, <1>7, <1>8, <1>9, <1>10, <1>11, <1>12, <1>13 DEF SessionsNext

\* The invariant gives that revokes and bans hold.
LEMMA SessionsInvSafe == SessionsInv => SessionsSafe
<1> SUFFICES ASSUME SessionsInv PROVE SessionsSafe
  OBVIOUS
<1>1. SessionsTypeOK
  BY DEF SessionsInv, StoreInv, StoreShape, SessionOps, SessionPcs, GuardInv, GuardShape, Placed, SessionsTypeOK
<1>2. RevokedStayGone
  BY DEF SessionsInv, StoreInv, StoreShape, SessionOps, PurgeFits, CopiesFound, RevokedStayGone
<1>3. BanReaches
  <2> SUFFICES ASSUME banned, NEW p \in Procs
      PROVE  /\ believed[p] <= bannedAt + Latency + Ttl
             /\ look[p].since # -1 /\ ~look[p].saw => clock <= bannedAt + Latency
    BY DEF BanReaches
  <2>1. /\ look[p] \in Looks /\ clock \in Nat /\ bannedAt \in Nat /\ believed[p] <= bannedAt + Latency + Ttl
        /\ LookFits(p)
    BY SessionsAssumption DEF SessionsInv, GuardInv, GuardShape, BeliefFits
  <2>2. ASSUME look[p].since # -1, ~look[p].saw PROVE clock <= bannedAt + Latency
    <3>1. look[p].since \in Nat /\ clock <= look[p].since + Latency /\ look[p].since <= bannedAt
      BY <2>1, <2>2 DEF LookFits, Looks
    <3>2. QED
      BY <2>1, <3>1, SessionsAssumption
  <2>3. QED
    BY <2>1, <2>2
<1>4. QED
  BY <1>1, <1>2, <1>3 DEF SessionsSafe

\* Revoked sessions stay gone and a ban reaches every process within the latency and the memo.
THEOREM SessionsHold == SessionsSpec => []SessionsSafe
<1>1. SessionsInv /\ [SessionsNext]_sessionVars => SessionsInv'
  BY StoreStep, GuardStep DEF SessionsInv
<1>2. QED
  BY SessionsInitInv, <1>1, SessionsInvSafe, PTL DEF SessionsSpec

-----------------------------------------------------------------------------
(***************************************************************************)
(* StaffSession, for any pods and sessions: who still has a long expiry    *)
(* is either not yet read again or was let by a racing refresh.            *)
(***************************************************************************)

SessRows == [pc : {"new", "judged", "live", "gone"}, created : Nat \cup {-1}, expires : Nat \cup {-1}]
Memos == [staff : BOOLEAN, until : Nat]
ReadPcs == {"idle", "answer", "refresh", "expire", "classify", "write"}
SessReads == [pc : ReadPcs, s : Sessions \cup {"none"}, staff : BOOLEAN, since : Nat \cup {-1},
              act : {"none", "answer", "refresh", "expire"}]
Hooks == [pc : {"idle", "find", "delete", "done"}, doomed : SUBSET Sessions]

StaffShape ==
    /\ hour \in 0..LastHour /\ staffAt \in Nat \cup {-1} /\ staffAt <= hour
    /\ sess \in [Sessions -> SessRows] /\ knows \in [Pods -> Memos] /\ rd \in [Pods -> SessReads]
    /\ hook \in Hooks /\ served \in [Sessions -> Nat \cup {-1}] /\ tamed \subseteq Sessions
    /\ hook.pc # "idle" => Staff

LongRow(s) == sess[s].expires > sess[s].created + Cap
\* One of those the hook is to end: it was there when the user became staff.
Old(s) == sess[s].created + ReadTime < staffAt

\* The life of one session.
SessFits(s) ==
    /\ sess[s].pc = "new" => sess[s].created = -1 /\ sess[s].expires = -1 /\ served[s] = -1
    /\ sess[s].pc # "new" => sess[s].created \in Nat /\ sess[s].created <= hour /\ sess[s].created <= sess[s].expires
    /\ sess[s].pc = "judged" => hour <= sess[s].created + ReadTime
    /\ served[s] # -1 => sess[s].created <= served[s] /\ served[s] <= hour
    /\ s \in hook.doomed => sess[s].pc \in {"live", "gone"}
\* The long lifetimes: every session of a user who is not staff has one, and one of a staff
\* user was written by something that judged the user before.
LongFits(s) ==
    /\ sess[s].pc \in {"judged", "live"} /\ ~Staff => LongRow(s) /\ sess[s].expires <= hour + Long
    /\ sess[s].pc \in {"judged", "live"} /\ Staff /\ LongRow(s) => sess[s].expires <= staffAt + ReadTime + Long
    /\ sess[s].pc = "live" /\ Staff /\ Old(s) /\ ~LongRow(s) => s \in tamed
    /\ sess[s].pc = "live" /\ hook.pc = "delete" /\ Old(s) /\ LongRow(s) => s \in hook.doomed \cup tamed
    /\ sess[s].pc = "live" /\ hook.pc = "done" /\ Old(s) /\ LongRow(s) => s \in tamed
\* What was answered after the memo and the reads of before ran out was within the cap.
CapFits(s) ==
    served[s] # -1 /\ Staff /\ served[s] > staffAt + MemoTime + 2 * ReadTime =>
        served[s] <= sess[s].created + Cap + ReadTime
\* What a process remembers.
MemoFits(p) ==
    /\ knows[p].until <= hour + MemoTime
    /\ Staff /\ ~knows[p].staff => knows[p].until <= staffAt + ReadTime + MemoTime
\* A read under way, of a session that has a row: what it may still answer.
ReadTimes(p) ==
    rd[p].pc # "idle" =>
        /\ rd[p].s \in Sessions /\ sess[rd[p].s].pc \in {"live", "gone"}
        /\ rd[p].since \in Nat /\ rd[p].since <= hour /\ hour <= rd[p].since + ReadTime
ReadMay(p) ==
    /\ rd[p].pc \in {"answer", "refresh", "write"} /\ Staff /\ rd[p].since > staffAt + MemoTime + ReadTime =>
          rd[p].since <= sess[rd[p].s].created + Cap
    /\ rd[p].pc = "classify" => rd[p].act \in {"answer", "expire"}
    /\ rd[p].pc = "classify" /\ rd[p].act = "answer" => rd[p].since <= sess[rd[p].s].created + Cap
ReadStaff(p) ==
    /\ rd[p].pc \in {"classify", "write"} /\ Staff /\ ~rd[p].staff => rd[p].since <= staffAt
    /\ rd[p].pc \in {"classify", "write"} /\ ~Staff => ~rd[p].staff
ReadFits(p) == ReadTimes(p) /\ ReadMay(p) /\ ReadStaff(p)

StaffInv ==
    /\ StaffShape /\ \A s \in Sessions : SessFits(s) /\ LongFits(s) /\ CapFits(s)
    /\ \A p \in Pods : MemoFits(p) /\ ReadFits(p)

\* Initially there are no staff sessions.
LEMMA StaffInitInv == StaffInit => StaffInv
<1> SUFFICES ASSUME StaffInit PROVE StaffInv
  OBVIOUS
<1> DEFINE r == [pc |-> "new", created |-> -1, expires |-> -1]
           m == [staff |-> FALSE, until |-> 0]
           h == [pc |-> "idle", doomed |-> {}]
<1>1. r \in SessRows /\ r.pc = "new" /\ r.created = -1 /\ r.expires = -1
  BY DEF SessRows
<1>2. m \in Memos /\ m.until = 0
  BY DEF Memos
<1>3. h \in Hooks /\ h.pc = "idle" /\ h.doomed = {}
  BY DEF Hooks
<1>4. NoRead \in SessReads /\ NoRead.pc = "idle"
  BY DEF NoRead, SessReads, ReadPcs
<1>5. /\ hour = 0 /\ staffAt = -1 /\ sess = [s \in Sessions |-> r] /\ knows = [p \in Pods |-> m]
      /\ rd = [p \in Pods |-> NoRead] /\ hook = h /\ served = [s \in Sessions |-> -1] /\ tamed = {}
  BY DEF StaffInit
<1> HIDE DEF r, m, h
<1>6. StaffShape
  BY <1>1, <1>2, <1>3, <1>4, <1>5, StaffAssumption DEF StaffShape
<1>7. \A s \in Sessions : SessFits(s) /\ LongFits(s) /\ CapFits(s)
  BY <1>1, <1>3, <1>5 DEF SessFits, LongFits, CapFits
<1>8. \A p \in Pods : MemoFits(p) /\ ReadFits(p)
  BY <1>2, <1>4, <1>5, StaffAssumption DEF MemoFits, ReadFits, ReadTimes, ReadMay, ReadStaff, Staff
<1>9. QED
  BY <1>6, <1>7, <1>8 DEF StaffInv

\* What every step uses of the types.
LEMMA StaffTypes ==
  ASSUME StaffInv
  PROVE  /\ hour \in Nat /\ staffAt \in Int /\ {Cap, Long, UpdateAge, MemoTime, ReadTime, LastHour} \subseteq Nat
         /\ Cap < Long /\ \A s \in Sessions : sess[s].created \in Int /\ sess[s].expires \in Int
                                              /\ served[s] \in Int /\ sess[s] \in SessRows
         /\ \A p \in Pods : knows[p] \in Memos /\ rd[p] \in SessReads /\ knows[p].until \in Nat
                            /\ rd[p].since \in Int /\ rd[p].staff \in BOOLEAN /\ knows[p].staff \in BOOLEAN
<1>1. {Cap, Long, UpdateAge, MemoTime, ReadTime, LastHour} \subseteq Nat /\ Cap < Long /\ StaffShape
  BY StaffAssumption DEF StaffInv
<1>2. hour \in Nat /\ staffAt \in Int
  BY <1>1 DEF StaffShape
<1>3. ASSUME NEW s \in Sessions
      PROVE  sess[s].created \in Int /\ sess[s].expires \in Int /\ served[s] \in Int /\ sess[s] \in SessRows
  <2>1. sess[s] \in SessRows /\ served[s] \in Nat \cup {-1}
    BY <1>1 DEF StaffShape
  <2>2. QED
    BY <2>1 DEF SessRows
<1>4. ASSUME NEW p \in Pods
      PROVE  knows[p] \in Memos /\ rd[p] \in SessReads /\ knows[p].until \in Nat /\ rd[p].since \in Int
             /\ rd[p].staff \in BOOLEAN /\ knows[p].staff \in BOOLEAN
  <2>1. knows[p] \in Memos /\ rd[p] \in SessReads
    BY <1>1 DEF StaffShape
  <2>2. QED
    BY <2>1 DEF Memos, SessReads
<1>5. QED
  BY <1>1, <1>2, <1>3, <1>4

\* A read that does not move, and whose session keeps its creation and its row.
LEMMA ReadKept ==
  ASSUME StaffInv, NEW p \in Pods, UNCHANGED <<hour, staffAt>>, rd'[p] = rd[p],
         \A s \in Sessions : sess[s].pc \in {"live", "gone"} =>
             sess'[s].pc \in {"live", "gone"} /\ sess'[s].created = sess[s].created
  PROVE  ReadFits(p)'
<1>1. ReadFits(p)
  BY DEF StaffInv
<1>2. ReadTimes(p)' /\ ReadStaff(p)'
  BY <1>1 DEF ReadFits, ReadTimes, ReadStaff, Staff
<1>3. CASE rd[p].pc = "idle"
  BY <1>2, <1>3 DEF ReadFits, ReadMay
<1>4. CASE rd[p].pc # "idle"
  <2>1. sess'[rd[p].s].created = sess[rd[p].s].created
    BY <1>1, <1>4 DEF ReadFits, ReadTimes
  <2>2. ReadMay(p)'
    BY <1>1, <2>1 DEF ReadFits, ReadMay, Staff
  <2>3. QED
    BY <1>2, <2>2 DEF ReadFits
<1>5. QED
  BY <1>3, <1>4

\* Every step of the pods and the clock keeps the invariant of the staff sessions.
LEMMA StaffStepInv == StaffInv /\ [StaffNext]_staffVars => StaffInv'
<1> SUFFICES ASSUME StaffInv, [StaffNext]_staffVars PROVE StaffInv'
  OBVIOUS
<1> USE StaffTypes
<1>0. /\ StaffShape /\ \A s \in Sessions : SessFits(s) /\ LongFits(s) /\ CapFits(s)
      /\ \A p \in Pods : MemoFits(p) /\ ReadFits(p)
  BY DEF StaffInv
<1>1. CASE HourPasses
  <2>1. /\ hour' = hour + 1 /\ hour' \in 0..LastHour /\ UNCHANGED <<staffAt, sess, knows, rd, hook, served, tamed>>
        /\ \A p \in Pods : rd[p].since # -1 => hour - rd[p].since < ReadTime
        /\ \A s \in Sessions : sess[s].pc = "judged" => hour - sess[s].created < ReadTime
    <3>1. hour < LastHour /\ hour' = hour + 1 /\ UNCHANGED <<staffAt, sess, knows, rd, hook, served, tamed>>
      BY <1>1 DEF HourPasses
    <3>2. hour' \in 0..LastHour
      BY <3>1
    <3>3. \A p \in Pods : rd[p].since # -1 => hour - rd[p].since < ReadTime
      BY <1>1 DEF HourPasses, Busy
    <3>4. \A s \in Sessions : sess[s].pc = "judged" => hour - sess[s].created < ReadTime
      BY <1>1 DEF HourPasses
    <3>5. QED
      BY <3>1, <3>2, <3>3, <3>4
  <2>2. StaffShape'
    BY <1>0, <2>1 DEF StaffShape, Staff
  <2>3. ASSUME NEW s \in Sessions PROVE SessFits(s)' /\ LongFits(s)' /\ CapFits(s)'
    <3>1. SessFits(s)'
      BY <1>0, <2>1 DEF SessFits
    <3>2. LongFits(s)'
      BY <1>0, <2>1 DEF LongFits, LongRow, Old, Staff
    <3>3. CapFits(s)'
      BY <1>0, <2>1 DEF CapFits, Staff
    <3>4. QED
      BY <3>1, <3>2, <3>3
  <2>4. ASSUME NEW p \in Pods PROVE MemoFits(p)' /\ ReadFits(p)'
    <3>1. MemoFits(p)'
      BY <1>0, <2>1 DEF MemoFits, Staff
    <3>2. ReadTimes(p)'
      BY <1>0, <2>1 DEF ReadFits, ReadTimes
    <3>3. ReadMay(p)' /\ ReadStaff(p)'
      BY <1>0, <2>1 DEF ReadFits, ReadMay, ReadStaff, Staff
    <3>4. QED
      BY <3>1, <3>2, <3>3 DEF ReadFits
  <2>5. QED
    BY <2>2, <2>3, <2>4 DEF StaffInv
<1>2. ASSUME NEW s \in Sessions, CreateBefore(s) PROVE StaffInv'
  <2> DEFINE e == Clamp(hour, hour + Long)
             r == [pc |-> "judged", created |-> hour, expires |-> e]
  <2>1. sess[s].pc = "new" /\ sess' = [sess EXCEPT ![s] = r] /\ UNCHANGED <<hour, staffAt, knows, rd, hook, served, tamed>>
    BY <1>2 DEF CreateBefore
  <2>2. e \in Nat /\ hour <= e /\ (~Staff => e = hour + Long) /\ (Staff => e <= hour + Cap)
    BY DEF Clamp, Earliest
  <2> HIDE DEF e
  <2>3. r \in SessRows /\ r.pc = "judged" /\ r.created = hour /\ r.expires = e
    BY <2>2 DEF SessRows
  <2> HIDE DEF r
  <2>4. sess' \in [Sessions -> SessRows] /\ sess'[s] = r /\ \A o \in Sessions : o # s => sess'[o] = sess[o]
    BY <1>0, <2>1, <2>3 DEF StaffShape
  <2>5. StaffShape'
    BY <1>0, <2>1, <2>4 DEF StaffShape, Staff
  <2>6. ASSUME NEW o \in Sessions, o # s PROVE SessFits(o)' /\ LongFits(o)' /\ CapFits(o)'
    BY <1>0, <2>1, <2>4, <2>6 DEF SessFits, LongFits, CapFits, LongRow, Old, Staff
  <2>7. SessFits(s)'
    BY <1>0, <2>1, <2>2, <2>3, <2>4 DEF SessFits
  <2>8. LongFits(s)'
    BY <1>0, <2>1, <2>2, <2>3, <2>4 DEF LongFits, LongRow, Old, Staff
  <2>9. CapFits(s)'
    BY <1>0, <2>1 DEF CapFits, SessFits
  <2>10. ASSUME NEW p \in Pods PROVE MemoFits(p)' /\ ReadFits(p)'
    <3>1. MemoFits(p)'
      BY <1>0, <2>1 DEF MemoFits, Staff
    <3>2. \A o \in Sessions : sess[o].pc \in {"live", "gone"} =>
             sess'[o].pc \in {"live", "gone"} /\ sess'[o].created = sess[o].created
      BY <2>1, <2>4
    <3>3. QED
      BY <2>1, <3>1, <3>2, ReadKept
  <2>11. QED
    BY <2>5, <2>6, <2>7, <2>8, <2>9, <2>10 DEF StaffInv
<1>3. ASSUME NEW s \in Sessions, Inserted(s) PROVE StaffInv'
  <2>1. sess[s].pc = "judged" /\ sess' = [sess EXCEPT ![s].pc = "live"] /\ UNCHANGED <<hour, staffAt, knows, rd, hook, served, tamed>>
    BY <1>3 DEF Inserted
  <2>2. sess[s] \in SessRows
    OBVIOUS
  <2>4. /\ sess' \in [Sessions -> SessRows] /\ sess'[s].pc = "live" /\ sess'[s].created = sess[s].created
        /\ sess'[s].expires = sess[s].expires /\ \A o \in Sessions : o # s => sess'[o] = sess[o]
    BY <1>0, <2>1, <2>2 DEF StaffShape, SessRows
  <2>5. StaffShape'
    BY <1>0, <2>1, <2>4 DEF StaffShape, Staff
  <2>6. ASSUME NEW o \in Sessions, o # s PROVE SessFits(o)' /\ LongFits(o)' /\ CapFits(o)'
    BY <1>0, <2>1, <2>4, <2>6 DEF SessFits, LongFits, CapFits, LongRow, Old, Staff
  <2>7. SessFits(s)' /\ CapFits(s)'
    BY <1>0, <2>1, <2>4 DEF SessFits, CapFits, Staff
  <2>12. ~Old(s)'
    BY <1>0, <2>1, <2>4 DEF SessFits, Old, StaffShape
  <2>8. LongFits(s)'
    BY <1>0, <2>1, <2>4, <2>12 DEF LongFits, LongRow, Staff
  <2>10. ASSUME NEW p \in Pods PROVE MemoFits(p)' /\ ReadFits(p)'
    <3>1. MemoFits(p)'
      BY <1>0, <2>1 DEF MemoFits, Staff
    <3>2. \A o \in Sessions : sess[o].pc \in {"live", "gone"} =>
             sess'[o].pc \in {"live", "gone"} /\ sess'[o].created = sess[o].created
      BY <2>1, <2>4
    <3>3. QED
      BY <2>1, <3>1, <3>2, ReadKept
  <2>11. QED
    BY <2>5, <2>6, <2>7, <2>8, <2>10 DEF StaffInv
<1>4. ASSUME NEW q \in Pods, BecomesStaff(q) PROVE StaffInv'
  <2> DEFINE m == [staff |-> TRUE, until |-> hour + MemoTime]
  <2>1. /\ ~Staff /\ staffAt' = hour /\ hook' = [hook EXCEPT !.pc = "find"] /\ knows' = [knows EXCEPT ![q] = m]
        /\ UNCHANGED <<hour, sess, rd, served, tamed>>
    BY <1>4 DEF BecomesStaff
  <2>2. m \in Memos /\ m.staff = TRUE /\ m.until = hour + MemoTime
    BY DEF Memos
  <2> HIDE DEF m
  <2>3. hook' \in Hooks /\ hook'.pc = "find" /\ hook'.doomed = hook.doomed
    BY <1>0, <2>1 DEF StaffShape, Hooks
  <2>4. knows' \in [Pods -> Memos] /\ knows'[q] = m /\ \A p \in Pods : p # q => knows'[p] = knows[p]
    BY <1>0, <2>1, <2>2 DEF StaffShape
  <2>5. Staff' /\ staffAt' \in Nat
    BY <2>1 DEF Staff
  <2>6. StaffShape'
    BY <1>0, <2>1, <2>3, <2>4, <2>5 DEF StaffShape
  <2>7. ASSUME NEW s \in Sessions PROVE SessFits(s)' /\ LongFits(s)' /\ CapFits(s)'
    <3>1. SessFits(s)'
      BY <1>0, <2>1, <2>3 DEF SessFits
    <3>2. CapFits(s)'
      BY <1>0, <2>1 DEF CapFits, SessFits
    <3>3. sess[s].pc \in {"judged", "live"} => LongRow(s) /\ sess[s].expires <= hour + Long
      BY <1>0, <2>1 DEF LongFits
    <3>4. LongFits(s)'
      BY <2>1, <2>3, <2>5, <3>3 DEF LongFits, LongRow
    <3>5. QED
      BY <3>1, <3>2, <3>4
  <2>8. ASSUME NEW p \in Pods PROVE MemoFits(p)' /\ ReadFits(p)'
    <3>1. ReadTimes(p)'
      BY <1>0, <2>1 DEF ReadFits, ReadTimes
    <3>2. rd[p].pc # "idle" => rd[p].since <= hour
      BY <1>0 DEF ReadFits, ReadTimes
    <3>3. ReadMay(p)'
      BY <1>0, <2>1, <3>2 DEF ReadFits, ReadMay
    <3>4. ReadStaff(p)'
      BY <2>1, <2>5, <3>2 DEF ReadStaff
    <3>5. knows[p].until <= hour + MemoTime
      BY <1>0 DEF MemoFits
    <3>6. knows'[p].until <= hour + MemoTime /\ knows'[p].until \in Nat
      BY <2>2, <2>4, <3>5
    <3>8. knows'[p].until <= hour + ReadTime + MemoTime
      BY <3>6
    <3>7. MemoFits(p)'
      BY <2>1, <3>6, <3>8 DEF MemoFits
    <3>9. QED
      BY <3>1, <3>3, <3>4, <3>7 DEF ReadFits
  <2>9. QED
    BY <2>6, <2>7, <2>8 DEF StaffInv
<1>5. CASE RevokeFinds
  <2> DEFINE d == {s \in Sessions : Uncapped(s)}
  <2>1. hook.pc = "find" /\ hook' = [pc |-> "delete", doomed |-> d] /\ UNCHANGED <<hour, staffAt, sess, knows, rd, served, tamed>>
    BY <1>5 DEF RevokeFinds
  <2>2. d \subseteq Sessions /\ \A s \in Sessions : (sess[s].pc = "live" /\ LongRow(s) => s \in d)
                                                 /\ (s \in d => sess[s].pc = "live")
    BY DEF Uncapped, LongRow
  <2> HIDE DEF d
  <2>3. hook' \in Hooks /\ hook'.pc = "delete" /\ hook'.doomed = d /\ Staff
    BY <1>0, <2>1, <2>2 DEF Hooks, StaffShape
  <2>4. StaffShape'
    BY <1>0, <2>1, <2>3 DEF StaffShape, Staff
  <2>5. ASSUME NEW s \in Sessions PROVE SessFits(s)' /\ LongFits(s)' /\ CapFits(s)'
    <3>1. SessFits(s)' /\ CapFits(s)'
      BY <1>0, <2>1, <2>2, <2>3 DEF SessFits, CapFits, Staff
    <3>2. LongFits(s)'
      BY <1>0, <2>1, <2>2, <2>3 DEF LongFits, LongRow, Old, Staff
    <3>3. QED
      BY <3>1, <3>2
  <2>6. ASSUME NEW p \in Pods PROVE MemoFits(p)' /\ ReadFits(p)'
    BY <1>0, <2>1, ReadKept DEF MemoFits, Staff
  <2>7. QED
    BY <2>4, <2>5, <2>6 DEF StaffInv
<1>6. CASE RevokeDeletes
  <2>1. /\ hook.pc = "delete" /\ hook' = [hook EXCEPT !.pc = "done"]
        /\ sess' = [s \in Sessions |-> IF s \in hook.doomed THEN [sess[s] EXCEPT !.pc = "gone"] ELSE sess[s]]
        /\ UNCHANGED <<hour, staffAt, knows, rd, served, tamed>>
    BY <1>6 DEF RevokeDeletes
  <2>2. hook' \in Hooks /\ hook'.pc = "done" /\ hook'.doomed = hook.doomed /\ Staff
    BY <1>0, <2>1 DEF StaffShape, Hooks
  <2>3. ASSUME NEW s \in Sessions
        PROVE  /\ sess'[s] \in SessRows /\ sess'[s].created = sess[s].created /\ sess'[s].expires = sess[s].expires
               /\ sess'[s].pc = IF s \in hook.doomed THEN "gone" ELSE sess[s].pc
    BY <2>1 DEF SessRows
  <2>8. sess' = [s \in Sessions |-> sess'[s]]
    BY <2>1
  <2>9. sess' \in [Sessions -> SessRows]
    BY <2>3, <2>8
  <2>10. ASSUME NEW s \in Sessions, s \in hook.doomed PROVE sess[s].pc # "new"
    BY <1>0, <2>10 DEF SessFits
  <2>4. StaffShape'
    BY <1>0, <2>1, <2>2, <2>9 DEF StaffShape, Staff
  <2>5. ASSUME NEW s \in Sessions PROVE SessFits(s)' /\ LongFits(s)' /\ CapFits(s)'
    <3>1. SessFits(s)' /\ CapFits(s)'
      BY <1>0, <2>1, <2>2, <2>3, <2>10 DEF SessFits, CapFits, Staff
    <3>2. LongFits(s)'
      BY <1>0, <2>1, <2>2, <2>3 DEF LongFits, LongRow, Old, Staff
    <3>3. QED
      BY <3>1, <3>2
  <2>6. ASSUME NEW p \in Pods PROVE MemoFits(p)' /\ ReadFits(p)'
    <3>1. \A s \in Sessions : sess[s].pc \in {"live", "gone"} =>
             sess'[s].pc \in {"live", "gone"} /\ sess'[s].created = sess[s].created
      BY <2>3
    <3>2. QED
      BY <1>0, <2>1, <3>1, ReadKept DEF MemoFits, Staff
  <2>7. QED
    BY <2>4, <2>5, <2>6 DEF StaffInv
<1>7. ASSUME NEW q \in Pods, NEW s \in Sessions, FindSession(q, s) PROVE StaffInv'
  <2>1. Alive(s) /\ UNCHANGED <<hour, staffAt, sess, knows, hook, served, tamed>>
    BY <1>7 DEF FindSession
  <2>2. sess[s].pc = "live" /\ (MustDie(s) \/ hour <= sess[s].created + Cap)
    BY <2>1 DEF Alive, MustDie
  <2>3. PICK r \in SessReads :
          /\ rd' = [rd EXCEPT ![q] = r] /\ r.s = s /\ r.since = hour
          /\ r.pc \in {"answer", "refresh", "expire", "classify"}
          /\ r.pc \in {"answer", "refresh"} => (~MustDie(s) \/ (knows[q].until > hour /\ ~knows[q].staff))
          /\ r.pc = "classify" => r.act \in {"answer", "expire"} /\ (r.act = "answer" => ~MustDie(s)) /\ r.staff = Staff
    <3>1. CASE ~MustDie(s) /\ ~Skippable(s)
      <4> DEFINE a == IF Due(s) THEN "refresh" ELSE "answer"
                 r == [pc |-> a, s |-> s, staff |-> FALSE, since |-> hour, act |-> a]
      <4>1. rd' = [rd EXCEPT ![q] = r]
        BY <1>7, <3>1 DEF FindSession, ReadFound
      <4>2. a \in {"answer", "refresh"}
        OBVIOUS
      <4> HIDE DEF a
      <4>3. r \in SessReads /\ r.s = s /\ r.since = hour /\ r.pc = a
        BY <4>2 DEF SessReads, ReadPcs
      <4> HIDE DEF r
      <4>4. QED
        BY <3>1, <4>1, <4>2, <4>3
    <3>2. CASE ~(~MustDie(s) /\ ~Skippable(s)) /\ knows[q].until > hour
      <4> DEFINE a == IF ~knows[q].staff THEN IF Due(s) THEN "refresh" ELSE "answer"
                                 ELSE IF MustDie(s) THEN "expire" ELSE "answer"
                 r == [pc |-> a, s |-> s, staff |-> FALSE, since |-> hour, act |-> a]
      <4>1. rd' = [rd EXCEPT ![q] = r]
        BY <1>7, <3>2 DEF FindSession, ReadFound
      <4>2. a \in {"answer", "refresh", "expire"} /\ (a \in {"answer", "refresh"} => ~MustDie(s) \/ ~knows[q].staff)
        OBVIOUS
      <4> HIDE DEF a
      <4>3. r \in SessReads /\ r.s = s /\ r.since = hour /\ r.pc = a
        BY <4>2 DEF SessReads, ReadPcs
      <4> HIDE DEF r
      <4>5. /\ r.pc \in {"answer", "refresh", "expire", "classify"}
            /\ r.pc \in {"answer", "refresh"} => (~MustDie(s) \/ (knows[q].until > hour /\ ~knows[q].staff))
            /\ r.pc = "classify" => r.act \in {"answer", "expire"} /\ (r.act = "answer" => ~MustDie(s)) /\ r.staff = Staff
        BY <3>2, <4>2, <4>3
      <4>4. QED
        BY <4>1, <4>3, <4>5
    <3>3. CASE ~(~MustDie(s) /\ ~Skippable(s)) /\ ~(knows[q].until > hour)
      <4> DEFINE a == IF MustDie(s) THEN "expire" ELSE "answer"
                 b == Staff
                 r == [pc |-> "classify", s |-> s, staff |-> b, since |-> hour, act |-> a]
      <4>1. rd' = [rd EXCEPT ![q] = r]
        BY <1>7, <3>3 DEF FindSession
      <4>2. a \in {"answer", "expire"} /\ (a = "answer" => ~MustDie(s)) /\ b \in BOOLEAN /\ b = Staff
        BY DEF Staff
      <4> HIDE DEF a, b
      <4>3. r \in SessReads /\ r.s = s /\ r.since = hour /\ r.pc = "classify" /\ r.act = a /\ r.staff = b
        BY <4>2 DEF SessReads, ReadPcs
      <4> HIDE DEF r
      <4>5. r.act \in {"answer", "expire"} /\ (r.act = "answer" => ~MustDie(s)) /\ r.staff = Staff
        BY <4>2, <4>3
      <4>4. QED
        BY <4>1, <4>3, <4>5
    <3>4. QED
      BY <3>1, <3>2, <3>3
  <2>4. rd' \in [Pods -> SessReads] /\ rd'[q] = r /\ \A p \in Pods : p # q => rd'[p] = rd[p]
    BY <1>0, <2>3 DEF StaffShape
  <2>5. StaffShape'
    BY <1>0, <2>1, <2>4 DEF StaffShape, Staff
  <2>6. ASSUME NEW o \in Sessions PROVE SessFits(o)' /\ LongFits(o)' /\ CapFits(o)'
    BY <1>0, <2>1 DEF SessFits, LongFits, CapFits, LongRow, Old, Staff
  <2>7. ASSUME NEW p \in Pods PROVE MemoFits(p)'
    BY <1>0, <2>1 DEF MemoFits, Staff
  <2>8. ASSUME NEW p \in Pods, p # q PROVE ReadFits(p)'
    BY <1>0, <2>1, <2>4, <2>8, ReadKept
  <2>9. ReadTimes(q)'
    BY <2>1, <2>2, <2>3, <2>4 DEF ReadTimes
  <2>10. ReadStaff(q)'
    <3>1. r.pc # "write" /\ (r.pc = "classify" => r.staff = Staff)
      BY <2>3
    <3>2. QED
      BY <2>1, <2>4, <3>1 DEF ReadStaff, Staff
  <2>11. ReadMay(q)'
    <3>1. ASSUME r.pc \in {"answer", "refresh"}, Staff, hour > staffAt + MemoTime + ReadTime PROVE hour <= sess[s].created + Cap
      <4>1. ~knows[q].staff => knows[q].until <= staffAt + ReadTime + MemoTime
        BY <1>0, <3>1 DEF MemoFits
      <4>2. ~MustDie(s) \/ (knows[q].until > hour /\ ~knows[q].staff)
        BY <2>3, <3>1
      <4>3. ~MustDie(s)
        BY <3>1, <4>1, <4>2
      <4>4. QED
        BY <2>2, <4>3
    <3>2. r.pc = "classify" => r.act \in {"answer", "expire"} /\ (r.act = "answer" => hour <= sess[s].created + Cap)
      BY <2>2, <2>3
    <3>3. r.pc # "write" /\ r.s = s /\ r.since = hour
      BY <2>3
    <3>4. QED
      BY <2>1, <2>4, <3>1, <3>2, <3>3 DEF ReadMay, Staff
  <2>12. QED
    BY <2>5, <2>6, <2>7, <2>8, <2>9, <2>10, <2>11 DEF StaffInv, ReadFits
<1>8. ASSUME NEW q \in Pods, Classified(q) PROVE StaffInv'
  <2> DEFINE m == [staff |-> rd[q].staff, until |-> hour + MemoTime]
             a == IF rd[q].staff THEN rd[q].act ELSE IF Due(rd[q].s) THEN "refresh" ELSE "answer"
  <2>1. /\ rd[q].pc = "classify" /\ knows' = [knows EXCEPT ![q] = m] /\ rd' = [rd EXCEPT ![q].pc = a]
        /\ UNCHANGED <<hour, staffAt, sess, hook, served, tamed>>
    BY <1>8 DEF Classified, Remember
  <2>2. m \in Memos /\ m.staff = rd[q].staff /\ m.until = hour + MemoTime
    BY DEF Memos
  <2> HIDE DEF m
  <2>3. rd[q] \in SessReads /\ ReadFits(q) /\ rd[q].act \in {"answer", "expire"}
    BY <1>0, <2>1 DEF ReadFits, ReadMay
  <2>4. a \in {"answer", "refresh", "expire"} /\ (rd[q].staff => a = rd[q].act)
    BY <2>3
  <2> HIDE DEF a
  <2>5. /\ rd' \in [Pods -> SessReads] /\ \A p \in Pods : p # q => rd'[p] = rd[p]
        /\ rd'[q].pc = a /\ rd'[q].s = rd[q].s /\ rd'[q].since = rd[q].since
    BY <1>0, <2>1, <2>3, <2>4 DEF StaffShape, SessReads, ReadPcs
  <2>6. knows' \in [Pods -> Memos] /\ knows'[q] = m /\ \A p \in Pods : p # q => knows'[p] = knows[p]
    BY <1>0, <2>1, <2>2 DEF StaffShape
  <2>7. StaffShape'
    BY <1>0, <2>1, <2>5, <2>6 DEF StaffShape, Staff
  <2>8. ASSUME NEW o \in Sessions PROVE SessFits(o)' /\ LongFits(o)' /\ CapFits(o)'
    BY <1>0, <2>1 DEF SessFits, LongFits, CapFits, LongRow, Old, Staff
  <2>9. ASSUME NEW p \in Pods, p # q PROVE MemoFits(p)' /\ ReadFits(p)'
    <3>1. MemoFits(p)'
      BY <1>0, <2>1, <2>6, <2>9 DEF MemoFits, Staff
    <3>2. QED
      BY <1>0, <2>1, <2>5, <2>9, <3>1, ReadKept
  <2>10. rd[q].since \in Nat /\ hour <= rd[q].since + ReadTime
    BY <2>1, <2>3 DEF ReadFits, ReadTimes
  <2>11. Staff /\ ~rd[q].staff => rd[q].since <= staffAt
    BY <2>1, <2>3 DEF ReadFits, ReadStaff
  <2>12. Staff /\ ~rd[q].staff => hour + MemoTime <= staffAt + ReadTime + MemoTime
    BY <2>10, <2>11
  <2>13. MemoFits(q)'
    <3>1. knows'[q].until = hour + MemoTime /\ knows'[q].staff = rd[q].staff
      BY <2>2, <2>6
    <3>2. hour + MemoTime <= hour + MemoTime
      OBVIOUS
    <3>3. QED
      BY <2>1, <2>12, <3>1, <3>2 DEF MemoFits, Staff
  <2>14. ReadTimes(q)'
    BY <2>1, <2>3, <2>5 DEF ReadFits, ReadTimes
  <2>15. ReadStaff(q)'
    BY <2>4, <2>5 DEF ReadStaff
  <2>16. ReadMay(q)'
    <3>1. rd[q].act = "answer" => rd[q].since <= sess[rd[q].s].created + Cap
      BY <2>1, <2>3 DEF ReadFits, ReadMay
    <3>2. ASSUME a \in {"answer", "refresh"}, Staff, rd[q].since > staffAt + MemoTime + ReadTime
          PROVE  rd[q].since <= sess[rd[q].s].created + Cap
      <4>1. rd[q].staff
        BY <2>10, <2>11, <3>2
      <4>2. QED
        BY <2>3, <2>4, <3>1, <3>2, <4>1
    <3>3. QED
      BY <2>1, <2>4, <2>5, <3>2 DEF ReadMay, Staff
  <2>17. QED
    BY <2>7, <2>8, <2>9, <2>13, <2>14, <2>15, <2>16 DEF StaffInv, ReadFits
<1>9. ASSUME NEW q \in Pods, UpdateBefore(q) PROVE StaffInv'
  <2>1. /\ rd[q].pc = "refresh" /\ rd' = [rd EXCEPT ![q].pc = "write", ![q].staff = Staff]
        /\ UNCHANGED <<hour, staffAt, sess, knows, hook, served, tamed>>
    BY <1>9 DEF UpdateBefore
  <2>2. rd[q] \in SessReads /\ ReadFits(q) /\ Staff \in BOOLEAN
    BY <1>0 DEF Staff
  <2>5. /\ rd' \in [Pods -> SessReads] /\ \A p \in Pods : p # q => rd'[p] = rd[p]
        /\ rd'[q].pc = "write" /\ rd'[q].s = rd[q].s /\ rd'[q].since = rd[q].since /\ rd'[q].staff = Staff
    BY <1>0, <2>1, <2>2 DEF StaffShape, SessReads, ReadPcs
  <2>7. StaffShape'
    BY <1>0, <2>1, <2>5 DEF StaffShape, Staff
  <2>8. ASSUME NEW o \in Sessions PROVE SessFits(o)' /\ LongFits(o)' /\ CapFits(o)'
    BY <1>0, <2>1 DEF SessFits, LongFits, CapFits, LongRow, Old, Staff
  <2>9. ASSUME NEW p \in Pods, p # q PROVE ReadFits(p)'
    BY <1>0, <2>1, <2>5, <2>9, ReadKept
  <2>10. ASSUME NEW p \in Pods PROVE MemoFits(p)'
    BY <1>0, <2>1 DEF MemoFits, Staff
  <2>14. ReadTimes(q)' /\ ReadMay(q)'
    BY <2>1, <2>2, <2>5 DEF ReadFits, ReadTimes, ReadMay, Staff
  <2>15. ReadStaff(q)'
    BY <2>1, <2>5 DEF ReadStaff, Staff
  <2>17. QED
    BY <2>7, <2>8, <2>9, <2>10, <2>14, <2>15 DEF StaffInv, ReadFits
\* The end of a read: what it served was within the cap or soon after the change.
<1>10. ASSUME NEW q \in Pods, rd[q].pc \in {"answer", "write"}
       PROVE  /\ rd[q].s \in Sessions /\ sess[rd[q].s].pc \in {"live", "gone"}
              /\ Staff /\ hour > staffAt + MemoTime + 2 * ReadTime => hour <= sess[rd[q].s].created + Cap + ReadTime
  <2>1. ReadFits(q)
    BY <1>0
  <2>2. /\ rd[q].s \in Sessions /\ sess[rd[q].s].pc \in {"live", "gone"}
        /\ rd[q].since \in Nat /\ hour <= rd[q].since + ReadTime
    BY <1>10, <2>1 DEF ReadFits, ReadTimes
  <2>3. Staff /\ rd[q].since > staffAt + MemoTime + ReadTime => rd[q].since <= sess[rd[q].s].created + Cap
    BY <1>10, <2>1 DEF ReadFits, ReadMay
  <2>4. QED
    BY <2>2, <2>3
<1>11. NoRead \in SessReads /\ NoRead.pc = "idle"
  BY DEF NoRead, SessReads, ReadPcs
<1>12. ASSUME NEW q \in Pods, rd' = [rd EXCEPT ![q] = NoRead], UNCHANGED <<hour, staffAt>>,
              \A s \in Sessions : sess[s].pc \in {"live", "gone"} =>
                 sess'[s].pc \in {"live", "gone"} /\ sess'[s].created = sess[s].created
       PROVE  rd' \in [Pods -> SessReads] /\ \A p \in Pods : ReadFits(p)'
  <2>1. rd' \in [Pods -> SessReads] /\ rd'[q] = NoRead /\ \A p \in Pods : p # q => rd'[p] = rd[p]
    BY <1>0, <1>11, <1>12 DEF StaffShape
  <2>2. ReadFits(q)'
    BY <1>11, <2>1 DEF ReadFits, ReadTimes, ReadMay, ReadStaff
  <2>3. ASSUME NEW p \in Pods, p # q PROVE ReadFits(p)'
    BY <1>12, <2>1, <2>3, ReadKept
  <2>4. QED
    BY <2>1, <2>2, <2>3
<1>13. ASSUME NEW q \in Pods, Answer(q) PROVE StaffInv'
  <2>1. /\ rd[q].pc = "answer" /\ served' = [served EXCEPT ![rd[q].s] = hour] /\ rd' = [rd EXCEPT ![q] = NoRead]
        /\ UNCHANGED <<hour, staffAt, sess, knows, hook, tamed>>
    BY <1>13 DEF Answer, Served
  <2>2. rd' \in [Pods -> SessReads] /\ \A p \in Pods : ReadFits(p)'
    BY <1>12, <2>1
  <2>3. PICK s \in Sessions : s = rd[q].s
    BY <1>10, <2>1
  <2>4. /\ served' \in [Sessions -> Nat \cup {-1}] /\ served'[s] = hour
        /\ \A o \in Sessions : o # s => served'[o] = served[o]
    BY <1>0, <2>1, <2>3 DEF StaffShape
  <2>5. StaffShape'
    BY <1>0, <2>1, <2>2, <2>4 DEF StaffShape, Staff
  <2>6. ASSUME NEW o \in Sessions PROVE LongFits(o)'
    BY <1>0, <2>1 DEF LongFits, LongRow, Old, Staff
  <2>7. ASSUME NEW o \in Sessions, o # s PROVE SessFits(o)' /\ CapFits(o)'
    BY <1>0, <2>1, <2>4, <2>7 DEF SessFits, CapFits, Staff
  <2>8. sess[s].pc \in {"live", "gone"} /\ (Staff /\ hour > staffAt + MemoTime + 2 * ReadTime => hour <= sess[s].created + Cap + ReadTime)
    BY <1>10, <2>1, <2>3
  <2>9. SessFits(s)'
    BY <1>0, <2>1, <2>4, <2>8 DEF SessFits
  <2>10. CapFits(s)'
    BY <2>1, <2>4, <2>8 DEF CapFits, Staff
  <2>11. ASSUME NEW p \in Pods PROVE MemoFits(p)'
    BY <1>0, <2>1 DEF MemoFits, Staff
  <2>12. QED
    BY <2>2, <2>5, <2>6, <2>7, <2>9, <2>10, <2>11 DEF StaffInv
<1>14. ASSUME NEW q \in Pods, Expire(q) PROVE StaffInv'
  <2>1. /\ rd[q].pc = "expire" /\ sess' = [sess EXCEPT ![rd[q].s].pc = "gone"] /\ rd' = [rd EXCEPT ![q] = NoRead]
        /\ UNCHANGED <<hour, staffAt, served, knows, hook, tamed>>
    BY <1>14 DEF Expire
  <2>2. rd[q].s \in Sessions /\ sess[rd[q].s].pc \in {"live", "gone"}
    BY <1>0, <2>1 DEF ReadFits, ReadTimes
  <2>3. PICK s \in Sessions : s = rd[q].s
    BY <2>2
  <2>4. sess[s] \in SessRows /\ sess[s].pc \in {"live", "gone"} /\ sess' = [sess EXCEPT ![s].pc = "gone"]
    BY <2>1, <2>2, <2>3
  <2>5. /\ sess' \in [Sessions -> SessRows] /\ sess'[s].pc = "gone" /\ sess'[s].created = sess[s].created
        /\ sess'[s].expires = sess[s].expires /\ \A o \in Sessions : o # s => sess'[o] = sess[o]
    BY <1>0, <2>4 DEF StaffShape, SessRows
  <2>6. rd' \in [Pods -> SessReads] /\ \A p \in Pods : ReadFits(p)'
    BY <1>12, <2>1, <2>4, <2>5
  <2>7. StaffShape'
    BY <1>0, <2>1, <2>5, <2>6 DEF StaffShape, Staff
  <2>8. ASSUME NEW o \in Sessions, o # s PROVE SessFits(o)' /\ LongFits(o)' /\ CapFits(o)'
    <3>0. SessFits(o) /\ sess'[o] = sess[o] /\ served' = served /\ hour' = hour /\ hook' = hook
      BY <1>0, <2>1, <2>5, <2>8
    <3>1. SessFits(o)'
      BY <3>0 DEF SessFits
    <3>2. CapFits(o)'
      BY <1>0, <2>1, <2>5, <2>8 DEF CapFits, Staff
    <3>3. LongFits(o)'
      BY <1>0, <2>1, <2>5, <2>8 DEF LongFits, LongRow, Old, Staff
    <3>5. QED
      BY <3>1, <3>2, <3>3
  <2>9. SessFits(s)' /\ LongFits(s)' /\ CapFits(s)'
    BY <1>0, <2>1, <2>4, <2>5 DEF SessFits, LongFits, CapFits, Staff
  <2>11. ASSUME NEW p \in Pods PROVE MemoFits(p)'
    BY <1>0, <2>1 DEF MemoFits, Staff
  <2>12. QED
    BY <2>6, <2>7, <2>8, <2>9, <2>11 DEF StaffInv
<1>15. ASSUME NEW q \in Pods, Refresh(q) PROVE StaffInv'
  <2>1. /\ rd[q].pc = "write" /\ served' = [served EXCEPT ![rd[q].s] = hour] /\ rd' = [rd EXCEPT ![q] = NoRead]
        /\ UNCHANGED <<hour, staffAt, knows, hook>>
    BY <1>15 DEF Refresh, Served
  <2>2. PICK s \in Sessions : s = rd[q].s
    BY <1>10, <2>1
  <2>3. /\ sess[s] \in SessRows /\ sess[s].pc \in {"live", "gone"}
        /\ Staff /\ hour > staffAt + MemoTime + 2 * ReadTime => hour <= sess[s].created + Cap + ReadTime
    BY <1>10, <2>1, <2>2
  <2>15. sess[s].created \in Nat /\ sess[s].created <= hour /\ sess[s].created <= sess[s].expires
    BY <1>0, <2>3 DEF SessFits
  <2> DEFINE e == IF sess[s].pc # "live" THEN sess[s].expires
                  ELSE IF rd[q].staff THEN Earliest(hour + Long, sess[s].created + Cap) ELSE hour + Long
  <2>4. sess' = [sess EXCEPT ![s].expires = e] /\ tamed' = (IF rd[q].staff THEN tamed \cup {s} ELSE tamed)
    BY <1>15, <2>2 DEF Refresh
  <2>16. /\ e \in Nat /\ sess[s].created <= e /\ (sess[s].pc # "live" => e = sess[s].expires)
         /\ sess[s].pc = "live" /\ rd[q].staff => e <= sess[s].created + Cap
         /\ sess[s].pc = "live" /\ ~rd[q].staff => e = hour + Long
    BY <2>3, <2>15 DEF Earliest
  <2> HIDE DEF e
  <2>5. /\ sess' \in [Sessions -> SessRows] /\ sess'[s].pc = sess[s].pc /\ sess'[s].created = sess[s].created
        /\ sess'[s].expires = e /\ \A o \in Sessions : o # s => sess'[o] = sess[o]
    BY <1>0, <2>3, <2>4, <2>16 DEF StaffShape, SessRows
  <2>6. rd' \in [Pods -> SessReads] /\ \A p \in Pods : ReadFits(p)'
    BY <1>12, <2>1, <2>3, <2>5
  <2>17. /\ served' \in [Sessions -> Nat \cup {-1}] /\ served'[s] = hour
        /\ \A o \in Sessions : o # s => served'[o] = served[o]
    BY <1>0, <2>1, <2>2 DEF StaffShape
  <2>18. tamed' \subseteq Sessions /\ tamed \subseteq tamed' /\ (rd[q].staff => s \in tamed')
    BY <1>0, <2>4 DEF StaffShape
  <2>7. StaffShape'
    BY <1>0, <2>1, <2>5, <2>6, <2>17, <2>18 DEF StaffShape, Staff
  <2>8. ASSUME NEW o \in Sessions, o # s PROVE SessFits(o)' /\ LongFits(o)' /\ CapFits(o)'
    <3>1. SessFits(o)'
      BY <1>0, <2>1, <2>5, <2>8, <2>17 DEF SessFits
    <3>2. CapFits(o)'
      BY <1>0, <2>1, <2>5, <2>8, <2>17 DEF CapFits, Staff
    <3>3. LongFits(o) /\ sess'[o] = sess[o] /\ (Old(o)' <=> Old(o)) /\ (LongRow(o)' <=> LongRow(o)) /\ (Staff' <=> Staff)
      BY <1>0, <2>1, <2>5, <2>8 DEF Old, LongRow, Staff
    <3>4. LongFits(o)'
      BY <2>1, <2>18, <3>3 DEF LongFits
    <3>5. QED
      BY <3>1, <3>2, <3>4
  <2>9. SessFits(s)'
    BY <1>0, <2>1, <2>3, <2>5, <2>15, <2>16, <2>17 DEF SessFits
  <2>10. CapFits(s)'
    BY <2>1, <2>3, <2>5, <2>17 DEF CapFits, Staff
  <2>11. ASSUME NEW p \in Pods PROVE MemoFits(p)'
    BY <1>0, <2>1 DEF MemoFits, Staff
  <2>12. LongFits(s)'
    <3>1. CASE sess[s].pc # "live"
      BY <2>3, <2>5, <3>1 DEF LongFits
    <3>2. CASE sess[s].pc = "live" /\ rd[q].staff
      <4>1. Staff
        BY <1>0, <2>1, <3>2 DEF ReadFits, ReadStaff
      <4>2. ~LongRow(s)' /\ s \in tamed'
        BY <2>5, <2>16, <2>18, <3>2 DEF LongRow
      <4>3. QED
        BY <2>1, <4>1, <4>2 DEF LongFits, Staff
    <3>3. CASE sess[s].pc = "live" /\ ~rd[q].staff
      <4>1. e = hour + Long /\ LongRow(s)'
        BY <2>5, <2>15, <2>16, <3>3 DEF LongRow
      <4>2. rd[q].since \in Nat /\ hour <= rd[q].since + ReadTime /\ (Staff => rd[q].since <= staffAt)
        BY <1>0, <2>1, <3>3 DEF ReadFits, ReadStaff, ReadTimes
      <4>3. Staff => e <= staffAt + ReadTime + Long
        BY <4>1, <4>2
      <4>4. e <= hour + Long
        BY <4>1
      <4>5. LongFits(s) /\ (Old(s)' <=> Old(s))
        BY <1>0, <2>1, <2>5 DEF Old
      <4>6. hook.pc # "idle" => Staff
        BY <1>0 DEF StaffShape
      <4>7. hook.pc = "delete" /\ Old(s) => s \in hook.doomed \cup tamed
        BY <3>3, <4>5, <4>6 DEF LongFits
      <4>8. hook.pc = "done" /\ Old(s) => s \in tamed
        BY <3>3, <4>5, <4>6 DEF LongFits
      <4>9. QED
        BY <2>1, <2>5, <2>18, <3>3, <4>1, <4>3, <4>4, <4>5, <4>7, <4>8 DEF LongFits, Staff
    <3>4. QED
      BY <3>1, <3>2, <3>3
  <2>13. QED
    BY <2>6, <2>7, <2>8, <2>9, <2>10, <2>11, <2>12 DEF StaffInv
<1>16. CASE UNCHANGED staffVars
  <2>1. UNCHANGED <<hour, staffAt, sess, knows, rd, hook, served, tamed>>
    BY <1>16 DEF staffVars
  <2>2. StaffShape' /\ \A s \in Sessions : SessFits(s)' /\ LongFits(s)' /\ CapFits(s)'
    BY <1>0, <2>1 DEF StaffShape, SessFits, LongFits, CapFits, LongRow, Old, Staff
  <2>3. ASSUME NEW p \in Pods PROVE MemoFits(p)' /\ ReadFits(p)'
    BY <1>0, <2>1, ReadKept DEF MemoFits, Staff
  <2>4. QED
    BY <2>2, <2>3 DEF StaffInv
<1>17. QED
  BY <1>1, <1>2, <1>3, <1>4, <1>5, <1>6, <1>7, <1>8, <1>9, <1>13, <1>14, <1>15, <1>16 DEF StaffNext

\* The invariant gives that staff sessions end in time.
LEMMA StaffInvSafe == StaffInv => StaffSafe
<1> SUFFICES ASSUME StaffInv PROVE StaffSafe
  OBVIOUS
<1> USE StaffTypes
<1>0. /\ StaffShape /\ \A s \in Sessions : SessFits(s) /\ LongFits(s) /\ CapFits(s)
  BY DEF StaffInv
<1>1. CapHolds
  BY <1>0 DEF CapHolds, CapFits
<1>2. hour \in 0..LastHour /\ staffAt \in -1..LastHour /\ hook.pc \in {"idle", "find", "delete", "done"}
  BY <1>0 DEF StaffShape, Hooks
<1>3. ASSUME NEW s \in Sessions
      PROVE  /\ sess[s].pc \in {"new", "judged", "live", "gone"} /\ sess[s].created <= sess[s].expires
             /\ served[s] # -1 => served[s] >= sess[s].created
  BY <1>0 DEF SessFits, SessRows
<1>4. StaffTypeOK
  BY <1>2, <1>3 DEF StaffTypeOK
<1>5. LongSessionsEnd
  <2> SUFFICES ASSUME hook.pc = "done", NEW s \in Sessions, sess[s].pc = "live", LongRow(s), Old(s)
      PROVE  s \in tamed /\ sess[s].expires <= staffAt + ReadTime + Long
    BY DEF LongSessionsEnd, LongRow, Old
  <2>1. Staff
    BY <1>0 DEF StaffShape
  <2>2. QED
    BY <1>0, <2>1 DEF LongFits
<1>6. QED
  BY <1>1, <1>4, <1>5 DEF StaffSafe

\* For any number of pods and sessions a staff session ends by its cap, and the hook leaves a long
\* one only to the race of two refreshes.
THEOREM StaffHolds == StaffSpec => []StaffSafe
  BY StaffInitInv, StaffStepInv, StaffInvSafe, PTL DEF StaffSpec

-----------------------------------------------------------------------------
(***************************************************************************)
(* SessionContext, for any users, hosts and contexts: what a process       *)
(* believes is no older than the last call that saw the membership, and a  *)
(* copy differs from the row only while its writer has yet to look.        *)
(***************************************************************************)

ContextPcs == {"idle", "ask", "believe", "fallback", "write", "set", "reconcile", "settle"}
Runs == [pc : ContextPcs, kind : {"none", "read", "create", "set", "clear"}, host : Hosts \cup {None},
         ctx : Contexts \cup {None}, since : Nat \cup {-1}, failed : BOOLEAN, got : Contexts \cup {None}]

ContextShape ==
    /\ live \in BOOLEAN /\ valkey \in BOOLEAN /\ warned \in BOOLEAN
    /\ row \in Contexts \cup {None} /\ (copy = {} \/ \E x \in Contexts \cup {None} : copy = {x})
    /\ downs \in 0..MaxDowntimes /\ time \in 0..LastTime /\ member \subseteq Contexts
    /\ lostAt \in [Contexts -> Nat] /\ memo \in [Hosts -> [Contexts -> Nat]] /\ run \in [Users -> Runs]

\* The session and its copies.
SessionFits ==
    /\ ~live => row = None /\ copy = {}
    /\ copy # {} /\ copy # {row} => warned \/ \E u \in Users : run[u].pc = "reconcile" /\ run[u].failed

\* What a process believes is no older than the last call that saw the membership.
BeliefHolds(h, x) ==
    /\ memo[h][x] <= time + Revalidate
    /\ x \notin member => memo[h][x] <= lostAt[x] + CallTime + Revalidate

\* A call under way.
RunFits(u) ==
    /\ run[u].pc # "idle" => run[u].host \in Hosts
    /\ run[u].kind \in {"read", "set", "clear"} => live
    /\ run[u].pc \in {"ask", "believe"} => run[u].kind = "read"
    /\ run[u].pc \in {"set", "reconcile", "settle"} => run[u].kind \in {"set", "clear"}
    /\ run[u].pc \in {"ask", "believe"} => run[u].ctx \in Contexts
    /\ run[u].since # -1 => run[u].since <= time /\ time <= run[u].since + CallTime
    /\ run[u].pc \in {"believe", "settle", "set", "reconcile"} => run[u].since # -1
    /\ run[u].pc = "believe" \/ run[u].kind = "set" =>
          \A x \in Contexts : run[u].ctx = x /\ x \notin member => run[u].since <= lostAt[x]

\* The session is created once, and nothing else runs on it before it exists.
OneCreate ==
    \A u \in Users : run[u].kind = "create" => ~live /\ \A o \in Users : o # u => run[o].kind = "none"

ContextInv ==
    /\ ContextShape /\ SessionFits /\ (\A h \in Hosts : \A x \in Contexts : BeliefHolds(h, x))
    /\ \A u \in Users : RunFits(u)

\* A host that runs nothing has no choice under way.
LEMMA NoRunIs == /\ NoRun \in Runs /\ NoRun.pc = "idle" /\ NoRun.kind = "none" /\ NoRun.since = -1
                 /\ NoRun.failed = FALSE
  BY DEF NoRun, Runs, ContextPcs

\* Initially no context was chosen and nothing is remembered.
LEMMA ContextInitInv == ContextInit => ContextInv
<1> SUFFICES ASSUME ContextInit PROVE ContextInv
  OBVIOUS
<1> USE ContextAssumption, NoRunIs
<1>1. ContextShape
  <2>1. /\ live \in BOOLEAN /\ valkey \in BOOLEAN /\ warned \in BOOLEAN /\ row \in Contexts \cup {None} /\ copy = {}
        /\ member \subseteq Contexts /\ run \in [Users -> Runs] /\ lostAt \in [Contexts -> Nat]
        /\ memo \in [Hosts -> [Contexts -> Nat]]
    BY DEF ContextInit
  <2>2. downs \in 0..MaxDowntimes /\ time \in 0..LastTime
    BY DEF ContextInit
  <2>3. QED
    BY <2>1, <2>2 DEF ContextShape
<1>2. SessionFits
  BY DEF ContextInit, SessionFits
<1>3. \A h \in Hosts : \A x \in Contexts : BeliefHolds(h, x)
  BY DEF ContextInit, BeliefHolds
<1>4. \A u \in Users : RunFits(u)
  BY DEF ContextInit, RunFits
<1>5. QED
  BY <1>1, <1>2, <1>3, <1>4 DEF ContextInv

\* A call that does not move keeps its facts while time and the memberships do.
LEMMA RunKept ==
  ASSUME ContextInv, NEW u \in Users, run'[u] = run[u], live => live', UNCHANGED <<time, member, lostAt>>
  PROVE  RunFits(u)'
<1>1. RunFits(u)
  BY DEF ContextInv
<1>2. QED
  BY <1>1 DEF RunFits

\* One call moves, the others stay.
LEMMA RunMoves ==
  ASSUME ContextInv, NEW u \in Users, NEW r \in Runs, run' = [run EXCEPT ![u] = r], live => live',
         UNCHANGED <<time, member, lostAt>>
  PROVE  /\ run' \in [Users -> Runs] /\ run'[u] = r /\ \A o \in Users : o # u => run'[o] = run[o] /\ RunFits(o)'
<1>1. run' \in [Users -> Runs] /\ run'[u] = r /\ \A o \in Users : o # u => run'[o] = run[o]
  BY DEF ContextInv, ContextShape
<1>2. \A o \in Users : o # u => RunFits(o)'
  BY <1>1, RunKept
<1>3. QED
  BY <1>1, <1>2

\* A belief is set or forgotten.
LEMMA MemoMoves ==
  ASSUME ContextInv, NEW h \in Hosts, NEW x \in Contexts, NEW v \in Nat, memo' = [memo EXCEPT ![h][x] = v],
         UNCHANGED <<time, member, lostAt>>, v <= time + Revalidate,
         x \notin member => v <= lostAt[x] + CallTime + Revalidate
  PROVE  memo' \in [Hosts -> [Contexts -> Nat]] /\ \A g \in Hosts : \A y \in Contexts : BeliefHolds(g, y)'
<1>1. memo \in [Hosts -> [Contexts -> Nat]] /\ \A g \in Hosts : \A y \in Contexts : BeliefHolds(g, y)
  BY DEF ContextInv, ContextShape
<1>2. memo' \in [Hosts -> [Contexts -> Nat]]
  BY <1>1
<1>3. ASSUME NEW g \in Hosts, NEW y \in Contexts PROVE BeliefHolds(g, y)'
  <2>1. memo'[g][y] = IF g = h /\ y = x THEN v ELSE memo[g][y]
    BY <1>1
  <2>2. CASE g = h /\ y = x
    BY <2>1, <2>2 DEF BeliefHolds
  <2>3. CASE ~(g = h /\ y = x)
    BY <1>1, <2>1, <2>3 DEF BeliefHolds
  <2>4. QED
    BY <2>2, <2>3
<1>4. QED
  BY <1>2, <1>3

\* A step that changes neither the memory of a host nor the memberships keeps what a host believes.
LEMMA MemoKept ==
  ASSUME ContextInv, UNCHANGED <<memo, time, member, lostAt>>
  PROVE  \A g \in Hosts : \A y \in Contexts : BeliefHolds(g, y)'
  BY DEF ContextInv, BeliefHolds

\* Every step keeps that a sign-in runs alone: a session has no other request before it exists.
LEMMA OneCreateStep == ContextInv /\ OneCreate /\ [ContextNext]_ctxVars => OneCreate'
<1> SUFFICES ASSUME ContextInv, OneCreate, [ContextNext]_ctxVars PROVE OneCreate'
  OBVIOUS
<1>0. run \in [Users -> Runs]
  BY DEF ContextInv, ContextShape
<1>1. ASSUME NEW u \in Users, live' = live, \A o \in Users : o # u => run'[o] = run[o],
             run'[u].kind \in {run[u].kind, "none"} \/ (live /\ run'[u].kind # "create")
      PROVE  OneCreate'
  BY <1>1 DEF OneCreate
<1>2. ASSUME UNCHANGED <<run, live>> PROVE OneCreate'
  BY <1>2 DEF OneCreate
<1>3. ASSUME NEW u \in Users, NEW h \in Hosts, Reads(u, h) PROVE OneCreate'
  <2>1. live /\ live' = live /\ run'[u].kind = "read" /\ \A o \in Users : o # u => run'[o] = run[o]
    BY <1>0, <1>3 DEF Reads, NoRun
  <2>2. QED
    BY <1>1, <2>1
<1>4. ASSUME NEW u \in Users, NEW h \in Hosts, NEW x \in Contexts \cup {None}, Sets(u, h, x) \/ Clears(u, h, x) PROVE OneCreate'
  <2>1. live /\ live' = live /\ run'[u].kind # "create" /\ \A o \in Users : o # u => run'[o] = run[o]
    BY <1>0, <1>4 DEF Sets, Clears, NoRun
  <2>2. QED
    BY <1>1, <2>1
<1>5. ASSUME NEW u \in Users, NEW h \in Hosts, SignsIn(u, h) PROVE OneCreate'
  <2>1. /\ ~live /\ live' = live /\ \A o \in Users : o # u => run'[o] = run[o]
        /\ \A o \in Users : run[o].kind = "none"
    BY <1>0, <1>5, NoRunIs DEF SignsIn
  <2>2. QED
    BY <2>1 DEF OneCreate
<1>6. ASSUME NEW u \in Users, Created(u) PROVE OneCreate'
  <2>1. /\ run[u].kind = "create" /\ run'[u] = NoRun /\ \A o \in Users : o # u => run'[o] = run[o]
    BY <1>0, <1>6 DEF Created, Done
  <2>2. \A o \in Users : run'[o].kind = "none"
    BY <2>1, NoRunIs DEF OneCreate
  <2>3. QED
    BY <2>2 DEF OneCreate
<1>7. ASSUME NEW u \in Users, Asks(u) \/ AskedTrue(u) \/ Replaces(u) \/ Settles(u) PROVE OneCreate'
  <2>1. /\ live' = live /\ \A o \in Users : o # u => run'[o] = run[o]
        /\ run'[u].kind \in {run[u].kind, "none"}
    BY <1>0, <1>7, NoRunIs DEF Asks, AskedTrue, Replaces, Settles, Done, AtSince, Runs
  <2>2. QED
    BY <1>1, <2>1
<1>8. ASSUME NEW u \in Users, FallsBack(u) \/ ContextWrites(u) \/ Reconciles(u) PROVE OneCreate'
  <2>1. /\ live' = live /\ \A o \in Users : o # u => run'[o] = run[o]
        /\ run'[u].kind = run[u].kind
    BY <1>0, <1>8 DEF FallsBack, Fallback, ContextWrites, Reconciles, At, Runs
  <2>2. QED
    BY <1>1, <2>1
<1>9. CASE Outage \/ Recovery \/ TimePasses \/ (\E x \in Contexts : Loses(x)) \/ UNCHANGED ctxVars
  BY <1>2, <1>9 DEF Outage, Recovery, TimePasses, Loses, ctxVars
<1>10. QED
  BY <1>3, <1>4, <1>5, <1>6, <1>7, <1>8, <1>9 DEF ContextNext

\* Every step keeps the invariant of the active context.
LEMMA ContextStepInv == ContextInv /\ OneCreate /\ [ContextNext]_ctxVars => ContextInv'
<1> SUFFICES ASSUME ContextInv, OneCreate, [ContextNext]_ctxVars PROVE ContextInv'
  OBVIOUS
<1> USE ContextAssumption
<1>0. /\ ContextShape /\ SessionFits /\ (\A h \in Hosts : \A x \in Contexts : BeliefHolds(h, x))
      /\ (\A u \in Users : RunFits(u)) /\ run \in [Users -> Runs]
      /\ memo \in [Hosts -> [Contexts -> Nat]] /\ lostAt \in [Contexts -> Nat] /\ time \in Nat
  BY DEF ContextInv, ContextShape
<1>1. ASSUME NEW u \in Users
      PROVE  run[u] \in Runs /\ RunFits(u) /\ run[u].pc \in ContextPcs /\ run[u].host \in Hosts \cup {None}
             /\ run[u].ctx \in Contexts \cup {None} /\ run[u].since \in Nat \cup {-1}
             /\ run[u].got \in Contexts \cup {None} /\ run[u].failed \in BOOLEAN
  BY <1>0 DEF Runs
<1>2. CASE Outage \/ Recovery
  <2>1. /\ downs' \in 0..MaxDowntimes /\ valkey' \in BOOLEAN
        /\ UNCHANGED <<live, row, copy, member, lostAt, time, memo, run, warned>>
    <3>1. CASE Outage
      <4>1. /\ downs < MaxDowntimes /\ downs' = downs + 1 /\ valkey' = FALSE
            /\ UNCHANGED <<live, row, copy, member, lostAt, time, memo, run, warned>>
        BY <3>1 DEF Outage
      <4>2. downs' \in 0..MaxDowntimes
        BY <1>0, <4>1 DEF ContextShape
      <4>3. QED
        BY <4>1, <4>2
    <3>2. CASE Recovery
      BY <1>0, <3>2 DEF Recovery, ContextShape
    <3>3. QED
      BY <1>2, <3>1, <3>2
  <2>2. ContextShape' /\ SessionFits'
    BY <1>0, <2>1 DEF ContextShape, SessionFits
  <2>3. \A u \in Users : RunFits(u)'
    BY <2>1, RunKept
  <2>4. QED
    BY <2>1, <2>2, <2>3, MemoKept DEF ContextInv
<1>3. ASSUME NEW x \in Contexts, Loses(x) PROVE ContextInv'
  <2>1. /\ member' = member \ {x} /\ lostAt' = [lostAt EXCEPT ![x] = time] /\ x \in member
        /\ UNCHANGED <<live, row, copy, valkey, downs, time, memo, run, warned>>
    BY <1>3 DEF Loses
  <2>2. lostAt' \in [Contexts -> Nat] /\ lostAt'[x] = time /\ \A y \in Contexts : y # x => lostAt'[y] = lostAt[y]
    BY <1>0, <2>1
  <2>3. ContextShape' /\ SessionFits'
    BY <1>0, <2>1, <2>2 DEF ContextShape, SessionFits
  <2>4. ASSUME NEW h \in Hosts, NEW y \in Contexts PROVE BeliefHolds(h, y)'
    <3>1. memo[h][y] \in Nat /\ BeliefHolds(h, y)
      BY <1>0
    <3>2. CASE y = x
      BY <1>0, <2>1, <2>2, <3>1, <3>2 DEF BeliefHolds
    <3>3. CASE y # x
      BY <2>1, <2>2, <3>1, <3>3 DEF BeliefHolds
    <3>4. QED
      BY <3>2, <3>3
  <2>5. ASSUME NEW u \in Users PROVE RunFits(u)'
    <3>1. RunFits(u) /\ run[u].since \in Nat \cup {-1}
      BY <1>1
    <3>2. run[u].since <= time
      BY <1>0, <3>1 DEF RunFits
    <3>3. ASSUME NEW y \in Contexts, run[u].ctx = y, y \notin member', run[u].pc = "believe" \/ run[u].kind = "set"
          PROVE run[u].since <= lostAt'[y]
      <4>1. CASE y = x
        BY <2>2, <3>2, <4>1
      <4>2. CASE y # x
        BY <2>1, <2>2, <3>1, <3>3, <4>2 DEF RunFits
      <4>3. QED
        BY <4>1, <4>2
    <3>4. QED
      BY <2>1, <3>1, <3>3 DEF RunFits
  <2>6. QED
    BY <2>3, <2>4, <2>5 DEF ContextInv
<1>4. CASE TimePasses
  <2>1. /\ time' = time + 1 /\ time' \in 0..LastTime
        /\ UNCHANGED <<live, row, copy, valkey, downs, member, lostAt, memo, run, warned>>
    BY <1>0, <1>4 DEF TimePasses, ContextShape
  <2>2. \A u \in Users : run[u].since # -1 => time - run[u].since < CallTime
    BY <1>4 DEF TimePasses
  <2>3. ContextShape' /\ SessionFits'
    BY <1>0, <2>1 DEF ContextShape, SessionFits
  <2>4. ASSUME NEW h \in Hosts, NEW y \in Contexts PROVE BeliefHolds(h, y)'
    <3>1. memo[h][y] \in Nat /\ BeliefHolds(h, y)
      BY <1>0
    <3>2. QED
      BY <1>0, <2>1, <3>1 DEF BeliefHolds
  <2>5. ASSUME NEW u \in Users PROVE RunFits(u)'
    <3>1. RunFits(u) /\ run[u].since \in Nat \cup {-1}
      BY <1>1
    <3>2. run[u].since # -1 => run[u].since <= time' /\ time' <= run[u].since + CallTime
      BY <1>0, <2>1, <2>2, <3>1 DEF RunFits
    <3>3. QED
      BY <2>1, <3>1, <3>2 DEF RunFits
  <2>6. QED
    BY <2>3, <2>4, <2>5 DEF ContextInv
\* Steps that only move one call.
<1>5. ASSUME NEW u \in Users, NEW r \in Runs, run' = [run EXCEPT ![u] = r], RunFits(u)',
             UNCHANGED <<live, row, copy, valkey, downs, member, lostAt, time, memo, warned>>, run[u].pc # "reconcile"
      PROVE  ContextInv'
  <2>1. run' \in [Users -> Runs] /\ run'[u] = r /\ \A o \in Users : o # u => run'[o] = run[o] /\ RunFits(o)'
    BY <1>5, RunMoves
  <2>2. ContextShape'
    BY <1>0, <1>5, <2>1 DEF ContextShape
  <2>3. SessionFits'
    BY <1>0, <1>5, <2>1 DEF SessionFits
  <2>4. QED
    BY <1>5, <2>1, <2>2, <2>3, MemoKept DEF ContextInv
\* Steps of one call that move a belief too.
<1>6. ASSUME NEW u \in Users, NEW r \in Runs, run' = [run EXCEPT ![u] = r], RunFits(u)', run[u].pc # "reconcile",
             UNCHANGED <<live, row, copy, valkey, downs, member, lostAt, time, warned>>,
             NEW h \in Hosts, NEW x \in Contexts, NEW v \in Nat, memo' = [memo EXCEPT ![h][x] = v],
             v <= time + Revalidate, x \notin member => v <= lostAt[x] + CallTime + Revalidate
      PROVE  ContextInv'
  <2>1. run' \in [Users -> Runs] /\ run'[u] = r /\ \A o \in Users : o # u => run'[o] = run[o] /\ RunFits(o)'
    BY <1>6, RunMoves
  <2>2. memo' \in [Hosts -> [Contexts -> Nat]] /\ \A g \in Hosts : \A y \in Contexts : BeliefHolds(g, y)'
    BY <1>6, MemoMoves
  <2>3. ContextShape'
    BY <1>0, <1>6, <2>1, <2>2 DEF ContextShape
  <2>4. SessionFits'
    BY <1>0, <1>6, <2>1 DEF SessionFits
  <2>5. QED
    BY <1>6, <2>1, <2>2, <2>3, <2>4 DEF ContextInv
\* A call that is over fits.
<1>7. ASSUME NEW u \in Users, run' = [run EXCEPT ![u] = NoRun] PROVE RunFits(u)'
  <2>1. run'[u] = NoRun
    BY <1>0, <1>7
  <2>2. QED
    BY <2>1, NoRunIs DEF RunFits
\* Believe, of a membership that was seen while the call ran.
<1>8. ASSUME NEW h \in Hosts, NEW x \in Contexts, Believe(h, x), UNCHANGED <<time, member, lostAt>>,
             x \notin member => time <= lostAt[x] + CallTime
      PROVE  \E v \in Nat : /\ memo' = [memo EXCEPT ![h][x] = v] /\ v <= time + Revalidate
                            /\ x \notin member => v <= lostAt[x] + CallTime + Revalidate
  <2>1. memo[h][x] \in Nat /\ BeliefHolds(h, x) /\ lostAt[x] \in Nat
    BY <1>0
  <2>2. CASE Revalidate = 0
    <3>1. memo' = [memo EXCEPT ![h][x] = memo[h][x]]
      BY <1>8, <2>2 DEF Believe
    <3>2. QED
      BY <2>1, <3>1 DEF BeliefHolds
  <2>3. CASE Revalidate # 0
    <3>1. memo' = [memo EXCEPT ![h][x] = time + Revalidate]
      BY <1>8, <2>3 DEF Believe
    <3>2. time + Revalidate \in Nat /\ (x \notin member => time + Revalidate <= lostAt[x] + CallTime + Revalidate)
      BY <1>0, <1>8, <2>1
    <3>4. time + Revalidate <= time + Revalidate
      BY <1>0
    <3>3. QED
      BY <3>1, <3>2, <3>4
  <2>4. QED
    BY <2>2, <2>3
<1>9. ASSUME NEW u \in Users, NEW h \in Hosts, Reads(u, h) PROVE ContextInv'
  <2>1. PICK x \in Visible \ {None} :
          run' = [run EXCEPT ![u] = [NoRun EXCEPT !.pc = "ask", !.kind = "read", !.host = h, !.ctx = x]]
    BY <1>9 DEF Reads
  <2>2. x \in Contexts /\ live /\ run[u].pc = "idle"
    BY <1>0, <1>9, <2>1 DEF ContextShape, Visible, Reads
  <2> DEFINE r == [NoRun EXCEPT !.pc = "ask", !.kind = "read", !.host = h, !.ctx = x]
  <2>3. r \in Runs /\ r.pc = "ask" /\ r.kind = "read" /\ r.host = h /\ r.ctx = x /\ r.since = -1
    BY <2>2 DEF NoRun, Runs, ContextPcs
  <2>4. run' = [run EXCEPT ![u] = r]
    BY <2>1
  <2> HIDE DEF r
  <2>5. run'[u] = r /\ UNCHANGED <<live, row, copy, valkey, downs, member, lostAt, time, memo, warned>>
    BY <1>0, <1>9, <2>4 DEF Reads, world
  <2>6. RunFits(u)'
    BY <2>2, <2>3, <2>5 DEF RunFits
  <2>7. QED
    BY <1>5, <2>2, <2>3, <2>4, <2>5, <2>6
<1>10. ASSUME NEW u \in Users, NEW h \in Hosts, SignsIn(u, h) PROVE ContextInv'
  <2> DEFINE r == [NoRun EXCEPT !.pc = "fallback", !.kind = "create", !.host = h, !.since = time]
  <2>3. r \in Runs /\ r.pc = "fallback" /\ r.kind = "create" /\ r.host = h /\ r.since = time
    BY <1>0 DEF NoRun, Runs, ContextPcs
  <2>4. run' = [run EXCEPT ![u] = r] /\ run[u].pc = "idle"
    BY <1>10 DEF SignsIn
  <2> HIDE DEF r
  <2>5. run'[u] = r /\ UNCHANGED <<live, row, copy, valkey, downs, member, lostAt, time, memo, warned>>
    BY <1>0, <1>10, <2>4 DEF SignsIn, world
  <2>8. time <= time + CallTime
    BY <1>0
  <2>6. RunFits(u)'
    BY <1>0, <2>3, <2>5, <2>8 DEF RunFits
  <2>7. QED
    BY <1>5, <2>3, <2>4, <2>5, <2>6
<1>11. ASSUME NEW u \in Users, NEW h \in Hosts, NEW x \in Contexts \cup {None}, Sets(u, h, x) \/ Clears(u, h, x) PROVE ContextInv'
  <2>1. PICK k \in {"set", "clear"} :
          /\ run' = [run EXCEPT ![u] = [NoRun EXCEPT !.pc = "set", !.kind = k, !.host = h, !.ctx = x, !.since = time]]
          /\ k = "set" => x \in member \cup {None}
    BY <1>11 DEF Sets, Clears
  <2>2. live /\ run[u].pc = "idle" /\ UNCHANGED <<live, row, copy, valkey, downs, member, lostAt, time, memo, warned>>
    BY <1>11 DEF Sets, Clears, world
  <2> DEFINE r == [NoRun EXCEPT !.pc = "set", !.kind = k, !.host = h, !.ctx = x, !.since = time]
  <2>3. r \in Runs /\ r.pc = "set" /\ r.kind = k /\ r.host = h /\ r.since = time /\ r.ctx = x
    BY <1>0 DEF NoRun, Runs, ContextPcs
  <2>4. run' = [run EXCEPT ![u] = r]
    BY <2>1
  <2> HIDE DEF r
  <2>5. run'[u] = r
    BY <1>0, <2>4
  <2>8. time <= time + CallTime /\ time <= time /\ time # -1
    BY <1>0
  <2>9. \A y \in Contexts : x = y /\ k = "set" => y \in member
    BY <2>1
  <2>6. RunFits(u)'
    BY <2>1, <2>2, <2>3, <2>5, <2>8, <2>9 DEF RunFits
  <2>7. QED
    BY <1>5, <2>2, <2>3, <2>4, <2>6
<1>12. ASSUME NEW u \in Users, Asks(u) PROVE ContextInv'
  <2>1. /\ run[u].pc = "ask" /\ run[u].kind = "read" /\ UNCHANGED <<live, row, copy, valkey, downs, member, lostAt, time, warned>>
        /\ run[u] \in Runs /\ RunFits(u)
    BY <1>1, <1>12 DEF Asks, world
  <2>2. live /\ run[u].ctx \in Contexts /\ run[u].host \in Hosts
    BY <2>1 DEF RunFits
  <2>8. time <= time + CallTime /\ time <= time
    BY <1>0
  <2>3. CASE run[u].ctx \in member /\ AtSince(u, "believe") /\ UNCHANGED memo
    <3> DEFINE r == [run[u] EXCEPT !.pc = "believe", !.since = time]
    <3>1. r \in Runs /\ r.pc = "believe" /\ r.kind = "read" /\ r.host = run[u].host /\ r.ctx = run[u].ctx /\ r.since = time
      BY <1>0, <2>1 DEF Runs, ContextPcs
    <3>2. run' = [run EXCEPT ![u] = r] /\ run'[u] = r
      BY <1>0, <2>3 DEF AtSince
    <3> HIDE DEF r
    <3>3. RunFits(u)'
      BY <1>0, <2>1, <2>2, <2>3, <2>8, <3>1, <3>2 DEF RunFits
    <3>4. QED
      BY <1>5, <2>1, <2>3, <3>1, <3>2, <3>3
  <2>4. CASE run[u].ctx \notin member /\ AtSince(u, "fallback") /\ Forget(run[u].host, run[u].ctx)
    <3> DEFINE r == [run[u] EXCEPT !.pc = "fallback", !.since = time]
    <3>1. r \in Runs /\ r.pc = "fallback" /\ r.kind = "read" /\ r.host = run[u].host /\ r.ctx = run[u].ctx /\ r.since = time
      BY <1>0, <2>1 DEF Runs, ContextPcs
    <3>2. run' = [run EXCEPT ![u] = r] /\ run'[u] = r
      BY <1>0, <2>4 DEF AtSince
    <3> HIDE DEF r
    <3>3. RunFits(u)'
      BY <1>0, <2>1, <2>2, <2>8, <3>1, <3>2 DEF RunFits
    <3>4. PICK h \in Hosts, x \in Contexts : memo' = [memo EXCEPT ![h][x] = 0]
      BY <2>2, <2>4 DEF Forget
    <3>5. 0 <= time + Revalidate /\ 0 <= lostAt[x] + CallTime + Revalidate
      BY <1>0
    <3>6. QED
      BY <1>6, <2>1, <3>1, <3>2, <3>3, <3>4, <3>5
  <2>5. CASE Done(u) /\ UNCHANGED memo
    BY <1>5, <1>7, <2>1, <2>5, NoRunIs DEF Done
  <2>6. QED
    BY <1>12, <2>3, <2>4, <2>5 DEF Asks
<1>13. ASSUME NEW u \in Users, AskedTrue(u) PROVE ContextInv'
  <2>1. /\ run[u].pc = "believe" /\ UNCHANGED <<live, row, copy, valkey, downs, member, lostAt, time, warned>>
        /\ RunFits(u) /\ run' = [run EXCEPT ![u] = NoRun] /\ Believe(run[u].host, run[u].ctx)
    BY <1>1, <1>13 DEF AskedTrue, world, Done
  <2>2. PICK h \in Hosts, x \in Contexts : h = run[u].host /\ x = run[u].ctx
    BY <2>1 DEF RunFits
  <2>3. run[u].since \in Nat /\ time <= run[u].since + CallTime /\ (x \notin member => run[u].since <= lostAt[x])
    BY <1>1, <2>1, <2>2 DEF RunFits
  <2>4. x \notin member => time <= lostAt[x] + CallTime
    BY <1>0, <2>3
  <2>5. PICK v \in Nat : /\ memo' = [memo EXCEPT ![h][x] = v] /\ v <= time + Revalidate
                         /\ x \notin member => v <= lostAt[x] + CallTime + Revalidate
    BY <1>8, <2>1, <2>2, <2>4
  <2>6. QED
    BY <1>6, <1>7, <2>1, <2>5, NoRunIs
<1>14. ASSUME NEW u \in Users, FallsBack(u) PROVE ContextInv'
  <2>1. /\ run[u].pc = "fallback" /\ UNCHANGED <<live, row, copy, valkey, downs, member, lostAt, time, warned>>
        /\ RunFits(u) /\ run[u] \in Runs
    BY <1>1, <1>14 DEF FallsBack, world
  <2>2. ASSUME NEW g \in Contexts \cup {None}, run' = [run EXCEPT ![u].pc = "write", ![u].got = g]
        PROVE \E r \in Runs : run' = [run EXCEPT ![u] = r] /\ RunFits(u)'
    <3> DEFINE r == [run[u] EXCEPT !.pc = "write", !.got = g]
    <3>1. r \in Runs /\ r.pc = "write" /\ r.kind = run[u].kind /\ r.host = run[u].host /\ r.ctx = run[u].ctx /\ r.since = run[u].since
      BY <2>1 DEF Runs, ContextPcs
    <3>2. run' = [run EXCEPT ![u] = r] /\ run'[u] = r
      BY <1>0, <2>2
    <3> HIDE DEF r
    <3>3. RunFits(u)'
      BY <2>1, <3>1, <3>2 DEF RunFits
    <3>4. QED
      BY <3>1, <3>2, <3>3
  <2>3. CASE \E x \in member : Believe(run[u].host, x) /\ run' = [run EXCEPT ![u].pc = "write", ![u].got = x]
    <3>1. PICK x \in member : Believe(run[u].host, x) /\ run' = [run EXCEPT ![u].pc = "write", ![u].got = x]
      BY <2>3
    <3>2. x \in Contexts /\ run[u].host \in Hosts
      BY <1>0, <2>1 DEF RunFits, ContextShape
    <3>3. PICK h \in Hosts : h = run[u].host
      BY <3>2
    <3>4. PICK v \in Nat : /\ memo' = [memo EXCEPT ![h][x] = v] /\ v <= time + Revalidate
                           /\ x \notin member => v <= lostAt[x] + CallTime + Revalidate
      BY <1>8, <2>1, <3>1, <3>2, <3>3
    <3>5. QED
      BY <1>6, <2>1, <2>2, <3>1, <3>2, <3>4
  <2>4. CASE run' = [run EXCEPT ![u].pc = "write", ![u].got = None] /\ UNCHANGED memo
    BY <1>5, <2>1, <2>2, <2>4
  <2>5. QED
    BY <1>14, <2>3, <2>4 DEF FallsBack, Fallback
<1>15. ASSUME NEW u \in Users, Settles(u) PROVE ContextInv'
  <2>1. /\ run[u].pc = "settle" /\ UNCHANGED <<live, row, copy, valkey, downs, member, lostAt, time, warned>>
        /\ RunFits(u) /\ run' = [run EXCEPT ![u] = NoRun]
    BY <1>1, <1>15 DEF Settles, world, Done
  <2>2. CASE run[u].ctx = None
    BY <1>5, <1>7, <1>15, <2>1, <2>2, NoRunIs DEF Settles
  <2>3. CASE run[u].ctx # None
    <3>1. PICK h \in Hosts, x \in Contexts : h = run[u].host /\ x = run[u].ctx
      BY <1>1, <2>1, <2>3 DEF RunFits
    <3>2. CASE run[u].kind = "clear"
      <4>1. memo' = [memo EXCEPT ![h][x] = 0]
        BY <1>15, <2>3, <3>1, <3>2 DEF Settles, Forget
      <4>2. 0 <= time + Revalidate /\ 0 <= lostAt[x] + CallTime + Revalidate
        BY <1>0
      <4>3. QED
        BY <1>6, <1>7, <2>1, <4>1, <4>2, NoRunIs
    <3>3. CASE run[u].kind # "clear"
      <4>1. Believe(h, x) /\ run[u].kind = "set"
        BY <1>15, <2>1, <2>3, <3>1, <3>3 DEF Settles, RunFits
      <4>2. run[u].since \in Nat /\ time <= run[u].since + CallTime /\ (x \notin member => run[u].since <= lostAt[x])
        BY <1>1, <2>1, <3>1, <4>1 DEF RunFits
      <4>3. x \notin member => time <= lostAt[x] + CallTime
        BY <1>0, <4>2
      <4>4. PICK v \in Nat : /\ memo' = [memo EXCEPT ![h][x] = v] /\ v <= time + Revalidate
                             /\ x \notin member => v <= lostAt[x] + CallTime + Revalidate
        BY <1>8, <2>1, <4>1, <4>3
      <4>5. QED
        BY <1>6, <1>7, <2>1, <4>4, NoRunIs
    <3>4. QED
      BY <3>2, <3>3
  <2>4. QED
    BY <2>2, <2>3
\* Steps that write the session.
<1>16. ASSUME NEW u \in Users, NEW r \in Runs, run' = [run EXCEPT ![u] = r], RunFits(u)', live => live',
              UNCHANGED <<valkey, downs, member, lostAt, time, memo>>, live' \in BOOLEAN, warned' \in BOOLEAN,
              row' \in Contexts \cup {None}, copy' = {} \/ (\E x \in Contexts \cup {None} : copy' = {x}), SessionFits'
       PROVE  ContextInv'
  <2>1. run' \in [Users -> Runs] /\ run'[u] = r /\ \A o \in Users : o # u => run'[o] = run[o] /\ RunFits(o)'
    BY <1>16, RunMoves
  <2>2. ContextShape'
    BY <1>0, <1>16, <2>1 DEF ContextShape
  <2>4. QED
    BY <1>16, <2>1, <2>2, MemoKept DEF ContextInv
<1>17. ASSUME NEW u \in Users, Replaces(u) PROVE ContextInv'
  <2>1. /\ run[u].pc = "write" /\ run[u].kind = "read" /\ run' = [run EXCEPT ![u] = NoRun]
        /\ UNCHANGED <<live, valkey, downs, member, lostAt, time, memo>> /\ live /\ run[u].got \in Contexts \cup {None}
    BY <1>1, <1>17 DEF Replaces, Done, world, RunFits
  <2>2. CASE UNCHANGED <<row, copy, warned>>
    BY <1>5, <1>7, <2>1, <2>2, NoRunIs
  <2>3. CASE row' = run[u].got /\ copy' = (IF valkey THEN {run[u].got} ELSE copy) /\ warned' = ~valkey
    <3>1. warned' \in BOOLEAN /\ row' \in Contexts \cup {None} /\ (copy' = {} \/ (\E x \in Contexts \cup {None} : copy' = {x}))
      BY <1>0, <2>1, <2>3 DEF ContextShape
    <3>2. copy' = {row'} \/ warned'
      BY <2>3
    <3>3. SessionFits'
      BY <2>1, <3>2 DEF SessionFits
    <3>5. live \in BOOLEAN
      BY <1>0 DEF ContextShape
    <3>4. QED
      BY <1>7, <1>16, <2>1, <3>1, <3>3, <3>5, NoRunIs
  <2>4. QED
    BY <1>17, <2>2, <2>3 DEF Replaces
<1>18. ASSUME NEW u \in Users, Created(u) PROVE ContextInv'
  <2>1. /\ run[u].pc = "write" /\ run[u].kind = "create" /\ run' = [run EXCEPT ![u] = NoRun] /\ live' = TRUE
        /\ UNCHANGED <<valkey, downs, member, lostAt, time, memo>> /\ run[u].got \in Contexts \cup {None}
        /\ Update(u, run[u].got)
    BY <1>1, <1>18 DEF Created, Done, world
  <2>2. /\ warned' \in BOOLEAN /\ row' \in Contexts \cup {None} /\ (copy' = {} \/ (\E x \in Contexts \cup {None} : copy' = {x}))
    BY <1>0, <2>1 DEF ContextShape, Update
  <2>3. SessionFits'
    <3>1. ~live
      BY <2>1 DEF OneCreate
    <3>2. copy' = {row'} \/ copy' = {}
      BY <1>0, <2>1, <3>1 DEF SessionFits, Update
    <3>3. QED
      BY <2>1, <3>2 DEF SessionFits
  <2>4. QED
    BY <1>7, <1>16, <2>1, <2>2, <2>3, NoRunIs
<1>19. ASSUME NEW u \in Users, ContextWrites(u) PROVE ContextInv'
  <2> DEFINE f == ~valkey
             g == IF run[u].kind = "clear" THEN None ELSE run[u].ctx
             r == [run[u] EXCEPT !.pc = "reconcile", !.failed = f]
  <2>1. /\ run[u].pc = "set" /\ run' = [run EXCEPT ![u].pc = "reconcile", ![u].failed = f]
        /\ UNCHANGED <<live, valkey, downs, member, lostAt, time, memo>> /\ Update(u, g) /\ RunFits(u) /\ run[u] \in Runs
    BY <1>1, <1>19 DEF ContextWrites, world
  <2>2. f \in BOOLEAN /\ f = ~valkey /\ g \in Contexts \cup {None}
    BY <1>1
  <2> HIDE DEF f, g
  <2>3. r \in Runs /\ r.pc = "reconcile" /\ r.kind = run[u].kind /\ r.host = run[u].host /\ r.ctx = run[u].ctx
        /\ r.since = run[u].since /\ r.failed = f
    BY <2>1, <2>2 DEF Runs, ContextPcs
  <2>4. run' = [run EXCEPT ![u] = r] /\ run'[u] = r
    BY <1>0, <2>1
  <2> HIDE DEF r
  <2>5. RunFits(u)'
    BY <2>1, <2>3, <2>4 DEF RunFits
  <2>6. live
    BY <2>1 DEF RunFits
  <2>7. warned' \in BOOLEAN /\ row' \in Contexts \cup {None} /\ (copy' = {} \/ (\E x \in Contexts \cup {None} : copy' = {x}))
    BY <1>0, <2>1, <2>2 DEF ContextShape, Update
  <2>8. SessionFits'
    <3>1. CASE valkey
      <4>1. copy' = {row'}
        BY <2>1, <3>1 DEF Update
      <4>2. QED
        BY <2>1, <2>6, <4>1 DEF SessionFits
    <3>2. CASE ~valkey
      <4>1. run'[u].pc = "reconcile" /\ run'[u].failed
        BY <2>2, <2>3, <2>4, <3>2
      <4>2. QED
        BY <2>1, <2>6, <4>1 DEF SessionFits
    <3>3. QED
      BY <3>1, <3>2
  <2>10. live \in BOOLEAN
    BY <1>0 DEF ContextShape
  <2>9. QED
    BY <1>16, <2>1, <2>3, <2>4, <2>5, <2>7, <2>8, <2>10
<1>20. ASSUME NEW u \in Users, Reconciles(u) PROVE ContextInv'
  <2> DEFINE r == [run[u] EXCEPT !.pc = "settle"]
  <2>1. /\ run[u].pc = "reconcile" /\ run' = [run EXCEPT ![u].pc = "settle"]
        /\ UNCHANGED <<live, row, valkey, downs, member, lostAt, time, memo>> /\ RunFits(u) /\ run[u] \in Runs
        /\ copy' = (IF run[u].failed /\ valkey THEN {} ELSE copy)
        /\ warned' = (warned \/ (run[u].failed /\ ~valkey))
    BY <1>1, <1>20 DEF Reconciles, At, world
  <2>3. r \in Runs /\ r.pc = "settle" /\ r.kind = run[u].kind /\ r.host = run[u].host /\ r.ctx = run[u].ctx
        /\ r.since = run[u].since
    BY <2>1 DEF Runs, ContextPcs
  <2>4. run' = [run EXCEPT ![u] = r] /\ run'[u] = r /\ \A o \in Users : o # u => run'[o] = run[o]
    BY <1>0, <2>1
  <2> HIDE DEF r
  <2>5. RunFits(u)'
    BY <2>1, <2>3, <2>4 DEF RunFits
  <2>6. live /\ live \in BOOLEAN
    BY <1>0, <2>1 DEF RunFits, ContextShape
  <2>7. warned' \in BOOLEAN
    BY <1>0, <2>1 DEF ContextShape
  <2>12. row' \in Contexts \cup {None} /\ (copy' = {} \/ (\E x \in Contexts \cup {None} : copy' = {x}))
    BY <1>0, <2>1 DEF ContextShape
  <2>8. SessionFits'
    <3>1. CASE run[u].failed /\ valkey
      BY <2>1, <2>6, <3>1 DEF SessionFits
    <3>2. CASE run[u].failed /\ ~valkey
      BY <2>1, <2>6, <3>2 DEF SessionFits
    <3>3. CASE ~run[u].failed
      <4>1. copy' = copy /\ (warned => warned')
        BY <2>1, <3>3
      <4>2. copy # {} /\ copy # {row} => warned \/ \E o \in Users : run[o].pc = "reconcile" /\ run[o].failed /\ o # u
        BY <1>0, <3>3 DEF SessionFits
      <4>3. QED
        BY <2>1, <2>4, <2>6, <4>1, <4>2 DEF SessionFits
    <3>4. QED
      BY <3>1, <3>2, <3>3
  <2>9. QED
    BY <1>16, <2>1, <2>3, <2>4, <2>5, <2>6, <2>7, <2>8, <2>12
<1>21. CASE UNCHANGED ctxVars
  <2>1. UNCHANGED <<live, row, copy, valkey, downs, member, lostAt, time, memo, run, warned>>
    BY <1>21 DEF ctxVars
  <2>2. ContextShape' /\ SessionFits'
    BY <1>0, <2>1 DEF ContextShape, SessionFits
  <2>3. \A u \in Users : RunFits(u)'
    BY <2>1, RunKept
  <2>4. QED
    BY <2>1, <2>2, <2>3, MemoKept DEF ContextInv
<1>22. QED
  BY <1>2, <1>3, <1>4, <1>9, <1>10, <1>11, <1>12, <1>13, <1>14, <1>15, <1>17, <1>18, <1>19, <1>20, <1>21 DEF ContextNext

\* The invariant gives that nobody acts in a context it lost too long ago.
LEMMA ContextInvSafe == ContextInv => ContextSafe
<1> SUFFICES ASSUME ContextInv PROVE ContextSafe
  OBVIOUS
<1>1. Cardinality(copy) <= 1 /\ copy \subseteq Contexts \cup {None}
  <2>1. CASE copy = {}
    BY <2>1, FS_EmptySet
  <2>2. CASE copy # {}
    <3>1. PICK x \in Contexts \cup {None} : copy = {x}
      BY <2>2 DEF ContextInv, ContextShape
    <3>2. QED
      BY <3>1, FS_Singleton
  <2>3. QED
    BY <2>1, <2>2
<1>2. \A u \in Users : run[u].pc \in ContextPcs
  BY DEF ContextInv, ContextShape, Runs
<1>3. ContextTypeOK
  BY <1>1, <1>2 DEF ContextInv, ContextShape, SessionFits, ContextTypeOK, ContextPcs
<1>4. LostContextLeaves
  BY DEF ContextInv, BeliefHolds, LostContextLeaves
<1>5. SwitchSticks
  BY DEF ContextInv, SessionFits, SwitchSticks, Visible
<1>6. QED
  BY <1>3, <1>4, <1>5 DEF ContextSafe

\* For any users, hosts and contexts: a membership that is lost is believed nowhere past
\* revalidateSeconds and the time of a call that had its answer, and a switch does not silently revert:
\* a read sees what the row holds, unless a writer has yet to reconcile or the stale copy was logged.
THEOREM ContextHolds == ContextSpec => []ContextSafe
<1>1. ContextInit => OneCreate
  BY NoRunIs DEF ContextInit, OneCreate
<1>2. QED
  BY <1>1, ContextInitInv, OneCreateStep, ContextStepInv, ContextInvSafe, PTL DEF ContextSpec

-----------------------------------------------------------------------------
(***************************************************************************)
(* AccessJwt, for any tokens and keys: the set that jose holds is what     *)
(* was published when it was fetched.                                      *)
(***************************************************************************)

Refusals == {"malformed", "invalid_signature", "expired", "not_yet_valid", "bad_issuer", "bad_audience",
             "wrong_algorithm", "missing_principal", "jwks_unavailable"}

\* What jose holds was published when it was fetched, and what was not held was not.
KeysFit ==
    /\ published \subseteq Kids /\ since \in [Kids -> Nat] /\ instant \in Nat /\ fetchedAt \in Nat /\ fetchedAt <= instant
    /\ verifier # Null => Usable(verifier)
    /\ heldKeys # Null => \A k \in Kids : k \in heldKeys /\ k \notin published => fetchedAt <= since[k]
    /\ heldKeys # Null => heldKeys \subseteq Kids

JwtInv == KeysFit /\ JwtSafe

\* Initially no key was fetched and no token verified.
LEMMA JwtInitInv == JwtInit => JwtInv
<1> SUFFICES ASSUME JwtInit PROVE JwtInv
  OBVIOUS
<1>1. answer = Null /\ heldKeys = Null /\ fetchedAt = 0 /\ instant = 0 /\ since = [k \in Kids |-> 0] /\ published \subseteq Kids
  BY DEF JwtInit
<1>2. verifier # Null => Usable(verifier)
  BY DEF JwtInit
<1>3. KeysFit
  BY <1>1, <1>2 DEF KeysFit
<1>4. JwtSafe
  BY <1>1, <1>2 DEF JwtSafe, JwtTypeOK, OutageNotBlamed, RotationHeals, AdmittedWasGenuine, OidWins, JwtAdmitted
<1>5. QED
  BY <1>3, <1>4 DEF JwtInv

\* Once the world has moved on nothing is claimed of the last answer.
LEMMA NothingClaimed == ASSUME KeysFit', answer' = Null PROVE JwtSafe'
  BY DEF KeysFit, JwtSafe, JwtTypeOK, OutageNotBlamed, RotationHeals, AdmittedWasGenuine, OidWins, JwtAdmitted

\* What each error of jose's is reported as.
LEMMA ClassifyIs ==
    /\ Classify("ERR_JWT_EXPIRED") = "expired" /\ Classify("ERR_JOSE_ALG_NOT_ALLOWED") = "wrong_algorithm"
    /\ Classify("ERR_JWS_SIGNATURE_VERIFICATION_FAILED") = "invalid_signature"
    /\ Classify("ERR_JWKS_NO_MATCHING_KEY") = "invalid_signature"
    /\ Classify("claim iss") = "bad_issuer" /\ Classify("claim aud") = "bad_audience"
    /\ Classify("claim nbf") = "not_yet_valid" /\ \A e \in FetchErrors : Classify(e) = "jwks_unavailable"
<1>1. Classify("ERR_JWT_EXPIRED") = "expired"
  BY DEF Classify, FetchErrors
<1>2. Classify("ERR_JOSE_ALG_NOT_ALLOWED") = "wrong_algorithm"
  BY DEF Classify, FetchErrors
<1>3. Classify("ERR_JWS_SIGNATURE_VERIFICATION_FAILED") = "invalid_signature"
  BY DEF Classify, FetchErrors
<1>4. Classify("ERR_JWKS_NO_MATCHING_KEY") = "invalid_signature"
  BY DEF Classify, FetchErrors
<1>5. Classify("claim iss") = "bad_issuer"
  BY DEF Classify, FetchErrors
<1>6. Classify("claim aud") = "bad_audience"
  BY DEF Classify, FetchErrors
<1>7. Classify("claim nbf") = "not_yet_valid"
  BY DEF Classify, FetchErrors
<1>8. ASSUME NEW e \in FetchErrors PROVE Classify(e) = "jwks_unavailable"
  BY DEF Classify, FetchErrors
<1>9. QED
  BY <1>1, <1>2, <1>3, <1>4, <1>5, <1>6, <1>7, <1>8

\* The verdict on a token: what it takes to be accepted, and who is then admitted.
LEMMA VerdictIs ==
  ASSUME NEW t \in JwtTokens, NEW keys, instant \in Nat
  PROVE  /\ JwtVerdict(t, keys).code \in Refusals \cup {"ok"}
         /\ JwtVerdict(t, keys).code = "ok" =>
              /\ t.alg = "RS256" /\ t.kid \in keys /\ t.signed /\ t.iss /\ t.aud = verifier.audience
              /\ t.nbf <= instant + Tolerance /\ instant < t.exp + Tolerance
              /\ JwtVerdict(t, keys).sub # Null
              /\ IF t.oid # Null THEN JwtVerdict(t, keys).oid = t.oid
                 ELSE verifier.allowEmailFallback /\ JwtVerdict(t, keys).email = t.email
         /\ JwtVerdict(t, keys).code \in {"malformed", "invalid_signature"} => t.alg = "RS256" /\ (~t.signed \/ t.kid \notin keys)
<1> USE JwtAssumption
<1> DEFINE e == JoseError(t, keys)
<1>1. CASE t.alg # "RS256"
  <2>1. e = "ERR_JOSE_ALG_NOT_ALLOWED"
    BY <1>1 DEF JoseError
  <2>2. JwtVerdict(t, keys) = [code |-> "wrong_algorithm"]
    BY <2>1, ClassifyIs DEF JwtVerdict, Refusal
  <2>3. QED
    BY <2>2 DEF Refusals
<1>2. CASE t.alg = "RS256" /\ t.kid \notin keys
  <2>1. e = "ERR_JWKS_NO_MATCHING_KEY"
    BY <1>2 DEF JoseError
  <2>2. JwtVerdict(t, keys) = [code |-> "invalid_signature"]
    BY <2>1, ClassifyIs DEF JwtVerdict, Refusal
  <2>3. QED
    BY <1>2, <2>2 DEF Refusals
<1>3. CASE t.alg = "RS256" /\ t.kid \in keys /\ ~t.signed
  <2>1. e = "ERR_JWS_SIGNATURE_VERIFICATION_FAILED"
    BY <1>3 DEF JoseError
  <2>2. JwtVerdict(t, keys) = [code |-> "invalid_signature"]
    BY <2>1, ClassifyIs DEF JwtVerdict, Refusal
  <2>3. QED
    BY <1>3, <2>2 DEF Refusals
<1>4. CASE t.alg = "RS256" /\ t.kid \in keys /\ t.signed
  <2>0. e = IF ~t.iss THEN "claim iss" ELSE IF ~AudienceOK(t) THEN "claim aud"
            ELSE IF t.nbf > instant + Tolerance THEN "claim nbf"
            ELSE IF t.exp <= instant - Tolerance THEN "ERR_JWT_EXPIRED" ELSE "none"
    BY <1>4 DEF JoseError
  <2> HIDE DEF e
  <2>1. CASE e = "none"
    <3>1. t.iss /\ AudienceOK(t) /\ ~(t.nbf > instant + Tolerance) /\ ~(t.exp <= instant - Tolerance)
      BY <2>0, <2>1
    <3>2. t.aud = verifier.audience
      BY <3>1 DEF AudienceOK
    <3>3. t.nbf <= instant + Tolerance /\ instant < t.exp + Tolerance
      BY <3>1
    <3>4. JwtVerdict(t, keys) = PrincipalOf(t)
      BY <2>1 DEF JwtVerdict, e
    <3>5. CASE t.sub = Null
      <4>1. PrincipalOf(t) = [code |-> "missing_principal"]
        BY <3>5 DEF PrincipalOf, Refusal
      <4>2. QED
        BY <3>4, <4>1 DEF Refusals
    <3>6. CASE t.sub # Null /\ t.oid # Null
      <4>1. PrincipalOf(t) = [code |-> "ok", oid |-> t.oid, email |-> t.email, sub |-> t.sub]
        BY <3>6 DEF PrincipalOf
      <4>2. QED
        BY <1>4, <3>1, <3>2, <3>3, <3>4, <3>6, <4>1
    <3>7. CASE t.sub # Null /\ ~(t.oid # Null) /\ verifier.allowEmailFallback /\ t.email # Null
      <4>1. PrincipalOf(t) = [code |-> "ok", oid |-> Null, email |-> t.email, sub |-> t.sub]
        BY <3>7 DEF PrincipalOf
      <4>2. QED
        BY <1>4, <3>1, <3>2, <3>3, <3>4, <3>7, <4>1
    <3>8. CASE t.sub # Null /\ ~(t.oid # Null) /\ ~(verifier.allowEmailFallback /\ t.email # Null)
      <4>1. PrincipalOf(t) = [code |-> "missing_principal"]
        BY <3>8 DEF PrincipalOf, Refusal
      <4>2. QED
        BY <3>4, <4>1 DEF Refusals
    <3>9. QED
      BY <3>5, <3>6, <3>7, <3>8
  <2>2. CASE e # "none"
    <3>1. e \in {"claim iss", "claim aud", "claim nbf", "ERR_JWT_EXPIRED"}
      BY <2>0, <2>2
    <3>2. Classify(e) \in {"bad_issuer", "bad_audience", "not_yet_valid", "expired"}
      BY <3>1, ClassifyIs
    <3>3. JwtVerdict(t, keys) = [code |-> Classify(e)]
      BY <2>2 DEF JwtVerdict, Refusal, e
    <3>4. JwtVerdict(t, keys).code = Classify(e)
      BY <3>3
    <3>5. QED
      BY <3>2, <3>4 DEF Refusals
  <2>3. QED
    BY <2>1, <2>2
<1>5. QED
  BY <1>1, <1>2, <1>3, <1>4

\* Every rotation, fetch and verification keeps the invariant of the access tokens.
LEMMA JwtStepInv == JwtInv /\ [JwtNext]_jwtVars => JwtInv'
<1> SUFFICES ASSUME JwtInv, [JwtNext]_jwtVars PROVE JwtInv'
  OBVIOUS
<1> USE JwtAssumption
<1>0. KeysFit /\ JwtSafe
  BY DEF JwtInv
<1>1. CASE JwtTick
  <2>1. KeysFit'
    BY <1>0, <1>1 DEF JwtTick, KeysFit
  <2>2. QED
    BY <1>1, <2>1, NothingClaimed DEF JwtTick, JwtInv
<1>2. ASSUME NEW k \in Kids, Rotates(k) PROVE JwtInv'
  <2>1. /\ published' = (IF k \in published THEN published \ {k} ELSE published \cup {k})
        /\ since' = [since EXCEPT ![k] = instant] /\ answer' = Null /\ UNCHANGED <<verifier, heldKeys, fetchedAt, instant>>
    BY <1>2 DEF Rotates
  <2>2. KeysFit'
    BY <1>0, <2>1 DEF KeysFit
  <2>3. QED
    BY <2>1, <2>2, NothingClaimed DEF JwtInv
\* An answer taken from some keys: what must hold of them.
<1>3. ASSUME NEW t \in JwtTokens, NEW keys, NEW at \in Nat, Answered(t, JwtVerdict(t, keys), keys, at),
             UNCHANGED <<verifier, published, since, instant>>, KeysFit',
             t.alg = "RS256" => /\ t.kid \in keys => \/ t.kid \in published
                                                    \/ since[t.kid] = instant \/ instant < since[t.kid] + JwtMaxAge
                                /\ t.kid \notin keys => t.kid \notin published \/ instant < at + Cooldown
      PROVE  JwtInv'
  <2> DEFINE w == JwtVerdict(t, keys)
  <2>1. answer'.token = t /\ answer'.what = w /\ answer'.keys = keys /\ answer'.fetched = at
    BY <1>3 DEF Answered
  <2>2. /\ w.code \in Refusals \cup {"ok"}
        /\ w.code = "ok" =>
              /\ t.alg = "RS256" /\ t.kid \in keys /\ t.signed /\ t.iss /\ t.aud = verifier.audience
              /\ t.nbf <= instant + Tolerance /\ instant < t.exp + Tolerance
              /\ w.sub # Null
              /\ IF t.oid # Null THEN w.oid = t.oid ELSE verifier.allowEmailFallback /\ w.email = t.email
        /\ w.code \in {"malformed", "invalid_signature"} => t.alg = "RS256" /\ (~t.signed \/ t.kid \notin keys)
    BY <1>0, VerdictIs DEF KeysFit
  <2> HIDE DEF w
  <2>3. JwtTypeOK'
    BY <1>3, <2>1, <2>2 DEF JwtTypeOK, JwtAdmitted, KeysFit, Refusals
  <2>4. OutageNotBlamed'
    BY <2>1, <2>2 DEF OutageNotBlamed
  <2>5. RotationHeals'
    BY <1>3, <2>1, <2>2 DEF RotationHeals
  <2>6. AdmittedWasGenuine'
    BY <1>3, <2>1, <2>2 DEF AdmittedWasGenuine, JwtAdmitted
  <2>7. OidWins'
    BY <1>3, <2>1, <2>2 DEF OidWins, JwtAdmitted
  <2>8. QED
    BY <1>3, <2>3, <2>4, <2>5, <2>6, <2>7 DEF JwtInv, JwtSafe
<1>4. ASSUME NEW t \in JwtTokens, VerifyHeld(t) PROVE JwtInv'
  <2> DEFINE keys == IF heldKeys = Null THEN {} ELSE heldKeys
  <2>1. /\ Answered(t, JwtVerdict(t, keys), keys, fetchedAt) /\ (t.alg # "RS256" \/ ~MustFetch(t.kid))
        /\ UNCHANGED <<verifier, published, since, heldKeys, fetchedAt, instant>>
    BY <1>4 DEF VerifyHeld
  <2>2. KeysFit'
    BY <1>0, <2>1 DEF KeysFit
  <2>3. ASSUME t.alg = "RS256"
        PROVE /\ t.kid \in keys => \/ t.kid \in published
                                   \/ since[t.kid] = instant \/ instant < since[t.kid] + JwtMaxAge
              /\ t.kid \notin keys => t.kid \notin published \/ instant < fetchedAt + Cooldown
    <3>1. /\ heldKeys # Null /\ instant < fetchedAt + JwtMaxAge /\ (t.kid \in heldKeys \/ instant < fetchedAt + Cooldown)
      BY <2>1, <2>3 DEF MustFetch, Fresh, Cooling, CooldownDuration
    <3>2. t.kid \in heldKeys => t.kid \in Kids
      BY <1>0, <3>1 DEF KeysFit
    <3>3. t.kid \in heldKeys /\ t.kid \notin published => instant < since[t.kid] + JwtMaxAge
      BY <1>0, <3>1, <3>2 DEF KeysFit
    <3>4. QED
      BY <3>1, <3>3
  <2>4. fetchedAt \in Nat
    BY <1>0 DEF KeysFit
  <2> HIDE DEF keys
  <2>5. QED
    BY <1>3, <2>1, <2>2, <2>3, <2>4
<1>5. ASSUME NEW t \in JwtTokens, VerifyFetched(t) PROVE JwtInv'
  <2>1. /\ Answered(t, JwtVerdict(t, published), published, instant) /\ heldKeys' = published /\ fetchedAt' = instant
        /\ UNCHANGED <<verifier, published, since, instant>>
    BY <1>5 DEF VerifyFetched
  <2>2. KeysFit' /\ instant \in Nat
    BY <1>0, <2>1 DEF KeysFit
  <2>3. QED
    BY <1>3, <2>1, <2>2
<1>6. ASSUME NEW t \in JwtTokens, VerifyUnavailable(t) PROVE JwtInv'
  <2>1. PICK err \in FetchErrors : Answered(t, Refusal(Classify(err)), IF heldKeys = Null THEN {} ELSE heldKeys, fetchedAt)
    BY <1>6 DEF VerifyUnavailable
  <2>2. Classify(err) = "jwks_unavailable"
    BY ClassifyIs
  <2>3. answer'.what = [code |-> "jwks_unavailable"]
    BY <2>1, <2>2 DEF Answered, Refusal
  <2>4. answer'.what.code = "jwks_unavailable"
    BY <2>3
  <2>5. UNCHANGED <<verifier, published, since, heldKeys, fetchedAt, instant>>
    BY <1>6 DEF VerifyUnavailable
  <2>6. KeysFit'
    BY <1>0, <2>5 DEF KeysFit
  <2>7. JwtSafe'
    BY <2>4, <2>6 DEF KeysFit, JwtSafe, JwtTypeOK, OutageNotBlamed, RotationHeals, AdmittedWasGenuine, OidWins, JwtAdmitted
  <2>8. QED
    BY <2>6, <2>7 DEF JwtInv
<1>7. CASE UNCHANGED jwtVars
  <2>1. UNCHANGED <<verifier, published, since, heldKeys, fetchedAt, answer, instant>>
    BY <1>7 DEF jwtVars
  <2>2. KeysFit'
    BY <1>0, <2>1 DEF KeysFit
  <2>3. JwtSafe'
    BY <1>0, <2>1 DEF JwtSafe, JwtTypeOK, OutageNotBlamed, RotationHeals, AdmittedWasGenuine, OidWins, JwtAdmitted
  <2>4. QED
    BY <2>2, <2>3 DEF JwtInv
<1>8. QED
  BY <1>1, <1>2, <1>4, <1>5, <1>6, <1>7 DEF JwtNext

\* For any tokens, keys, clock and outages: who is admitted has a genuine token, for this application
\* and time, of a key not retired for long; a rotation heals, and nobody is blamed for an outage.
THEOREM JwtHolds == JwtSpec => []JwtSafe
<1>1. JwtInv => JwtSafe
  BY DEF JwtInv
<1>2. QED
  BY <1>1, JwtInitInv, JwtStepInv, PTL DEF JwtSpec

-----------------------------------------------------------------------------
(***************************************************************************)
(* AccountLife, for any tasks and identities: a clean-up knows that the    *)
(* user it is about to delete was not in use, and a callback what became   *)
(* of the one it created.                                                  *)
(***************************************************************************)

LifeTasks == Jobs \cup Requests
LifePcs == {"idle", "accounts", "sessions", "delete", "create", "session", "forget", "remove", "refused", "ended"}
LifeAccounts == {"credential", "sso", "microsoft"}
LifeUsers ==
    [is : {"none", "live", "deleted"}, verified : BOOLEAN, accts : SUBSET LifeAccounts, used : BOOLEAN, old : BOOLEAN]
LifeTaskStates ==
    [pc : LifePcs, id : Ids \cup {NoId}, wasUsed : BOOLEAN, mine : Ids \cup {NoId}, dirty : BOOLEAN]

LifeShape ==
    /\ acc \in [Ids -> LifeUsers] /\ task \in [LifeTasks -> LifeTaskStates]
    /\ gone \subseteq LifeTasks \X Ids \X BOOLEAN
    /\ \A i, j \in Ids : Live(i) /\ Live(j) => i = j
\* A user with only a password is used after it was verified; a user has an account, and
\* who is gone is deleted.
UsersFit ==
    /\ \A i \in Ids : acc[i].is # "none" => acc[i].accts # {}
    /\ \A i \in Ids : Live(i) /\ ~acc[i].verified /\ acc[i].accts = {"credential"} => ~acc[i].used
    /\ \A g \in gone : acc[g[2]].is = "deleted"
\* What a clean-up knows of the user it looks at: one that was in use when it began has an
\* account that is no password, and none like that gets past the accounts.
CleanupFits(t) ==
    /\ task[t].pc \in {"accounts", "sessions", "delete"} =>
          /\ task[t].id \in Ids /\ acc[task[t].id].is # "none"
          /\ task[t].wasUsed => ~(acc[task[t].id].accts \subseteq {"credential"})
    /\ task[t].pc \in {"sessions", "delete"} => ~task[t].wasUsed
\* What a callback knows of the user it created or linked.
CallbackFits(t) ==
    /\ task[t].pc \in {"idle", "accounts", "sessions", "delete", "create"} => task[t].mine = NoId
    /\ task[t].mine \in {NoId, task[t].id}
    /\ task[t].pc \in {"session", "forget", "remove", "refused"} =>
          /\ task[t].id \in Ids /\ acc[task[t].id].is # "none"
          /\ task[t].mine = NoId => \A g \in gone : <<g[1], g[2]>> # <<t, task[t].id>>
    /\ task[t].pc \in {"session", "forget", "remove"} => "microsoft" \in acc[task[t].id].accts
    /\ task[t].pc \in {"forget", "remove"} => task[t].mine # NoId
    /\ task[t].pc = "remove" => ~task[t].wasUsed
    /\ task[t].pc = "refused" /\ task[t].mine # NoId =>
          \/ acc[task[t].id].is = "deleted" \/ acc[task[t].id].used
          \/ acc[task[t].id].accts # {"microsoft"} \/ task[t].dirty

LifeInv ==
    /\ LifeShape /\ OnlyUnusedDeleted /\ UsersFit
    /\ \A t \in LifeTasks : CleanupFits(t) /\ CallbackFits(t)

\* Initially there are no users and no task runs.
LEMMA LifeInitInv == LifeInit => LifeInv
  BY LifeAssumption
  DEF LifeInit, LifeInv, LifeShape, OnlyUnusedDeleted, UsersFit, CleanupFits, CallbackFits, LifeNoUser, NewTask,
      LifeTasks, LifePcs, LifeUsers, LifeTaskStates, LifeAccounts, Live

\* What no step does to a user: an id that was given out stays so, one that was deleted
\* stays so, no account is taken away, and a session ends only where SSO signs out.
UsersOnlyGrow ==
    \A i \in Ids :
        /\ acc[i].is # "none" => acc'[i].is # "none" /\ acc[i].accts \subseteq acc'[i].accts
        /\ acc[i].is = "deleted" => acc'[i].is = "deleted"
        /\ acc[i].is # "none" /\ acc[i].used /\ acc[i].accts # {"sso"} => acc'[i].used

\* A task that does not move keeps what it knows while users only grow and nobody is
\* deleted in its name.
LEMMA TaskKept ==
  ASSUME LifeInv, UsersOnlyGrow, NEW t \in LifeTasks, task'[t] = task[t], \A g \in gone' \ gone : g[1] # t
  PROVE  CleanupFits(t)' /\ CallbackFits(t)'
<1> DEFINE i == task[t].id
<1>1. i \in Ids => /\ acc[i].is # "none" => acc'[i].is # "none" /\ acc[i].accts \subseteq acc'[i].accts
                   /\ acc[i].is = "deleted" => acc'[i].is = "deleted"
                   /\ acc[i].is # "none" /\ acc[i].used /\ acc[i].accts # {"sso"} => acc'[i].used
                   /\ acc[i].is # "none" => acc[i].accts # {}
  BY DEF UsersOnlyGrow, LifeInv, UsersFit
<1>2. CleanupFits(t) /\ CallbackFits(t)
  BY DEF LifeInv
<1>3. QED
  BY <1>1, <1>2 DEF CleanupFits, CallbackFits

\* A step of the owner of the address: a user is put in place or changes.
LEMMA OwnerKeeps ==
  ASSUME LifeInv, UNCHANGED <<task, gone>>, LifeShape', UsersFit', UsersOnlyGrow
  PROVE  LifeInv'
  BY TaskKept DEF LifeInv, OnlyUnusedDeleted

\* A user put in place of an id.
LEMMA PutIs ==
  ASSUME acc \in [Ids -> LifeUsers], NEW i \in Ids, NEW v \in BOOLEAN, NEW a \in SUBSET LifeAccounts,
         NEW u \in BOOLEAN, Put(i, v, a, u)
  PROVE  /\ acc' \in [Ids -> LifeUsers] /\ \A j \in Ids : j # i => acc'[j] = acc[j]
         /\ acc'[i].is = "live" /\ acc'[i].accts = a /\ acc'[i].used = u /\ acc'[i].verified = v
<1> DEFINE r == [is |-> "live", verified |-> v, accts |-> a, used |-> u, old |-> FALSE]
<1>1. r \in LifeUsers /\ r.is = "live" /\ r.accts = a /\ r.used = u /\ r.verified = v
  BY DEF LifeUsers
<1>2. acc' = [acc EXCEPT ![i] = r]
  BY DEF Put
<1> HIDE DEF r
<1>3. acc'[i] = r /\ acc' \in [Ids -> LifeUsers] /\ \A j \in Ids : j # i => acc'[j] = acc[j]
  BY <1>1, <1>2
<1>4. QED
  BY <1>1, <1>3

\* A step of a task moves that task only.
LEMMA ToIs ==
  ASSUME task \in [LifeTasks -> LifeTaskStates], NEW t \in LifeTasks, NEW pc \in LifePcs, To(t, pc)
  PROVE  /\ task' \in [LifeTasks -> LifeTaskStates] /\ \A u \in LifeTasks : u # t => task'[u] = task[u]
         /\ task'[t].pc = pc /\ task'[t].id = task[t].id /\ task'[t].wasUsed = task[t].wasUsed
         /\ task'[t].mine = task[t].mine /\ task'[t].dirty = task[t].dirty
  BY DEF To, LifeTaskStates

\* A step of one task, which alone may delete in its own name.
LEMMA TaskMoves ==
  ASSUME LifeInv, NEW t \in LifeTasks, \A u \in LifeTasks : u # t => task'[u] = task[u],
         LifeShape', UsersFit', OnlyUnusedDeleted', UsersOnlyGrow,
         \A g \in gone' \ gone : g[1] = t, CleanupFits(t)', CallbackFits(t)'
  PROVE  LifeInv'
<1>1. ASSUME NEW u \in LifeTasks, u # t PROVE CleanupFits(u)' /\ CallbackFits(u)'
  BY <1>1, TaskKept
<1>2. QED
  BY <1>1 DEF LifeInv

\* A step of one task that leaves the users alone.
LEMMA TaskLooks ==
  ASSUME LifeInv, NEW t \in LifeTasks, \A u \in LifeTasks : u # t => task'[u] = task[u],
         task' \in [LifeTasks -> LifeTaskStates], UNCHANGED <<acc, gone>>, CleanupFits(t)', CallbackFits(t)'
  PROVE  LifeInv'
<1>1. UsersOnlyGrow
  BY DEF UsersOnlyGrow
<1>2. LifeShape' /\ UsersFit' /\ OnlyUnusedDeleted'
  BY DEF LifeInv, LifeShape, Live, UsersFit, OnlyUnusedDeleted
<1>3. QED
  BY <1>1, <1>2, TaskMoves

\* A clean-up that deletes a user it took for unused, in its own name.
LEMMA TaskDeletes ==
  ASSUME LifeInv, NEW t \in LifeTasks, ~task[t].wasUsed, task[t].id \in Ids,
         IF Live(task[t].id) THEN /\ acc' = [acc EXCEPT ![task[t].id].is = "deleted"]
                                  /\ gone' = gone \cup {<<t, task[t].id, task[t].wasUsed>>}
                             ELSE UNCHANGED <<acc, gone>>,
         task' \in [LifeTasks -> LifeTaskStates]
  PROVE  /\ LifeShape' /\ UsersFit' /\ OnlyUnusedDeleted' /\ UsersOnlyGrow
         /\ \A g \in gone' \ gone : g = <<t, task[t].id, task[t].wasUsed>>
         /\ acc[task[t].id].is # "none" => acc'[task[t].id].is = "deleted"
<1> DEFINE i == task[t].id
<1>0. acc \in [Ids -> LifeUsers] /\ task[t].wasUsed \in BOOLEAN
  BY DEF LifeInv, LifeShape, LifeTaskStates
<1>1. CASE Live(i)
  <2>1. /\ acc' \in [Ids -> LifeUsers] /\ \A j \in Ids : j # i => acc'[j] = acc[j]
        /\ acc'[i].is = "deleted" /\ acc'[i].accts = acc[i].accts /\ acc'[i].used = acc[i].used
        /\ acc'[i].verified = acc[i].verified
    BY <1>0, <1>1 DEF LifeUsers
  <2>2. gone' = gone \cup {<<t, i, task[t].wasUsed>>} /\ <<t, i, task[t].wasUsed>>[3] = FALSE
    BY <1>0, <1>1
  <2>3. LifeShape'
    BY <1>0, <2>1, <2>2 DEF LifeInv, LifeShape, Live
  <2>4. UsersFit'
    BY <2>1, <2>2 DEF LifeInv, LifeShape, UsersFit, Live
  <2>5. OnlyUnusedDeleted'
    BY <2>2 DEF LifeInv, OnlyUnusedDeleted
  <2>6. UsersOnlyGrow
    BY <2>1 DEF UsersOnlyGrow
  <2>7. QED
    BY <2>1, <2>2, <2>3, <2>4, <2>5, <2>6
<1>2. CASE ~Live(i)
  <2>1. UNCHANGED <<acc, gone>>
    BY <1>2
  <2>2. LifeShape' /\ UsersFit' /\ OnlyUnusedDeleted' /\ UsersOnlyGrow
    BY <2>1 DEF LifeInv, LifeShape, Live, UsersFit, OnlyUnusedDeleted, UsersOnlyGrow
  <2>3. acc[i].is # "none" => acc'[i].is = "deleted"
    BY <1>0, <1>2, <2>1 DEF LifeUsers, Live
  <2>4. QED
    BY <2>1, <2>2, <2>3
<1>3. QED
  BY <1>1, <1>2

\* Every step of a sign-in callback or of the clean-up keeps the invariant of the accounts.
LEMMA LifeStepInv == LifeInv /\ [LifeNext]_lifeVars => LifeInv'
<1> SUFFICES ASSUME LifeInv, [LifeNext]_lifeVars PROVE LifeInv'
  OBVIOUS
<1> USE LifeAssumption
<1>1. ASSUME NEW i \in Ids, SignsUp(i) \/ SsoSignsIn(i) PROVE LifeInv'
  <2>1. /\ acc' \in [Ids -> LifeUsers] /\ \A j \in Ids : j # i => acc'[j] = acc[j]
        /\ acc'[i].is = "live" /\ acc'[i].accts # {}
        /\ acc'[i].accts = {"credential"} => ~acc'[i].used
    <3>1. acc \in [Ids -> LifeUsers] /\ {"credential"} \in SUBSET LifeAccounts /\ {"sso"} \in SUBSET LifeAccounts
      BY DEF LifeInv, LifeShape, LifeAccounts
    <3>2. CASE SignsUp(i)
      <4>1. acc'[i].accts = {"credential"} /\ acc'[i].used = FALSE
        BY <3>1, <3>2, PutIs DEF SignsUp
      <4>2. QED
        BY <3>1, <3>2, <4>1, PutIs DEF SignsUp
    <3>3. CASE SsoSignsIn(i)
      <4>1. acc'[i].accts = {"sso"}
        BY <3>1, <3>3, PutIs DEF SsoSignsIn
      <4>2. QED
        BY <3>1, <3>3, <4>1, PutIs DEF SsoSignsIn
    <3>4. QED
      BY <1>1, <3>2, <3>3
  <2>2. acc[i].is = "none" /\ LifeFree /\ UNCHANGED <<task, gone>>
    BY <1>1 DEF SignsUp, SsoSignsIn
  <2>3. LifeShape'
    BY <2>1, <2>2 DEF LifeInv, LifeShape, Live, LifeFree
  <2>4. UsersFit'
    BY <2>1, <2>2 DEF LifeInv, LifeShape, UsersFit, Live
  <2>5. UsersOnlyGrow
    BY <2>1, <2>2 DEF LifeInv, LifeShape, UsersOnlyGrow
  <2>6. QED
    BY <2>2, <2>3, <2>4, <2>5, OwnerKeeps
<1>2. ASSUME NEW i \in Ids, SsoSignsOut(i) \/ Verifies(i) \/ Uses(i) \/ GrowsOld(i) PROVE LifeInv'
  <2>1. /\ acc' \in [Ids -> LifeUsers] /\ \A j \in Ids : j # i => acc'[j] = acc[j]
        /\ acc'[i].is = acc[i].is /\ acc'[i].accts = acc[i].accts
        /\ acc[i].verified => acc'[i].verified
        /\ acc'[i].used = acc[i].used \/ acc[i].accts = {"sso"} \/ acc[i].verified
        /\ acc[i].used /\ acc[i].accts # {"sso"} => acc'[i].used
    <3>1. acc \in [Ids -> LifeUsers]
      BY DEF LifeInv, LifeShape
    <3>2. CASE SsoSignsOut(i)
      BY <3>1, <3>2 DEF SsoSignsOut, LifeUsers
    <3>3. CASE Verifies(i)
      BY <3>1, <3>3 DEF Verifies, LifeUsers
    <3>4. CASE Uses(i)
      BY <3>1, <3>4 DEF Uses, LifeUsers
    <3>5. CASE GrowsOld(i)
      BY <3>1, <3>5 DEF GrowsOld, LifeUsers
    <3>6. QED
      BY <1>2, <3>2, <3>3, <3>4, <3>5
  <2>2. UNCHANGED <<task, gone>>
    BY <1>2 DEF SsoSignsOut, Verifies, Uses, GrowsOld
  <2>3. LifeShape'
    BY <2>1, <2>2 DEF LifeInv, LifeShape, Live
  <2>4. UsersFit'
    BY <2>1, <2>2 DEF LifeInv, LifeShape, UsersFit, Live
  <2>5. UsersOnlyGrow
    BY <2>1 DEF UsersOnlyGrow
  <2>6. QED
    BY <2>2, <2>3, <2>4, <2>5, OwnerKeeps
<1>0. /\ task \in [LifeTasks -> LifeTaskStates] /\ acc \in [Ids -> LifeUsers]
      /\ \A t \in LifeTasks : CleanupFits(t) /\ CallbackFits(t)
  BY DEF LifeInv, LifeShape
<1>3. ASSUME NEW t \in LifeTasks, FindsCandidate(t) PROVE LifeInv'
  <2>1. task[t].pc = "idle" /\ UNCHANGED <<acc, gone>> /\ task[t].mine = NoId
    BY <1>0, <1>3 DEF FindsCandidate, CallbackFits
  <2>2. ASSUME NEW i \in Ids, Candidate(t, i),
               task' = [task EXCEPT ![t].pc = "accounts", ![t].id = i, ![t].wasUsed = Used(i)]
        PROVE  LifeInv'
    <3>1. Used(i) \in BOOLEAN
      BY <1>0 DEF Used, LifeUsers
    <3>2. /\ task' \in [LifeTasks -> LifeTaskStates] /\ \A u \in LifeTasks : u # t => task'[u] = task[u]
          /\ task'[t].pc = "accounts" /\ task'[t].id = i /\ task'[t].wasUsed = Used(i)
          /\ task'[t].mine = task[t].mine
      BY <1>0, <2>2, <3>1 DEF LifeTaskStates, LifePcs
    <3>3. acc[i].is # "none" /\ (Used(i) => ~(acc[i].accts \subseteq {"credential"}))
      BY <1>0, <2>2 DEF Candidate, Used, Live, LifeInv, UsersFit
    <3>4. CleanupFits(t)' /\ CallbackFits(t)'
      BY <2>1, <3>2, <3>3 DEF CleanupFits, CallbackFits
    <3>5. QED
      BY <2>1, <3>2, <3>4, TaskLooks
  <2>3. CASE To(t, "create")
    <3>1. CleanupFits(t)' /\ CallbackFits(t)'
      BY <1>0, <2>1, <2>3, ToIs DEF CleanupFits, CallbackFits, LifePcs
    <3>2. QED
      BY <1>0, <2>1, <2>3, <3>1, ToIs, TaskLooks DEF LifePcs
  <2>4. QED
    BY <1>3, <2>2, <2>3 DEF FindsCandidate
<1>4. ASSUME NEW t \in LifeTasks, ChecksAccounts(t) PROVE LifeInv'
  <2>1. PICK pc \in {"sessions", "ended", "create"} : To(t, pc) /\ (pc = "sessions" => OnlyCredential(task[t].id))
    BY <1>4 DEF ChecksAccounts, Next1
  <2>2. task[t].pc = "accounts" /\ UNCHANGED <<acc, gone>>
    BY <1>4 DEF ChecksAccounts
  <2>3. /\ task' \in [LifeTasks -> LifeTaskStates] /\ \A u \in LifeTasks : u # t => task'[u] = task[u]
        /\ task'[t].pc = pc /\ task'[t].id = task[t].id /\ task'[t].wasUsed = task[t].wasUsed
        /\ task'[t].mine = task[t].mine /\ task'[t].dirty = task[t].dirty
    BY <1>0, <2>1, ToIs DEF LifePcs
  <2>4. CleanupFits(t)' /\ CallbackFits(t)'
    BY <1>0, <2>1, <2>2, <2>3 DEF CleanupFits, CallbackFits, OnlyCredential
  <2>5. QED
    BY <2>2, <2>3, <2>4, TaskLooks
<1>5. ASSUME NEW t \in LifeTasks, ChecksSessions(t) PROVE LifeInv'
  <2>1. PICK pc \in {"delete", "ended", "create"} : To(t, pc)
    BY <1>5 DEF ChecksSessions, Next1
  <2>2. task[t].pc = "sessions" /\ UNCHANGED <<acc, gone>>
    BY <1>5 DEF ChecksSessions
  <2>3. /\ task' \in [LifeTasks -> LifeTaskStates] /\ \A u \in LifeTasks : u # t => task'[u] = task[u]
        /\ task'[t].pc = pc /\ task'[t].id = task[t].id /\ task'[t].wasUsed = task[t].wasUsed
        /\ task'[t].mine = task[t].mine /\ task'[t].dirty = task[t].dirty
    BY <1>0, <2>1, ToIs DEF LifePcs
  <2>4. CleanupFits(t)' /\ CallbackFits(t)'
    BY <1>0, <2>1, <2>2, <2>3 DEF CleanupFits, CallbackFits
  <2>5. QED
    BY <2>2, <2>3, <2>4, TaskLooks
<1>6. ASSUME NEW t \in LifeTasks, DeletesUser(t) PROVE LifeInv'
  <2>1. PICK pc \in {"ended", "create"} : To(t, pc)
    BY <1>6 DEF DeletesUser, Next1
  <2>2. task[t].pc = "delete" /\ ~task[t].wasUsed /\ task[t].id \in Ids
    BY <1>0, <1>6 DEF DeletesUser, CleanupFits
  <2>3. /\ task' \in [LifeTasks -> LifeTaskStates] /\ \A u \in LifeTasks : u # t => task'[u] = task[u]
        /\ task'[t].pc = pc /\ task'[t].id = task[t].id /\ task'[t].wasUsed = task[t].wasUsed
        /\ task'[t].mine = task[t].mine /\ task'[t].dirty = task[t].dirty
    BY <1>0, <2>1, ToIs DEF LifePcs
  <2>4. /\ LifeShape' /\ UsersFit' /\ OnlyUnusedDeleted' /\ UsersOnlyGrow
        /\ \A g \in gone' \ gone : g = <<t, task[t].id, task[t].wasUsed>>
    BY <1>6, <2>2, <2>3, TaskDeletes DEF DeletesUser
  <2>5. CleanupFits(t)' /\ CallbackFits(t)'
    BY <1>0, <2>2, <2>3 DEF CleanupFits, CallbackFits
  <2>6. \A g \in gone' \ gone : g[1] = t
    BY <2>4
  <2>7. QED
    BY <2>3, <2>4, <2>5, <2>6, TaskMoves
<1>7. ASSUME NEW r \in LifeTasks, CreatesOrLinks(r) PROVE LifeInv'
  <2>0. task[r].pc = "create" /\ UNCHANGED gone /\ task[r].mine = NoId
    BY <1>0, <1>7 DEF CreatesOrLinks, CallbackFits
  <2>1. ASSUME NEW i \in Ids, acc[i].is = "none", LifeFree, Put(i, TRUE, {"microsoft"}, FALSE),
               task' = [task EXCEPT ![r].pc = "session", ![r].id = i, ![r].mine = i]
        PROVE  LifeInv'
    <3>1. /\ acc' \in [Ids -> LifeUsers] /\ \A j \in Ids : j # i => acc'[j] = acc[j]
          /\ acc'[i].is = "live" /\ acc'[i].accts = {"microsoft"} /\ acc'[i].used = FALSE
      <4>1. {"microsoft"} \in SUBSET LifeAccounts
        BY DEF LifeAccounts
      <4>2. QED
        BY <1>0, <2>1, <4>1, PutIs
    <3>2. /\ task' \in [LifeTasks -> LifeTaskStates] /\ \A u \in LifeTasks : u # r => task'[u] = task[u]
          /\ task'[r].pc = "session" /\ task'[r].id = i /\ task'[r].mine = i
      BY <1>0, <2>1 DEF LifeTaskStates, LifePcs
    <3>3. LifeShape'
      BY <2>0, <2>1, <3>1, <3>2 DEF LifeInv, LifeShape, Live, LifeFree
    <3>4. UsersFit' /\ OnlyUnusedDeleted'
      BY <2>0, <2>1, <3>1 DEF LifeInv, LifeShape, UsersFit, OnlyUnusedDeleted, Live
    <3>5. UsersOnlyGrow
      BY <2>1, <3>1 DEF UsersOnlyGrow
    <3>6. CleanupFits(r)' /\ CallbackFits(r)'
      BY <3>1, <3>2 DEF CleanupFits, CallbackFits
    <3>7. QED
      BY <2>0, <3>2, <3>3, <3>4, <3>5, <3>6, TaskMoves
  <2>2. ASSUME NEW i \in Ids, Live(i), acc' = [acc EXCEPT ![i].accts = @ \cup {"microsoft"}, ![i].verified = TRUE],
               task' = [task EXCEPT ![r].pc = "session", ![r].id = i]
        PROVE  LifeInv'
    <3>1. /\ acc' \in [Ids -> LifeUsers] /\ \A j \in Ids : j # i => acc'[j] = acc[j]
          /\ acc'[i].is = acc[i].is /\ acc'[i].accts = acc[i].accts \cup {"microsoft"}
          /\ acc'[i].used = acc[i].used /\ acc'[i].verified = TRUE
      BY <1>0, <2>2 DEF LifeUsers, LifeAccounts
    <3>2. /\ task' \in [LifeTasks -> LifeTaskStates] /\ \A u \in LifeTasks : u # r => task'[u] = task[u]
          /\ task'[r].pc = "session" /\ task'[r].id = i /\ task'[r].mine = task[r].mine
      BY <1>0, <2>2 DEF LifeTaskStates, LifePcs
    <3>3. LifeShape'
      BY <2>0, <2>2, <3>1, <3>2 DEF LifeInv, LifeShape, Live
    <3>4. UsersFit' /\ OnlyUnusedDeleted'
      BY <2>0, <2>2, <3>1 DEF LifeInv, LifeShape, UsersFit, OnlyUnusedDeleted, Live
    <3>5. UsersOnlyGrow
      BY <2>2, <3>1 DEF UsersOnlyGrow
    <3>6. \A g \in gone : g[2] # i
      BY <2>2 DEF LifeInv, UsersFit, Live
    <3>7. CleanupFits(r)' /\ CallbackFits(r)'
      BY <2>0, <2>2, <3>1, <3>2, <3>6 DEF CleanupFits, CallbackFits, Live
    <3>8. QED
      BY <2>0, <3>2, <3>3, <3>4, <3>5, <3>7, TaskMoves
  <2>3. QED
    BY <1>7, <2>1, <2>2 DEF CreatesOrLinks
<1>8. ASSUME NEW r \in LifeTasks, SignedIn(r) PROVE LifeInv'
  <2>0. task[r].pc = "session" /\ Live(task[r].id) /\ UNCHANGED gone /\ task[r].id \in Ids
        /\ "microsoft" \in acc[task[r].id].accts
    BY <1>0, <1>8 DEF SignedIn, CallbackFits
  <2>1. PICK i \in Ids : i = task[r].id
    BY <2>0
  <2>2. /\ acc' \in [Ids -> LifeUsers] /\ \A j \in Ids : j # i => acc'[j] = acc[j]
        /\ acc'[i].is = acc[i].is /\ acc'[i].accts = acc[i].accts /\ acc'[i].used = TRUE
    BY <1>0, <1>8, <2>1 DEF SignedIn, LifeUsers
  <2>3. /\ task' \in [LifeTasks -> LifeTaskStates] /\ \A u \in LifeTasks : u # r => task'[u] = task[u]
        /\ task'[r].pc = "ended" /\ task'[r].id = task[r].id /\ task'[r].mine = task[r].mine
    BY <1>0, <1>8, ToIs DEF SignedIn, LifePcs
  <2>4. LifeShape'
    BY <2>0, <2>2, <2>3 DEF LifeInv, LifeShape, Live
  <2>5. UsersFit' /\ OnlyUnusedDeleted'
    BY <2>0, <2>1, <2>2 DEF LifeInv, LifeShape, UsersFit, OnlyUnusedDeleted, Live
  <2>6. UsersOnlyGrow
    BY <2>2 DEF UsersOnlyGrow
  <2>7. CleanupFits(r)' /\ CallbackFits(r)'
    BY <1>0, <2>3 DEF CleanupFits, CallbackFits
  <2>8. QED
    BY <2>0, <2>3, <2>4, <2>5, <2>6, <2>7, TaskMoves
<1>9. ASSUME NEW r \in LifeTasks, Refused(r) PROVE LifeInv'
  <2>1. PICK pc \in {"refused", "forget"} : To(r, pc) /\ (pc = "refused" <=> task[r].mine = NoId)
    BY <1>9 DEF Refused
  <2>2. task[r].pc = "session" /\ UNCHANGED <<acc, gone>>
    BY <1>9 DEF Refused
  <2>3. /\ task' \in [LifeTasks -> LifeTaskStates] /\ \A u \in LifeTasks : u # r => task'[u] = task[u]
        /\ task'[r].pc = pc /\ task'[r].id = task[r].id /\ task'[r].wasUsed = task[r].wasUsed
        /\ task'[r].mine = task[r].mine /\ task'[r].dirty = task[r].dirty
    BY <1>0, <2>1, ToIs DEF LifePcs
  <2>4. CleanupFits(r)' /\ CallbackFits(r)'
    BY <1>0, <2>1, <2>2, <2>3 DEF CleanupFits, CallbackFits
  <2>5. QED
    BY <2>2, <2>3, <2>4, TaskLooks
<1>10. ASSUME NEW r \in LifeTasks, ForgetChecks(r) PROVE LifeInv'
  <2>1. PICK pc \in {"refused", "remove"} :
          /\ task' = [task EXCEPT ![r].pc = pc, ![r].wasUsed = acc[task[r].id].used]
          /\ pc = "remove" <=> acc[task[r].id].accts = {"microsoft"} /\ ~acc[task[r].id].used
    BY <1>10 DEF ForgetChecks
  <2>2. task[r].pc = "forget" /\ UNCHANGED <<acc, gone>> /\ task[r].id \in Ids
    BY <1>0, <1>10 DEF ForgetChecks, CallbackFits
  <2>3. acc[task[r].id].used \in BOOLEAN
    BY <1>0, <2>2 DEF LifeUsers
  <2>4. /\ task' \in [LifeTasks -> LifeTaskStates] /\ \A u \in LifeTasks : u # r => task'[u] = task[u]
        /\ task'[r].pc = pc /\ task'[r].id = task[r].id /\ task'[r].wasUsed = acc[task[r].id].used
        /\ task'[r].mine = task[r].mine /\ task'[r].dirty = task[r].dirty
    <3> DEFINE b == acc[task[r].id].used
               q == [task[r] EXCEPT !.pc = pc, !.wasUsed = b]
    <3>1. task \in [LifeTasks -> LifeTaskStates] /\ task[r] \in LifeTaskStates
      BY <1>0
    <3>2. task' = [task EXCEPT ![r] = q]
      BY <2>1, <3>1
    <3>3. b \in BOOLEAN
      BY <2>3
    <3> HIDE DEF b
    <3>4. q \in LifeTaskStates /\ q.pc = pc /\ q.id = task[r].id /\ q.wasUsed = b /\ q.mine = task[r].mine /\ q.dirty = task[r].dirty
      BY <3>1, <3>3 DEF LifeTaskStates, LifePcs
    <3> HIDE DEF q
    <3>5. /\ task' \in [LifeTasks -> LifeTaskStates] /\ \A u \in LifeTasks : u # r => task'[u] = task[u]
          /\ task'[r].pc = pc /\ task'[r].id = task[r].id /\ task'[r].wasUsed = b
          /\ task'[r].mine = task[r].mine /\ task'[r].dirty = task[r].dirty
      BY <3>1, <3>2, <3>4
    <3>6. QED
      BY <3>5 DEF b
  <2>5. CleanupFits(r)' /\ CallbackFits(r)'
    BY <1>0, <2>1, <2>2, <2>3, <2>4 DEF CleanupFits, CallbackFits
  <2>6. QED
    BY <2>2, <2>4, <2>5, TaskLooks
<1>11. ASSUME NEW r \in LifeTasks, Removes(r) PROVE LifeInv'
  <2>1. To(r, "refused")
    BY <1>11 DEF Removes
  <2>2. /\ task[r].pc = "remove" /\ ~task[r].wasUsed /\ task[r].id \in Ids /\ task[r].mine # NoId
        /\ acc[task[r].id].is # "none"
    BY <1>0, <1>11 DEF Removes, CallbackFits
  <2>3. /\ task' \in [LifeTasks -> LifeTaskStates] /\ \A u \in LifeTasks : u # r => task'[u] = task[u]
        /\ task'[r].pc = "refused" /\ task'[r].id = task[r].id /\ task'[r].wasUsed = task[r].wasUsed
        /\ task'[r].mine = task[r].mine /\ task'[r].dirty = task[r].dirty
    BY <1>0, <2>1, ToIs DEF LifePcs
  <2>4. /\ LifeShape' /\ UsersFit' /\ OnlyUnusedDeleted' /\ UsersOnlyGrow
        /\ \A g \in gone' \ gone : g = <<r, task[r].id, task[r].wasUsed>>
        /\ acc'[task[r].id].is = "deleted"
    BY <1>11, <2>2, <2>3, TaskDeletes DEF Removes
  <2>5. CleanupFits(r)' /\ CallbackFits(r)'
    BY <1>0, <2>2, <2>3, <2>4 DEF CleanupFits, CallbackFits
  <2>6. \A g \in gone' \ gone : g[1] = r
    BY <2>4
  <2>7. QED
    BY <2>3, <2>4, <2>5, <2>6, TaskMoves
<1>12. ASSUME NEW r \in LifeTasks, RemovalFails(r) PROVE LifeInv'
  <2>1. task[r].pc \in {"forget", "remove"} /\ UNCHANGED <<acc, gone>>
        /\ task' = [task EXCEPT ![r].pc = "refused", ![r].dirty = TRUE]
    BY <1>12 DEF RemovalFails
  <2>2. /\ task' \in [LifeTasks -> LifeTaskStates] /\ \A u \in LifeTasks : u # r => task'[u] = task[u]
        /\ task'[r].pc = "refused" /\ task'[r].id = task[r].id /\ task'[r].dirty = TRUE
        /\ task'[r].mine = task[r].mine
    BY <1>0, <2>1 DEF LifeTaskStates, LifePcs
  <2>3. CleanupFits(r)' /\ CallbackFits(r)'
    BY <1>0, <2>1, <2>2 DEF CleanupFits, CallbackFits
  <2>4. QED
    BY <2>1, <2>2, <2>3, TaskLooks
<1>13. CASE UNCHANGED lifeVars
  <2>1. UNCHANGED <<acc, task, gone>>
    BY <1>13 DEF lifeVars
  <2>2. LifeShape' /\ UsersFit' /\ UsersOnlyGrow
    BY <2>1 DEF LifeInv, LifeShape, Live, UsersFit, UsersOnlyGrow
  <2>3. QED
    BY <2>1, <2>2, OwnerKeeps
<1>14. QED
  BY <1>1, <1>2, <1>3, <1>4, <1>5, <1>6, <1>7, <1>8, <1>9, <1>10, <1>11, <1>12, <1>13 DEF LifeNext, LifeTasks

\* Nobody's account is deleted for its address and a refused sign-in leaves nothing of its
\* own behind, however the purges, the sign-ins and the owner's requests overlap.
THEOREM LifeHolds == LifeSpec => []LifeSafe
<1>1. ASSUME LifeInv PROVE LifeSafe
  <2>1. Cardinality({i \in Ids : Live(i)}) <= 1
    <3>1. CASE {i \in Ids : Live(i)} = {}
      BY <3>1, FS_EmptySet
    <3>2. CASE {i \in Ids : Live(i)} # {}
      <4>1. PICK i \in Ids : {j \in Ids : Live(j)} = {i}
        BY <1>1, <3>2 DEF LifeInv, LifeShape
      <4>2. QED
        BY <4>1, FS_Singleton
    <3>3. QED
      BY <3>1, <3>2
  <2>2. LifeTypeOK
    BY <1>1, <2>1 DEF LifeInv, LifeShape, LifeTypeOK, LifeUsers, LifeAccounts, LifeTaskStates, LifePcs, LifeTasks
  <2>3. ASSUME NEW r \in Requests, task[r].pc = "refused"
        PROVE  /\ task[r].mine = NoId => \A g \in gone : <<g[1], g[2]>> # <<r, task[r].id>>
               /\ task[r].mine = task[r].id => \/ acc[task[r].id].is = "deleted" \/ acc[task[r].id].used
                                             \/ acc[task[r].id].accts # {"microsoft"} \/ task[r].dirty
    BY <1>1, <2>3, LifeAssumption DEF LifeInv, CallbackFits, LifeTasks
  <2>4. RefusedLeavesNothing
    BY <2>3 DEF RefusedLeavesNothing
  <2>5. QED
    BY <1>1, <2>2, <2>4 DEF LifeInv, LifeSafe
<1>2. QED
  BY <1>1, LifeInitInv, LifeStepInv, PTL DEF LifeSpec
=============================================================================
