--------------------------- MODULE MailSendProofs ---------------------------
(***************************************************************************)
(* Proofs about MailSend, for any number of keys, attempts and workers,    *)
(* any lease, renewal interval, budget and cooldowns.                      *)
(***************************************************************************)
EXTENDS MailSend, TLAPS

USE MailSendAssumption

\* A claimed entry carries the token of an attempt at that key and some time.
ClaimsOK ==
    \A k \in Keys : ledger[k].st = "claimed" =>
        /\ ledger[k].by \in Attempts /\ KeyOf[ledger[k].by] = k
        /\ ledger[k].left \in 1..Lease

\* What the stage of an attempt says of the request it made.
StageOK(a) ==
    /\ att[a].pc \in {"idle", "slot", "sleep"} => req[a] = "none"
    /\ att[a].pc = "sending" => req[a] \in {"open", "accepted"}
    /\ att[a].pc = "resting" => req[a] \in {"none", "refused"} /\ att[a].tries < MaxSends
    /\ att[a].pc = "mark" => req[a] = "accepted"
    /\ (att[a].pc \in {"failing", "backing"} /\ a \notin loose) => req[a] \in {"none", "refused"}
StagesOK == \A a \in Attempts : StageOK(a)

\* The attempt may still send the message, or did.
Covered(a) == att[a].pc \in Holding \/ req[a] \in {"open", "accepted"}

\* The ledger stands for every covered attempt that is not loose.
Guarded ==
    \A a \in Attempts : (Covered(a) /\ a \notin loose) => (Holds(a) \/ ledger[KeyOf[a]].st = "sent")

\* Of two covered attempts at one key, one is loose.
Alone ==
    \A a, b \in Attempts :
        (a # b /\ KeyOf[a] = KeyOf[b] /\ Covered(a) /\ Covered(b)) => (a \in loose \/ b \in loose)

\* A key recorded as sent was accepted by the provider.
SentOK ==
    \A k \in Keys : ledger[k].st = "sent" =>
        \E b \in Attempts : KeyOf[b] = k /\ req[b] = "accepted"

\* The renewal of an attempt that missed none is due before its lease ends.
InTime ==
    \A a \in Attempts :
        (att[a].pc \in Holding /\ att[a].missed = 0) =>
            \/ Holds(a) /\ att[a].timer < ledger[KeyOf[a]].left
            \/ ledger[KeyOf[a]].st = "sent"

IInv ==
    /\ TypeOK /\ ClaimsOK /\ StagesOK /\ Guarded /\ Alone /\ SentOK /\ DoneMeansSent /\ InTime

-----------------------------------------------------------------------------
\* The stages, apart from the rest of an attempt.
Stage == {"idle"} \cup Working \cup Ended
Code == {"none", "throttled", "retryable", "permanent"}

LEMMA LocalsType ==
    ASSUME NEW pc \in Stage, NEW code \in Code, NEW tries \in 0..MaxSends,
           NEW timer \in 0..RenewEvery, NEW missed \in 0..MaxMissed
    PROVE  /\ Locals(pc, code, tries, timer, missed) \in Attempt
           /\ Locals(pc, code, tries, timer, missed).pc = pc
           /\ Locals(pc, code, tries, timer, missed).tries = tries
           /\ Locals(pc, code, tries, timer, missed).timer = timer
           /\ Locals(pc, code, tries, timer, missed).missed = missed
  BY DEF Locals, Attempt, Stage, Code

\* What Ends and Goes do to the attempts.
LEMMA EndsAtt ==
    ASSUME TypeOK, NEW a \in Attempts, NEW pc \in Stage, NEW code \in Code, Ends(a, pc, code)
    PROVE  /\ att' \in [Attempts -> Attempt]
           /\ att'[a].pc = pc
           /\ \A b \in Attempts : b # a => att'[b] = att[b]
  <1>1. 0 \in 0..MaxSends /\ 0 \in 0..RenewEvery /\ 0 \in 0..MaxMissed
    OBVIOUS
  <1> QED BY <1>1, LocalsType DEF Ends, TypeOK

LEMMA GoesAtt ==
    ASSUME TypeOK, NEW a \in Attempts, NEW pc \in Stage, NEW code \in Code, NEW tries \in 0..MaxSends,
           Goes(a, pc, code, tries)
    PROVE  /\ att' \in [Attempts -> Attempt]
           /\ att'[a].pc = pc /\ att'[a].tries = tries
           /\ att'[a].timer = att[a].timer /\ att'[a].missed = att[a].missed
           /\ \A b \in Attempts : b # a => att'[b] = att[b]
  <1>1. att[a].timer \in 0..RenewEvery /\ att[a].missed \in 0..MaxMissed
    BY DEF TypeOK, Attempt
  <1> QED BY <1>1, LocalsType DEF Goes, TypeOK

\* FailsAtt: what Fails does.
LEMMA FailsAtt ==
    ASSUME TypeOK, NEW a \in Attempts, NEW code \in Code, Fails(a, code)
    PROVE  /\ att' \in [Attempts -> Attempt]
           /\ att'[a].pc = "failing" /\ att'[a].tries = 0
           /\ att'[a].timer = att[a].timer /\ att'[a].missed = att[a].missed
           /\ \A b \in Attempts : b # a => att'[b] = att[b]
  <1>1. "failing" \in Stage /\ 0 \in 0..MaxSends
    BY DEF Stage, Working
  <1> QED BY <1>1, GoesAtt DEF Fails

\* The other attempts are left alone.
Frame(a) == /\ att' \in [Attempts -> Attempt]
            /\ \A b \in Attempts : b # a => att'[b] = att[b]
\* The renewal timer of the attempt is left alone.
SameTimer(a) == att'[a].timer = att[a].timer /\ att'[a].missed = att[a].missed

\* Where a step of an attempt takes it.
Moves(a) ==
    /\ Invalid(a) => att'[a].pc = "failed"
    /\ ClaimFree(a) => \/ att'[a].pc = "slot" /\ att'[a].timer = RenewEvery
                       \/ att'[a].pc = "failed"
    /\ ClaimSent(a) => att'[a].pc = "done"
    /\ ClaimRefused(a) => att'[a].pc = "failed"
    /\ Renew(a) => /\ att'[a].pc = att[a].pc /\ att'[a].tries = att[a].tries
                   /\ att'[a].timer = RenewEvery /\ att'[a].missed = att[a].missed
    /\ RenewError(a) => /\ att'[a].pc = att[a].pc /\ att'[a].tries = att[a].tries
                        /\ att'[a].missed # 0
    /\ SlotGranted(a) => /\ \/ att'[a].pc = "resting" /\ att'[a].tries = 0
                            \/ att'[a].pc = "failing"
                         /\ SameTimer(a)
    /\ SlotRefused(a) => att'[a].pc \in {"sleep", "failing"} /\ SameTimer(a)
    /\ SlotError(a) => att'[a].pc = "failing" /\ SameTimer(a)
    /\ Wake(a) => att'[a].pc \in {"slot", "failing"} /\ SameTimer(a)
    /\ Abort(a) => att'[a].pc = att[a].pc /\ SameTimer(a)
    /\ Accept(a) => att' = att
    /\ Acknowledge(a) => att'[a].pc = "mark" /\ SameTimer(a)
    /\ GiveUp(a) => att'[a].pc = "failing" /\ SameTimer(a)
    /\ RestFails(a) => att'[a].pc = "failing" /\ SameTimer(a)
    /\ Refused(a) => att'[a].pc = "failing" /\ SameTimer(a)
    /\ RefusedInPlace(a) => /\ att'[a].pc = "resting" /\ att'[a].tries = att[a].tries
                            /\ SameTimer(a)
    /\ Request(a) => /\ att'[a].pc = "sending" /\ att'[a].tries = att[a].tries + 1
                    /\ SameTimer(a)
    /\ Mark(a) => att'[a].pc = "done"
    /\ Release(a) => att'[a].pc \in {"backing", "failed"}
    /\ BackOff(a) => att'[a].pc = "failed"
    /\ Crash(a) => att'[a].pc = "crashed"

LEMMA StepAtt ==
    ASSUME TypeOK, StagesOK, NEW a \in Attempts
    PROVE  (Step(a) => Frame(a)) /\ Moves(a)
  <1>1. att \in [Attempts -> Attempt] /\ att[a] \in Attempt
    BY DEF TypeOK
  <1>2. {"done", "failed", "crashed", "resting", "mark"} \subseteq Stage
        /\ {"none", "throttled", "retryable", "permanent"} \subseteq Code /\ att[a].code \in Code
    BY <1>1 DEF Stage, Working, Ended, Code, Attempt
  <1>3. 0 \in 0..MaxSends
    OBVIOUS
  <1>4. ASSUME Invalid(a)
        PROVE  Frame(a) /\ att'[a].pc = "failed"
    BY <1>2, <1>4, EndsAtt DEF Invalid, Frame, SameTimer
  <1>5. ASSUME ClaimFree(a)
        PROVE  /\ Frame(a)
               /\ \/ att'[a].pc = "slot" /\ att'[a].timer = RenewEvery
                  \/ att'[a].pc = "failed"
    <2>1. CASE Ends(a, "failed", "retryable")
      BY <1>2, <1>5, <2>1, EndsAtt DEF Frame, SameTimer
    <2>2. CASE att' = [att EXCEPT ![a].pc = "slot", ![a].timer = RenewEvery]
      <3> DEFINE mid == [att[a] EXCEPT !.pc = "slot"]
      <3>0. mid \in Attempt /\ mid.pc = "slot"
        BY <1>1 DEF Attempt, Working
      <3>1. att'[a] = [mid EXCEPT !.timer = RenewEvery]
        BY <1>1, <2>2
      <3> HIDE DEF mid
      <3>2. att'[a] \in Attempt /\ att'[a].pc = "slot" /\ att'[a].timer = RenewEvery
        BY <3>0, <3>1 DEF Attempt
      <3>3. Frame(a)
        BY <1>1, <2>2, <3>2 DEF Frame
      <3> QED BY <1>5, <3>2, <3>3 DEF Frame, SameTimer
    <2> QED BY <1>5, <2>1, <2>2 DEF ClaimFree
  <1>6. ASSUME ClaimSent(a)
        PROVE  Frame(a) /\ att'[a].pc = "done"
    BY <1>2, <1>6, EndsAtt DEF ClaimSent, Frame, SameTimer
  <1>7. ASSUME ClaimRefused(a)
        PROVE  Frame(a) /\ att'[a].pc = "failed"
    BY <1>2, <1>7, EndsAtt DEF ClaimRefused, Frame, SameTimer
  <1>8. ASSUME Renew(a)
        PROVE  /\ Frame(a)
               /\ /\ att'[a].pc = att[a].pc /\ att'[a].tries = att[a].tries
                  /\ att'[a].timer = RenewEvery /\ att'[a].missed = att[a].missed
    <2>1. att' = [att EXCEPT ![a].timer = RenewEvery]
      BY <1>8 DEF Renew
    <2> QED BY <1>1, <1>8, <2>1 DEF Frame, SameTimer, Attempt
  <1>9. ASSUME RenewError(a)
        PROVE  /\ Frame(a)
               /\ /\ att'[a].pc = att[a].pc /\ att'[a].tries = att[a].tries
                  /\ att'[a].missed # 0
    <2>1. att' = [att EXCEPT ![a].timer = RenewEvery, ![a].missed = OneMore(@)]
      BY <1>9 DEF RenewError
    <2>2. OneMore(att[a].missed) \in 0..MaxMissed /\ OneMore(att[a].missed) # 0
      BY <1>1 DEF OneMore, Attempt
    <2> DEFINE mid == [att[a] EXCEPT !.timer = RenewEvery]
    <2>0. mid \in Attempt /\ mid.pc = att[a].pc /\ mid.tries = att[a].tries
      BY <1>1 DEF Attempt
    <2>3. att'[a] = [mid EXCEPT !.missed = OneMore(att[a].missed)]
      BY <1>1, <2>1
    <2> HIDE DEF mid
    <2>4. att'[a] \in Attempt /\ att'[a].pc = att[a].pc /\ att'[a].tries = att[a].tries
          /\ att'[a].missed # 0
      BY <2>0, <2>2, <2>3 DEF Attempt
    <2>5. Frame(a)
      BY <1>1, <2>1, <2>4 DEF Frame
    <2> QED BY <1>9, <2>4, <2>5 DEF Frame, SameTimer
  <1>10. ASSUME SlotGranted(a)
        PROVE  /\ Frame(a)
               /\ /\ \/ att'[a].pc = "resting" /\ att'[a].tries = 0
                     \/ att'[a].pc = "failing"
                  /\ SameTimer(a)
    <2>1. CASE Goes(a, "resting", "none", 0)
      BY <1>2, <1>3, <1>10, <2>1, GoesAtt DEF Frame, SameTimer
    <2>2. CASE Fails(a, "retryable")
      BY <1>2, <1>10, <2>2, FailsAtt DEF Frame, SameTimer
    <2> QED BY <1>10, <2>1, <2>2 DEF SlotGranted
  <1>11. ASSUME SlotRefused(a)
        PROVE  Frame(a) /\ att'[a].pc \in {"sleep", "failing"} /\ SameTimer(a)
    <2>0. att[a].pc = "slot"
      BY <1>11 DEF SlotRefused
    <2>1. ASSUME NEW code \in Code, Fails(a, code)
          PROVE  Frame(a) /\ att'[a].pc \in {"sleep", "failing"} /\ SameTimer(a)
      BY <1>2, <1>11, <2>0, <2>1, FailsAtt DEF Frame, SameTimer
    <2>2. ASSUME NEW w \in SlotWaits \ {0}, att[a].waited + w <= MaxWait,
                 att' = [att EXCEPT ![a].pc = "sleep", ![a].sleep = w, ![a].waited = @ + w]
          PROVE  Frame(a) /\ att'[a].pc \in {"sleep", "failing"} /\ SameTimer(a)
      <3>1. w \in Nat /\ att[a].waited \in Nat
        BY <1>1, <2>2 DEF SlotWaits, TypeOK, Attempt
      <3>2. w \in 0..MaxWait /\ att[a].waited + w \in 0..MaxWait
        BY <2>2, <3>1
      <3> QED BY <1>1, <1>11, <2>0, <2>2, <3>2 DEF Frame, SameTimer, Attempt, Working
    <2> QED BY <1>2, <1>11, <2>1, <2>2 DEF SlotRefused
  <1>12. ASSUME SlotError(a)
        PROVE  Frame(a) /\ att'[a].pc = "failing" /\ SameTimer(a)
    BY <1>2, <1>12, FailsAtt DEF SlotError, Frame, SameTimer
  <1>13. ASSUME Wake(a)
        PROVE  Frame(a) /\ att'[a].pc \in {"slot", "failing"} /\ SameTimer(a)
    <2>1. CASE Fails(a, "retryable")
      BY <1>2, <1>13, <2>1, FailsAtt DEF Frame, SameTimer, Wake
    <2>2. CASE att' = [att EXCEPT ![a].pc = "slot"]
      BY <1>1, <1>13, <2>2 DEF Frame, SameTimer, Attempt, Working, Wake
    <2> QED BY <1>13, <2>1, <2>2 DEF Wake
  <1>14. ASSUME Abort(a)
        PROVE  Frame(a) /\ att'[a].pc = att[a].pc /\ SameTimer(a)
    <2>1. att[a].pc \in {"slot", "sleep"} /\ att' = [att EXCEPT ![a].aborted = TRUE]
      BY <1>14 DEF Abort
    <2> QED BY <1>1, <1>14, <2>1 DEF Frame, SameTimer, Attempt
  <1>15. ASSUME Accept(a)
        PROVE  Frame(a) /\ att' = att
    BY <1>1, <1>15 DEF Accept, Frame, SameTimer
  <1>16. ASSUME Acknowledge(a)
        PROVE  Frame(a) /\ att'[a].pc = "mark" /\ SameTimer(a)
    BY <1>2, <1>3, <1>16, GoesAtt DEF Acknowledge, Frame, SameTimer
  <1>17. ASSUME GiveUp(a)
        PROVE  Frame(a) /\ att'[a].pc = "failing" /\ SameTimer(a)
    BY <1>2, <1>17, FailsAtt DEF GiveUp, Frame, SameTimer
  <1>18. ASSUME RestFails(a)
        PROVE  Frame(a) /\ att'[a].pc = "failing" /\ SameTimer(a)
    BY <1>2, <1>18, FailsAtt DEF RestFails, Frame, SameTimer
  <1>19. ASSUME Refused(a)
        PROVE  Frame(a) /\ att'[a].pc = "failing" /\ SameTimer(a)
    BY <1>2, <1>19, FailsAtt DEF Refused, Frame, SameTimer
  <1>20. ASSUME RefusedInPlace(a)
        PROVE  /\ Frame(a)
               /\ /\ att'[a].pc = "resting" /\ att'[a].tries = att[a].tries
                  /\ SameTimer(a)
    <2>1. att' = [att EXCEPT ![a].pc = "resting"]
      BY <1>20 DEF RefusedInPlace
    <2> QED BY <1>1, <1>20, <2>1 DEF Frame, SameTimer, Attempt, Working
  <1>21. ASSUME Request(a)
        PROVE  /\ Frame(a)
               /\ /\ att'[a].pc = "sending" /\ att'[a].tries = att[a].tries + 1
                  /\ SameTimer(a)
    <2>1. att' = [att EXCEPT ![a].pc = "sending", ![a].tries = @ + 1] /\ att[a].tries < MaxSends
      BY <1>21 DEF Request, StagesOK, StageOK
    <2>2. att[a].tries + 1 \in 0..MaxSends
      BY <1>1, <2>1 DEF Attempt
    <2> QED BY <1>1, <1>21, <2>1, <2>2 DEF Frame, SameTimer, Attempt, Working
  <1>22. ASSUME Mark(a)
        PROVE  Frame(a) /\ att'[a].pc = "done"
    BY <1>2, <1>22, EndsAtt DEF Mark, Frame, SameTimer
  <1>23. ASSUME Release(a)
        PROVE  Frame(a) /\ att'[a].pc \in {"backing", "failed"}
    <2>1. CASE Ends(a, "failed", att[a].code)
      BY <1>2, <1>23, <2>1, EndsAtt DEF Frame, SameTimer
    <2>2. CASE att' = [att EXCEPT ![a].pc = "backing"]
      BY <1>1, <1>23, <2>2 DEF Frame, SameTimer, Attempt, Working
    <2> QED BY <1>23, <2>1, <2>2 DEF Release
  <1>24. ASSUME BackOff(a)
        PROVE  Frame(a) /\ att'[a].pc = "failed"
    BY <1>2, <1>24, EndsAtt DEF BackOff, Frame, SameTimer
  <1>25. ASSUME Crash(a)
        PROVE  Frame(a) /\ att'[a].pc = "crashed"
    BY <1>2, <1>25, EndsAtt DEF Crash, Frame, SameTimer
  <1> QED
    BY <1>4, <1>5, <1>6, <1>7, <1>8, <1>9, <1>10, <1>11, <1>12, <1>13, <1>14, <1>15, <1>16, <1>17,
       <1>18, <1>19, <1>20, <1>21, <1>22, <1>23, <1>24, <1>25 DEF Step, Moves

\* What Tick does to an attempt: its stage and its request are left alone.
LEMMA TickAtt ==
    ASSUME TypeOK, Tick
    PROVE  /\ att' \in [Attempts -> Attempt]
           /\ \A a \in Attempts :
                /\ att'[a].pc = att[a].pc /\ att'[a].tries = att[a].tries
                /\ att'[a].timer = IF att[a].timer > 0 THEN att[a].timer - 1 ELSE 0
                /\ att'[a].missed = IF att[a].pc \in Working /\ att[a].timer = 0
                                      THEN OneMore(att[a].missed) ELSE att[a].missed
  <1> SUFFICES ASSUME NEW a \in Attempts
               PROVE  /\ att'[a] \in Attempt
                      /\ att'[a].pc = att[a].pc /\ att'[a].tries = att[a].tries
                      /\ att'[a].timer = IF att[a].timer > 0 THEN att[a].timer - 1 ELSE 0
                      /\ att'[a].missed = IF att[a].pc \in Working /\ att[a].timer = 0
                                            THEN OneMore(att[a].missed) ELSE att[a].missed
    BY DEF Tick
  <1> DEFINE sl == IF att[a].sleep > 0 THEN att[a].sleep - 1 ELSE 0
             ti == IF att[a].timer > 0 THEN att[a].timer - 1 ELSE 0
             mi == IF att[a].pc \in Working /\ att[a].timer = 0 THEN OneMore(att[a].missed) ELSE att[a].missed
             x == [att[a] EXCEPT !.sleep = sl]
             y == [x EXCEPT !.timer = ti]
  <1>1. att[a] \in Attempt
    BY DEF TypeOK
  <1>2. sl \in 0..MaxWait /\ ti \in 0..RenewEvery /\ mi \in 0..MaxMissed
    BY <1>1 DEF Attempt, OneMore
  <1>3. att'[a] = [y EXCEPT !.missed = mi]
    BY DEF Tick
  <1> HIDE DEF sl, ti, mi
  <1>4. x \in Attempt /\ x.pc = att[a].pc /\ x.tries = att[a].tries
    BY <1>1, <1>2 DEF Attempt
  <1> HIDE DEF x
  <1>5. y \in Attempt /\ y.pc = x.pc /\ y.tries = x.tries /\ y.timer = ti
    BY <1>2, <1>4 DEF Attempt
  <1> HIDE DEF y
  <1>6. att'[a] \in Attempt /\ att'[a].pc = y.pc /\ att'[a].tries = y.tries /\ att'[a].timer = ti
        /\ att'[a].missed = mi
    BY <1>2, <1>3, <1>5 DEF Attempt
  <1> QED BY <1>4, <1>5, <1>6 DEF ti, mi

\* How a step of an attempt changes the ledger, if it does.
LEMMA StepLedger ==
    ASSUME TypeOK, NEW a \in Attempts, Step(a)
    PROVE  \/ ledger' = ledger
           \/ ClaimFree(a) /\ ledger' = [ledger EXCEPT ![KeyOf[a]] = ClaimedBy(a)]
           \/ Renew(a) /\ Holds(a) /\ ledger' = [ledger EXCEPT ![KeyOf[a]].left = Lease]
           \/ Mark(a) /\ ledger' = [ledger EXCEPT ![KeyOf[a]] = Sent]
           \/ Release(a) /\ Holds(a) /\ ledger' = [ledger EXCEPT ![KeyOf[a]] = Free]
  BY DEF Step, Invalid, ClaimFree, ClaimSent, ClaimRefused, Renew, RenewError, SlotGranted, SlotRefused,
         SlotError, Wake, Abort, Accept, Acknowledge, GiveUp, RefusedInPlace, Request, RestFails, Refused,
         Mark, Release, ReleaseClaim, BackOff, Crash

\* How a step of an attempt changes the requests, if it does.
LEMMA StepReq ==
    ASSUME TypeOK, NEW a \in Attempts, Step(a)
    PROVE  /\ req' \in [Attempts -> Requests]
           /\ \A b \in Attempts : b # a => req'[b] = req[b]
           /\ \/ req' = req
              \/ Request(a)
              \/ Accept(a) /\ req'[a] = "accepted"
              \/ (RefusedInPlace(a) \/ Refused(a)) /\ req'[a] = "refused"
  BY DEF TypeOK, Requests, Step, Invalid, ClaimFree, ClaimSent, ClaimRefused, Renew, RenewError, SlotGranted, SlotRefused,
         SlotError, Wake, Abort, Accept, Acknowledge, GiveUp, RefusedInPlace, Request, RestFails, Refused,
         Mark, Release, BackOff, Crash

\* The history only grows.
LEMMA LooseGrows ==
    ASSUME TypeOK, ClaimsOK, [Next]_vars
    PROVE  loose \subseteq loose' /\ loose' \subseteq Attempts
  <1>1. ASSUME NEW a \in Attempts, Step(a)
        PROVE  loose \subseteq loose' /\ loose' \subseteq Attempts
    BY <1>1 DEF TypeOK, Step, Invalid, ClaimFree, ClaimSent, ClaimRefused, Renew, RenewError, SlotGranted,
         SlotRefused, SlotError, Wake, Abort, Accept, Acknowledge, GiveUp, RefusedInPlace, Request,
         RestFails, Refused, Mark, Release, BackOff, Crash
  <1>2. CASE Tick
    <2>1. {ledger[k].by : k \in {x \in Keys : Lapsing(x)}} \subseteq Attempts
      BY DEF ClaimsOK, Lapsing
    <2>2. loose' = loose \cup {ledger[k].by : k \in {x \in Keys : Lapsing(x)}}
      BY <1>2 DEF Tick
    <2> QED BY <2>1, <2>2, Zenon DEF TypeOK
  <1>3. CASE UNCHANGED vars \/ \E k \in Keys : Forget(k)
    BY <1>3 DEF vars, Forget, TypeOK
  <1> QED BY <1>1, <1>2, <1>3 DEF Next

\* Cooldowns are what some provider asked for, or less.
LEMMA CooldownStep ==
    ASSUME TypeOK, [Next]_vars
    PROVE  cooldown' \in {0} \cup UNION {0..c : c \in Cooldowns}
  <1> DEFINE Cool == {0} \cup UNION {0..c : c \in Cooldowns}
  <1>1. cooldown \in Cool
    BY DEF TypeOK
  <1>2. \A c \in Cooldowns : c \in Cool
    <2> SUFFICES ASSUME NEW c \in Cooldowns PROVE c \in 0..c
      OBVIOUS
    <2> QED OBVIOUS
  <1>3. \A n \in Cool : n \in Nat /\ (n > 0 => n - 1 \in Cool)
    <2> SUFFICES ASSUME NEW n \in Cool, n # 0
                 PROVE  n \in Nat /\ n - 1 \in Cool
      OBVIOUS
    <2>1. PICK c \in Cooldowns : n \in 0..c
      OBVIOUS
    <2>2. n \in Nat /\ n - 1 \in 0..c
      BY <2>1
    <2> QED BY <2>1, <2>2
  <1> HIDE DEF Cool
  <1>4. ASSUME Tick
        PROVE  cooldown' \in Cool
    BY <1>1, <1>3, <1>4 DEF Tick, Cool
  <1>5. ASSUME NEW a \in Attempts, RefusedInPlace(a) \/ BackOff(a)
        PROVE  cooldown' \in Cool
    BY <1>1, <1>2, <1>5 DEF RefusedInPlace, BackOff, BackOffTo
  <1>6. Tick \/ cooldown' = cooldown \/ \E a \in Attempts : RefusedInPlace(a) \/ BackOff(a)
    BY DEF Next, vars, Step, Invalid, ClaimFree, ClaimSent, ClaimRefused, Renew, RenewError, SlotGranted,
         SlotRefused, SlotError, Wake, Abort, Accept, Acknowledge, GiveUp, Request,
         RestFails, Refused, Mark, Release, Crash, Forget
  <1>7. cooldown' \in Cool
    BY <1>1, <1>4, <1>5, <1>6
  <1> QED BY <1>7 DEF Cool

\* The entries stay well formed.
LEMMA LedgerStep ==
    ASSUME TypeOK, ClaimsOK, [Next]_vars
    PROVE  ledger' \in [Keys -> Entry] /\ ClaimsOK'
  <1> USE DEF ClaimsOK, Entry
  <1>1. ledger \in [Keys -> Entry]
    BY DEF TypeOK
  <1>2. ASSUME NEW a \in Attempts, Step(a)
        PROVE  ledger' \in [Keys -> Entry] /\ ClaimsOK'
    <2>1. KeyOf[a] \in Keys
      OBVIOUS
    <2>2. CASE ledger' = ledger
      BY <1>1, <2>2
    <2>3. CASE ledger' = [ledger EXCEPT ![KeyOf[a]] = ClaimedBy(a)]
      BY <1>1, <2>1, <2>3 DEF ClaimedBy
    <2>4. CASE Holds(a) /\ ledger' = [ledger EXCEPT ![KeyOf[a]].left = Lease]
      BY <1>1, <2>1, <2>4 DEF Holds
    <2>5. CASE ledger' = [ledger EXCEPT ![KeyOf[a]] = Sent]
      BY <1>1, <2>1, <2>5 DEF Sent
    <2>6. CASE ledger' = [ledger EXCEPT ![KeyOf[a]] = Free]
      BY <1>1, <2>1, <2>6 DEF Free
    <2> QED BY <1>2, <2>2, <2>3, <2>4, <2>5, <2>6, StepLedger
  <1>3. CASE Tick
    <2> SUFFICES ASSUME NEW k \in Keys
                 PROVE  /\ ledger'[k] \in Entry
                        /\ ledger'[k].st = "claimed" =>
                              /\ ledger'[k].by \in Attempts /\ KeyOf[ledger'[k].by] = k
                              /\ ledger'[k].left \in 1..Lease
      BY <1>3 DEF Tick
    <2>1. ledger[k] \in Entry
      BY <1>1
    <2>2. CASE Lapsing(k)
      <3>1. ledger'[k] = Free
        BY <1>3, <2>2 DEF Tick
      <3> QED BY <3>1 DEF Free
    <2>3. CASE ~ Lapsing(k) /\ ledger[k].st = "claimed"
      <3>1. ledger'[k] = [ledger[k] EXCEPT !.left = @ - 1]
        BY <1>3, <2>3 DEF Tick
      <3>2. ledger[k].left - 1 \in 1..Lease
        BY <2>1, <2>3 DEF Lapsing
      <3> QED BY <2>1, <2>3, <3>1, <3>2
    <2>4. CASE ~ Lapsing(k) /\ ledger[k].st # "claimed"
      BY <1>3, <2>1, <2>4 DEF Tick
    <2> QED BY <2>2, <2>3, <2>4
  <1>4. CASE UNCHANGED vars
    BY <1>1, <1>4 DEF vars
  <1>5. ASSUME NEW k \in Keys, Forget(k)
        PROVE  ledger' \in [Keys -> Entry] /\ ClaimsOK'
    BY <1>1, <1>5 DEF Forget, Free
  <1> QED BY <1>2, <1>3, <1>4, <1>5 DEF Next

\* Every step keeps the types.
LEMMA TypeStep ==
    ASSUME IInv, [Next]_vars
    PROVE  TypeOK'
  <1>1. TypeOK /\ ClaimsOK /\ StagesOK
    BY DEF IInv
  <1>2. att' \in [Attempts -> Attempt] /\ req' \in [Attempts -> Requests]
    <2>1. CASE UNCHANGED vars \/ \E k \in Keys : Forget(k)
      BY <1>1, <2>1 DEF vars, Forget, TypeOK
    <2>2. CASE Tick
      BY <1>1, <2>2, TickAtt DEF Tick, TypeOK
    <2> QED BY <1>1, <2>1, <2>2, StepAtt, StepReq DEF Next, Frame
  <1> QED BY <1>1, <1>2, LedgerStep, CooldownStep, LooseGrows DEF TypeOK

\* Every step keeps what the stages say of the requests.
LEMMA StagesStep ==
    ASSUME IInv, [Next]_vars
    PROVE  StagesOK'
  <1>1. TypeOK /\ ClaimsOK /\ StagesOK /\ loose \subseteq loose'
    BY LooseGrows DEF IInv
  <1>2. CASE UNCHANGED vars
    BY <1>1, <1>2 DEF vars, StagesOK, StageOK
  <1>3. CASE Tick
    BY <1>1, <1>3, TickAtt DEF Tick, StagesOK, StageOK
  <1>4. ASSUME NEW k \in Keys, Forget(k)
        PROVE  StagesOK'
    BY <1>1, <1>4 DEF Forget, StagesOK, StageOK
  <1>5. ASSUME NEW a \in Attempts, Step(a)
        PROVE  StagesOK'
    <2>1. \A b \in Attempts : b # a => StageOK(b)'
      BY <1>1, <1>5, StepAtt, StepReq DEF Frame, StagesOK, StageOK
    <2>2. StageOK(a)'
      <3>1. Moves(a) /\ StageOK(a) /\ req \in [Attempts -> Requests] /\ att[a] \in Attempt
        BY <1>1, <1>5, StepAtt DEF StagesOK, TypeOK
      <3>2. CASE Invalid(a) \/ ClaimFree(a) \/ ClaimSent(a) \/ ClaimRefused(a)
        BY <3>1, <3>2 DEF Moves, StageOK, Invalid, ClaimFree, ClaimSent, ClaimRefused
      <3>3. CASE Renew(a) \/ RenewError(a) \/ Abort(a)
        BY <1>1, <3>1, <3>3 DEF Moves, StageOK, Renew, RenewError, Abort
      <3>4. CASE SlotGranted(a)
        BY <3>1, <3>4 DEF Moves, StageOK, SlotGranted
      <3>5. CASE SlotRefused(a) \/ SlotError(a) \/ Wake(a)
        BY <3>1, <3>5 DEF Moves, StageOK, SlotRefused, SlotError, Wake
      <3>6. CASE Accept(a)
        BY <3>1, <3>6 DEF Moves, StageOK, Accept
      <3>7. CASE Acknowledge(a) \/ GiveUp(a) \/ RestFails(a)
        BY <3>1, <3>7 DEF Moves, StageOK, Acknowledge, GiveUp, RestFails
      <3>8. CASE RefusedInPlace(a) \/ Refused(a)
        BY <3>1, <3>8 DEF Moves, StageOK, RefusedInPlace, Refused
      <3>9. CASE Request(a)
        BY <3>1, <3>9 DEF Moves, StageOK, Request
      <3>10. CASE Mark(a) \/ Release(a) \/ BackOff(a) \/ Crash(a)
        BY <1>1, <3>1, <3>10 DEF Moves, StageOK, Mark, Release, BackOff, Crash
      <3> QED
        BY <1>5, <3>2, <3>3, <3>4, <3>5, <3>6, <3>7, <3>8, <3>9, <3>10 DEF Step
    <2> QED BY <2>1, <2>2 DEF StagesOK
  <1> QED BY <1>2, <1>3, <1>4, <1>5 DEF Next

\* An attempt becomes covered by claiming a free key, and by nothing else.
LEMMA CoverStep ==
    ASSUME TypeOK, StagesOK, NEW a \in Attempts, Step(a), NEW b \in Attempts, Covered(b)'
    PROVE  Covered(b) \/ (b = a /\ ClaimFree(a))
  <1>1. CASE b # a
    BY <1>1, StepAtt, StepReq DEF Frame, Covered
  <1>2. CASE b = a
    <2>1. Moves(a) /\ StageOK(a) /\ req \in [Attempts -> Requests]
      BY StepAtt DEF StagesOK, TypeOK
    <2>2. CASE Invalid(a) \/ ClaimSent(a) \/ ClaimRefused(a)
      BY <1>2, <2>1, <2>2 DEF Covered, Moves, StageOK, Holding, Invalid, ClaimSent, ClaimRefused
    <2>3. CASE Renew(a) \/ RenewError(a) \/ Abort(a)
      BY <1>2, <2>1, <2>3 DEF Covered, Moves, Renew, RenewError, Abort
    <2>4. CASE SlotGranted(a) \/ SlotRefused(a) \/ SlotError(a) \/ Wake(a) \/ Acknowledge(a) \/ GiveUp(a)
               \/ RefusedInPlace(a) \/ Request(a) \/ RestFails(a) \/ Refused(a) \/ Mark(a) \/ Release(a)
      BY <1>2, <2>4 DEF Covered, Holding, SlotGranted, SlotRefused, SlotError, Wake, Acknowledge, GiveUp,
            RefusedInPlace, Request, RestFails, Refused, Mark, Release
    <2>5. CASE Accept(a)
      BY <1>2, <2>5 DEF Covered, Accept
    <2>6. CASE BackOff(a) \/ Crash(a)
      BY <1>2, <2>1, <2>6 DEF Covered, Moves, Holding, BackOff, Crash
    <2> QED BY <1>2, <2>2, <2>3, <2>4, <2>5, <2>6 DEF Step
  <1> QED BY <1>1, <1>2

\* Every step keeps the ledger standing for the covered attempts.
LEMMA GuardedStep ==
    ASSUME IInv, [Next]_vars
    PROVE  Guarded'
  <1>1. TypeOK /\ ClaimsOK /\ StagesOK /\ Guarded /\ loose \subseteq loose'
    BY LooseGrows DEF IInv
  <1>2. SUFFICES ASSUME NEW b \in Attempts, Covered(b)', b \notin loose'
                 PROVE  Holds(b)' \/ ledger'[KeyOf[b]].st = "sent"
    BY DEF Guarded
  <1>3. KeyOf[b] \in Keys /\ ledger \in [Keys -> Entry]
    BY <1>1 DEF TypeOK
  <1>4. CASE UNCHANGED vars
    BY <1>1, <1>2, <1>4 DEF vars, Guarded, Covered, Holds
  <1>5. CASE Tick
    <2>1. Covered(b)
      BY <1>1, <1>2, <1>5, TickAtt DEF Tick, Covered
    <2>2. ~ (Lapsing(KeyOf[b]) /\ ledger[KeyOf[b]].by = b)
      BY <1>2, <1>3, <1>5 DEF Tick
    <2>3. Holds(b) \/ ledger[KeyOf[b]].st = "sent"
      BY <1>1, <1>2, <2>1 DEF Guarded
    <2>4. CASE ledger[KeyOf[b]].st = "sent"
      BY <1>3, <1>5, <2>4 DEF Tick, Lapsing
    <2>5. CASE Holds(b)
      <3>1. ledger'[KeyOf[b]] = [ledger[KeyOf[b]] EXCEPT !.left = @ - 1]
        BY <1>3, <1>5, <2>2, <2>5 DEF Tick, Holds
      <3> QED BY <1>3, <2>5, <3>1 DEF Holds, Entry
    <2> QED BY <2>3, <2>4, <2>5
  <1>6. ASSUME NEW k \in Keys, Forget(k)
        PROVE  Holds(b)' \/ ledger'[KeyOf[b]].st = "sent"
    <2>1. Covered(b) /\ att[b].pc # "idle"
      BY <1>1, <1>2, <1>6 DEF Forget, Covered, StagesOK, StageOK, Holding
    <2>2. KeyOf[b] # k
      BY <1>2, <1>6, <2>1 DEF Forget
    <2> QED BY <1>1, <1>2, <1>3, <1>6, <2>1, <2>2 DEF Forget, Guarded, Holds
  <1>7. ASSUME NEW a \in Attempts, Step(a)
        PROVE  Holds(b)' \/ ledger'[KeyOf[b]].st = "sent"
    <2>0. KeyOf[a] \in Keys
      OBVIOUS
    <2>1. CASE b = a /\ ledger' = [ledger EXCEPT ![KeyOf[a]] = ClaimedBy(a)]
      BY <1>3, <2>1 DEF Holds, ClaimedBy
    <2>2. CASE Mark(a) /\ ledger' = [ledger EXCEPT ![KeyOf[a]] = Sent] /\ KeyOf[a] = KeyOf[b]
      BY <1>3, <2>2 DEF Sent
    <2>3. ASSUME b = a, Release(a) PROVE FALSE
      BY <1>1, <1>2, <2>3, StepAtt DEF Moves, Covered, Holding, Release, StagesOK, StageOK
    <2>4. ASSUME Covered(b)
          PROVE  Holds(b)' \/ ledger'[KeyOf[b]].st = "sent"
      <3>1. Holds(b) \/ ledger[KeyOf[b]].st = "sent"
        BY <1>1, <1>2, <2>4 DEF Guarded
      <3>2. CASE ledger' = ledger
        BY <3>1, <3>2 DEF Holds
      <3>3. CASE ClaimFree(a) /\ ledger' = [ledger EXCEPT ![KeyOf[a]] = ClaimedBy(a)]
        BY <1>3, <3>1, <3>3 DEF ClaimFree, Holds
      <3>4. CASE Holds(a) /\ ledger' = [ledger EXCEPT ![KeyOf[a]].left = Lease]
        BY <1>3, <2>0, <3>1, <3>4 DEF Holds, Entry
      <3>5. CASE ledger' = [ledger EXCEPT ![KeyOf[a]] = Sent]
        BY <1>3, <3>1, <3>5 DEF Holds, Sent
      <3>6. CASE Release(a) /\ Holds(a) /\ ledger' = [ledger EXCEPT ![KeyOf[a]] = Free]
        BY <1>3, <2>3, <3>1, <3>6 DEF Holds
      <3> QED BY <1>1, <1>7, <3>2, <3>3, <3>4, <3>5, <3>6, StepLedger
    <2>5. CASE b = a /\ ClaimFree(a)
      BY <2>1, <2>5 DEF ClaimFree
    <2> QED BY <1>1, <1>2, <1>7, <2>4, <2>5, CoverStep
  <1> QED BY <1>4, <1>5, <1>6, <1>7 DEF Next

\* A step that claims a key finds no covered attempt the ledger stands for: by
\* Guarded the key would be claimed or sent.
LEMMA AloneStep ==
    ASSUME IInv, [Next]_vars
    PROVE  Alone'
  <1>1. TypeOK /\ ClaimsOK /\ StagesOK /\ Guarded /\ Alone /\ loose \subseteq loose'
    BY LooseGrows DEF IInv
  <1>2. SUFFICES ASSUME NEW b \in Attempts, NEW c \in Attempts, b # c, KeyOf[b] = KeyOf[c],
                        Covered(b)', Covered(c)', b \notin loose', c \notin loose'
                 PROVE  FALSE
    BY DEF Alone
  <1>3. ASSUME NEW d \in Attempts, NEW e \in Attempts, KeyOf[d] = KeyOf[e],
               ClaimFree(d), Covered(e), e \notin loose
        PROVE  FALSE
    BY <1>1, <1>3 DEF ClaimFree, Guarded, Holds
  <1>4. CASE UNCHANGED vars \/ \E k \in Keys : Forget(k)
    BY <1>1, <1>2, <1>4 DEF vars, Forget, Alone, Covered
  <1>5. CASE Tick
    BY <1>1, <1>2, <1>5, TickAtt DEF Tick, Alone, Covered
  <1>6. ASSUME NEW a \in Attempts, Step(a)
        PROVE  FALSE
    BY <1>1, <1>2, <1>3, <1>6, CoverStep DEF Alone
  <1> QED BY <1>4, <1>5, <1>6 DEF Next

\* An email that is out stays out.
LEMMA AcceptedStays ==
    ASSUME IInv, [Next]_vars, NEW b \in Attempts, req[b] = "accepted"
    PROVE  req'[b] = "accepted"
  <1>1. TypeOK /\ StagesOK
    BY DEF IInv
  <1>2. CASE UNCHANGED vars \/ Tick \/ \E k \in Keys : Forget(k)
    BY <1>2 DEF vars, Tick, Forget
  <1>3. ASSUME NEW a \in Attempts, Step(a)
        PROVE  req'[b] = "accepted"
    <2>1. CASE b # a
      BY <1>1, <1>3, <2>1, StepReq
    <2>2. CASE b = a
      BY <1>1, <1>3, <2>2, StepReq DEF Request, RefusedInPlace, Refused, StagesOK, StageOK
    <2> QED BY <2>1, <2>2
  <1> QED BY <1>2, <1>3 DEF Next

\* Every step keeps the records truthful, and the executions that returned.
LEMMA SentStep ==
    ASSUME IInv, [Next]_vars
    PROVE  SentOK' /\ DoneMeansSent'
  <1>1. TypeOK /\ ClaimsOK /\ StagesOK /\ SentOK /\ DoneMeansSent
    BY DEF IInv
  <1>2. ASSUME NEW k \in Keys, ledger'[k].st = "sent"
        PROVE  \E b \in Attempts : KeyOf[b] = k /\ req[b] = "accepted"
    <2>1. CASE ledger[k].st = "sent"
      BY <1>1, <2>1 DEF SentOK
    <2>2. CASE ledger[k].st # "sent"
      <3>0. ledger \in [Keys -> Entry]
        BY <1>1 DEF TypeOK
      <3>1. CASE UNCHANGED vars \/ \E j \in Keys : Forget(j)
        BY <1>2, <2>2, <3>0, <3>1 DEF vars, Forget, Free
      <3>2. CASE Tick
        <4>1. ledger'[k] = Free \/ ledger'[k] = ledger[k] \/ ledger'[k] = [ledger[k] EXCEPT !.left = @ - 1]
          BY <3>2 DEF Tick
        <4> QED BY <1>2, <2>2, <3>0, <4>1 DEF Free, Entry
      <3>3. ASSUME NEW a \in Attempts, Step(a)
            PROVE  KeyOf[a] = k /\ req[a] = "accepted"
        <4>0. KeyOf[a] \in Keys
          OBVIOUS
        <4>1. Mark(a) /\ ledger' = [ledger EXCEPT ![KeyOf[a]] = Sent]
          BY <1>1, <1>2, <2>2, <3>0, <3>3, <4>0, StepLedger DEF ClaimedBy, Free, Entry
        <4>2. KeyOf[a] = k
          BY <1>2, <2>2, <3>0, <4>1
        <4> QED BY <1>1, <4>1, <4>2 DEF Mark, StagesOK, StageOK
      <3> QED BY <3>1, <3>2, <3>3, <1>2, <2>2 DEF Next
    <2> QED BY <2>1, <2>2
  <1>3. SentOK'
    BY <1>2, AcceptedStays DEF SentOK
  <1>4. ASSUME NEW c \in Attempts, att'[c].pc = "done"
        PROVE  \E b \in Attempts : KeyOf[b] = KeyOf[c] /\ req[b] = "accepted"
    <2>1. CASE att[c].pc = "done"
      BY <1>1, <2>1 DEF DoneMeansSent
    <2>2. CASE att[c].pc # "done"
      <3>1. ~ UNCHANGED vars /\ ~ Tick /\ ~ \E j \in Keys : Forget(j)
        BY <1>1, <1>4, <2>2, TickAtt DEF vars, Forget
      <3>2. PICK a \in Attempts : Step(a)
        BY <3>1 DEF Next
      <3>3. c = a /\ Moves(a)
        BY <1>1, <1>4, <2>2, <3>2, StepAtt DEF Frame
      <3>4. ClaimSent(a) \/ Mark(a)
        BY <1>4, <2>2, <3>2, <3>3 DEF Moves, Step, Accept
      <3>5. KeyOf[a] \in Keys
        OBVIOUS
      <3> QED BY <1>1, <3>3, <3>4, <3>5 DEF ClaimSent, Mark, SentOK, StagesOK, StageOK
    <2> QED BY <2>1, <2>2
  <1>5. DoneMeansSent'
    BY <1>4, AcceptedStays DEF DoneMeansSent
  <1> QED BY <1>3, <1>5

\* Every step keeps the renewals ahead of the leases.
LEMMA InTimeStep ==
    ASSUME IInv, [Next]_vars
    PROVE  InTime'
  <1>1. TypeOK /\ ClaimsOK /\ StagesOK /\ InTime
    BY DEF IInv
  <1>2. SUFFICES ASSUME NEW b \in Attempts, att'[b].pc \in Holding, att'[b].missed = 0
                 PROVE  \/ Holds(b)' /\ att'[b].timer < ledger'[KeyOf[b]].left
                        \/ ledger'[KeyOf[b]].st = "sent"
    BY DEF InTime
  <1>3. KeyOf[b] \in Keys /\ ledger \in [Keys -> Entry] /\ att[b] \in Attempt
        /\ ledger[KeyOf[b]] \in Entry
    BY <1>1 DEF TypeOK
  <1>4. CASE UNCHANGED vars
    BY <1>1, <1>2, <1>4 DEF vars, InTime, Holds
  <1>5. CASE Tick
    <2>1. att[b].pc \in Holding /\ att[b].missed = 0 /\ att[b].timer > 0
          /\ att'[b].timer = att[b].timer - 1
      BY <1>1, <1>2, <1>3, <1>5, TickAtt DEF OneMore, Attempt, Holding, Working
    <2>2. CASE ledger[KeyOf[b]].st = "sent"
      BY <1>3, <1>5, <2>2 DEF Tick, Lapsing
    <2>3. CASE Holds(b) /\ att[b].timer < ledger[KeyOf[b]].left
      <3>1. att[b].timer \in Nat /\ ledger[KeyOf[b]].left \in Nat
        BY <1>3 DEF Attempt, Entry
      <3>2. ~ Lapsing(KeyOf[b])
        BY <2>1, <2>3, <3>1 DEF Lapsing
      <3>3. ledger'[KeyOf[b]] = [ledger[KeyOf[b]] EXCEPT !.left = @ - 1]
        BY <1>3, <1>5, <2>3, <3>2 DEF Tick, Holds
      <3>4. Holds(b)' /\ ledger'[KeyOf[b]].left = ledger[KeyOf[b]].left - 1
        BY <1>3, <2>3, <3>3 DEF Holds, Entry
      <3> QED BY <2>1, <2>3, <3>1, <3>4
    <2> QED BY <1>1, <2>1, <2>2, <2>3 DEF InTime
  <1>6. ASSUME NEW k \in Keys, Forget(k)
        PROVE  \/ Holds(b)' /\ att'[b].timer < ledger'[KeyOf[b]].left
               \/ ledger'[KeyOf[b]].st = "sent"
    <2>1. KeyOf[b] # k
      BY <1>2, <1>6 DEF Forget, Holding, Working
    <2> QED BY <1>1, <1>2, <1>3, <1>6, <2>1 DEF Forget, InTime, Holds
  <1>7. ASSUME NEW a \in Attempts, Step(a)
        PROVE  \/ Holds(b)' /\ att'[b].timer < ledger'[KeyOf[b]].left
               \/ ledger'[KeyOf[b]].st = "sent"
    <2>0. KeyOf[a] \in Keys
      OBVIOUS
    <2>1. CASE b # a
      <3>1. att'[b] = att[b]
        BY <1>1, <1>7, <2>1, StepAtt DEF Frame
      <3>2. \/ Holds(b) /\ att[b].timer < ledger[KeyOf[b]].left
            \/ ledger[KeyOf[b]].st = "sent"
        BY <1>1, <1>2, <3>1 DEF InTime
      <3>3. ASSUME KeyOf[a] = KeyOf[b], Holds(a)
            PROVE  FALSE
        BY <2>1, <3>2, <3>3 DEF Holds
      <3>4. CASE ledger'[KeyOf[b]] = ledger[KeyOf[b]]
        BY <3>1, <3>2, <3>4 DEF Holds
      <3>5. CASE ledger' = [ledger EXCEPT ![KeyOf[a]] = Sent]
        BY <1>3, <3>1, <3>2, <3>5 DEF Sent, Holds
      <3> QED BY <1>1, <1>3, <1>7, <2>0, <3>2, <3>3, <3>4, <3>5, StepLedger DEF ClaimFree, Holds
    <2>2. CASE b = a
      <3>0. Moves(a) /\ att' \in [Attempts -> Attempt]
        BY <1>1, <1>7, StepAtt DEF Frame
      <3>1. CASE ClaimFree(a)
        <4>1. att'[a].timer = RenewEvery
          BY <1>2, <2>2, <3>0, <3>1 DEF Moves, Holding
        <4>2. ledger'[KeyOf[a]] = ClaimedBy(a)
          BY <1>3, <2>2, <3>1 DEF ClaimFree
        <4> QED BY <2>2, <4>1, <4>2 DEF ClaimedBy, Holds
      <3>2. CASE Renew(a)
        <4>1. att'[a].timer = RenewEvery /\ att[a].pc \in Holding /\ att[a].missed = 0
          BY <1>2, <2>2, <3>0, <3>2 DEF Moves
        <4>2. CASE ledger[KeyOf[a]].st = "sent"
          BY <2>2, <3>2, <4>2 DEF Renew, Holds
        <4>3. CASE Holds(a)
          <5>1. ledger'[KeyOf[a]] = [ledger[KeyOf[a]] EXCEPT !.left = Lease]
            BY <1>3, <2>2, <3>2, <4>3 DEF Renew
          <5> QED BY <1>3, <2>2, <4>1, <4>3, <5>1 DEF Holds, Entry
        <4> QED BY <1>1, <2>2, <4>1, <4>2, <4>3 DEF InTime
      <3>3. CASE ~ ClaimFree(a) /\ ~ Renew(a)
        <4>1. ledger' = ledger
          BY <1>1, <1>2, <1>7, <2>2, <3>0, <3>3, StepLedger DEF Moves, Holding
        <4>2. att[a].pc \in Holding /\ SameTimer(a)
          <5>1. \/ SlotGranted(a) \/ SlotRefused(a) \/ SlotError(a) \/ Wake(a) \/ Abort(a) \/ Accept(a)
                \/ Acknowledge(a) \/ GiveUp(a) \/ RestFails(a) \/ Refused(a) \/ RefusedInPlace(a) \/ Request(a)
            BY <1>2, <1>7, <2>2, <3>0, <3>3 DEF Step, Moves, Holding
          <5>2. SameTimer(a)
            BY <3>0, <5>1 DEF Moves, SameTimer
          <5>3. CASE Accept(a)
            BY <1>2, <2>2, <3>0, <5>2, <5>3 DEF Moves
          <5>4. CASE ~ Accept(a)
            BY <5>1, <5>2, <5>4 DEF Holding, SlotGranted, SlotRefused, SlotError, Wake, Abort, Acknowledge,
                  GiveUp, RestFails, Refused, RefusedInPlace, Request
          <5> QED BY <5>3, <5>4
        <4> QED BY <1>1, <1>2, <2>2, <4>1, <4>2 DEF InTime, SameTimer, Holds
      <3> QED BY <3>1, <3>2, <3>3
    <2> QED BY <2>1, <2>2
  <1> QED BY <1>4, <1>5, <1>6, <1>7 DEF Next

-----------------------------------------------------------------------------
\* IInv is an invariant of the mail handler.
THEOREM Inductive == Spec => []IInv
  <1>1. Init => IInv
    <2> SUFFICES ASSUME Init PROVE IInv
      OBVIOUS
    <2>1. Idle \in Attempt /\ Idle.pc = "idle"
      <3>1. "idle" \in Stage /\ "none" \in Code /\ 0 \in 0..MaxSends /\ 0 \in 0..RenewEvery /\ 0 \in 0..MaxMissed
        BY DEF Stage, Code
      <3> QED BY <3>1, LocalsType DEF Idle
    <2>2. TypeOK
      BY <2>1 DEF Init, TypeOK, Entry, Free, Requests
    <2>3. ClaimsOK /\ SentOK
      BY DEF Init, ClaimsOK, SentOK, Free
    <2>4. StagesOK /\ Guarded /\ Alone /\ DoneMeansSent /\ InTime
      BY <2>1 DEF Init, StagesOK, StageOK, Guarded, Alone, Covered, Holding, DoneMeansSent, InTime
    <2> QED BY <2>2, <2>3, <2>4 DEF IInv
  <1>2. IInv /\ [Next]_vars => IInv'
    BY TypeStep, LedgerStep, StagesStep, GuardedStep, AloneStep, SentStep, InTimeStep DEF IInv
  <1> QED BY <1>1, <1>2, PTL DEF Spec

\* Type correctness.
THEOREM TypeCorrect == Spec => []TypeOK
  <1>1. IInv => TypeOK
    BY DEF IInv
  <1> QED BY <1>1, Inductive, PTL

\* createMailHandler: two emails for one key need an attempt the ledger no longer
\* stood for.
THEOREM AtMostOneEmail == Spec => []OneEmail
  <1>1. IInv => OneEmail
    BY DEF IInv, Alone, Covered, OneEmail
  <1> QED BY <1>1, Inductive, PTL

\* createMailHandler: no execution returns unless the provider accepted the message.
THEOREM DoneIsSent == Spec => []DoneMeansSent
  <1>1. IInv => DoneMeansSent
    BY DEF IInv
  <1> QED BY <1>1, Inductive, PTL

\* createMailHandler: a live attempt whose renewals landed in time keeps its claim,
\* for every lease that is longer than the renewal interval.
THEOREM LiveClaimKept == Spec => []LiveKeepsClaim
  <1>1. IInv => LiveKeepsClaim
    BY DEF IInv, InTime, LiveKeepsClaim
  <1> QED BY <1>1, Inductive, PTL

\* MARK_SENT is undone by its TTL alone.
THEOREM SentForGood == Spec => SentIsFinal
  <1> DEFINE Final == \A k \in Keys : ledger[k].st = "sent" /\ ledger'[k].st # "sent" => Forget(k)
  <1>1. IInv /\ [Next]_vars => [Final]_vars
    <2> SUFFICES ASSUME IInv, Next, NEW k \in Keys, ledger[k].st = "sent", ledger'[k].st # "sent"
                 PROVE  Forget(k)
      BY DEF vars
    <2>1. TypeOK /\ ledger \in [Keys -> Entry]
      BY DEF IInv, TypeOK
    <2>2. ASSUME Tick PROVE FALSE
      <3>1. ledger'[k] = ledger[k]
        BY <2>2 DEF Tick, Lapsing
      <3> QED BY <3>1
    <2>3. ASSUME NEW a \in Attempts, Step(a) PROVE FALSE
      <3>0. KeyOf[a] \in Keys
        OBVIOUS
      <3>1. CASE ledger' = ledger
        BY <3>1
      <3>2. CASE ClaimFree(a) /\ ledger' = [ledger EXCEPT ![KeyOf[a]] = ClaimedBy(a)]
        BY <2>1, <3>0, <3>2 DEF ClaimFree
      <3>3. CASE ledger' = [ledger EXCEPT ![KeyOf[a]].left = Lease]
        BY <2>1, <3>0, <3>3 DEF Entry
      <3>4. CASE ledger' = [ledger EXCEPT ![KeyOf[a]] = Sent]
        BY <2>1, <3>0, <3>4 DEF Sent
      <3>5. CASE Holds(a) /\ ledger' = [ledger EXCEPT ![KeyOf[a]] = Free]
        BY <2>1, <3>0, <3>5 DEF Holds
      <3> QED BY <2>1, <2>3, <3>1, <3>2, <3>3, <3>4, <3>5, StepLedger
    <2>4. PICK j \in Keys : Forget(j)
      BY <2>2, <2>3 DEF Next
    <2> QED BY <2>1, <2>4 DEF Forget
  <1> QED BY <1>1, Inductive, PTL DEF Spec, SentIsFinal

\* RENEW and RELEASE check the token: no attempt takes another one's claim away.
THEOREM ClaimsNotStolen == Spec => ClaimNotStolen
  <1> DEFINE Kept == \A a \in Attempts :
                       Holds(a) /\ ~Holds(a)' =>
                          \/ a \in loose'
                          \/ ledger'[KeyOf[a]].st = "sent"
                          \/ att[a].pc = "failing" /\ att'[a].pc # "failing"
  <1>1. IInv /\ [Next]_vars => [Kept]_vars
    <2> SUFFICES ASSUME IInv, Next, NEW a \in Attempts, Holds(a), ~ Holds(a)'
                 PROVE  \/ a \in loose'
                        \/ ledger'[KeyOf[a]].st = "sent"
                        \/ att[a].pc = "failing" /\ att'[a].pc # "failing"
      BY DEF vars
    <2>1. TypeOK /\ StagesOK /\ ledger \in [Keys -> Entry] /\ KeyOf[a] \in Keys
      BY DEF IInv, TypeOK
    <2>2. CASE Tick
      <3>1. CASE Lapsing(KeyOf[a])
        BY <2>1, <2>2, <3>1 DEF Tick, Holds
      <3>2. CASE ~ Lapsing(KeyOf[a])
        <4>1. ledger'[KeyOf[a]] = [ledger[KeyOf[a]] EXCEPT !.left = @ - 1]
          BY <2>1, <2>2, <3>2 DEF Tick, Holds
        <4> QED BY <2>1, <4>1 DEF Holds, Entry
      <3> QED BY <3>1, <3>2
    <2>3. ASSUME NEW k \in Keys, Forget(k) PROVE FALSE
      BY <2>1, <2>3 DEF Forget, Holds
    <2>4. ASSUME NEW b \in Attempts, Step(b)
          PROVE  \/ ledger'[KeyOf[a]].st = "sent"
                 \/ att[a].pc = "failing" /\ att'[a].pc # "failing"
      <3>0. KeyOf[b] \in Keys
        OBVIOUS
      <3>1. CASE ledger' = ledger
        BY <3>1 DEF Holds
      <3>2. CASE ClaimFree(b) /\ ledger' = [ledger EXCEPT ![KeyOf[b]] = ClaimedBy(b)]
        BY <2>1, <3>0, <3>2 DEF ClaimFree, Holds
      <3>3. CASE ledger' = [ledger EXCEPT ![KeyOf[b]].left = Lease]
        BY <2>1, <3>0, <3>3 DEF Holds, Entry
      <3>4. CASE ledger' = [ledger EXCEPT ![KeyOf[b]] = Sent]
        BY <2>1, <3>0, <3>4 DEF Holds, Sent
      <3>5. CASE Release(b) /\ Holds(b) /\ ledger' = [ledger EXCEPT ![KeyOf[b]] = Free]
        <4>1. a = b
          BY <2>1, <3>0, <3>5 DEF Holds
        <4> QED BY <2>1, <3>5, <4>1, StepAtt DEF Release, Moves
      <3> QED BY <2>1, <2>4, <3>1, <3>2, <3>3, <3>4, <3>5, StepLedger
    <2> QED BY <2>2, <2>3, <2>4 DEF Next
  <1> QED BY <1>1, Inductive, PTL DEF Spec, ClaimNotStolen

\* BACK_OFF only extends: a cooldown is shortened by time alone.
THEOREM CooldownsOnlyExtended == Spec => CooldownOnlyExtended
  <1> DEFINE Ext == cooldown' < cooldown => Tick
  <1>1. TypeOK /\ [Next]_vars => [Ext]_vars
    <2> SUFFICES ASSUME TypeOK, Next, ~ Tick
                 PROVE  ~ (cooldown' < cooldown)
      BY DEF vars
    <2>1. cooldown \in Nat
      <3>1. CASE cooldown = 0
        BY <3>1
      <3>2. CASE cooldown # 0
        <4>1. PICK c \in Cooldowns : cooldown \in 0..c
          BY <3>2 DEF TypeOK
        <4> QED BY <4>1
      <3> QED BY <3>1, <3>2
    <2>2. ASSUME NEW a \in Attempts, RefusedInPlace(a) \/ BackOff(a)
          PROVE  ~ (cooldown' < cooldown)
      BY <2>1, <2>2 DEF RefusedInPlace, BackOff, BackOffTo
    <2>3. cooldown' = cooldown \/ \E a \in Attempts : RefusedInPlace(a) \/ BackOff(a)
      BY DEF Next, Step, Invalid, ClaimFree, ClaimSent, ClaimRefused, Renew, RenewError, SlotGranted,
         SlotRefused, SlotError, Wake, Abort, Accept, Acknowledge, GiveUp, Request,
         RestFails, Refused, Mark, Release, Crash, Forget
    <2> QED BY <2>1, <2>2, <2>3
  <1> QED BY <1>1, TypeCorrect, PTL DEF Spec, CooldownOnlyExtended


\* The ledger's promises about states, together.
THEOREM MailIsSafe == Spec => []MailSafe
  BY TypeCorrect, AtMostOneEmail, DoneIsSent, LiveClaimKept, PTL DEF MailSafe

\* No step of any attempt breaks the ledger or the cooldown.
THEOREM LedgerStepsHold == Spec => LedgerSteps
  BY SentForGood, ClaimsNotStolen, CooldownsOnlyExtended DEF LedgerSteps
=============================================================================
