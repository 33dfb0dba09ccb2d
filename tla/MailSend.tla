------------------------------ MODULE MailSend ------------------------------
(***************************************************************************)
(* The mail.send job handler of platform-mail and the ledger it keeps in   *)
(* Valkey.  Every member of Attempts is one execution of the handler, on   *)
(* any worker: a redelivery of the job is another attempt, and two         *)
(* attempts at one message may overlap.  The claim token is fresh for      *)
(* every execution, so the attempt itself stands for its token.            *)
(*                                                                         *)
(* One mailbox.  Its token bucket is the subject of module SendRate; here  *)
(* an empty bucket is a choice, and the cooldown is exact.  Time passes in *)
(* units with Tick; the units are those of the renewal interval.           *)
(***************************************************************************)
EXTENDS Integers, FiniteSets

CONSTANTS
    Keys,        \* ledger keys: one per idempotency key of the mailbox
    Attempts,    \* executions of the handler
    Nobody,      \* no attempt
    KeyOf,       \* the ledger key of the message an attempt is given
    Lease,       \* MAIL_CLAIM_LEASE_SECONDS, in time units
    RenewEvery,  \* MAIL_CLAIM_RENEW_SECONDS, in time units
    MaxWait,     \* MAIL_MAX_SLOT_WAIT_MS, in time units
    Cooldowns,   \* the cooldowns a throttling provider asks for
    MaxSends,    \* maxAttempts: requests inside one sender.send
    MaxMissed    \* bound: missed renewals counted in the history

ASSUME MailSendAssumption ==
    /\ KeyOf \in [Attempts -> Keys]
    /\ Nobody \notin Attempts
    /\ RenewEvery \in Nat \ {0} /\ Lease \in Nat /\ RenewEvery < Lease
    /\ MaxWait \in Nat /\ MaxSends \in Nat \ {0} /\ MaxMissed \in Nat \ {0}
    /\ Cooldowns \subseteq Nat \ {0}

VARIABLES
    ledger,    \* [Keys -> Entry], mail:sent:<digest>
    cooldown,  \* remaining time of mail:cooldown:<mailbox>, 0 without the key
    att,       \* [Attempts -> Attempt], the handler executions
    req,       \* [Attempts -> request state], what the provider knows of a send
    loose      \* history: attempts the ledger no longer stands for

vars == <<ledger, cooldown, att, req, loose>>

-----------------------------------------------------------------------------
(* The ledger *)

Entry == [st : {"free", "claimed", "sent"}, by : Attempts \cup {Nobody}, left : 0..Lease]

Free == [st |-> "free", by |-> Nobody, left |-> 0]
Sent == [st |-> "sent", by |-> Nobody, left |-> 0]
ClaimedBy(a) == [st |-> "claimed", by |-> a, left |-> Lease]

Holds(a) == ledger[KeyOf[a]].st = "claimed" /\ ledger[KeyOf[a]].by = a

\* RELEASE: delete the entry if it still carries this attempt's token.
\* Mutant: RELEASE without the token check.
MutReleaseClaimAny(a) == [ledger EXCEPT ![KeyOf[a]] = Free]
ReleaseClaim(a) == IF Holds(a) THEN [ledger EXCEPT ![KeyOf[a]] = Free] ELSE ledger

\* BACK_OFF: a later, shorter call leaves the longer cooldown in place.
BackOffTo(c) == IF cooldown < c THEN c ELSE cooldown

-----------------------------------------------------------------------------
(* Attempts *)

\* The stages in which the claim's renewal timer runs.  In "resting" send() is
\* before a request: it waits in place, or for a token.
Working == {"slot", "sleep", "sending", "resting", "mark", "failing", "backing"}
Ended == {"done", "failed", "crashed"}

Attempt == [pc : {"idle"} \cup Working \cup Ended,
            aborted : BOOLEAN,                \* job.signal.aborted
            code : {"none", "throttled", "retryable", "permanent"},
            tries : 0..MaxSends,              \* requests made by this send()
            waited : 0..MaxWait,              \* waitedMs
            sleep : 0..MaxWait,               \* what is left of the sleep
            timer : 0..RenewEvery,            \* until the next renewal
            missed : 0..MaxMissed]            \* history: renewals that failed or were late

Requests == {"none", "open", "accepted", "refused"}

\* An execution at the stage pc, outside waitForSlot.
Locals(pc, code, tries, timer, missed) ==
    [pc |-> pc, aborted |-> FALSE, code |-> code, tries |-> tries,
     waited |-> 0, sleep |-> 0, timer |-> timer, missed |-> missed]
Idle == Locals("idle", "none", 0, 0, 0)

Init ==
    /\ ledger = [k \in Keys |-> Free]
    /\ cooldown = 0
    /\ att = [a \in Attempts |-> Idle]
    /\ req = [a \in Attempts |-> "none"]
    /\ loose = {}

\* The execution is over: its locals are gone.
Ends(a, pc, code) == att' = [att EXCEPT ![a] = Locals(pc, code, 0, 0, 0)]
\* The execution goes on; the locals of waitForSlot or of send() are gone.
Goes(a, pc, code, tries) ==
    att' = [att EXCEPT ![a] = Locals(pc, code, tries, att[a].timer, att[a].missed)]
Fails(a, code) == Goes(a, "failing", code, 0)

-----------------------------------------------------------------------------
(* Validate and claim *)

\* An invalid payload never succeeds: it is failed for good at once.
Invalid(a) ==
    /\ att[a].pc = "idle"
    /\ Ends(a, "failed", "permanent")
    /\ UNCHANGED <<ledger, cooldown, req, loose>>

\* CLAIM found no entry.  The reply arrives and the renewal timer starts, or it
\* is lost: then nobody renews or releases the claim.
\* Mutant: GET and SET as two commands, so another claim is overwritten.
MutClaimRaces(a) ==
    /\ att[a].pc = "idle"
    /\ ledger[KeyOf[a]].st # "sent"
    /\ ledger' = [ledger EXCEPT ![KeyOf[a]] = ClaimedBy(a)]
    /\ att' = [att EXCEPT ![a].pc = "slot", ![a].timer = RenewEvery]
    /\ UNCHANGED <<cooldown, req, loose>>
ClaimFree(a) ==
    /\ att[a].pc = "idle"
    /\ ledger[KeyOf[a]].st = "free"
    /\ ledger' = [ledger EXCEPT ![KeyOf[a]] = ClaimedBy(a)]
    /\ \/ att' = [att EXCEPT ![a].pc = "slot", ![a].timer = RenewEvery]
       \/ Ends(a, "failed", "retryable")
    /\ UNCHANGED <<cooldown, req, loose>>

\* An earlier attempt delivered the message: finish without sending.
ClaimSent(a) ==
    /\ att[a].pc = "idle"
    /\ ledger[KeyOf[a]].st = "sent"
    /\ Ends(a, "done", "none")
    /\ UNCHANGED <<ledger, cooldown, req, loose>>

\* Another attempt holds the claim, or Valkey did not answer: a retry is spent.
ClaimRefused(a) ==
    /\ att[a].pc = "idle"
    /\ Ends(a, "failed", "retryable")
    /\ UNCHANGED <<ledger, cooldown, req, loose>>

-----------------------------------------------------------------------------
(* The renewal timer *)

\* RENEW is token-checked.
\* Mutant: the interval is not cleared when the attempt ends.
MutRenewForever(a) ==
    /\ att[a].pc \in Working \cup {"done", "failed"}
    /\ att[a].timer = 0
    /\ ledger' = IF Holds(a) THEN [ledger EXCEPT ![KeyOf[a]].left = Lease] ELSE ledger
    /\ att' = [att EXCEPT ![a].timer = RenewEvery]
    /\ UNCHANGED <<cooldown, req, loose>>
Renew(a) ==
    /\ att[a].pc \in Working
    /\ att[a].timer = 0
    /\ ledger' = IF Holds(a) THEN [ledger EXCEPT ![KeyOf[a]].left = Lease] ELSE ledger
    /\ att' = [att EXCEPT ![a].timer = RenewEvery]
    /\ UNCHANGED <<cooldown, req, loose>>

OneMore(n) == IF n < MaxMissed THEN n + 1 ELSE n

\* A failed renewal is swallowed; the interval fires again.
RenewError(a) ==
    /\ att[a].pc \in Working
    /\ att[a].timer = 0
    /\ att' = [att EXCEPT ![a].timer = RenewEvery,
                          ![a].missed = OneMore(@)]
    /\ UNCHANGED <<ledger, cooldown, req, loose>>

-----------------------------------------------------------------------------
(* waitForSlot *)

\* What TAKE_SLOT answers: the rest of the cooldown first, else the bucket.
SlotWaits == IF cooldown > 0 THEN {cooldown} ELSE {0, 1}

\* A slot is granted.  An aborted attempt never starts a send.
SlotGranted(a) ==
    /\ att[a].pc = "slot"
    /\ 0 \in SlotWaits
    /\ IF att[a].aborted THEN Fails(a, "retryable") ELSE Goes(a, "resting", "none", 0)
    /\ UNCHANGED <<ledger, cooldown, req, loose>>

\* No slot: sleep, or give the job back when the wait is over the budget.
SlotRefused(a) ==
    /\ att[a].pc = "slot"
    /\ \E w \in SlotWaits \ {0} :
          \/ /\ att[a].waited + w > MaxWait
             /\ Fails(a, "throttled")
          \/ /\ att[a].waited + w <= MaxWait
             /\ ~att[a].aborted
             /\ att' = [att EXCEPT ![a].pc = "sleep", ![a].sleep = w, ![a].waited = @ + w]
          \/ /\ att[a].waited + w <= MaxWait
             /\ att[a].aborted
             /\ Fails(a, "retryable")
    /\ UNCHANGED <<ledger, cooldown, req, loose>>

\* takeSlot throws: Valkey is gone.
SlotError(a) ==
    /\ att[a].pc = "slot"
    /\ Fails(a, "retryable")
    /\ UNCHANGED <<ledger, cooldown, req, loose>>

\* The sleep ends, or the signal rejects it.
Wake(a) ==
    /\ att[a].pc = "sleep"
    /\ \/ /\ att[a].sleep = 0
          /\ att' = [att EXCEPT ![a].pc = "slot"]
       \/ /\ att[a].aborted
          /\ Fails(a, "retryable")
    /\ UNCHANGED <<ledger, cooldown, req, loose>>

\* The queue's timeout, a lost job lease or a drain aborts the signal.  Once the
\* request is made, an abort is one of the causes of GiveUp and RestFails.
Abort(a) ==
    /\ att[a].pc \in {"slot", "sleep"}
    /\ ~att[a].aborted
    /\ att' = [att EXCEPT ![a].aborted = TRUE]
    /\ UNCHANGED <<ledger, cooldown, req, loose>>

-----------------------------------------------------------------------------
(* sender.send *)

\* The provider accepts the message: the email is out.  It may do so after the
\* worker stopped waiting for the answer.
Accept(a) ==
    /\ req[a] = "open"
    /\ req' = [req EXCEPT ![a] = "accepted"]
    /\ UNCHANGED <<ledger, cooldown, att, loose>>

\* 202 arrives.
Acknowledge(a) ==
    /\ att[a].pc = "sending"
    /\ req[a] = "accepted"
    /\ Goes(a, "mark", "none", 0)
    /\ UNCHANGED <<ledger, cooldown, req, loose>>

\* A timeout, a dropped connection or the signal ends the request without an
\* answer.  It is not retried here: the message may have been accepted.
GiveUp(a) ==
    /\ att[a].pc = "sending"
    /\ Fails(a, "retryable")
    /\ loose' = loose \cup {a}
    /\ UNCHANGED <<ledger, cooldown, req>>

\* 429, 502, 503, 504 with requests left: not accepted, wait in place.  For a
\* 429 the other workers are told first (onThrottled), if Valkey can be reached.
RefusedInPlace(a) ==
    /\ att[a].pc = "sending"
    /\ req[a] = "open"
    /\ att[a].tries < MaxSends
    /\ cooldown' \in {cooldown} \cup {BackOffTo(c) : c \in Cooldowns}
    /\ att' = [att EXCEPT ![a].pc = "resting"]
    /\ req' = [req EXCEPT ![a] = "refused"]
    /\ UNCHANGED <<ledger, loose>>

\* The token is there: the first or the next request of send() is made.
Request(a) ==
    /\ att[a].pc = "resting"
    /\ att' = [att EXCEPT ![a].pc = "sending", ![a].tries = @ + 1]
    /\ req' = [req EXCEPT ![a] = "open"]
    /\ UNCHANGED <<ledger, cooldown, loose>>

\* The message is not for this mailbox, the wait in place is aborted, or no token
\* can be had for the request.
RestFails(a) ==
    /\ att[a].pc = "resting"
    /\ \E code \in {"retryable", "permanent"} : Fails(a, code)
    /\ UNCHANGED <<ledger, cooldown, req, loose>>

\* An answer that ends the send: throttled, retryable or permanent.
Refused(a) ==
    /\ att[a].pc = "sending"
    /\ req[a] = "open"
    /\ req' = [req EXCEPT ![a] = "refused"]
    /\ \E code \in {"throttled", "retryable", "permanent"} : Fails(a, code)
    /\ UNCHANGED <<ledger, cooldown, loose>>

-----------------------------------------------------------------------------
(* After the send *)

\* MARK_SENT overwrites whatever is there; an error is logged and swallowed.
Mark(a) ==
    /\ att[a].pc = "mark"
    /\ ledger' \in {ledger, [ledger EXCEPT ![KeyOf[a]] = Sent]}
    /\ Ends(a, "done", "none")
    /\ UNCHANGED <<cooldown, req, loose>>

\* reachedProvider and a throttled answer: the mailbox backs off.
BacksOff(a) == req[a] # "none" /\ att[a].code = "throttled"

\* The catch block: give the claim back (an error is swallowed, the lease ends
\* by itself), then back off or rethrow.
Release(a) ==
    /\ att[a].pc = "failing"
    /\ ledger' \in {ledger, ReleaseClaim(a)}
    /\ IF BacksOff(a)
         THEN att' = [att EXCEPT ![a].pc = "backing"]
         ELSE Ends(a, "failed", att[a].code)
    /\ UNCHANGED <<cooldown, req, loose>>

BackOff(a) ==
    /\ att[a].pc = "backing"
    /\ cooldown' \in {cooldown} \cup {BackOffTo(c) : c \in Cooldowns}
    /\ Ends(a, "failed", att[a].code)
    /\ UNCHANGED <<ledger, req, loose>>

-----------------------------------------------------------------------------
(* Time, death and forgetting *)

\* The worker dies.  A request it has on the wire may still be accepted.
Crash(a) ==
    /\ att[a].pc \in Working
    /\ Ends(a, "crashed", "none")
    /\ UNCHANGED <<ledger, cooldown, req, loose>>

Lapsing(k) == ledger[k].st = "claimed" /\ ledger[k].left = 1

\* One unit of time: leases and cooldowns run down, sleeps and timers too.  A
\* renewal that was due and did not happen is late.
Tick ==
    /\ ledger' = [k \in Keys |->
                    IF Lapsing(k) THEN Free
                    ELSE IF ledger[k].st = "claimed"
                         THEN [ledger[k] EXCEPT !.left = @ - 1]
                         ELSE ledger[k]]
    /\ loose' = loose \cup {ledger[k].by : k \in {x \in Keys : Lapsing(x)}}
    /\ cooldown' = IF cooldown > 0 THEN cooldown - 1 ELSE 0
    /\ att' = [a \in Attempts |->
                 [att[a] EXCEPT !.sleep = IF @ > 0 THEN @ - 1 ELSE 0,
                                !.timer = IF @ > 0 THEN @ - 1 ELSE 0,
                                !.missed = IF att[a].pc \in Working /\ att[a].timer = 0
                                             THEN OneMore(@) ELSE @]]
    /\ UNCHANGED req

\* MAIL_SENT_TTL_SECONDS (7 days, against the 5 minutes of an attempt) after the
\* delivery the ledger forgets it, and with it every attempt made until then.
Forget(k) ==
    /\ ledger[k].st = "sent"
    /\ \A a \in Attempts : KeyOf[a] = k => att[a].pc \notin Working
    /\ ledger' = [ledger EXCEPT ![k] = Free]
    /\ loose' = loose \cup {a \in Attempts : KeyOf[a] = k /\ att[a].pc # "idle"}
    /\ UNCHANGED <<cooldown, att, req>>

-----------------------------------------------------------------------------
Step(a) ==
    \/ Invalid(a) \/ ClaimFree(a) \/ ClaimSent(a) \/ ClaimRefused(a)
    \/ Renew(a) \/ RenewError(a)
    \/ SlotGranted(a) \/ SlotRefused(a) \/ SlotError(a) \/ Wake(a) \/ Abort(a)
    \/ Accept(a) \/ Acknowledge(a) \/ GiveUp(a) \/ RefusedInPlace(a)
    \/ Request(a) \/ RestFails(a) \/ Refused(a)
    \/ Mark(a) \/ Release(a) \/ BackOff(a) \/ Crash(a)

Next == (\E a \in Attempts : Step(a)) \/ Tick \/ (\E k \in Keys : Forget(k))

Spec == Init /\ [][Next]_vars

\* Time passes and Valkey expires keys by itself.  No worker needs to act.
LiveSpec == Spec /\ WF_vars(Tick)

-----------------------------------------------------------------------------
(* Properties *)

\* Every variable holds a value of its shape (ledger entries, attempts, provider requests).
TypeOK ==
    /\ ledger \in [Keys -> Entry]
    /\ cooldown \in {0} \cup UNION {0..c : c \in Cooldowns}
    /\ att \in [Attempts -> Attempt]
    /\ req \in [Attempts -> Requests]
    /\ loose \subseteq Attempts

\* "A duplicate key produces one email" (createMailHandler): when the provider
\* accepted two emails for one key, then for one of the two attempts the claim
\* or the record ran out under it, or its request ended without an answer.
OneEmail ==
    \A a, b \in Attempts :
        (a # b /\ KeyOf[a] = KeyOf[b] /\ req[a] = "accepted" /\ req[b] = "accepted")
            => (a \in loose \/ b \in loose)

\* The queue deletes a job whose handler returned, so a handler may return only
\* when some attempt at the message was accepted by the provider.
DoneMeansSent ==
    \A a \in Attempts : att[a].pc = "done" =>
        \E b \in Attempts : KeyOf[b] = KeyOf[a] /\ req[b] = "accepted"

\* markSent is final ("Never undoes `sent`", MailState.release): no late renewal,
\* release or claim of another attempt removes the record before its TTL.
SentIsFinal ==
    [][\A k \in Keys : ledger[k].st = "sent" /\ ledger'[k].st # "sent" => Forget(k)]_vars

\* A claim leaves the hands of the attempt that took it by its lease, by its own
\* release or by a recorded delivery; never by what another attempt does late.
ClaimNotStolen ==
    [][\A a \in Attempts :
         Holds(a) /\ ~Holds(a)' =>
            \/ a \in loose'
            \/ ledger'[KeyOf[a]].st = "sent"
            \/ att[a].pc = "failing" /\ att'[a].pc # "failing"]_vars

\* "A later, shorter call never shortens an existing cooldown" (MailState.backOff):
\* only time does.
CooldownOnlyExtended == [][cooldown' < cooldown => Tick]_vars

Holding == {"slot", "sleep", "sending", "resting", "mark", "failing"}

\* A live attempt whose renewals all landed in time keeps its claim until it is done with
\* it, or the message is recorded as sent: nobody else starts to send it.
LiveKeepsClaim ==
    \A a \in Attempts :
        (att[a].pc \in Holding /\ att[a].missed = 0)
            => (Holds(a) \/ ledger[KeyOf[a]].st = "sent")

\* The claim of an attempt that ended, whatever way it ended, does not block the
\* message for good: the redelivery finds it free.
EndedClaimLapses == \A a \in Attempts : att[a].pc \in Ended ~> ~Holds(a)

\* "A failed renewal is retried at the next tick; the lease is 2 ticks long"
\* (createMailHandler): one failed renewal does not cost the claim.
OneMissSurvives ==
    \A a \in Attempts :
        (att[a].pc \in Holding /\ att[a].missed <= 1)
            => (Holds(a) \/ ledger[KeyOf[a]].st = "sent")

\* The mail ledger's promises: one email, done means sent, and a live attempt keeps its claim.
MailSafe == TypeOK /\ OneEmail /\ DoneMeansSent /\ LiveKeepsClaim

\* What no step of any attempt does: undo a sent mark, take a claim that is held, or shorten the
\* provider's cooldown.
LedgerSteps == SentIsFinal /\ ClaimNotStolen /\ CooldownOnlyExtended
=============================================================================
