------------------------------ MODULE JobQueue ------------------------------
(***************************************************************************)
(* One queue of platform-jobs over the pg-boss job table: senders, worker  *)
(* batches, the pg-boss supervisor and its maintenance, the pending sweep  *)
(* and operators redriving the dead-letter queue.                          *)
(*                                                                         *)
(* A job row is identified by its id.  An idempotency key is hashed into   *)
(* the id, so a keyed id can be sent again once its row is gone, and a     *)
(* redrive reinserts the id of the job that died: one id may name several  *)
(* INCARNATIONS over time.  Incarnations and payloads are numbered; the    *)
(* numbers are history the code never sees.  It knows an attempt only as   *)
(* the pair (id, retryCount).                                              *)
(*                                                                         *)
(* Time is abstract: a lease, a heartbeat, a retention or a pending        *)
(* deadline may end at any moment.                                         *)
(***************************************************************************)
EXTENDS Integers, FiniteSets

CONSTANTS
    Ids,              \* job ids of the queue
    Batches,          \* batches that can be in flight at once, over all pods
    Redrivers,        \* concurrent calls of jobs.redrive
    Redrivable,       \* the ids whose payload the queue's canRedrive allows
    RetryLimit,       \* retryLimit of the queue
    Concurrency,      \* batchSize of a fetch
    DeleteOnSuccess,  \* retention.completed = 'immediate'
    PendingWatch,     \* retention.pending is set: the sweep watches the queue
    MaxInc            \* bound: incarnations created in a behaviour

ASSUME JobQueueAssumption ==
    /\ Redrivable \subseteq Ids
    /\ RetryLimit \in Nat
    /\ Concurrency \in Nat \ {0}
    /\ DeleteOnSuccess \in BOOLEAN
    /\ PendingWatch \in BOOLEAN
    /\ MaxInc \in Nat

VARIABLES
    job,       \* [Ids -> Row], the rows of the queue in pgboss.job
    dlq,       \* the dead-letter copies waiting in the dead-letter queue
    batch,     \* [Batches -> Batch], the batches the workers run
    redriver,  \* [Redrivers -> Redrive], the open redrive transactions
    issued     \* how many incarnations exist so far

vars == <<job, dlq, batch, redriver, issued>>

-----------------------------------------------------------------------------
(* Rows, copies, batches, transactions *)

Incs == 1..MaxInc
Waiting == {"created", "retry"}              \* pg-boss: state < 'active'
Live == Waiting \cup {"active"}

Row == [state : Live \cup {"none", "completed", "failed"},
        rc : 0..RetryLimit, inc : 0..MaxInc, load : 0..MaxInc]
NoRow == [state |-> "none", rc |-> 0, inc |-> 0, load |-> 0]

\* The row boss.send inserts: a fresh retry budget.
FreshRow(inc, load) == [state |-> "created", rc |-> 0, inc |-> inc, load |-> load]

\* A dead letter: the incarnation that died, its source_id and its payload.
Copy == [inc : Incs, id : Ids, load : Incs]
NoCopy == [inc |-> 0]

\* unsettled: the handler succeeded but the early settle threw.
Slot == [pc : {"empty", "handler", "succeeded", "unsettled", "completed", "failed", "deadletter"},
         rc : 0..RetryLimit, inc : 0..MaxInc, load : 0..MaxInc]
EmptySlot == [pc |-> "empty", rc |-> 0, inc |-> 0, load |-> 0]

\* A batch that is cut off keeps running its handlers, but pg-boss no longer waits for its result.
Batch == [phase : {"idle", "running", "settling"}, cut : BOOLEAN, slot : [Ids -> Slot]]
IdleBatch == [phase |-> "idle", cut |-> FALSE, slot |-> [i \in Ids |-> EmptySlot]]

\* freed: the transaction has deleted the failed original, uncommitted.
Redrive == [pc : {"idle", "locked", "freed", "inserted"}, copy : Copy \cup {NoCopy},
            freed : BOOLEAN]
IdleRedrive == [pc |-> "idle", copy |-> NoCopy, freed |-> FALSE]

TypeOK ==
    /\ job \in [Ids -> Row]
    /\ dlq \subseteq Copy
    /\ batch \in [Batches -> Batch]
    /\ redriver \in [Redrivers -> Redrive]
    /\ issued \in 0..MaxInc

Init ==
    /\ job = [i \in Ids |-> NoRow]
    /\ dlq = {}
    /\ batch = [b \in Batches |-> IdleBatch]
    /\ redriver = [r \in Redrivers |-> IdleRedrive]
    /\ issued = 0

-----------------------------------------------------------------------------
(* What pg-boss does to rows *)

\* Mutant: the fence compares the attempt but not that the row is still active.
MutFencedAnyState(row, s) == row.state # "none" /\ row.rc = s.rc

\* The fence of complete(), deleteJob() and fail(): still active under the attempt that was fetched.
Fenced(row, s) == row.state = "active" /\ row.rc = s.rc

\* fail() of the rows S, of which `permanent` may not be retried: a row with a retry left goes back
\* to the queue, any other is failed and leaves a copy in the dead-letter queue.
FailRows(S, permanent) ==
    LET dead == {i \in S : i \in permanent \/ job[i].rc = RetryLimit}
    IN  /\ job' = [i \in Ids |->
                     IF i \in S THEN [job[i] EXCEPT !.state = IF i \in dead THEN "failed" ELSE "retry"]
                     ELSE job[i]]
        /\ dlq' = dlq \cup {[inc |-> job[i].inc, id |-> i, load |-> job[i].load] : i \in dead}

\* complete(): the row stays, completed, until retention removes it.
CompleteRow(i) == job' = [job EXCEPT ![i].state = "completed"]

\* deleteJob(): nothing of the row stays.
DeleteRow(i) == job' = [job EXCEPT ![i] = NoRow]

\* An id whose row a redrive transaction has deleted or inserted but not committed: every other
\* writer of that id waits for the transaction to end.
HeldId(i) == \E r \in Redrivers :
    /\ redriver[r].pc = "inserted" \/ redriver[r].freed
    /\ redriver[r].copy.id = i

-----------------------------------------------------------------------------
(* Senders *)

\* send(): accepted only if no row has the id; a duplicate returns null and changes nothing.
Send(i) ==
    /\ issued < MaxInc
    /\ job[i].state = "none"
    /\ ~HeldId(i)
    /\ issued' = issued + 1
    /\ job' = [job EXCEPT ![i] = FreshRow(issued + 1, issued + 1)]
    /\ UNCHANGED <<dlq, batch, redriver>>

-----------------------------------------------------------------------------
(* Workers: a batch is fetched, its handlers run together, each success settles at once, and the  *)
(* rest settles when every handler has returned.                                                  *)

\* Mutant: a retry is claimed under the number of the attempt before it.
MutClaimedRcSame(row) == row.rc

\* retry_count counts the claims after the first.
ClaimedRc(row) == IF row.state = "retry" THEN row.rc + 1 ELSE row.rc

\* work(): a free worker claims up to Concurrency waiting jobs in one statement.
Fetch(b, S) ==
    /\ batch[b].phase = "idle"
    /\ S # {} /\ Cardinality(S) <= Concurrency
    /\ \A i \in S : job[i].state \in Waiting
    /\ job' = [i \in Ids |->
                 IF i \in S THEN [job[i] EXCEPT !.state = "active", !.rc = ClaimedRc(job[i])]
                 ELSE job[i]]
    /\ batch' = [batch EXCEPT ![b] =
         [phase |-> "running", cut |-> FALSE,
          slot |-> [i \in Ids |->
            IF i \in S THEN [pc |-> "handler", rc |-> ClaimedRc(job[i]),
                             inc |-> job[i].inc, load |-> job[i].load]
            ELSE EmptySlot]]]
    /\ UNCHANGED <<dlq, redriver, issued>>

\* The handler of one job returns: it succeeded, threw, or threw a PermanentJobError.
HandlerReturns(b, i, outcome) ==
    /\ batch[b].slot[i].pc = "handler"
    /\ batch' = [batch EXCEPT ![b].slot[i].pc = outcome]
    /\ UNCHANGED <<job, dlq, redriver, issued>>

\* The settle runOne makes on a success: delete or complete the row, fenced to the attempt.
SettleSuccess(i, s) ==
    IF ~Fenced(job[i], s) THEN job' = job
    ELSE IF DeleteOnSuccess THEN DeleteRow(i) ELSE CompleteRow(i)

\* runOne, after a success: settle at once.
EarlySettle(b, i) ==
    /\ batch[b].slot[i].pc = "succeeded"
    /\ SettleSuccess(i, batch[b].slot[i])
    /\ batch' = [batch EXCEPT ![b].slot[i].pc = "completed"]
    /\ UNCHANGED <<dlq, redriver, issued>>

\* runOne, when that call throws: it may or may not have reached the table.  The job is counted as
\* processed all the same and left to the batch-level settle.
EarlySettleError(b, i) ==
    /\ batch[b].slot[i].pc = "succeeded"
    /\ SettleSuccess(i, batch[b].slot[i]) \/ job' = job
    /\ batch' = [batch EXCEPT ![b].slot[i].pc = "unsettled"]
    /\ UNCHANGED <<dlq, redriver, issued>>

\* processBatch returns: every handler is back.  A batch that was cut off has nobody to return to.
BatchReturns(b) ==
    /\ batch[b].phase = "running"
    /\ \A i \in Ids : batch[b].slot[i].pc \notin {"handler", "succeeded"}
    /\ batch' = [batch EXCEPT ![b] =
                   IF batch[b].cut THEN IdleBatch ELSE [@ EXCEPT !.phase = "settling"]]
    /\ UNCHANGED <<job, dlq, redriver, issued>>

\* pg-boss settles one job of a returned batch by its outcome, fenced to the attempt; the worker is
\* free again after the last one.
BatchSettle(b, i) ==
    LET s == batch[b].slot[i]
        rest == [batch[b].slot EXCEPT ![i] = EmptySlot]
        fail == IF Fenced(job[i], s) THEN {i} ELSE {}
    IN  /\ batch[b].phase = "settling"
        /\ s.pc # "empty"
        /\ CASE s.pc \in {"completed", "unsettled"} ->
                  /\ IF Fenced(job[i], s) THEN CompleteRow(i) ELSE job' = job
                  /\ dlq' = dlq
             [] s.pc = "failed" -> FailRows(fail, {})
             [] s.pc = "deadletter" -> FailRows(fail, {i})
        /\ batch' = [batch EXCEPT ![b] =
                       IF \A k \in Ids : rest[k].pc = "empty" THEN IdleBatch
                       ELSE [@ EXCEPT !.slot = rest]]
        /\ UNCHANGED <<redriver, issued>>

\* pg-boss gives a batch up (stop() past its budget, or the lease of the batch is over): it fails
\* every job the batch still holds; the handlers are told to abort but run on.
CutOff(b) ==
    /\ batch[b].phase = "running" /\ ~batch[b].cut
    /\ FailRows({i \in Ids : batch[b].slot[i].pc # "empty" /\ Fenced(job[i], batch[b].slot[i])}, {})
    /\ batch' = [batch EXCEPT ![b].cut = TRUE]
    /\ UNCHANGED <<redriver, issued>>

\* The pod dies: whatever its handlers had not settled is lost with it.
Crash(b) ==
    /\ batch[b].phase # "idle"
    /\ batch' = [batch EXCEPT ![b] = IdleBatch]
    /\ UNCHANGED <<job, dlq, redriver, issued>>

-----------------------------------------------------------------------------
(* The pg-boss supervisor and maintenance, and the pending sweep *)

\* Mutant: a job on its last attempt is not expired.
MutExpireNotLast(i) ==
    /\ job[i].state = "active" /\ job[i].rc < RetryLimit
    /\ FailRows({i}, {})
    /\ UNCHANGED <<batch, redriver, issued>>

\* The supervisor fails an active job whose lease or heartbeat ran out, whoever runs it.
Expire(i) ==
    /\ job[i].state = "active"
    /\ FailRows({i}, {})
    /\ UNCHANGED <<batch, redriver, issued>>

\* sweepPending(): one DELETE of the jobs of a watched queue that waited past their deadline.
SweepPending(gone) ==
    /\ PendingWatch
    /\ gone # {} /\ \A i \in gone : job[i].state \in Waiting
    /\ job' = [i \in Ids |-> IF i \in gone THEN NoRow ELSE job[i]]
    /\ UNCHANGED <<dlq, batch, redriver, issued>>

\* pg-boss maintenance removes a row past its retention: waiting or finished, never active.
Maintain(i) ==
    /\ job[i].state \in Waiting \cup {"completed", "failed"}
    /\ ~HeldId(i)
    /\ DeleteRow(i)
    /\ UNCHANGED <<dlq, batch, redriver, issued>>

\* The deadline of a dead-letter copy passes: a redrive no longer sees it and maintenance removes it.
DropCopy(c) ==
    /\ \A r \in Redrivers : redriver[r].copy # c
    /\ dlq' = dlq \ {c}
    /\ UNCHANGED <<job, batch, redriver, issued>>

-----------------------------------------------------------------------------
(* redrive(): each copy moves in a transaction of its own *)

\* SELECT ... FOR UPDATE SKIP LOCKED: the copy is still there and nobody else moves it.
RedriveLock(r, c) ==
    /\ redriver[r].pc = "idle"
    /\ \A q \in Redrivers : redriver[q].copy # c
    /\ redriver' = [redriver EXCEPT ![r] = [pc |-> "locked", copy |-> c, freed |-> FALSE]]
    /\ UNCHANGED <<job, dlq, batch, issued>>

\* The policy of the origin queue is asked, then the dead original, if retention left it, is
\* deleted: only a failed row, a row in any other state is a later job's.
RedriveFree(r) ==
    LET i == redriver[r].copy.id
    IN  /\ redriver[r].pc = "locked"
        /\ i \in Redrivable
        /\ ~HeldId(i)
        /\ redriver' = [redriver EXCEPT ![r].pc = "freed",
                                        ![r].freed = (job[i].state = "failed")]
        /\ UNCHANGED <<job, dlq, batch, issued>>

\* send() on the transaction: inserts when no row has the id.
RedriveSend(r) ==
    LET i == redriver[r].copy.id
    IN  /\ redriver[r].pc = "freed"
        /\ redriver[r].freed \/ (job[i].state = "none" /\ ~HeldId(i))
        /\ redriver' = [redriver EXCEPT ![r].pc = "inserted"]
        /\ UNCHANGED <<job, dlq, batch, issued>>

\* The copy is deleted and the transaction commits: the move becomes visible at once.
RedriveCommit(r) ==
    LET c == redriver[r].copy
    IN  /\ redriver[r].pc = "inserted"
        /\ issued < MaxInc
        /\ issued' = issued + 1
        /\ job' = [job EXCEPT ![c.id] = FreshRow(issued + 1, c.load)]
        /\ dlq' = dlq \ {c}
        /\ redriver' = [redriver EXCEPT ![r] = IdleRedrive]
        /\ UNCHANGED batch

\* ROLLBACK: the policy rejects the copy, its id is taken by another job (send returned null), a
\* statement fails or the process dies.  The copy stays where it was.
RedriveRollback(r) ==
    /\ redriver[r].pc # "idle"
    /\ redriver' = [redriver EXCEPT ![r] = IdleRedrive]
    /\ UNCHANGED <<job, dlq, batch, issued>>

-----------------------------------------------------------------------------
Outcomes == {"succeeded", "failed", "deadletter"}

Worker(b) ==
    \/ \E S \in SUBSET Ids : Fetch(b, S)
    \/ \E i \in Ids, o \in Outcomes : HandlerReturns(b, i, o)
    \/ \E i \in Ids : EarlySettle(b, i) \/ EarlySettleError(b, i) \/ BatchSettle(b, i)
    \/ BatchReturns(b)
    \/ CutOff(b)
    \/ Crash(b)

\* The steps that delete a payload at its deadline.
Drops ==
    \/ \E gone \in SUBSET Ids : SweepPending(gone)
    \/ \E i \in Ids : Maintain(i)
    \/ \E c \in dlq : DropCopy(c)

Operator(r) ==
    \/ \E c \in dlq : RedriveLock(r, c)
    \/ RedriveFree(r) \/ RedriveSend(r) \/ RedriveCommit(r) \/ RedriveRollback(r)

Next ==
    \/ \E i \in Ids : Send(i) \/ Expire(i)
    \/ \E b \in Batches : Worker(b)
    \/ Drops
    \/ \E r \in Redrivers : Operator(r)

Spec == Init /\ [][Next]_vars

\* A worker keeps polling and the supervisor keeps looking for lost claims.  Nothing is assumed of
\* the handlers: they may hang for ever.
LiveSpec ==
    /\ Spec
    /\ WF_vars(\E b \in Batches, S \in SUBSET Ids : Fetch(b, S))
    /\ \A i \in Ids : WF_vars(Expire(i))

-----------------------------------------------------------------------------
(* Properties *)

\* No two batches ever hold the same attempt of the same job: retry_count tells the attempts of
\* one incarnation apart, which is all the fence of runOne has to go by.
OneHolderPerAttempt ==
    \A i \in Ids : \A b1, b2 \in Batches :
        LET s1 == batch[b1].slot[i]
            s2 == batch[b2].slot[i]
        IN  (b1 # b2 /\ s1.pc # "empty" /\ s2.pc # "empty" /\ s1.inc = s2.inc) => s1.rc # s2.rc

\* "The redriven job never runs beside a duplicate" (redrive.ts): a payload is never in the
\* dead-letter queue twice, nor there and live in its queue at once, nor live twice.
NoDuplicate ==
    /\ \A c, d \in dlq : c.load = d.load => c = d
    /\ \A c \in dlq, i \in Ids : job[i].state \in Live => job[i].load # c.load
    /\ \A i, k \in Ids : (job[i].state \in Live /\ job[k].state \in Live /\ job[i].load = job[k].load)
                           => i = k

\* A payload the system still has to process: live in its queue, or a dead letter.
Kept == {job[i].load : i \in {k \in Ids : job[k].state \in Live}} \cup {c.load : c \in dlq}

\* A handler has succeeded on the payload, in a batch that may still settle it.
Succeeded(l) == \E b \in Batches, i \in Ids :
    /\ batch[b].slot[i].pc \in {"succeeded", "unsettled", "completed"}
    /\ batch[b].slot[i].load = l

\* The id was sent or redriven while a handler of an earlier job with that id still ran.
Overtaken(i) == \E b \in Batches :
    batch[b].slot[i].pc # "empty" /\ batch[b].slot[i].inc # job[i].inc

\* "Never loses a payload" (redrive.ts), over the whole life of a job: a payload stops being kept only
\* when a handler succeeded on it or a deadline dropped it.  The exception is the gap the fence
\* leaves: a job whose id was reused while a handler of the earlier job still ran.
NoPayloadLost ==
    [][\A l \in Kept \ Kept' :
         \/ Succeeded(l)
         \/ Drops
         \/ \E i \in Ids : job[i].load = l /\ Overtaken(i)]_vars

\* "Once it is completed here, the batch-level settle finds it settled and does nothing" (runOne): a
\* finished row is never queued again, whatever becomes of the batch it was settled from, and only
\* an attempt that is running can be dead-lettered.
FinishedStaysFinished ==
    [][/\ \A i \in Ids : (job[i].state \in {"completed", "failed"} /\ job'[i].inc = job[i].inc)
                           => job'[i].state = job[i].state
       /\ \A c \in dlq' \ dlq : job[c.id].state = "active" /\ job[c.id].inc = c.inc]_vars

\* No job waits or runs for ever, even when every handler hangs or every pod that claims it dies: it is
\* finished, dead-lettered or dropped.
EveryJobLeaves == \A i \in Ids : job[i].state \in Live ~> job[i].state \notin Live

\* runOne's comment: "a handler that finishes after its claim was lost can touch nothing".  The settle
\* of a success changes a row only while the row is of the incarnation the batch fetched.
StaleTouchesNothing ==
    [][\A b \in Batches, i \in Ids :
         (/\ batch[b].slot[i].pc = "succeeded"
          /\ batch'[b].slot[i].pc # "succeeded"
          /\ job'[i] # job[i]) => job[i].inc = batch[b].slot[i].inc]_vars

\* runOne's comment on a failed early settle: "The handler SUCCEEDED and that settle will land, so it is
\* a processed job".  Then the job is settled, or its attempt still holds the claim.
CountedSettleLands ==
    \A b \in Batches, i \in Ids :
        LET s == batch[b].slot[i]
        IN  s.pc = "unsettled" => (job[i].inc = s.inc => Fenced(job[i], s) \/ job[i].state = "completed")

-----------------------------------------------------------------------------
(* The strengthening that makes the invariants inductive *)

\* A row that exists has a number and a payload that were issued; a row that waits for a retry has one
\* left.
RowsOK == \A i \in Ids :
    /\ job[i].state = "none" => job[i] = NoRow
    /\ job[i].state # "none" => job[i].inc \in 1..issued /\ job[i].load \in 1..issued
    /\ job[i].state = "retry" => job[i].rc < RetryLimit

CopiesOK == \A c \in dlq : c.inc \in 1..issued /\ c.load \in 1..issued

\* An open transaction holds a copy, and no two hold the same one.
CopyHeld == \A r \in Redrivers :
    IF redriver[r].pc = "idle" THEN redriver[r] = IdleRedrive ELSE redriver[r].copy \in dlq
CopiesApart == \A r, q \in Redrivers :
    (r # q /\ redriver[r].pc # "idle") => redriver[r].copy # redriver[q].copy

\* Whoever has deleted or inserted the row of an id is alone with it, and the row is as it was found.
HoldsRow(r) == redriver[r].pc = "inserted" \/ redriver[r].freed
HeldRows == \A r \in Redrivers :
    LET i == redriver[r].copy.id
    IN  /\ redriver[r].freed => redriver[r].pc \in {"freed", "inserted"} /\ job[i].state = "failed"
        /\ redriver[r].pc = "inserted" /\ ~redriver[r].freed => job[i].state = "none"
HoldersApart == \A r, q \in Redrivers :
    (r # q /\ HoldsRow(r) /\ HoldsRow(q)) => redriver[r].copy.id # redriver[q].copy.id

MovesOK == CopyHeld /\ CopiesApart /\ HeldRows /\ HoldersApart

\* What a batch holds was fetched from an issued incarnation, at an attempt the row has not yet passed,
\* and with the payload of that incarnation.
SlotsOK == \A b \in Batches, i \in Ids :
    LET s == batch[b].slot[i]
    IN  /\ s.pc # "empty" => s.inc \in 1..issued
        /\ (s.pc # "empty" /\ s.inc = job[i].inc) =>
             s.rc <= job[i].rc /\ job[i].state # "created" /\ s.load = job[i].load
        /\ batch[b].phase = "idle" => s.pc = "empty"
        /\ batch[b].phase = "settling" => s.pc \notin {"handler", "succeeded"}

IInv == TypeOK /\ RowsOK /\ CopiesOK /\ MovesOK /\ SlotsOK /\ OneHolderPerAttempt /\ NoDuplicate

\* No attempt is worked on twice at once, and no job exists twice, through retries, reuse of ids
\* and redrives.
JobsSafe == TypeOK /\ OneHolderPerAttempt /\ NoDuplicate

\* What no step does to a payload: lose one that was not handled, or revive one that finished.
JobSteps == NoPayloadLost /\ FinishedStaysFinished
=============================================================================
