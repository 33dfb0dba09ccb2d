------------------------------ MODULE QueueConfig ------------------------------
(***************************************************************************)
(* config.ts of platform-jobs: what a queue's configuration is resolved    *)
(* to, what is refused, and the life of one job under what was accepted.   *)
(*                                                                         *)
(* The job is pg-boss's (external): an attempt may run to its expiry and   *)
(* be noticed late, a retry waits for its back-off, a waiting row is       *)
(* deleted at the deadline fixed when it was inserted, a finished one when *)
(* its retention is over.  A due job is fetched at once.  Times are        *)
(* seconds scaled down; Default holds DEFAULTS on that scale.              *)
(***************************************************************************)
EXTENDS Naturals
CONSTANTS QueueConfigs,    \* QueueConfig values a product may pass
          Default,    \* DEFAULTS
          NotGiven,   \* an option left out
          Immediate,  \* retention.completed: immediate
          LongestTime \* the largest number of seconds the checks accept
ASSUME DefaultAssumption ==
  /\ Default.detection \in Nat /\ Default.minRetryLimit \in Nat \ {0}
  /\ Default.minPending \in Nat /\ Default.pending >= Default.minPending
  /\ Default.completed \in Nat \ {0} /\ Default.heartbeat # NotGiven
  /\ LongestTime \in Nat /\ NotGiven \notin QueueConfigs
VARIABLES config,   \* what defineQueue was given
          queue,    \* what it resolved to; NotGiven when it was refused
          queuedJob       \* the job: [phase, tries, age, kept, drains]
configVars == <<config, queue, queuedJob>>

Or(value, default) == IF value = NotGiven THEN default ELSE value
Integer(value, min, max) == value \in min .. max
Given(value, min) == value # NotGiven => Integer(value, min, LongestTime)

---------------------------------------------------------------------------
(* resolveRetention *)
RetentionOK(r) ==
  /\ Given(r.pending, Default.minPending) /\ Given(r.failed, 1) /\ Given(r.deadLetter, 1)
  /\ r.completed # Immediate =>
       /\ Given(r.completed, 1)
       /\ r.completed # NotGiven /\ r.failed # NotGiven => r.completed = r.failed
Finished(r) ==
  IF r.completed \notin {NotGiven, Immediate} THEN r.completed ELSE Or(r.failed, Default.completed)

(* resolveQueue *)
Heartbeat(c, expire) ==
  IF c.heartbeat # NotGiven THEN c.heartbeat
  ELSE IF expire > Default.heartbeatAbove THEN Default.heartbeat ELSE NotGiven
\* The longest a job may be retried: every attempt detected late, every back-off capped.
\* Mutant: late detection is left out.
MutLeastWindow(q) == (q.retryLimit + 1) * q.expire + q.retryLimit * q.delayMax
LeastWindow(q) ==
  (q.retryLimit + 1) * (q.expire + Default.detection) + q.retryLimit * q.delayMax
Resolved(c) ==
  LET expire == Or(c.expire, Default.expire)
  IN  [expire |-> expire, heartbeat |-> Heartbeat(c, expire),
       retryLimit |-> Or(c.retryLimit, Default.retryLimit),
       delay |-> Or(c.delay, Default.delay), delayMax |-> Or(c.delayMax, Default.delayMax),
       pending |-> Or(c.retention.pending, Default.pending),
       watch |-> c.retention.pending # NotGiven,
       finished |-> Finished(c.retention),
       deadLetter |-> Or(c.retention.deadLetter, Default.deadLetter),
       deleteOnSuccess |-> c.retention.completed = Immediate]
RetriesOK(c, q) == q.retryLimit >= Default.minRetryLimit \/ c.acceptDeadLetterOnDrain
WindowOK(q) == q.watch => q.pending >= LeastWindow(q)
Accepted(c) ==
  LET q == Resolved(c)
  IN  /\ Integer(q.expire, 1, LongestTime)
      /\ Given(c.heartbeat, Default.minHeartbeat)
      /\ Integer(q.retryLimit, 0, LongestTime) /\ RetriesOK(c, q)
      /\ Integer(q.delay, 1, LongestTime) /\ Integer(q.delayMax, q.delay, LongestTime)
      /\ c.deadLetter # "itself"
      /\ RetentionOK(c.retention)
      /\ WindowOK(q)

---------------------------------------------------------------------------
NoJob == [phase |-> "none", tries |-> 0, age |-> 0, kept |-> 0, drains |-> 0]
Define ==
  /\ config = NotGiven
  /\ \E c \in QueueConfigs :
       config' = c /\ queue' = IF Accepted(c) THEN Resolved(c) ELSE NotGiven
  /\ UNCHANGED queuedJob
Send ==
  /\ queue # NotGiven /\ queuedJob = NoJob
  /\ queuedJob' = [NoJob EXCEPT !.phase = "due"]
  /\ UNCHANGED <<config, queue>>

\* How long an attempt may last: pg-boss notices an expired one late.
Attempts == 1 .. queue.expire + Default.detection
Succeeds(d) ==
  /\ queuedJob.phase = "due" /\ d <= queue.expire
  /\ queuedJob' = [queuedJob EXCEPT !.phase = IF queue.deleteOnSuccess THEN "gone" ELSE "completed",
                        !.tries = @ + 1, !.age = @ + d, !.kept = 0]
  /\ UNCHANGED <<config, queue>>
\* A failed, expired or drained attempt: a retry waits for its back-off.
Spent(d, drained) ==
  /\ queuedJob.phase = "due" /\ (drained => queuedJob.drains = 0)
  /\ \E wait \in queue.delay .. queue.delayMax :
       LET last == queuedJob.tries >= queue.retryLimit
       IN  queuedJob' = [phase |-> IF last THEN "failed" ELSE "due", tries |-> queuedJob.tries + 1,
                   age |-> queuedJob.age + d + (IF last THEN 0 ELSE wait), kept |-> 0,
                   drains |-> queuedJob.drains + (IF drained THEN 1 ELSE 0)]
  /\ UNCHANGED <<config, queue>>
\* Maintenance deletes a waiting row past its deadline, a finished one past its retention.
Expires ==
  /\ queuedJob.phase = "due" /\ queuedJob.age > queue.pending
  /\ queuedJob' = [queuedJob EXCEPT !.phase = "cut"]
  /\ UNCHANGED <<config, queue>>
Ages ==
  /\ queuedJob.phase \in {"completed", "failed"}
  /\ queuedJob' = IF queuedJob.kept >= queue.finished THEN [queuedJob EXCEPT !.phase = "gone"]
       ELSE [queuedJob EXCEPT !.kept = @ + 1]
  /\ UNCHANGED <<config, queue>>

ConfigInit == config = NotGiven /\ queue = NotGiven /\ queuedJob = NoJob
ConfigNext ==
  \/ Define \/ Send \/ Expires \/ Ages
  \/ queue # NotGiven /\ \E d \in Attempts : Succeeds(d) \/ \E b \in BOOLEAN : Spent(d, b)
ConfigSpec == ConfigInit /\ [][ConfigNext]_configVars

---------------------------------------------------------------------------
\* A queue runs only under a configuration that was accepted, a long job has a
\* heartbeat, and a job never has more attempts than its retries and the first.
ConfigTypeOK ==
  queue # NotGiven =>
    /\ Accepted(config) /\ queue = Resolved(config)
    /\ queue.expire > Default.heartbeatAbove => queue.heartbeat # NotGiven
    /\ queuedJob.tries <= queue.retryLimit + 1

\* With an explicit retention.pending no job is deleted while it is still being
\* retried, however late each attempt ends and is noticed (config.ts, leastWindow).
NeverCutShort == queue # NotGiven /\ queue.watch => queuedJob.phase # "cut"

\* A pod drain does not send a job to the dead-letter queue on its own: a job that
\* failed had another attempt spent, unless the queue opted out (config.ts, minRetryLimit).
DrainSurvived ==
  queuedJob.phase = "failed" /\ ~config.acceptDeadLetterOnDrain => queuedJob.tries > queuedJob.drains

\* What the product asked to keep is kept: a failed row stays for retention.failed when
\* that is given, a completed one for retention.completed, and immediate keeps none.
RetentionKept ==
  LET r == config.retention
  IN  /\ queuedJob.phase = "failed" /\ r.failed # NotGiven => queue.finished = r.failed
      /\ queuedJob.phase = "completed" => r.completed \in {NotGiven, queue.finished}
      /\ queuedJob.phase = "gone" /\ queuedJob.kept = 0 => r.completed = Immediate

\* What resolveQueue accepts keeps every job to the end of its retries, through a drain, and its
\* rows as long as they were asked for.
QueueSafe == ConfigTypeOK /\ NeverCutShort /\ DrainSurvived /\ RetentionKept
=============================================================================
