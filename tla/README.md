# Verification of app-platform

TLA+ models of app-platform, the shared library packages of the repository (`src/packages/*`), with
the TLC runs that check them on small instances and the TLAPS proofs that establish the safety
properties for every instance.

Every specification is translated from the code; `PROJECT.json` maps each definition to the lines
it stands for. To repeat the checks, in this directory:

    tlc -workers 2 -config MCJobQueue.cfg MCJobQueue      # any run: see "Runs"
    tlapm JobQueueProofs.tla                              # any *Proofs module

## 1. The system

app-platform is a set of packages that services are built from. A service runs as several pods;
each pod is one Node.js process, so inside a pod only `await` points interleave, and the pods share
PostgreSQL and Valkey. What is hard in this code is mostly of four shapes: a claim, lease or lock in a
shared store whose holder may be slow, dead or cut off; a decision on something read before an `await`
and used after it; a session, membership or key that must stop counting everywhere although processes
remember it; and a configuration that is accepted now and bites much later.

| Component | State it keeps | Operations | Talks to | Correct when |
|---|---|---|---|---|
| job queue (`platform-jobs/src/engine.ts`) | rows of `pgboss.job`, batches in flight | `send`, `processBatch`, `runOne`, `stop` | pg-boss (fetch, settle, supervisor, maintenance) | an attempt is held once; a settled job stays settled; a payload is not lost or doubled; no job stays for ever |
| pending sweep (`pending.ts`) | none of its own | `sweepPending` | the same rows | deletes only what waits past its deadline |
| redrive (`redrive.ts`) | dead letters, one transaction per move | `redrive`, `listDeadLetters`, `deleteDeadLetter` | the same rows, concurrent senders and redrivers | moves a payload, never copies or loses it |
| jobs lifecycle (`engine.ts`, `nestjs/`) | state, queues, handlers, workers, timers | `start`, `stop`, `handle`, `defineQueue` | pg-boss | told queues exist; one worker per handler; a stopped engine is idle |
| jobs once, install (`engine.ts`, `install.ts`) | markers, the advisory lock of an install | `once`, `installJobsSchema` | transactions of the caller, a pool | an effect and its marker commit together; no session keeps the lock |
| jobs configuration (`config.ts`) | none | `resolveQueue`, `resolveRetention` | pg-boss's timing | what is accepted cannot cut a job short |
| mail handler (`platform-mail/src/jobs.ts`, `state.ts`) | the ledger `mail:sent:*`, `mail:cooldown:*` | `createMailHandler`, `claim`, `renew`, `release`, `markSent`, `backOff` | the job queue, Valkey, a sender | one email per key; "done" means sent; a dead attempt blocks nobody for ever |
| mail pacing (`state.ts`) | the token bucket `mail:rate:*` | `takeSlot`, `backOff`, `waitForSlot` | Valkey | no more than burst plus rate in any span |
| mail transport (`config.ts`, `factory.ts`, `graph.ts`, `smtp.ts`, `message.ts`) | a cached token, a certificate | `readMailConfig`, `createEmailSender`, `send` | the provider | production credentials only; nobody given up for a fault that passes |
| HTTP pipeline (`platform-http/src/http`, `nestjs`) | AsyncLocalStorage contexts, sliding windows | `enableCorrelationId`, guards, interceptor, exception filter | identity, Valkey | contexts do not leak; limits hold; fail-open is seen |
| idempotency (`idempotency.interceptor.ts`) | `idem:*` record and claim | `begin`, `run`, `store`, `renew`, `release` | Valkey, the handler | a concurrent or completed copy is not run; a replay is of the same question |
| signed client address (`edge.ts`, `edge-client-ip.ts`, `client-ip.ts`) | a memo per request, secrets | `forwardToOrigin`, `verifyEdgeClientIp`, `clientIp` | the Worker | believed only if signed for this request; callers agree; a rotation refuses nobody |
| pagination (`pagination/`) | none | cursor and offset pages | the product's queries | no row twice, none skipped, under edits |
| cache locks (`platform-cache/src/cache.service.ts`) | `lock:*`, the remembered locks of a process | `tryLock`, `acquireLock`, `releaseLock`, `release`, `extend` | Valkey | excludes within the lease; a late release harms nobody |
| exclusive jobs (`platform-runtime`, `advisory-lock.ts`) | `running`, a cache or an advisory lock | `run`, `withAdvisoryLock` | cache locks, PostgreSQL sessions | one pod runs the job; no lock is orphaned |
| process (`bootstrap/`, `shutdown/`, `health/`) | readiness, the shutdown promise, steps, hooks | `createHttpApp`, `enableGracefulShutdown`, `report` | load balancer, all of the above | bounded, once, in order, and exit codes tell the truth |
| pool guard (`platform-db/src/guard.ts`) | failures, back-off window | `guardPool` | pg-pool | a broken database is not hammered and the pool stays usable |
| database configuration, errors | pools | `readDatabaseConfig`, `createPool`, `classifyDatabaseError` | PostgreSQL and its Secret | never in the clear in production; failures named by cause |
| sign-in throttle (`identity/src/lockout.ts`) | counters per device, address and account | `admit`, after hooks, reset | better-auth, Valkey | a guesser is bounded, the owner is let in |
| known devices (`known-device.ts`) | a cookie with an epoch | mint, judge, `bumpAndReissue` | the user's row | what was signed out stays out |
| who may have an account (`domains.ts`, `reserved.ts`, `plugins.ts`, `providers.ts`, `sso.ts`) | none | the guards and providers | better-auth | staff addresses only through the company's tenant; no take-over |
| access tokens (`access-jwt.ts`) | keys held | `verify` | the team's key set | outages are no "bad token"; a rotation heals |
| account clean-up (`accounts.ts`, `callback-errors.ts`) | none | purge, replace, remove | better-auth | deletes only what nobody uses |
| revokes and bans (`create-identity.ts`, `banned-guard.ts`) | session rows, copies and lists, a memo | `revoke*`, `setUserBanned`, `unlinkMicrosoftAccount` | PostgreSQL, Valkey | what is revoked stays gone; a ban reaches every pod |
| active context (`context.ts`) | the context in row, copy and memo | `setContext`, `clearContext`, `reconcile` | product, Valkey | a lost membership is left; a switch sticks |
| staff sessions (`staff-session.ts`) | lifetimes, a memo of classifications | hooks, guard | better-auth | no staff session outlives the cap |
| SSO secrets (`sso-crypto.ts`, `sso-protect.ts`) | sealed columns, a key ring | seal, open, re-seal | rolling deployments | always sealed, always openable |
| organizations (`organization-atomic.ts`, transactions) | an organization and its owner | atomic create | better-auth, a pool | both rows or neither; no self-deadlock |
| metrics and tracing (`observability`) | series, label sets, one SDK | `startOtel`, recorders, label guard | the exporter | counts stay true at the limits |

How they meet. The mail handler is a job of the queue, so an attempt of MailSend is one execution that
JobQueue calls `HandlerReturns`; redelivery, expiry and cut-off of the queue are why two attempts at one
message may overlap, and `job.signal` is the queue's abort. ExclusiveJob uses the lock of CacheLock by its
handle. The stop of JobsLifecycle and its budget is a step of Process. OnceEffect and OrgCreate run in
transactions of a pool that PoolGuard dials for. HttpRequest reads the principal that the session guard
wrote, and the client address of EdgeAddress. KnownDevice cookies are what the throttle counts by;
UserSessions, SessionContext and StaffSession are three views of the same two session stores. Where one of
them is a choice in another's module (a failing cache, a lost reply, an outage), the choice covers every
behaviour of it.

The hard behaviours are listed in `PROJECT.json` under "hazards", each with the line where it bites and the
properties that would catch it.

## 2. Modules

| Module | Models | Proofs | Checked in |
|---|---|---|---|
| `JobQueue` | one queue: senders, batches, early settle, supervisor, sweep, maintenance, redrive | `JobQueueProofs` | `MCJobQueue` |
| `MailSend` | executions of the `mail.send` handler and the ledger they share | `MailSendProofs` | `MCMailSend` |
| `CacheLock` | one lock key: handles, and the remembered locks of a process | `LockProofs` | `MCLocks`, `MCCacheLock` |
| `ExclusiveJob` | one scheduled job on every pod: cache lock, advisory lock, no lock | `LockProofs` | `MCLocks` |
| `Lease` | what a lock with a lease promises; ExclusiveJob implements it twice | `LockProofs` | `MCLocks` |
| `Idempotency` | requests that carry one idempotency key | `LockProofs` | `MCLocks` |
| `SendRate` | the token bucket and the cooldown, with exact arithmetic | `MailProofs` | `MCRuntime` |
| `Process` | one process from composition to exit, with prober, requests and jobs | `RuntimeProofs` | `MCRuntime`, `MCRuntimeLive` |
| `JobsLifecycle` | `start`, `stop`, `handle`, `defineQueue` of the engine | `RuntimeProofs` | `MCRuntime` |
| `OnceEffect` | `once` for one key, in either transaction; the lock of installs | `RuntimeProofs` | `MCRuntime`, `MCRuntimeLive` |
| `PoolGuard` | the back-off that the dials of a pool share, and pg-pool's queue | `RuntimeProofs` | `MCRuntime`, `MCRuntimeLive` |
| `OrgCreate` | atomic creates for one slug over a pool that may be exhausted | `RuntimeProofs` | `MCRuntime`, `MCRuntimeLive` |
| `QueueConfig` | what a configuration resolves to, and the life of a job under it | `RuntimeProofs` | `MCRuntime` |
| `DbConnect` | a pod's connections while the server, its certificate and password change | `RuntimeProofs` | `MCRuntime` |
| `MailTransport` | configuration, credential, validation, SMTP errors and redelivery | `MailProofs` | `MCRuntime` |
| `HttpRequest` | requests through correlation, guards, limiter, handler, filter and log | `EdgeProofs` | `MCEdge` |
| `EdgeAddress` | the signed client address through skew, replay and rotation | `EdgeProofs` | `MCEdge` |
| `PageWalk` | a client that pages through a list that changes | `EdgeProofs` | `MCEdge` |
| `Telemetry` | the SDK's set-up, bounded labels, job metrics and exports | `EdgeProofs` | `MCEdge` |
| `SignInThrottle` | attempts at one account from devices and addresses | `SignInProofs` | `MCIdentity` |
| `KnownDevice` | cookies, epochs and sign-outs of one user | `SignInProofs` | `MCIdentity` |
| `SignUpPolicy` | password, Google, Microsoft and SSO against the domain rules | `SignInProofs` | `MCIdentity` |
| `AccessJwt` | verification through key rotations and outages | `SessionProofs` | `MCIdentity` |
| `AccountLife` | purge, replacement and refused sign-ins against use | `SessionProofs` | `MCIdentity` |
| `UserSessions` | revokes, bans and unlinks over two stores | `SessionProofs` | `MCIdentity` |
| `SessionContext` | the active context of one session | `SessionProofs` | `MCIdentity` |
| `StaffSession` | the cap on staff sessions on every path and in every pod | `SessionProofs` | `MCIdentity` |
| `SsoSecrets` | sealed rows through a rolling rotation of keys | `SignInProofs` | `MCIdentity` |

Operators whose name starts with `Mut` are deliberately wrong variants of the definition that follows
them. They are not part of any specification; substituted for that definition they show that a
property notices the mistake.

**Side by side.** `MCLocks`, `MCRuntime`, `MCRuntimeLive`, `MCEdge` and `MCIdentity` check several
modules in one run. They EXTEND them (which is why names carry their module's subject: `LockInit`,
`idemPc`, `DbDial`), and a variable `part`, chosen by the initial state, says which one moves; the others
stay at one initial state. So the states of such a run are the disjoint union of its parts' states and each
invariant speaks about its own part. Components that interact are inside one module; `part` composes
questions, not components.

**Umbrellas.** A name that ends a module's property section, such as `ProcessSafe`, is the conjunction of
that module's named properties, its type invariant among them. Runs check umbrellas, and TLC names the
conjunct that fails.

### JobQueue

`job[i]` is the row of id `i` with its state, `retry_count`, and two history numbers: the incarnation
(which insertion of the id it is) and the payload. The code never sees those numbers; it knows an
attempt only as `(id, retryCount)`, and `Fenced` is that comparison. `batch[b]` is a batch in flight,
with one slot per job; `redriver[r]` is an open transaction of `redrive`. `Send`, `Fetch`,
`HandlerReturns`, `EarlySettle`/`EarlySettleError` (the settle in `runOne`, which may throw before or
after it landed), `BatchReturns`, `BatchSettle` (the result of `processBatch` as pg-boss applies it),
`CutOff` (`stop` past its budget, or the batch's lease) and `RedriveLock/Free/Send/Commit/Rollback`
are the code's steps. pg-boss itself is not in the repository: `FailRows`, `Expire`, `Maintain` and the
claim count are modelled from how the engine uses it and marked external. Time is abstract: any
deadline may pass at any moment.

### MailSend

`ledger[k]` is `mail:sent:<digest>` (free, claimed by a token with some lease left, or sent), `att[a]`
one execution with the stage, the `waitForSlot` locals and the renewal timer, `req[a]` what the provider
knows of the execution's request. `Accept` is the provider's own step and may come after the worker
stopped waiting (`GiveUp`) or died (`Crash`). Stage "resting" is `GraphSender.send` before a request:
waiting in place, or for its token. A 429, 502, 503 or 504 means "not accepted", as the code takes it.
`loose` is history: the executions the ledger no longer stands for, because the lease ended under them,
their request ended without an answer, or the record was forgotten after seven days.

### SendRate

Tokens are counted in units of 1/`Cost`, so that the refill of the Lua script is exact integer
arithmetic: `Gain` units per time unit (20 per ms), `Cost` units a message (60 000), `Burst` messages
in a full bucket. `Level` is the refill with its cap and the expiry of the bucket, `BucketWait` the
rounded-up wait. The script's floating-point representation is not modelled.

### CacheLock, ExclusiveJob, Lease

Every caller takes the key of CacheLock once; those in `Local` use `acquireLock`/`releaseLock` in one
process. `replies` are the `SET NX` answers that process has not handled yet (in order, on one connection),
`held` its list of remembered locks. `Remember` is `acquireLock` after its `await`, with the sweep above
1000 keys, which other keys trigger too (`SweepByOther`), and the bound per key.

`Fire` of ExclusiveJob is a tick of the schedule with the `running` guard; `CacheTaken/Refused/Freed` are
`runExclusively`, `PgTaken/Refused/Freed` `withAdvisoryLock`. `session` is the database session holding
the advisory lock; a destroyed or cut connection is "broken" until the server ends the session.

`Lease` is the abstract specification: an owner, the holders inside, and those that overran. `CacheLease`
and `PgLease` are its two instances in ExclusiveJob; `LeadsUnderLease` states that both are implemented,
with the promise that a lock nobody works under comes free.

### Idempotency

`record` and `claim` are the two Valkey keys, `idemPc` the stage of `intercept`, `effect` what became of
the handler, `answer` what the client was told and from whose execution. `READ_OR_CLAIM` is one Lua script
and therefore one step, whose outcomes are the actions `Replay`, `KeyReused`, `InFlight`, `Claim`,
`MissUnreadable`; `FailOpen` and `ClaimResent` are a failing cache and a lost reply. Digests and the
serialisation of responses are abstracted to the fingerprint of a request and whether a record can be
read. `loose` is history, as above.

### Process, JobsLifecycle, OnceEffect

Process follows `createHttpApp`/`createWorkerApp` (`Compose`, `Arm`, `Listen`, `Fatal`), readiness as a
prober sees it (`Probe` begins a report, `ProbeAnswer` ends it, maybe after draining began), and the sequence
of `enableGracefulShutdown` in `step`: delay, sweep of connections, the hooks of `app.close()` with the stop
of the jobs and its `Budget`, release of the pools, flush, exit; `HardStop` is the deadline and may come at
every step, as may a second `Signal`. JobsLifecycle is the engine's state through its `await`s: `start` runs
in two loops (`StartQueue`, `StartHandler`) while `defineQueue`, `handle` and `stop` are called in between;
`overlap` remembers when they did, because there the code promises less. OnceEffect has a transaction per
delivery, its own or the caller's, with the savepoint that `withTransaction` opens when it joins; `Lock`,
`Installed`, `Unlock`, `UnlockFails` are `installJobsSchema`.

### PoolGuard, OrgCreate, DbConnect

PoolGuard is `guardPool` around pg-pool: `pending`, `idle` and `pump` are pg-pool's (external), `failed`,
`retryAt` and `lastError` the guard's; the back-off doubles with an exponent of 20 at most. OrgCreate has one slug; `ThroughProxy` says that a statement of
the endpoint goes to the create's own transaction and needs no second connection of the pool, also when the
call comes through `auth.api`; `Swallowed` is a callback that catches an SQL error. DbConnect
starts pods with an environment, dials, classifies, and lets the server, its certificate, its role's
password and the Secret change meanwhile.

### QueueConfig, MailTransport, SendRate's users

QueueConfig resolves a configuration as `resolveQueue` does, accepts or refuses it, and then runs one job
under it: attempts that expire late, retries with back-off, drains, the deadlines of pg-boss. So the
arithmetic of `leastWindow` is checked against what it is for, not against itself. MailTransport reads a
configuration, hands over messages and redelivers after what `smtp.ts` makes of the provider's answer.

### HttpRequest, EdgeAddress, PageWalk, Telemetry

HttpRequest has one `stage` per request; `holds` and `context` are the AsyncLocalStorage and the objects in
it, `window` and `expires` the sorted set of the limiter, `lines` the log. The two guards run in the order
they were registered in (`setup.first`). A pod's clock is the visitor's `skew`: the pod that serves it. A
request that a product's own guard has marked is counted under its caller's key also on a public route.
EdgeAddress has the Worker's key, the API's current and previous key, and `known`, the memo of a request;
`AddSecret`, `SwitchWorker`, `DropSecret` are the three moves of a rotation, and secrets are pasted with or
without blanks. PageWalk has one walk with a cursor or an offset; `Edit` inserts or deletes rows between
pages. Telemetry checks what `startOtel` makes of its options, and the recorders against an oracle: `asked`
and `dropped` count what the code was told to record.

### The identity modules

- SignInThrottle: a counter is the set of attempts counted in it, so the number compared is its
  cardinality; `gen` is the generation that a clear replaces. One account, any devices and addresses.
- KnownDevice: `updated` and `secret` are the epoch, `jar` what browsers hold, `call` a hook between its
  awaits. `exact` says whether the database keeps more than milliseconds.
- SignUpPolicy: a domain is the sequence of its labels from the right. A provider decides in one step
  (`GoogleDecides`, `GuestDecides`, `MemberDecides`) and Better Auth writes in a later one (`Writes`).
- AccessJwt: jose's key cache is external; `Classify` is the table of failures.
- AccountLife: `task` is a purge, a replacement or a refused sign-in between its statements; `gone` records
  what a deleted user was when the deletion began.
- UserSessions: rows, copies and the list of tokens are three sets; an outage of Valkey leaves copies
  behind (`stranded`), and a purge may delete the list that led to one (`delisted`). One operation of the
  service at a time, which sessions and bans race with.
- SessionContext: the row, the copy and the belief of each host about a membership.
- StaffSession: `rd` is the read of a session in a pod between `findSession` and its answer or refresh;
  `tamed` is history, the sessions that a refresh of a staff user has capped.
- SsoSecrets: `column` is the sealed text with the version of its key, `rings` what each pod was started with.

## 3. Runs

| Run | Configuration | Checks | Shows |
|---|---|---|---|
| `jobs_reuse` | `MCJobQueue.cfg` | `JobsSafe` `JobSteps` | ids sent and redriven repeatedly, batches of two, a redriver racing with senders |
| `jobs_live` | `MCJobQueueLive.cfg` | `EveryJobLeaves` | hanging handlers and dying pods cannot keep a job in the queue |
| `jobs_stale_settle` | `MCJobQueueStale.cfg` | `StaleTouchesNothing` (violated) | finding 1 |
| `mail` | `MCMailSend.cfg` | `MailSafe` `LedgerSteps` `EndedClaimLapses` | two overlapping executions for one message, with every failure of worker, cache and provider |
| `mail_missed_renewal` | `MCMailSendMiss.cfg` | `OneMissSurvives` (violated) | finding 2 |
| `locks` | `MCLocks.cfg` | `LockSafe` `LeaderSafe` `IdemSafe` `LateReleaseSafe` `GoneLockFreed` `LeadsUnderLease` `KeyFreed` | CacheLock, ExclusiveJob and Idempotency over overrun leases, lost replies, flapping caches and crashes |
| `lock_crowded` | `MCCacheLockCrowded.cfg` | `NeverFreesSecond` (violated) | finding 3 |
| `edge` | `MCEdge.cfg` | `HttpSafe` `EdgeSafe` `WalkComplete` `TelemetryHonest` | the pipeline, the signed address, pagination and metrics |
| `http_log` | `MCEdgeLog.cfg` | `LogTellsStatus` (violated) | finding 4 |
| `runtime` | `MCRuntime.cfg` | `RateBound` `WaitsRight` `ProcessSafe` `EngineSafe` `OnceSafe` `OrgSafe` `QueueSafe` `DbSafe` `TransportSafe` `PoolKept` | the nine parts of one process |
| `runtime_live` | `MCRuntimeLive.cfg` | `ShutdownEnds` `WaiterAnswered` `InstallsRun` `CreatesEnd` | what a process owes an answer gets one, whatever hangs or is refused |
| `identity` | `MCIdentity.cfg` | `ThrottleSafe` `DeviceSafe` `PolicySafe` `JwtSafe` `LifeSafe` `SessionsSafe` `ContextSafe` `StaffSafe` `SsoSafe` | the nine parts of identity |

Sizes, with two workers: `jobs_reuse` 1.6 million distinct states, `identity` 1.3 million, `runtime` and `edge`
1.0 million each, `jobs_live` 270 000, `locks` 125 000, `mail` 51 000, `runtime_live` 25 000; the longest take
about three minutes.

### What the properties say

Most of these systems are at-least-once by design, so "never twice" is false and saying it would be
wrong. The safety properties therefore say what a second occurrence needs. `OneEmail`: when the
provider accepted two emails for a key, one of the two executions was loose (its claim or the record
ran out under it, or its request ended unanswered). `RunOnce` is the same for two handlers of one
idempotency key, `Exclusion` and `OneRunnerPerLock` for locks. The history variable is filled by the
environment's actions (expiry, lost answers, a failing cache), never by a mistake of the code, so each
of these fails when the code itself lets two in. In the same way a bound on staleness (`BanReaches`,
`LostContextLeaves`, `CapHolds`) is the memo's lifetime and the call under way, and no more.

**Jobs.** `JobsSafe`: `OneHolderPerAttempt`, no two batches hold the same attempt of one incarnation, which
is what makes the fence of `runOne` meaningful; `NoDuplicate`. `JobSteps`: `NoPayloadLost`, a payload
leaves the queue and the dead letters only if a handler succeeded on it or a deadline dropped it (except a
job whose id was reused while a handler of the earlier one still ran, finding 1); `FinishedStaysFinished`.

**Mail.** `MailSafe`: `OneEmail`, `DoneMeansSent`, and `LiveKeepsClaim`: an execution whose renewals were
all on time still has its claim, or the message is recorded as sent. `LedgerSteps`: `SentIsFinal`,
`ClaimNotStolen`, `CooldownOnlyExtended`, what no late call may do. `RateBound`: any span from grant i to
grant j holds at most the burst plus what the rate earned in it; with the code's constants that is the 25
messages a minute of the comment on `MAIL_RATE`. `WaitsRight`: after the wait a worker is told there is a
token, unless somebody else took one, and there is none a time unit earlier. `TransportSafe`:
`ProductionCredential`, `OnlyValidHanded`, `GivenUpForCause`.

**Locks.** `LockSafe` (`Exclusion`), `LateReleaseSafe`, `LeaderSafe` (`OneRunnerPerLock`), `IdemSafe`
(`RunOnce`, `ReplayFaithful`), and `LeadsUnderLease`, the refinement.

**One process.** `ProcessSafe`: `NoneRefused`, with an endpoint delay longer than the prober's interval no
routed request meets a closed port; `CutIsReported`, `CleanExit`, the two directions of the exit code;
`ResourcesOutliveWork`; `LostJobExplained`, a shutdown loses a job only for a named reason. `EngineSafe`:
`ToldExists`, `OneWorkerEach`, `StoppedIdle`. `OnceSafe`: `EffectOnce`, `MarkerMeansEffect`. `OrgSafe`:
`NoOrphanOrg`, `AnswerTrue`. `QueueSafe`: `NeverCutShort`, `DrainSurvived`, `RetentionKept`. `DbSafe`:
`NeverInClear`, `CauseNamed`. `PoolKept`: `WindowBounded`, `NoDialInWindow`.

**The edge.** `HttpSafe`: `OwnIdentity` and `HandlerKnowsCaller` (contexts of interleaved requests),
`WindowHolds` (any `Limit` + 1 admissions of a key span the window, less skew and calls under way),
`NoSilentBypass`, `RefusedForOwn`. `EdgeSafe`: `BelievedWasSigned`, `AskersAgree`, `EveryRefusalCounted`,
`RotationSeamless`. `WalkComplete`: a cursor walk shows no row twice and every row that stayed.
`TelemetryHonest`: `CountsStayTrue`, `NoIdInRoute`, `SdkAsMeant`, `FailureIsIncrease`.

**Identity.** `ThrottleSafe`: `CeilingHolds`, `OwnerShielded`, `OneDeviceCannotDrain`. `DeviceSafe`:
`SignedOutStaysOut`, `AtMostOneSurvivor`, `PasswordKills`. `PolicySafe`: `StaffOnlyEntra`,
`MembersOnStaff`, `GuestOwn`, `SsoInside`. `JwtSafe`: `OutageNotBlamed`, `RotationHeals`,
`AdmittedWasGenuine`, `OidWins`. `LifeSafe`: `OnlyUnusedDeleted`, `RefusedLeavesNothing`. `SessionsSafe`:
`RevokedStayGone`, `BanReaches`. `ContextSafe`: `LostContextLeaves`, `SwitchSticks`. `StaffSafe`:
`CapHolds`, `LongSessionsEnd`. `SsoSafe`: `SealedAtRest`, `OpenedOrRefused`, `RotationKeepsRows`.

Liveness: `EveryJobLeaves`, `EndedClaimLapses`, `GoneLockFreed`, `KeyFreed`, the freeing half of
`LeadsUnderLease`, `ShutdownEnds`, `WaiterAnswered`, `InstallsRun`, `CreatesEnd`.

### Bounds

- Jobs: `MaxInc` bounds how many incarnations a behaviour creates; two are a send and its redrive or
  resend, for each of two ids. Two batches for an old and a new holder. `RetryLimit` 1 has a first, a last
  and no further attempt; `jobs_live` uses 2 and three batches, one for each attempt that may hang, and one
  incarnation, since the ids do not interact there.
- Mail: the lease is two renewal intervals, as in the code (60 s and 30 s). Two executions are enough
  for a claim, its takeover and the late call of the first; two requests per send for one retry in
  place; two cooldown lengths for a shorter one after a longer one. `MaxMissed` caps the history counter.
- Rate: `Gain` does not divide `Cost`, so that rounding happens, and `BucketTtl` is the smallest the
  assumption allows, so that expiry and a full bucket meet. `MaxTime` 6 is more than one expiry.
- Locks: a lease of 2 separates "about to end" from "fresh"; three callers with the remembered list meet
  `HeldCap` 2 (16 in the code; `lock_crowded` has 16, so the sweep alone is to blame there). Two pods; three
  requests are a holder, a takeover and a third with another question.
- Process: deadlines of 2, 3 and 6 with delays of 0 and 3 against a prober's period of 2: a delay shorter
  and one longer than the period, and a deadline shorter than the delay. PoolGuard: four callers for two
  clients, so two wait; back-off of 1 doubles to its cap of 2. OrgCreate: three creates, two connections.
  OnceEffect: three deliveries, one purge. QueueConfig: each option left out, legal and illegal, defaults on a
  small scale; `pending` around the least window, to be right to the second.
- Edge: a limit of 1 in a window of 3 with clocks 1 apart; `MaxSkew` 1; four rows with equal keys
  in pairs and pages of 0, 1 and 2; one label value more than the limit; a marked visitor on a public route. `HttpLastTime`, `EdgeLastTime`,
  `MaxEdits` and `MaxCount` stop the clocks and counters.
- Identity: two of every actor that races and the smallest limits that differ (free 0, ceiling 1, one
  attempt per device); one session and two pods in StaffSession, where the refreshes race; clocks stop just past the longest memo or cap (`LastNow`, `LastTime`, `LastHour`,
  `JwtLastTime`, `DeviceLastNow`). `SessionsBound` is a state constraint on ticks and outages together.
- Symmetry is used over interchangeable model values in runs without liveness. In `MCEdge` and
  `MCIdentity` parts share model values, so that one permutation group acts on all.
- Runs with `CHECK_DEADLOCK FALSE` are those whose actors are finite in number or whose clock is bounded: when
  each has had its turn nothing is left to do.

### Fairness

Specifications with fairness assume as little as the environment gives, and nothing of handlers, clients,
providers or pods, which may hang or die.

- MailSend, Idempotency, CacheLock: weak fairness of the clock alone, because Valkey expires keys without
  anybody's help. ExclusiveJob: the clock, and `SessionEnds`, because the server ends dead sessions.
- JobQueue: the supervisor's `Expire` per job, because pg-boss runs it on a timer in every pod, and that
  some free worker fetches, because workers poll.
- Process: `Tick`, `HardStop`, `JobsStopped` (each a timer), and the prober. No step of the shutdown itself is
  assumed to end: that is what the deadline is for.
- PoolGuard: a scheduled pump runs, a dial ends (it has a connect timeout), a caller gives its client back.
- OnceEffect: PostgreSQL answers, and grants a free advisory lock to a waiter.
- OrgCreate: statements end; and strong fairness of getting a connection, because pg-pool serves its queue in
  order. What must not be assumed, that a connection is free, is the point of `CreatesEnd`.
- `MCLocks` and `MCRuntimeLive` restate these conditions with `part = ...` inside the action, so that a part
  that does not move owes nothing.

## 4. Proofs

Every safety property that a passing run checks is also proved, for every value of the constants that the
named `ASSUME` of its module admits: any number of ids, executions, callers, requests, pods or users, any
lease, rate, limit or time. The bounds of section 3 are then arbitrary numbers.

The argument has one shape. For a module with specification `Spec` there is an inductive invariant, named
after the subject (`LockInv`, `PoolInv`, `StaffInv`; `IInv` in the two oldest modules): a lemma for `Init`, one
per action or group of actions, one that it implies the umbrella, and the theorem, closed by `PTL`.
Below: what makes each invariant inductive, which is where the design argument is.

**JobQueueProofs.** `TypeCorrect`, `AttemptsDistinct` (`OneHolderPerAttempt`), `NeverDuplicated`
(`NoDuplicate`), `PayloadsKept` (`NoPayloadLost`), `FinishedForGood` (`FinishedStaysFinished`), and with
them `JobsAreSafe` and `JobStepsHold`, the two properties of the run. Attempts are distinct only because
a slot never runs ahead of its row: `SlotsOK` says that a slot of the row's incarnation has a retry count
of at most the row's, so the claim that raises the count makes a new pair. `MovesOK` says that an open
redrive holds its copy, alone, and that the row it freed or inserted is as it found it; with it no
payload is live twice, and a committed move has its payload in the queue.

**MailSendProofs.** `TypeCorrect`, `AtMostOneEmail` (`OneEmail`), `DoneIsSent` (`DoneMeansSent`),
`LiveClaimKept` (`LiveKeepsClaim`), `SentForGood`, `ClaimsNotStolen`, `CooldownsOnlyExtended`, and with them
`MailIsSafe` and `LedgerStepsHold`. `OneEmail` alone is not inductive: a second acceptance may
be far ahead. `Guarded` says that the ledger stands for every execution that may still send and is not
loose, and `Alone` that two such executions never share a key. `InTime` relates the timer to the rest of
the lease: the next renewal is due before the claim ends. It needs `RenewEvery < Lease` and nothing more.

**LockProofs.**

- CacheLock: `Excludes` (`Exclusion`), `LateReleasesSafe` (`LateReleaseSafe`) and `LockHolds` (`LockSafe`).
  `releaseLock` names no holder; `OneEach` says that the process remembers exactly one lock for each caller
  at work, and `LiveIsNewest` that the live lock is the newest it took. So when the oldest entry is the live
  one it is the only one, and whoever calls is its holder (`OldestIsOwn`). Both hold only until an entry of a
  running holder is dropped, which is finding 3. `HeldInv` adds the shape of the remembered list, which the
  sweep and the bound per key keep: each lock once, at most `HeldCap`.
- ExclusiveJob: `ElectsOne`, `LeaderIsSafe` (`LeaderSafe`), and `CacheLockIsLease`,
  `AdvisoryLockIsLease`: every behaviour of ExclusiveJob is one of `Lease`, under each of its two mappings
  (initial states to initial states, each step to a step or a stutter). `CacheHeld` and `PgHeld` say that a
  run under a lock still has it unless it lost it.
- Idempotency: `RunsOnce`, `ReplaysFaithful`, `IdemIsSafe` (`IdemSafe`), `RecordsStable` (`RecordStable`, a
  stored record is not replaced by another answer unless a failure let a second execution in). `Guarded` says
  that a request that runs, or succeeded, and is not loose is stood for by its claim or by a record;
  `RecordOK` that a readable record is of a handler that succeeded.

**MailProofs.**

- SendRate: `RateBounded` (`RateBound`), for every refill, cost, burst and expiry with
  `Burst * Cost <= Gain * BucketTtl` (a bucket left alone for its TTL is full anyway, true of the code's
  constants). `Earned` is the strengthening: for every grant, what was granted since and what the bucket
  holds now stay within the burst and what was earned since. `WaitsAreRight` (`WaitsRight`) rests on the
  arithmetic of the rounded-up wait, stated as lemmas about `Level` and `BucketWait`.
- MailTransport: `TransportHolds` (`TransportSafe`). `MailFits`: a mail that was handed over or answered was
  valid, and one that was given up has a cause that lasts.

**RuntimeProofs.**

- Process: `ProcessHolds` (`ProcessSafe`). The parts of `ProcessInv` say what each step of the shutdown has set
  by then (`PhaseInv`), when the port is open (`ListenInv`), who still has a request (`ConnInv`) and which jobs
  run (`JobInv`). `RouteInv` is the one that is not obvious: during the delay the prober's last look is at least as
  old as the drain or it has seen it, so with a delay longer than its period it has seen it when the port
  closes, although a report that began before the drain may answer after it.
- JobsLifecycle: `EngineHolds` (`EngineSafe`). `CallsFit`, `StartFits`, `ToldFits`, `StopFits` and `WorkersFit` say,
  for each place at which `start`, `stop`, `handle` and `defineQueue` can be in their awaits, what they have
  left behind; `WorkersFit` counts workers loop by loop and only outside `overlap`.
- OnceEffect: `OnceIsSafe` (`OnceSafe`) and `OneInstalls`, one installer at a time between the advisory lock
  and its unlock. `OwnerFirst`: an uncommitted marker exists only while none is committed, because the insert
  of any other delivery conflicts with it.
- OrgCreate: `OrgAtomic` (`OrgSafe`), with what was answered "ok" has ended, and finitely many connections.
- PoolGuard: `PoolHolds` (`PoolKept`). `Waiting` (the queue has each waiter once), `Sized` (dials, clients and idle
  ones fit the pool) and `Window`: the window is open only after a failure, for `minBackoff` at least and
  `maxBackoff` at most. The back-off is a power of two; that `TwoTo` grows is proved by the least natural
  number at which it would not (`LeastNat`).
- QueueConfig: `QueueHolds` (`QueueSafe`). `Worst` bounds the age of a job after so many attempts, each detected
  late and backed off to its cap; what acceptance compares with `leastWindow` is at least that sum.
- DbConnect: `DbHolds` (`DbSafe`). `PodFits`: an open connection of a pod with a CA is to a server it checked,
  also after the server changed, because the change ends it; `ReportFits`: the code is the one of the fault
  (`Named`), from the order in which `classifyDatabaseError` looks for causes. `MaxWraps < 8` is an assumption
  because the code looks through eight links of a chain (`errors.ts:72`).

**SignInProofs.**

- SignInThrottle: `ThrottleHolds` (`ThrottleSafe`). `CeilingHolds` and the shield are inductive with the shape of
  the counters (who is in one, and past which step of `admit`). `OneDeviceCannotDrain` is not: a device's
  counter may end and begin again while its attempts still count in the budget of all devices. `BudgetInv`
  splits the attempts that drew on the budget into those `Inside` the device's own counter, at most
  `DeviceMax`, and those `Outside`, at most `DeviceMax` per window that ended.
- KnownDevice: `DeviceHolds` (`DeviceSafe`). `JarFits`: cookies that were re-issued have different epochs;
  `CallFits`: what a call read is no later than now and no earlier than the cookies it is to sign out.
- SignUpPolicy: `PolicyHolds` (`PolicySafe`). `RowFits`: every account of a user `Belongs` to its address;
  `PolicyCallFits`: a sign-in between its decision and its write was let through for what it is. It needs that
  an identity has one user, and that of two domains a name ends in one ends in the other.
- SsoSecrets: `SsoIsSafe` (`SsoSafe`). `Apart` says how far the pods of a rolling deployment may be apart: every
  pod has v1 until v1 is dropped, and that happens only when every pod has v2; `Stored` that a row is sealed
  with a key of the deployment.

**SessionProofs.**

- UserSessions: `SessionsHold` (`SessionsSafe`). `Placed`: a token moves on for good, so an operation cannot end
  one that is signed in later; `PurgeFits`: what each statement of the purge has removed; `CopiesFound`: what
  still leads to a copy. `GuardInv` bounds a belief by the lookup that made it, which may have begun before
  the ban.
- StaffSession: `StaffHolds` (`StaffSafe`). `MemoFits` and `ReadFits` say how old a classification can be
  when it is used, `CapFits` what was then answered, and `LongFits` that a long lifetime left by a user who became
  staff is doomed by the hook, or was written back by a racing refresh.
- SessionContext: `ContextHolds` (`ContextSafe`). `BeliefHolds`: what a process believes is no older than the last
  call that saw the membership; `SessionFits`: the copy differs from the row only while a writer that failed
  has yet to reconcile, or it was logged.
- AccessJwt: `JwtHolds` (`JwtSafe`). `KeysFit`: what jose holds and is published no more was published when it
  was fetched.
- AccountLife: `LifeHolds` (`LifeSafe`). `CleanupFits`: the check of the accounts comes after the look at the user,
  and who was in use by then has an account that is no password; `CallbackFits`: a callback removes only
  what it created.

**EdgeProofs.**

- EdgeAddress: `EdgeHolds` (`EdgeSafe`). `WorkerFits` and `KeyFits`: what the Worker signed is for this request, and
  its key still verifies or the signature is stale; `HeardFits`: whatever was heard on the wire was signed by
  the Worker for one request; `KnownFits`: the memo answers all who ask alike.
- HttpRequest: `HttpHolds` (`HttpSafe`). `SeededFits`: a request holds its own context, with its own caller or
  nobody; `WindowFits`: every admission younger than the window, less skew and call time, still has its entry
  and its key has not expired. So an admission under the limit is under it in real time too.
- PageWalk: `WalkHolds` (`WalkComplete`). `CursorInv`: what stayed was shown or comes after the cursor;
  `OffsetInv`: while nothing changed, a beginning of the list as long as the offset was shown.
- Telemetry: `TelemetryHolds` (`TelemetryHonest`, an invariant and an action property). `LabelFits`: only what a
  label has seen has a series, and a text that was asked for and has none met a full label, so it never gets
  one later with points missing. `Settled`: the label of a job that began is not another one when it ends;
  without that a failure could be added to a series that the backend has never had. That the counts add up
  needs `SumPlus`, proved about `SumFunction` by induction over the size of its domain (`AddsExist`, `SumIs`).

### Assumptions

Beyond types, each assumption is a fact of the code or of the environment. `NoToken`, `NoOrg`, `NoConfig` and
their like are no members of what they stand beside. `Cap < Long` and `UpdateAge <= Long` (StaffSession), `Cooldown
<= JwtMaxAge` (AccessJwt), `MinBackoff <= MaxBackoff` (PoolGuard) and `DefaultAssumption` (QueueConfig) are relations
of the defaults in the source. A visitor's skew is at most `ClockSkew`, and a caller's key is not the address
bucket (HttpRequest). Real addresses are usable ones and no label of the model is an address (EdgeAddress). Guests
are Entra users, and a claimed domain is not empty (SignUpPolicy). Segments of a path are words, UUIDs, numbers
or opaque ids, so no text is the overflow's label (Telemetry). Table, callers and runs are finite sets where
something is counted.

### What the proofs corrected

Three properties held on the checked instances and not in general. They were restated as what the code does,
and the runs check the new form; the instances of StaffSession and HttpRequest now contain the case.

- `RevokedStayGone`: a copy whose row went during an outage, and whose list an earlier purge deleted without
  reaching it, survives a later revoke of that user which answers "done". The property names exactly those
  copies (`stranded` and `delisted`); before, it excused an unlink for every stranded copy and a revoke or a
  ban for none.
- `LongSessionsEnd`: a refresh caps the session, so that the hook passes it over, and a refresh of another
  pod that had judged the user before writes the long lifetime last (`tamed`). The property admits that
  session alone, and bounds its expiry. `CapHolds`, which is about what is served, is not affected.
- `RefusedForOwn`: a marked request on a public route is counted under its caller's key too, so a caller may
  be refused on a guarded route for requests of its own that were not on guarded routes.

In PoolGuard the exponent of the back-off is now capped at 20 as in the code (`guard.ts:100`), and cursors of
PageWalk are compared by a definition that can be reasoned about.

### Model-checked only

Liveness is beyond the prover: `EveryJobLeaves`, `EndedClaimLapses`, `GoneLockFreed`, `KeyFreed`, `ShutdownEnds`,
`WaiterAnswered`, `InstallsRun`, `CreatesEnd`, and the freeing half of `LeadsUnderLease` (its other half is
`CacheLockIsLease` and `AdvisoryLockIsLease`). So are the four violated properties, which are false.

## 5. Findings

1. **A late settle can hit a later job** (`engine.ts:376-383`). The fence is `(id, retryCount)`. A
   redrive, or a send with the same idempotency key after the row is gone, inserts the same id again at
   retry count 0; a handler of the earlier job that lost its claim at attempt 0 and then succeeds completes
   or deletes the later job's row while that one runs. The comment says such a handler "can touch nothing".
2. **One missed renewal costs the claim** (`platform-mail/src/jobs.ts:351`). The interval is half the lease
   and starts after the claim, so the second tick comes when the lease has just ended; the comment says the
   lease is two ticks long and the failed renewal is retried.
3. **A late `releaseLock` can free the next holder's lock** (`cache.service.ts:336-346`). In a process that
   remembers 1000 keys the sweep drops the entry of a holder that overran its lease and still runs; its
   `releaseLock` then takes the entry of the holder that took over. The comment at 360-362 says this can
   never happen.
4. **The access line of a typed error says 500** (`http-logging.interceptor.ts:159`). The interceptor reads
   `getStatus()`, which the package's own `DomainException` does not have; the filter answers with its 4xx.
   The comment at 88 says "WARN for 4xx, ERROR for 5xx".

Five more statements of comments are written as properties that the code does not meet; they have no run
of their own. To see one, put `INVARIANT <name>` in place of the properties of the configuration.

| Property | Module | Configuration | The code does |
|---|---|---|---|
| `CountedSettleLands` | `JobQueue` | `MCJobQueue.cfg` | after a failed early settle the settle at the end of the batch may land on nothing (`engine.ts:395-402`): the job that was counted as processed runs again |
| `VerifiedForgets` | `SignInThrottle` | `MCIdentity.cfg` | an attempt that overlaps the clear stays counted |
| `OneIdentity` | `SignUpPolicy` | `MCIdentity.cfg` | two members with one address, deciding on the same lookup, both link |
| `RerunFinds` | `UserSessions` | `MCIdentity.cfg` | a revoke that failed while Valkey was down may leave a copy to which neither a row nor the user's list leads |
| `BanAtOnce` | `UserSessions` | `MCIdentity.cfg` | a lookup begun before the ban memoises the old answer after `forget()`, for the memo's 30 s |

## 6. Plan

Done: the modules of section 2, the refinement of Lease, and a theorem for every safety property that a run
checks. What would add most from here, in this order:

1. Abstract specifications: an at-least-once queue that JobQueue implements (rows and copies map to the set
   of payloads kept), and Lease for the claims of MailSend and Idempotency.
2. Compositions: the throttle with the known-device cookie it counts by, and a ban with the active context
   and the staff cap over the same two session stores.
3. `schedule()` of the engine, the refund of the rate limiter, and the memoised token of the Graph sender.

## 7. Not modelled

- Command-line checks, dependency injection, reading the environment, documents generated from decorators,
  formatting and redaction of log lines, test helpers and the reference consumer: no state that another
  component's correctness depends on.
- The mappings of the jobs' options, ids derived from keys, and counters around the engine; `get`, `set` and
  `del` of the cache, which are single commands; constant-time padding and the address checks of outgoing
  requests in identity, and the assembly of better-auth from its options beyond the checks SignUpPolicy has.
- `schedule()` and the registration of metrics of the engine, `refundRateLimit`, the tiers of the limiter and
  rate keys made from cookies, body limits and headers of the bootstrap, the token cache of the Graph sender.
- better-auth, pg-boss, pg-pool, jose, the OpenTelemetry SDK, ioredis, Microsoft Graph and SMTP servers
  themselves: modelled only as far as the code's use of them, and marked external.
- Cryptography: a signature, seal or token cannot be made without its key. Floating-point error in the token
  bucket, clocks that run backwards on the Valkey server, and two writes of one user's row within a millisecond.
