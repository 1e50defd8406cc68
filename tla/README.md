# Verification of the Landa back end

TLA+ models, TLC runs and TLAPS proofs for the parts of this repository that keep
durable state and change it from several processes. Everything is translated from
the TypeScript under `src/`; `PROJECT.json` names the lines behind each definition.

The back end is a Node service over PostgreSQL (Supabase), with RabbitMQ between
an API role and several worker roles. Its hard parts are the ones where a
transaction, a broker message and a paid call to a model provider have to agree
although processes die, leases run out and messages come twice or late.

Contents: [1 inventory](#1-inventory) · [2 modules](#2-modules-and-their-correspondence-with-the-code) ·
[3 runs](#3-runs-bounds-and-fairness) · [4 proofs](#4-proofs) ·
[5 disagreements found](#5-disagreements-between-code-and-comments) ·
[6 left out](#6-abstractions-and-what-is-not-modelled) · [7 plan](#7-plan)

## 1 Inventory

Paths below are relative to `src/src/`.

| Component | State | Operations | Hard behaviour | What makes it correct | Status |
|---|---|---|---|---|---|
| **V2 dispatch outbox** `modules/ai-chatbot/ai-id/orchestration/dispatch/` | outbox rows (status, attempt, lease token and expiry), copies in RabbitMQ | claim, publish with confirm, mark published, release, recover, defer, deliver | the broker is outside the transaction; leases expire under a pending publish | a row is taken once; a published row has a copy; no dispatcher writes without its lease | modelled |
| **V2 task lifecycle** `.../orchestration/worker/`, `.../recovery/` | run, workspace, task rows (status, attempt, epoch, lease, accounting), reservations | claim, dispatch fence, succeed, fail, recover, sweep, stop, resume, regenerate | a provider call is billed although its lease is lost; recovery races late workers and the author | every paid call is charged, no hold leaks, a stop is final, a ready course is complete | modelled, content abstracted |
| **V2 content steps** `.../orchestration/steps/` | task graph of a course | insert the next stage, queue a join | the last of several units queues the join, also after a reopen | a queued task is dispatchable | hooks modelled |
| **AI credits and token quota** `modules/ai-credits/`, `modules/ai-chatbot/ai-platform/ai-token-quota.service.ts`, `ai-metered-call.service.ts` | month rows, reservations, ledger, plans, exchange rates, per-process cache of month rows | reserve, finalize, release, expire, set plan, set rate | expiry races settlement; rows created in an open transaction; rolled-back creation remembered | books balance, budgets hold, no undue refusal | modelled, tokens and prices abstracted |
| **Course progress recalculation** `modules/learner/progress-recalculation*` | one job row per course with a cursor | request, claim, batch, cursor, finish, yield, retry, fail, poll | no lease: `running` is the only mark of an owner | no enrollment skipped, a rerun starts over, a job ends | modelled |
| **Job runner, RabbitMQ consumer** `platform/job-runner/`, `config/` | x-retries of a message, leases of job rows | sliced turn, retry republish, exhaustion, heartbeat, poller | acknowledge and republish are two steps; a stalled owner goes on after its lease | as the jobs below | as the jobs use it |
| **Email outbox** `modules/assignments/email-*` | fan-out job, mail rows, tenant circuit per process | fan out, claim, check recipient, send, mark, retry, cool down, reclaim, clean up | claims have no token; SMTP is outside the transaction; deletions come in between | written once, nobody left out, copies only through faults, nothing after a purge, every mail ends | modelled, owner copies left out |
| **Course, user and storage deletion** `modules/course-deletion/`, `modules/deletion/`, `modules/users/user-deletion*` | leased jobs, storage manifest, scan cursor | request, collect, scan, seal, purge, drain, succeed, retry | a crash between storage and rows; marks without owner | no object forgotten, no row that names a removed object, a success is a purge, a job ends | modelled, tables abstracted |
| **Cluster bus and caches** `config/cache*.ts`, `config/redis.ts`, `config/cluster-bus.ts` | version keys and cached values in Redis, remembered invalidations, breaker, relays | bump (after a commit, or inside the transaction), remember, relay, replay, fill | Redis and the bus lose commands; a given-up command runs later; a reader comes between bump and commit | an invalidation made after its commit and missed is remembered until it lands; it lands; relays end; cached data is no older than its invalidation | invalidation modelled |
| **AI engine transition** `ai-platform/ai-engine-transition.worker.ts` | transition jobs, active engine | start, index, switch, roll back | external indexes | never switches to an incomplete index | not modelled |
| **Outline transfer, knowledge-base operations** | leased jobs | the frame of the deletion jobs | the same | the same | not modelled |
| **Author V1 sessions, AI reports, chat** | mostly text around provider calls | | | | not modelled |
| **Course authoring, assignments, tenants, users, auth, reports, news, storage, process infrastructure** | rows changed in single transactions | CRUD | | | not modelled |

How they interact. A V2 step's transaction inserts task rows and outbox rows
together. Dispatchers publish outbox rows to RabbitMQ; workers resolve each
delivery against the row and its task, reserve AI points in the claim transaction,
commit a *dispatch fence*, call the provider, and settle in the outcome
transaction. The recovery loop takes over what workers leave behind; the author
stops and recovers a run through HTTP. All transactions of a run take the
workspace's advisory lock. Chat and metered calls use the same reservations, which
a sweeper expires. The recalculation job and its wake-ups are apart from all this.
A course deletion purges the mails of the course and excludes fan-outs by the lock on
the course row; a user deletion removes the user's mails with the request. Writes of
every module invalidate the shared cache: some through `afterCommit` or outside a
transaction, hence after their commit, and most audited ones inside
`runAuditedTransaction`, hence before it.

`PROJECT.json` lists under "hazards" the places where this is hard to test, each
with the properties that would notice it going wrong.

## 2 Modules and their correspondence with the code

| Module | Models | State |
|---|---|---|
| `OutboxDelivery` | abstract: what the outbox promises to the code that queues a task | `phase`, `authority` |
| `DispatchOutbox` | the mechanism: dispatchers, broker, deliveries | `outbox`, `disp`, `broker`, `deferring`, `authority` |
| `OrchestrationV2` | one course generation run | `task`, `run`, `ws`, `waiting`/`consumed`/`dead`, `hold`/`released`/`ledger`, `exec`, `paid` |
| `AiCredit` | the AI points of one tenant | `month`, `res`, `ledger`, `reserving`, `ensured`, `plan`, `rate`, `call`, `admin`, ... |
| `ProgressRecalculation` | the recalculation job of one course | `job`, `queue`, `worker`, `poll`, `calc` |
| `SubjectDeletion` | the permanent deletion of a course, a block subtree or a user | `job`, `subject`, `rows`, `store`, `item`, `cursor`, `wakes`, `worker` |
| `EmailOutbox` | the mails of one course notification | `fan`, `lock`, `mail`, `worker`, `circuit`, `course`, `user`; history `inserted`, `sends` |
| `CacheInvalidation` | the version of one cache namespace | `db`, `landed`, `cached`, `incrs`, `open`, `audited`, `bumping`, `pending`, `replay`, `queue`, `inbox`; history `last`, `restarted`, `unheard` |
| `*_proofs` | theorems about the module they extend | |
| `DataLemmas` | lemmas about order and sums that several proofs cite | |
| `MC_*` | small instances for TLC | |

Definitions whose comment starts with "Mutant:" are plausible faults of the
definition below them. `PROJECT.json` pairs each with the property that finds it;
no specification uses them.

### DispatchOutbox implements OutboxDelivery

`outbox[r]` holds the columns of a row; `live` says that `lease_expires_at` has not
passed. `disp[d]` is the claim that `dispatchOneOrchestrationV2Outbox` awaits in one
process; since a dispatcher has one claim at a time and forgets it in a crash, its
name stands for the lease token. `broker[r]` counts the copies RabbitMQ holds,
unacknowledged ones included, because those are delivered again. `deferring[r]`
counts deliveries between the capacity verdict (one transaction) and
`deferPublished` (another). `authority[r]` is what the task and run tables say.

Publishing is three steps (claim transaction, broker, confirm transaction), with a
crash possible after each and an unconfirmed publish that may have arrived. The
dispositions of a delivery are one action each. `max_attempts` is a setting of each
dispatcher, so that the proofs cover a deployment that rolls out with two values.

`OutboxDelivery` is the contract: a row waits, is taken while its task is queued at
its epoch, is spent because its task moved on, or is given up, once. The
mapping sends `pending`, `publishing` and `published` to waiting.

### OrchestrationV2

Each action is one transaction under the workspace lock; between them come provider
calls, lease expiry and crashes. `dispatch_epoch` grows with every claim and every
reopen, so `<<task, epoch>>` names an outbox row, a lease and a reservation. `exec`
is the set of executions in worker processes: an execution outlives its lease,
which is how a fenced call is still made after recovery took the task. `paid` is a
history of calls the provider billed. Of the outbox the model keeps the contract of
`OutboxDelivery`: `ClaimExact` is its `Take`, `GiveUpRow` its `GiveUp`.

| Action | Code |
|---|---|
| `ClaimExact` | `claimExact`: guards, reservation, lease, row consumed |
| `MarkProviderDispatched`, `CallProvider` | the fence, then the request |
| `Succeed` | `succeed`: settle or release, hooks of the step (`AfterSuccess`, `RunAfterSuccess`), finish |
| `FailProviderRejected`, `RecoverClaimFailure`, `Abandon` | the three ways an execution fails |
| `StopRunAfterTerminalTask`, `SyncNeedsAction` | what a failure does to the run; part of the caller's transaction |
| `RecoverOne` | one sweep: terminal, then undrained, then expired, then unknown or stalled |
| `AuthorStop`, `AuthorResume`, `AuthorRegenerate` | the author's requests, with `Plan` = `planOrchestrationV2Recovery` |

`old` marks failures from before the latest recovery; the code compares event times,
and the event-head revision check of the recovery makes that classification exact.
The evidence behind `provider_replay_required` is written by the database with the
outcome. The replay branch of `RecoverTerminal` is a defence: the other actions never
leave a replayable task behind in an active run, and TLC does not reach it.

### AiCredit

A reservation holds the most a call can cost against the month's budget. The
reserve transaction has two steps, because the month row it may insert is invisible
to others until it commits; it holds the lock of the monthly usage row meanwhile.
`ensured` is the in-process set of months believed to exist: it survives a rolled
back transaction. `call` follows `withMeteredAiCall` through its error paths,
including finalize that throws and release that is only logged. `Reconcile` is
what the V2 recovery does for its tasks (kind "run"), whose reservations are durable
and may overdraw. Superadmin changes are a write and a recomputation, two steps.

### ProgressRecalculation

Each action is one statement, one publish or one consumer step. The worker's copy
of the cursor is separate from the row's. `calc[e]` records how many requests had
been made when an enrollment was last calculated. `RequeueStale` is the ten-minute
rule: without `MayStall` it applies only to a job nobody works on; with it a slow
worker loses the job while it goes on. Messages differ in `x-retries` only.

### SubjectDeletion

One job of one of three kinds, chosen in `Init`: `Kind` is checked for all three in one
run. Each action is one statement or transaction, one call of the storage or one step
of the consumer. `rows` are the objects that rows of the subject still name, `store` the
bucket, `item` the manifest and `cursor` the saved prefix scan; objects are numbered in
key order. `worker[w].at` is the cursor in memory, apart from the saved one.

| Action | Code |
|---|---|
| `RequestCourse`, `RequestUser`, `OperatorRetry` | the requests with their job row, mark and wake-up |
| `Deliver` | `markJobRunning` or `claimJob`: the claim, or the message is dropped |
| `RegisterRefs`, `ScanPage`, `AdvanceCursor`, `RegisterFeedback`, `SealManifest` | the manifest of a course or user |
| `CheckSubject` | `courseExists`, `userExists`: one look before the purge |
| `PurgeCourse`, `PurgeUser`, `DeleteSubject`, `PurgeLeaves` | the bounded deletes |
| `ClaimItems`, `RemoveObjects`, `MarkItems`, `ReleaseItems` | `deleteStorageManifest` |
| `Succeed`, `RunFailed`, `RetriesExhausted` | the marks, none of which names an owner |
| `Touch`, `LeaseLapses`, `Stall`, `Resume`, `Crash` | heartbeat and its absence |

The rows of a subject are one set: which table a row is in decides nothing below. The
lease of a job (15 minutes) outlasts those of its items (10 minutes), which the guard of
`LeaseLapses` keeps.

### EmailOutbox

The fan-out transaction is two actions, its reads under the row and course locks
(`BeginFanout`) and its commit, because a deletion request waits in between. Delivery
follows `sendClaimedEmailOutboxTenantGroup` write by write: the claim, the circuit, the
recipient check, the cancellation, the SMTP session and each result. `copy` is the
number of attempts a worker read with its claim; `attempts + 1` in the row and the
status from the copy is what the code writes. "stale" is the five-minute rule, a fault
only while a worker is still on the row. Whether an error counts for the circuit depends
on its text, a choice of `SmtpFailure`.

### CacheInvalidation

Cached values lie under keys with the version, so an increment of the version is the
invalidation; `landed` says which committed writes the current version covers, `cached`
which ones the value under it contains. Writes are of two kinds. `Commit` and
`Invalidate` are the ones that go through `afterCommit` (`cache-invalidation.ts:102`,
`:107`, `:112`) or have no transaction around them. `InvalidateEarly`, then
`CommitAudited` or `Rollback`, are the ones `runAuditedTransaction` wraps, whose
increment is sent while the transaction is open (`audit-log.ts:179-189`;
`courses.controller.ts:66`, `:132`, `:300`). `last` follows the first kind only, since
an increment that precedes its commit says nothing about the write. `Fill` is the miss of
a cached read: what it stores was loaded at some time since the version it read, and a
process with an invalidation pending loads and stores without reading.
`pending[p]` distinguishes the entry object the running replay captured ("taken") from
one that replaced it ("fresh"), the comparison of `cache.ts:152`. A command that missed its
deadline is in `incrs` and may be executed at any time later or never.

## 3 Runs, bounds and fairness

| Run | Checks | Shows |
|---|---|---|
| `outbox` | `PublishedIsDeliverable`, `LeaseFences`, `ImplementsOutboxDelivery`, `WaitingRowIsResolved` | nothing is published without a copy, leases fence, the mechanism implements the contract; every waiting row is claimed, given up or withdrawn |
| `orchestration_recovery` | `PaidCallIsCharged`, `HoldsAreOwned`, `SweepCanSettle`, `FreshRowIdentity`, `StopIsFinal`; `HoldsSettle`, `StoppedRunDrains`, `IdleRunStops` | money and identities through crashes, late calls, stops, replays and recoveries; the sweep never meets a reservation it cannot settle; recovery alone brings a run to rest |
| `orchestration_pipeline` | `QueuedIsDispatchable`, `ReadyMeansComplete`, `DrainedBeforeNeedsAction`, `EpochWithinRange`, `OneCallPerGeneration` | the whole pipeline, admission to finalizer; epochs stay in range, one paid call per generation |
| `credit` | `TypeOK`, `WithinBudget`, `BooksBalance`, `RefusedWhenSpent`, `ChatHoldsEnd` | concurrent holds stay in the budget; holds and use equal reservations and ledger, across a month end; a refusal is justified by the ledger and the open holds; holds of dead callers end |
| `progress_batches` | `NoneSkipped`, `JobResolves` | no job succeeds with an enrollment left out; a requested job succeeds or is marked failed |
| `deletion` | `TypeOK`, `NothingForgotten`, `NoDanglingRow`, `SucceededIsPurged`, `DeletionEnds` | until success every object can be found again; no row names a removed object; a success left nothing of the subject; a deletion ends |
| `email_safety` | `TypeOK`, `FanoutIsExact`, `PurgedIsSilent`, `LateMailIsInFlight`, `CopiesNeedFaults`, `FailedIsSpent` | a takeover of the fan-out neither repeats nor skips a recipient; a purge is complete; a second copy has a fault behind it; a given-up mail had all its attempts |
| `email_liveness` | `FanoutEnds`, `MailResolves` | a fan-out ends and a mail is sent, given up or discarded, although claims have no owner |
| `cache_invalidation` | `MissRemembered`, `InvalidationLands`, `RelaysEnd` | with both kinds of writes about: an invalidation made after its commit that missed Redis is kept until Redis has it and reaches Redis although its process stays cut off, and the relays come to rest |
| `progress_race`, `deletion_orphan`, `cache_early_bump` | one property each, violated | section 5 |

Bounds.

- *Outbox.* One row and two dispatchers, since rows share nothing but dispatchers; two
  attempts; three copies, enough for duplicates beside the copy that counts. The
  theorems of section 4 lift the safety results to all sizes and to dispatchers with
  different limits.
- *Orchestration.* The unit graph has two units, the validation that joins them and
  the finalizer: the smallest graph in which one unit fails while another is live. The
  first unit has two attempts, which is what makes an unknown outcome replayable, and the
  second keeps its document. One regeneration reaches every outcome.
  `orchestration_pipeline` has one task of each of
  the eight kinds, two attempts for the unit in each of its two generations and
  `TransientEpochLimit` 2; `MaxEpoch` 5 is just what the headroom check allows, so one
  more epoch anywhere would be seen. The code inserts every task with
  `max_attempts` 2; one attempt for the other kinds is a bound.
- *Credits.* Two chat calls, of which one accepts a shorter answer, and an overdraft task;
  budgets of 1 and 2 (times the rate) or unlimited against holds of 1 and 2, so that calls
  fit alone and not together. The tenant starts with the middle budget, and either the
  month ends or a superadmin lowers, raises or lifts it, so that a batch of two expires and
  a settlement meets an earlier month or a changed budget. Costs are 0 (unpriced) and 3
  (above the hold). One process; kind "long" and the rest of the sizes are covered by the
  theorems of section 4.
- *Recalculation.* Three enrollments in batches of two, two slots, two requests, two
  faults. `MaxRetries` is 1 instead of 3 and
  queued messages are capped at `MaxCopies`: a message above it is as good as the
  ones there. Theorem `NothingSkipped` covers all sizes.
- *Deletion.* Four objects: one that a row names although it has another prefix, one
  named in a feedback file, one under the prefix that belongs to another course, one
  abandoned upload. Pages of one, so that every loop has a second turn; two workers, two
  faults (a stall and a crash, or an error of each step), two attempts and an operator's
  retry. One wake-up in the queue: the poller adds another whenever it is taken.
- *Mails.* Two recipients in pages of one and claims of two, one recipient and the course
  deletable, two workers, two attempts, a circuit that opens at once. One fault in the
  safety run is enough for a takeover; the liveness run has two and one mail, without the
  deletion of the course, which only ends things earlier.
- *Cache.* Three processes, of which one is sure to reach Redis again: one writes, one
  is told, one may be cut off for good. Two writes, so that a second miss meets the
  replay of the first and a write of the other kind comes between a write and its
  invalidation; two faults, of which a rollback is one. `MissRemembered` is proved for all
  sizes. `cache_early_bump` has two processes, one write and no fault.

Deadlock is checked for the outbox, where a run never ends, and for the
recalculation, whose poller always has a turn. A finished course run, a
tenant whose calls are all over, a finished deletion, a delivered notification and a
namespace after its last write really stop, so `CHECK_DEADLOCK FALSE` there.

Fairness.

- *Outbox.* The dispatcher loop polls and awaits each call (weak fairness for
  publish, mark, release); the clock passes every lease; strong fairness for
  claiming, recovering and delivering a row, since other rows, dispatchers and full
  lanes come in between, and slots are freed again and again. The last is an
  assumption about load: a lane that is full at each delivery would defer for ever.
- *Orchestration.* Weak fairness for the sweep, for the clock and for delivery.
  None for workers or the author: a worker may hang or die at any step.
- *Credits.* The sweeper runs every 30 seconds (strong, because reserve
  transactions hold the lock at times), and a reserve transaction ends.
- *Recalculation.* A live consumer takes messages and finishes its awaits, and the
  poller's timer fires. Faults are bounded by `MaxFaults`, so the run shows
  what happens once they stop.
- *Deletion.* The poller's timer and the clock go on, a consumer takes its next step
  unless it is stalled or dead, and a stalled process recovers. Nothing is assumed about
  messages.
- *Mails.* The workers' interval timer and the clock; each await ends (the SMTP client
  has timeouts).
- *Cache.* Every process runs the work it has after a commit, its relay timer and its bus
  handler. Nothing makes an open transaction end or a reader fill the cache. Only `Connected` processes reach Redis again and serve reads, which are what
  starts a replay.

`HoldsSettle` excepts a run stranded by a dead outbox row. That exception is real:
nothing revives a dead row (`published_recovery_seconds` is validated at
`outbox.repository.ts:43` and read by no query), the task stays queued and the run
active until the author stops it.

## 4 Proofs

Every safety property that a run checks is also proved, for all values of the constants
that satisfy the `ASSUME`s of its module; TLC evaluates those on every run. The type
invariants of `DispatchOutbox`, `ProgressRecalculation`, `CacheInvalidation` and
`OrchestrationV2` are proved and not repeated in the runs. Each inductive invariant
below was first checked with TLC on the instances of section 3.

`DispatchOutbox_proofs`, for any rows, dispatchers, attempt limits (positive) and
copy bound:

- `TypeCorrect`: `Spec => []TypeOK`;
- `NoLostPublication`: `Spec => []PublishedIsDeliverable`;
- `LeasesFence`: `Spec => LeaseFences`;
- `Refinement`: `Spec => ImplementsOutboxDelivery`.

`PublishedIsDeliverable` is not inductive: `MarkPublished` makes a row published, so
one has to know that the copy is there when the lease still holds. `Inductive` adds
`ConfirmedHasCopy` (a confirmed claim that holds its token has its copy, because a
copy of a publishing row is requeued and never acknowledged), `HeldCopies` (workers
hold no more copies than the broker knows, so an acknowledgement never takes a
count below what other deferrals need), `ClaimNamesRow` and `LiveIsPublishing`. The
refinement maps each step to `Take`, `Spend`, `GiveUp`, `Withdraw` or a stutter.

`ProgressRecalculation_proofs`, for any numbers of enrollments, slots, batches,
retries, requests and faults and any positive batch size:

- `TypeCorrect`: `Spec => []TypeOK`;
- `NothingSkipped`: `Spec => []NoneSkipped`.

The job row says nothing about what was calculated, so the invariant follows the
cursor: whatever is behind a cursor (in the row, in a worker, or about to be written
by one) has been calculated. That is why the unfenced cursor writes of several workers
do no harm to `NoneSkipped`: each overwrites a good cursor with a good cursor.
`Started` is needed because `calc` compares with the number of requests;
`WithinLimits` bounds the loop counters for the type.

`CacheInvalidation_proofs`, for any processes, writes and faults:

- `TypeCorrect`: `Spec => []TypeOK`, which includes that `landed` never passes `db` and
  that a cached value contains the writes its version covers;
- `MissedStaysRemembered`: `Spec => []MissRemembered`, for the writes invalidated after
  their commit, with writes of the other kind in between;
- `OwnWritesRead`: a process that may read the cache finds in it every write of its own
  that was invalidated after its commit. It follows from the first two.

`MissRemembered` alone does not survive the end of a replay: the entry goes, and one has
to know that the increment came after every write the entry stands for. The inductive
invariant adds `ReplayCovers`: a process whose captured entry is still in place when the
replay's increment was executed has no write beyond `landed`, because a later miss would
have replaced the entry by a new object. That comparison is the whole argument;
with the key deleted unconditionally it fails.

`OrchestrationV2_proofs`, for any task graph, limits, scopes and number of executions:

- `TypeCorrect`: `Spec => []TypeOK`, which includes that a refunded attempt never goes
  below zero and that rows, reservations and executions name tasks of the run;
- `StoppedStaysStopped`: `Spec => StopIsFinal`;
- `QueuedReachesWorker`, `RowsAreNew`, `EpochsStayInRange`: `QueuedIsDispatchable`,
  `FreshRowIdentity`, `EpochWithinRange`;
- `HoldsOwned`, `SweepNeverThrows`, `PaidIsCharged`, `OneCallEach`: `HoldsAreOwned`,
  `SweepCanSettle`, `PaidCallIsCharged`, `OneCallPerGeneration`;
- `ReadyIsComplete`, `NeedsActionIsDrained`: `ReadyMeansComplete`,
  `DrainedBeforeNeedsAction`.

The handlers touch a task in a few ways only: it rests, is inserted, claimed, fenced,
ended, reopened or aged. Lemma `Locality` shows once that every step is one of these
`LocalStep`s for every task, the sweeps and the author's recoveries included; each part
of the invariant is then proved against the local steps, not against the actions.
`Inv` says of each task that its remaining epochs cover its remaining attempts
(`EpochsLeft`; the claim's headroom check alone does not bound a reopen), that its outbox
rows belong to epochs it has been through and each is in one place (`RowsOnce`), that it
holds at most the reservation of its current claim and its accounting column says so
(`Booked`), and that an unknown outcome the sweep looks at has no attempt left (`Swept`);
and of the graph that a stage is absent until the success that inserts it and that nothing
runs before its dependencies. Two further invariants need it: `Settled`, for what a ready
or stopped run has left, and `Called`: a fenced execution has a lease of its own whose
reservation is held or charged, so that a paid call meets a hold or a ledger row however
late it is made. `OneCallEach` counts the leases that were or may still be paid against the
generation of the unit. `StopIsFinal` needs no invariant: every transaction that moves a
run compares its status first.

`PipelineAssumption` states the graph the code writes: one task of each kind that inserts
a stage and the architecture validation behind all blueprints
(`lesson-author-orchestration-v2-planning.repository.ts:195`, `:482`, `:765`), every unit
behind the validation of its chapter and the finalizer behind all chapter validations
(`lesson-author-orchestration-v2-inventory.logic.ts:276-314`). `ReadyMeansComplete` needs
it: a unit that no validation waits for could be missing from a finished course.

`SubjectDeletion_proofs`, for any workers, objects, page size, attempts and faults:

- `TypeCorrect`: `Spec => []TypeOK`, with the bound on the attempts of a job;
- `RowsKeepTheirObjects`: `Spec => []NoDanglingRow`;
- `SuccessIsFinal`: `Spec => []SucceededIsPurged`;
- `ManifestIsComplete`: `Spec => []NothingForgotten`.

`Attempts`: each claim beyond the limit was paid for by a fault; at the bound some worker is
left that cannot give up without another. `Purged`: in which phases a worker of each kind of
job can be and what is deleted by then; this is why the marks without an owner do no harm.
`Remembered`: what is listed before each phase, for the worker (`Manifest`) and for whoever
comes next (`Saved`). Entries vanish only with success and objects only leave the bucket, so
what one worker has listed stays listed for the others, and a cursor written over another
is still one below which everything is listed.

`EmailOutbox_proofs`, for any finite set of workers and any recipients, pages, claims,
limits and faults:

- `FanoutExact`: `Spec => []FanoutIsExact`;
- `LateMailInFlight`: `Spec => []LateMailIsInFlight`;
- `PurgedSilent`: `Spec => []PurgedIsSilent`;
- `FailedSpent`: `Spec => []FailedIsSpent`;
- `CopiesArePaid`: `Spec => []CopiesNeedFaults`;
- `TypeCorrect`: `Spec => []TypeOK`, with the bound on the attempts of a row.

`Fit` says what a worker may still believe of the rows it has read: its page follows the
cursor, its copy of the attempts is not ahead of the row, a recipient that stopped being
active has no row. `Exact` says that the cursor separates the recipients written from the
others. `CopiesNeedFaults` is not inductive: `Paid` adds up the copies sent, the workers that
may still send the mail and the row if it may be claimed again, and shows for each step that
the sum grows by a fault only. The same account bounds the attempts. `StatusAfter` judges
by the copy, so a late worker can reopen a row that is spent; from the last attempt on,
the attempts, the workers that will count one, those among them that would not give the
row up and the row if it is open are at most `MaxAttempts + 2 * faults`. TLC reaches that
bound, so it is the best one.

`AiCredit_proofs`, for any calls, processes, plans, rates, costs and months:

- `TypeCorrect`: `Spec => []TypeOK`: no amount goes below zero;
- `Balanced`: `Spec => []BooksBalance`;
- `BudgetHolds`: `Spec => []WithinBudget`;
- `RefusedByTheBooks`: `Spec => RefusedWhenSpent`.

The inductive invariant adds to types and books `Known` (the first month has a rate, so every
month has), `Lines` (a reserve transaction belongs to one call without a reservation, a
reservation lies in a month that exists, finitely many exist) and `Rows` (a month that is
not there is empty, a budget is within its peak). The types need the books: that a
release does not take the hold below zero is the sum's doing. The actions fall into four
kinds of steps: `Quiet` ones leave reservations, ledger and amounts alone, `Holding`
adds a reservation, `Settling` ends one, `Sweeping` expires a batch; the books are proved
against the four. For the budget the shares of the ordinary calls are shown to be within
the month's books, so the check of a reserve, which compares the row, bounds them. `RefusedWhenSpent` speaks
of the ledger and the open reservations and the check of counters in a row, perhaps one the
transaction has just inserted or recomputed: the books connect the two.

`DataLemmas` proves that nonempty sets of numbers have a least and a bounded one a
greatest element, and for `SumFunctionOnSet` of the community modules its recursion, type,
monotonicity and what adding, removing and splitting do. The library's induction
principles take an operator, which the provers cannot instantiate; each fact is instead
proved for a counterexample of least cardinality.

Only model-checked:

- liveness, which the provers do not reach: `WaitingRowIsResolved`, `HoldsSettle`,
  `StoppedRunDrains`, `IdleRunStops`, `ChatHoldsEnd`, `JobResolves`, `DeletionEnds`,
  `FanoutEnds`, `MailResolves`, `InvalidationLands`, `RelaysEnd`;
- the three disagreements of section 5, which are counterexamples.

## 5 Disagreements between code and comments

| Run | The text | What the code does |
|---|---|---|
| `progress_race` | `progress-recalculation-job.service.ts:401`: "A rerun requested meanwhile starts over from the first enrollment." | with two slots a worker that lost the job writes its cursor over the reset; the rerun starts in the middle and succeeds |
| `deletion_orphan` | `storage-manifest.service.ts:224`: "a process crash merely repeats a safe, idempotent remove." | `claimItems` releases a dead worker's items and picks pending ones in one statement, on one snapshot; when only released ones are left it picks none, the drain ends, and success deletes the manifest with their objects still stored |
| `cache_early_bump` | `database.ts:116-118`: cache invalidation "must not run before other requests (or workers) can see the new data"; `database-after-commit.test.ts:4-6` | most functions of `cache-invalidation.ts` (`:41-92`) send the increment at once, and audited handlers call them inside the transaction (`courses.controller.ts:66`, `:132`, `:300` reach `courses.service.ts:315`, `:619`); a reader between increment and commit stores the old data under the new version, where it stays until its lifetime ends or another write comes |

In `progress_race` no step stalls, an error
and a duplicate wake-up suffice; `deletion_orphan` needs one worker and one crash;
`cache_early_bump` needs a writer, a reader and no fault.

Seen while modelling and not run, since each is one step of the model and no property of
the project depends on it: a reservation that expired before finalize leaves a billed call
without a ledger row, although `ai-metered-call.service.ts:5` says "so the ledger sees all
spend"; a month row inserted by an open reserve transaction is not seen by a rate change
(`ai-credit.service.ts:403`: "Months from this one on take it") and keeps the old rate; the
cancellation of a slow mail worker deletes rows another worker has reclaimed, also those
that may be mailed (`email-outbox.repository.ts:182`).

Not a run, because no text settles it: `setAiFxRate` (`ai-credit.service.ts:410`)
recomputes a past month with the plan the tenant has now, although plan edits leave
past months alone (`ai-credit.service.ts:351`).

## 6 Abstractions and what is not modelled

- Generated content, prompts, hashes, artifacts and schema validation of the V2
  steps: a step succeeds or fails. A unit that already has content although its
  task did not succeed is not distinguished.
- Capacity limits of lanes: a row without a slot keeps waiting.
  `wakeOneCapacityDeferred` only moves `next_attempt_at` and is not distinguished;
  neither are the backoffs, the reconcile one included.
- A delivery that finds its row consumed already changes nothing. `OrchestrationV2` has no
  action for it; `DispatchOutbox`, which counts the copies, does (`Spend`).
- Run statuses `canceled` and `failed` and task status `timed_out` are written by no
  code; `finalizing` exists only inside the finalizer's transaction.
- Token counters, per-user limits and price tables: they move with the USD of the
  credit row. Durable long-running metered calls are in `AiCredit` (kind "long") as
  calls whose reservation never expires; nothing there claims that they end. Top-ups of
  a tenant and a month for which no exchange rate exists at all are left out.
- The progress formula: one calculation per enrollment. Enrollments do not change
  during a job.
- Deletion: the tables and batches of a purge are one set of rows, rows and objects are
  not added after the request, block references to one object are not counted. An
  object a stalled worker of a finished job registers again is listed for a job that
  has succeeded; the model has the step and no property claims otherwise.
- Mails: the copy to the course owner, mails that are enqueued outside a fan-out, a
  notification that is gone, deactivated users, the purge of a user's row, the texts.
- Caches: values under old versions, which nobody reads; a cached read's version and
  value are of one moment; in-process caches and the reset after a lost listener,
  lifetimes, the limit of 10 000 remembered invalidations.
- Single flight within a process and draining at shutdown.
- The AI engine transition: its indexes are external services. Outline transfer
  and knowledge-base operations: the job frame of `SubjectDeletion` around other work.
- The CRUD modules change their rows in single transactions without state that spans
  steps; reports, chat and V1 sessions are text processing around external
  services. They have entries in `PROJECT.json` with the reason.

## 7 Plan

Done, in this order: the outbox with its contract and proofs; the V2 run; credits;
the recalculation with its proof; deletion; mails; cache invalidation, both before and
after the commit, with its proof;
proofs of the safety properties of the V2 run, of deletion, of mails and of credits.
Next:

1. Composition: `OrchestrationV2` shown to use the outbox as `OutboxDelivery` promises it,
   step by step, as `DispatchOutbox` is shown to provide it.
2. Its accounting shown to use `AiCredit` as "run" calls do.
3. The two reads of a cached read, version and then value, in `CacheInvalidation`, with the
   lifetimes of the values.
