# OwnMinutes: a TLA+ verification of the meeting pipeline

OwnMinutes records meetings (web and iOS), transcribes and summarises them with
paid providers, and bills the account in whole official minutes. The program
logic that is hard to test is on the server (`src/lib/server`): a ledger that
must never pay a provider twice or use more minutes than a plan grants, a
durable queue whose workers may die at any instruction, uploads that resume
after days, subscriptions whose news arrives in any order, a lock that everybody
takes, and deletions that race with all of it; and, on the phone, an index of
recordings that must survive a dying process. This directory models that logic
in TLA+, checks it with TLC on small instances, and proves the main safety
properties of every component with TLAPS, for every value of the constants.

Paths below are relative to the repository root. `PROJECT.json` lists the
components, the runs, the hazards and the findings, and maps every definition to
the lines it translates.

## 1. Inventory

| component | state it keeps | operations | what is hard |
|---|---|---|---|
| **Provider ledger** `auth-repository.ts:2735-3460`, `0015_meeting_processing_reservations.sql` | `users` counters, reservations, provider steps, usage events | reserve, release, claim/start/release/complete/reject/reconcile a step, record usage | a provider call is neither transactional nor free: crash between start and saved output, late refusals, expiry while a call runs |
| **Plans and entitlements** `auth-repository.ts:1376-2010, 2400-2440, 3700-3870` | grants, billing orders, the user's counters | Apple purchase, revoke, expiry, manual change, refresh | periods change under calls in flight; one path reads before its transaction |
| **Finalization queue** `finalization-queue.ts` | `meeting_finalization_jobs`, `processing.json` | enqueue, claim, heartbeat, complete, retry, fail, cancel, exhaust, reclaim, delete | leases, zombie workers, two stores (SQL, file) written one after the other |
| **Projection** `meeting-finalization-state.ts` | `processing.json` | queue, start, heartbeat, complete, fail | identity checks decide which run may write |
| **Meeting finalizer** `meeting-finalizer.ts` | `result.json`, checkpoint | preflight, process, publish, fail | publish is three writes under one lock, with crashes in between |
| **Realtime chunk route** `api/meetings/[id]/realtime-chunks/route.ts` | one provider step per chunk | reserve, claim, start, complete | reservation grows minute by minute, finalized concurrently |
| **Meeting deletion** `meeting-write-lock.ts:281-806`, `meeting-audio-store.ts:2023-2206`, `meeting-transfer-intent.ts` | tombstones, fences, cleanup claims, transfer intents | delete, claim, erase, purge, reopen | late writers, duplicated cleanups |
| **Account deletion** `account-deletion-*.ts`, `api/auth/delete/route.ts`, `meeting-audio-store.ts:259-420, 2211-2376`, `meeting-catalog.ts` | the cleanup job, the storage audit, catalog rows and coverage fences | delete, ask with a receipt, claim, visit, retry, replay, audit | five tables read one by one, lost answers, a pass of minutes without any lock |
| **Meeting write lock** `meeting-write-lock.ts:27-207` | queue of each process, pooled connections, backup barrier, PostgreSQL advisory locks | enter, nest, time out, release | timeouts, pool exhaustion, re-entrancy, a backup in between |
| **Realtime session store, ASR client** `realtime-session-store.ts`, `volcano-realtime-asr.ts` | session file, chunk log | append, finish | ordering of chunks |
| **Recording upload, audio store** `recording-upload-*.ts`, `meeting-audio-store.ts:740-1330`, `apps/mobile/src/api.ts` | leases, staging manifests, parts, receipts, canonical audio | status, admit, part, commit, sweep | shared budgets, resume after crash, six writes to publish |
| **Auth rate limit** `auth-rate-limit.ts` | attempt windows | reserve, commit, roll back | concurrent attempts |
| **Secret audit outbox** `secret-audit.ts` | outbox rows | append, deliver | at-least-once delivery |
| **Sessions, e-mail codes** `auth-repository.ts` | codes, sessions | issue, use | one-time use under concurrency |
| **Apple subscriptions** `auth-repository.ts:1485-2470, 3834-3952`, `api/payments/apple` | orders, grants and the subscription row of a family, notification rows | record a purchase, handle a notification, refresh | duplicated and reordered notifications, client answers held for a while |
| **Mobile stores** `apps/mobile/src/atomic-recording-index.ts`, `recording-store.ts`, `realtime-upload-queue.ts` | recording index in four files, deletion journal, upload queue | load, write, recover, refresh the backup; ordered uploads | process death between two file operations, torn files |
| **Object store, catalog, exports, UI, diagnostics** | files, read models | | I/O and formatting; no protocol state |

How they interact. A finalize POST checks access, inserts a job in one SQL
transaction and then writes the projection under the meeting's write fence. A
worker claims the job, does a preflight under the fence, calls the providers
(each call guarded by a claim/start/complete sequence in the ledger), saves
`result.json`, records usage and completes the projection under one fence, and
then completes the job in SQL. A heartbeat timer renews the job and then the
projection, and cancels the job when the projection belongs to another run. A
deletion writes a tombstone under the fence, cancels the jobs, removes the
objects, and archives the settled cost. Nothing spans these steps atomically, so
every point between two of them is a state to reason about.

What makes each modelled component correct:

* ledger: a stage is paid at most once; a reservation's settlement is the sum of
  its steps; used minutes never exceed the grant; a finalized bill is frozen;
  settled cost is counted once even when the account is deleted in mid-call;
* plans: a refund finds the period it came from; the trial is not renewed by
  changing plans;
* queue: one unfinished job per meeting; bounded attempts; every job ends; a
  result is published once; "completed" means billed; nothing is written after
  the deletion;
* meeting deletion: once it is over no object is left that nobody will remove,
  and it ends however many transfers land late;
* account deletion: a receipt that says "deleted" is true and stays true; what is
  left of the account is always somebody's work; every deletion is settled;
* write lock: sections of one key exclude each other across processes, a backup
  is alone, nothing taken is kept, and everybody gets out;
* uploads: an acknowledged recording is durable, the account's budget holds at
  every admission, and every recording gets through in the end;
* the phone's index: a list that was written survives, a load returns the last
  one that took effect;
* subscriptions: the plan is what the grants give, nobody is taken back to an
  older period, and Apple's customer has what is paid for.

## 2. Plan

1. `ProviderLedger` and its proofs: **done**.
2. `FinalizationQueue`, the abstract `JobLifecycle` and their proofs: **done**.
3. `MeetingDeletion` and its proofs: **done** for one meeting. Abstract
   specification still to be stated: a register that goes from kept to erased once.
4. `MeetingWriteLock` and its proofs: **done**.
5. `AppleSubscription` and its proofs: **done** for one family and one tier.
6. `RecordingUpload` and its proofs: **done**. `RealtimeSession` is left.
7. `AccountDeletion` and its proofs: **done** for one account.
8. `RecordingIndex`, the abstract `DurableRegister` and their proofs: **done**.
9. `Finalization`: queue and ledger composed through the finalizer, so that a
   zombie attempt's release of the shared reservation and its refused step are
   steps of one model.
10. `RecordingStore` (the phone's deletion journal over a `DurableRegister`, with
    recovery at the next start) and `RealtimeUploadQueue`; `AuthRateLimit`,
    `SecretAuditOutbox`, one-time codes.

Every invariant and action property of the runs has its theorem (section 4); those
to add are of the modules still to come.

## 3. Modules

### ProviderLedger

One account. Every repository function is one PostgreSQL transaction that begins
with `SELECT ... FROM users ... FOR UPDATE`, hence one action. The manual plan
change is the exception: `postgresApplyUserPlanChange` computes counters from a
user read before its transaction, so it is `ManualPlanRead` and
`ManualPlanWrite`.

| state | code |
|---|---|
| `user` | `users`: plan, `official_minutes_total/used`, `free_trial_minutes_used`, `billing_period_start` as a number |
| `grants`, `orders`, `manual` | `entitlement_grants`, `billing_orders`, the read held by a manual change |
| `res`, `step`, `event` | `meeting_processing_reservations`, `..._provider_steps`, `usage_events` |
| `archived`, `sources`, `purged` | `account_deletion_provider_cost_aggregates` and its source references; meetings whose rows were archived |
| `call`, `durable` | the request handlers and workers: where each is in claim, start, provider call, save, complete; stages saved in a checkpoint |
| `charged`, `spent` | history variables: minutes settled, provider calls really made |

Actions follow the functions: `ReserveRealtime`, `ReserveFinalization`,
`ReleaseReservation`, `ClaimStep`, `StartStep`, `StartRefused`, `ReleaseStep`,
`CompleteStep`, `RejectStep`, `ReconcileStep`, `RecordFinalizeUsage` (which does
not wait for steps that are still started: a retry that finds a realtime
transcript publishes while an earlier attempt's transcription is undecided, and
that call may be refused after the bill), `PurgeMeetingLedger`, `DeleteAccount`, `ArchiveDeletedAccount`, `ApplePurchase`,
`RevokeGrant`, `GrantExpires`, `RefreshEntitlements`. The environment adds
`ProviderReturns`, `ProviderRejects`, `SaveOutput`, `CallerLost`, and the clock
(`ReservationExpires`, `StepLeaseExpires`).

Abstractions. A time limit is a Boolean that may turn off at any moment. A claim
token is the caller's identity: the code draws a random one per claim and a
caller runs one claim at a time. A billing period is the number of the order
that opened it. One paid tier.

### FinalizationQueue and JobLifecycle

One meeting with one owner and one sealed recording. `job` holds the rows,
`proj` is `processing.json`, `result` the operation whose `result.json` is
published, `billed` the operations with a usage event, `fence` the holder of the
meeting's write fence when a section takes several steps. `post`, `run` and
`beat` are the program counters of POST handlers, workers and their heartbeats;
`writes` is a history variable.

`SaveResult`, `RecordUsage` and `CompleteProjection` are the three writes of a
publish, taken under one fence with a crash possible before and after each;
`PublishFails` is an error after the first of them, caught by the finalizer and
turned into a failed attempt, the projection's write possibly done.
`Preflight` makes its checks in the code's order: an explicit request respects
the projection's lease before it looks at the result, a queued one after.
`CompleteJob`, `SettleJob`, `RequeueProjection` and `ReportFailure` are what the
worker loop does afterwards, again one write per action. A heartbeat is
`HeartbeatRenews` (SQL) followed by `HeartbeatRefreshes` or `HeartbeatCancels`
(projection), or by `HeartbeatTimesOut`; any step of anybody may come in
between, the arrival of a heartbeat after its worker has moved to another job
included. Deletion is `DeleteMeeting`, `CancelJobs`, `PurgeMeeting`.

`JobLifecycle` says what the rows promise: one unfinished job, a bounded number
of attempts each of which is a move into `processing`, and one outcome for every
job. `ImplementsLifecycle` is the refinement, with `status` and `attempt` read
from the rows.

Abstractions. `available_at` and backoff disappear in asynchrony. A worker has
one heartbeat in flight. Reading the current projection and failing it is one
step. The in-process map of active finalizations only joins callers in one
process and is left out. `RunFails` stands for every error of the processing,
a refused quota reservation included.

### MeetingDeletion

One meeting under deletion. `tomb` is its row of `meeting_deletion_tombstones`
(pending, the claim token, whether the claim is younger than five minutes,
whether the retry time has come), `gone` its one-way fence row, `catalog` its
`meetings` row, `intent` the rows of `meeting_object_transfer_intents`, `objects`
what the store holds under its prefix, `lock` the deletion inside the meeting's
write lock. `at` and `xfer` are the program counters of deletions and transfers.

A DELETE request (`RequestDelete`) and the durable cleanup (`Claim`,
`EnterLock`, `LockTimesOut`) share `ResolveExpired`, `Erase` or `EraseFails`,
`Purge`, `Complete`, `Retry`. The transfers are upload parts (one PUT phase), commits
(the audio, then the receipt) and transient ASR inputs (removed after use). Each
begins under the fence (`Begin`), PUTs without any lock (`PutLands`, `PutFails`),
and looks again under the fence (`Publish`, `Postflight`, `InputReady`,
`FindsDeleted`); one that finds the meeting deleted retries or reopens the
deletion (`LateRetry`, `LateReopen`) before it gives its intent up (`Settles`).

Abstractions. `Erase` happens at the listing that verifies an empty prefix. A
fenced section of a transfer is one step. A PUT of a dead client lands while its
intent is live, which is what the intent's 65 minutes are for; a live handler
may take longer than its intent, but does not die then. The database answers:
when it fails in the late cleanup the code keeps the intent if there is one.
A manifest written inside a fenced section lands there, so its own short-lived
`catalog_manifest` intent is left out.

### MeetingWriteLock

The PostgreSQL mode of `meeting-write-lock.ts:27-207`. A section first queues in
its process for its key, then holds a pooled connection for as long as it lasts,
shares the backup barrier and takes the key's advisory lock; what runs inside
needs a connection of its own.

| state | code |
|---|---|
| `call` | a request or a job: how many sections it is in, its step, its outcome |
| `queue` | `localUserWriteQueues`, `localMeetingWriteQueues`, `localRecordingUploadQueues` of each process |
| `conn` | the connections that sections hold of the pool of `postgres-runtime.ts` |
| `shared`, `holder` | `pg_advisory_lock_shared` of the barrier, `pg_advisory_lock` of each key |
| `backup`, `backups` | `scripts/production-backup.mjs`, which takes the barrier alone |

There are three kinds of call: a mutation takes its user's lock and then the
meeting's fence, a publication enters the fence twice (the inner time by
`heldMeetingWriteLocks`), a transfer takes the upload's lock. `Enter`, `Connect`,
`ShareBarrier`, `TakeKey`, `Operate`, `UnlockKey` and `Release` are the statements
of `withPostgresAdvisoryLock`, with its `finally` taken apart; `LockTimesOut` and
`ConnectTimesOut` the two timeouts, the second of a section's own connection or
of a query made inside a section, before the next one is entered too; `RequestBarrier`, `TakeBarrier` and
`LeaveBarrier` the backup's. PostgreSQL queues a shared request behind a waiting
exclusive one, so `ShareBarrier` needs `backup = "idle"`.

Abstractions. A database session lasts as long as its section, so that unlock
queries do not fail and the advisory lock is not lost while the section runs.
What runs inside a section is one step, which borrows a connection for that step
only. `TypeOK` includes that the sections of a process never hold more
connections than its pool has. The file mode of a
single process, which has the queues alone, is left out.

### RecordingUpload

Resumable uploads of the full recordings of one account: the sync loop of the app
(`apps/mobile/src/api.ts:626-689`) and the three handlers.

| state | code |
|---|---|
| `lease` | `manifest.recordingUpload` of each meeting, which reserves the account's budget, and whether it is 72 hours old |
| `staging`, `stored` | `uploads/<id>/manifest.json` and the part objects |
| `receipt`, `audio`, `chunk` | the commit receipts, the canonical audio, the sealed chunk in the meeting's manifest |
| `lock` | the handler that keeps the account's lock over several steps |
| `req`, `client` | what each handler does, what each client knows |

A part is `Admit` (with `SweepLease`, `SweepStaging` and `AdmitSwept` when stale
uploads are in the way), `ReadStaging`, `StorePart`, `ListPart`, `RenewLease`. A
commit is `Preflight`, `Assemble` or `SealCommitted`, `PutAudio`, `Publish`,
`PutReceipt`, `CheckPublished`, `CleanCommitted`. A status is `ReadStatus`, with
`Discard` when it finds a staging that went stale. `PutFails`, `Crash` and
`GiveUp` (a client's timeout; the server goes on with the request) may come at
every step, and `LeaseGoesStale` and `StagingGoesStale` are 72 hours.

Abstractions. Sections under the account's lock are one step but for the sweep.
A part is an index and its digest always fits. Owners and metadata match.
Deletion is in `MeetingDeletion` and `AccountDeletion`.

### AppleSubscription

One subscription family of one account. Apple is the environment: `period` are
the transactions it charged, `phase` its renewal state, `notice` what it sent.

| state | code |
|---|---|
| `notice[k].status`, `.read` | `apple_notification_events`: owed (no row, or failed), received, processed; the family order a lifecycle handler has read |
| `orders`, `grants`, `sub` | `billing_orders`, `entitlement_grants`, `apple_subscriptions` |
| `user`, `other` | plan and billing order of `users`; a grant from elsewhere |
| `fetched`, `asked` | the App Store Server answer a client's request holds before it records it |
| `inOrder` | history: nothing was applied before a notification signed earlier |

`ClientAsks` and `ClientRecords` are `POST /api/payments/apple/transactions`;
`Handles` is the transaction of a charge or of a change of status,
`ReadsFamily` and `HandlesLifecycle` the read and the later transaction of a
lifecycle notification (grace period, billing retry, extension, renewal status);
`Fails` leaves a failed row, `Dies` a received one although the transaction was
committed; `Refreshes` is `postgresRefreshUserEntitlements`, `Deletes` the account's
deletion.

Abstractions. Dates are clock ticks; notification k is signed at 2k and a client's
answer between two notifications. The other grant is older than every Apple one.
Minutes are in `ProviderLedger`. Tiers, owner and signature checks, `REVOKE`, the
kinds that are only recorded, and rows older than the subscription table are left
out. Apple may stop repeating a notification, so nothing is said of liveness.

### AccountDeletion

The deletion of one account with everything in flight: requests, workers, an
upload's part, a manifest being written.

| state | code |
|---|---|
| `deleted`, `job` | `users.deleted_at`, the row of `account_deletion_cleanup_jobs`: holder, claim age, due, attempt, dead letter |
| `audit` | `meeting_storage_integrity_state`: young enough, no unattributed prefix |
| `tomb`, `objects`, `catalog`, `coverage`, `intent` | tombstones and fences, the store, `meetings`, `meeting_catalog_coverage_fences`, `meeting_object_transfer_intents` |
| `ulock`, `mlock` | the account's lock; a meeting's, where a section takes several steps |
| `at`, `put`, `pass` | where requests, transfers and the workers' passes are |
| `told` | history: somebody was told "deleted" |

A DELETE is `Enter`, `Check` (the audit), `Schedule`, `DeleteAccount` and, when
that fails or only its answer is lost, `Cancel`. It ends, as a receipt does
(`AskWithReceipt`), with `ReadStatus`, one table after the other. The worker's call
is `Audit`, `Claim`, `Discover`, a visit to each meeting (`VisitCleans`, `VisitFails`,
`VisitFindsNothing`), `CheckLeft` for each table, and `Finish` or `Retry`;
`WorkerStops` and `ClaimGoesStale` are crashes, lost heartbeats and stalls, `Replay`
is the operator's. `Backfill` is the audit's own work, with `AuditBlocked` for what
stops it. Parts and edits go through their intents as in the code, orphaned PUTs
of dead processes included.

Abstractions. The cleaning of one meeting is one section under its lock, with
every partial outcome; `MeetingDeletion` takes it apart. The audit is one step and
may be renewed while it is young. An intent outlives the handler that made it. A
DELETE that finds the account already deleted is the same as a receipt. The
archive of the ledger is in `ProviderLedger`.

### RecordingIndex and DurableRegister

The list of the recordings on a phone (`apps/mobile/src/atomic-recording-index.ts`),
kept in four files by operations that run one after the other.

| state | code |
|---|---|
| `file` | what `primary`, `temporary`, `backupTemporary` and `backup` hold: nothing, something that does not parse, or list number n |
| `at`, `task`, `from` | the next file operation, what the backup is refreshed for, the file a recovery copies |
| `seen`, `begun`, `finished` | what the last load returned or the last write left, the last list a write began with, the last whose write reported success |
| `damages` | how many files were torn unnoticed or could not be read once |

Every file operation is one action: `ReadsPrimary`, `ReadsCandidate`,
`ReadsNothing`, `RestoreRemoves`, `RestoreCopies`, `RefreshClears` to
`RefreshMoves`, `Tidies...`, `WriteBegins` to `WriteConfirms`. Any of them may fail
(`Fails`: a load that has its primary goes on, everything else throws) or be the
last of the process (`Crash`); an interrupted write or copy leaves its target torn.
Damage is a write that is torn without an error, a file found torn at the next start
(`Damage`), or one that exists and cannot be read this time, which the code takes for
an invalid one.

`DurableRegister` is the promise: one value; a write takes effect once, at some
moment between its beginning and its end, or never if it is interrupted; a load
returns the value. `ImplementsRegister` maps the value to what the next load would
return (`Recoverable`).

Abstractions. A list is its number. An operation that changes nothing, or stops
because the index is unrecoverable, is a load; the repair of paths in a load that
found no index (`recording-store.ts:586`) is left out.

### Runs

Every passing run is exhaustive. `CHECK_DEADLOCK FALSE` is set everywhere: an
account or a meeting that is deleted, calls that have all ended, or a bound that
is reached legitimately leave nothing to do.

| run | instance | distinct states | what it checks |
|---|---|---|---|
| `spend` | 1 meeting, a realtime chunk and the transcription, 2 callers, Apple plan changes with 2 orders | 1,062,371 | `TypeOK`, `SettlementMatchesSteps`, `PaidAtMostOnce`, `CostCountedOnce`, `FinalizedIsFrozen`, `RefundsFit`, `FreeTrialCovered` |
| `quota` | 1 meeting, 2 operations, trial of 1, paid period of 2, Apple and manual changes | 2,095,536 | `NoOverspend` between operations and across plans |
| `manual` | manual changes that read ahead | violation | `FreeTrialCovered`, see findings |
| `publish` | 2 workers, 1 client that posts runs and a regeneration, 2 jobs, 2 attempts, lock timeouts of runs | 5,211,193 | `TypeOK`, `OneActiveJob`, `PublishedOnce`, `NoWriteAfterDelete` |
| `lifecycle` | 1 worker, 1 client, 2 jobs, 2 attempts, heartbeats and their lock timeouts, crashes | 554,862 | `CompletedIsBilled`, `ImplementsLifecycle` with liveness |
| `deletion` | a DELETE, 1 cleanup worker, a commit, a transient input, 1 crash | 491,428 | `ErasedUnlessOwed`, `EventuallyErased` |
| `lateputs` | a DELETE, 1 cleanup worker, 1 part whose transfer may fail after its object is stored | violation | `ErasedUnlessOwed`, see findings |
| `uploads` | 2 recordings of 2 meetings, of 2 parts and of 1, one upload slot, 2 handlers, 2 faults | 299,092 | `TypeOK`, `AckedIsDurable`, `AdmissionsFit`, `EventuallySynced` |
| `sections` | an app and a worker process, 2 mutations, a transfer and a publication, pools of 3, 1 backup | 189,804 | `TypeOK`, `SectionsExclude`, `BackupIsAlone`, `NothingLeftBehind`, `OrderIsSafe`, `EveryCallEnds` |
| `apple` | 3 periods, 4 notifications, requests and deletions, 2 ticks | 1,486,291 | `TypeOK`, `PlanFollowsGrants`, `OneActivePeriod`, `EntitledAsCovered`, `NoGrantAfterDeletion`, `NewerPeriodWins` |
| `index` | 4 lists, 2 damaged or unreadable files | 135,789 | `NothingIsThrownAway`, `ImplementsRegister` |
| `accounts` | 1 client, 1 worker, 1 meeting, 1 part, 1 manifest write, 2 attempts, 2 faults | 258,194 | `TypeOK`, `ReceiptIsTrue`, `NothingForgotten`, `EvidenceKept`, `EventuallySettled` |

Why these bounds. They keep every run to a few minutes on a slow machine. A race
in this code has two parties: two callers or workers suffice for a zombie and its
successor, and a third could only repeat the successor's part, since a lease has
one holder; where a run has fewer than that, the theorems of section 4 are about
any number. Two attempts give a first attempt that is retried or reclaimed and a
last one. Two jobs give a predecessor and a successor. `publish` has live workers
that lose their leases and runs that time out on the fence; `lifecycle` one worker
that crashes, and is started again, at every point, and heartbeats that time out.
One client posts as often as it likes, for the first run or the regeneration, and
its POSTs are interrupted by everybody else; a second client's POSTs, between two
steps of the first's, are left to `OneUnfinished`, `SavedOnce` and `CompletedMeansBilled`.
Two orders give a renewal that supersedes and a revocation that falls back. In
`spend` the operation costs one minute while its realtime chunks may reserve two,
so a settlement above the cost is reachable; in `quota` two operations of one
meeting fit the period alone but not together, and the trial is smaller than the
paid period, so that falling back to it with more used than it grants is reachable
(the code's restore clamps it). In `deletion` a DELETE without a claim
token and a worker with one are the two kinds of cleanup, and the two transfers
the two ways of settling; one crash at any step of either cleanup leaves every
partial state there is to recover from. In `uploads` one slot for two recordings
makes each wait for the other's lease, one of two parts can be staged by half,
and two faults let the recovery from one fail by another. In `sections` a pool of
three is the smallest in which a nested mutation can run beside another section,
and four calls exhaust it. Three periods are the smallest number in which a
notification of the first can come after the third, and `MaxOpen` lets one
handler at a time be half-way. In `accounts` the part and the manifest write are
the two kinds of intent, and two faults let the claim that was lost, and taken
over, be lost again; two workers side by side are left to the theorems, whose
invariant TLC has checked for two. In `index` the four files can hold
lists of four different ages; `NothingIsThrownAway` is about one damage, which is
what the files are meant to survive, and the run goes on to a second one.

The models' own bounds are `MaxOrders`, `MaxChunks`, `Jobs`, `MaxAttempts`,
`MaxCrashes`, `MaxFaults`, `MaxBackups`, `MaxPeriods`, `MaxInputs`, `MaxClock`,
`MaxOpen`, `MaxWrites` and `MaxDamages`; each is named in its module and used in a guard. `PoolMax`, `MaxActive`,
`MaxBytes` and `AccountDeletion`'s `MaxAttempts` are limits of the code, made small.

`RefundsFit` and `FreeTrialCovered` are checked with Apple changes only: a manual
change leaves the period's identity as it was (`auth-repository.ts:1415-1428`,
`3445-3451`), so a step settled under a manually granted plan is later taken for
one of the trial's. Symmetry is used in safety runs only, over callers, workers,
jobs and the two operations of `quota`, which the specifications treat alike.
`Heartbeats`, `Crashes` and `LockTimeouts` (whose waits for the fence may time out,
runs or heartbeats) choose what a run of the queue looks at; the theorems hold for
all of them together.

### Fairness

`FairSpec` says what the code's scheduling gives. Clients, heartbeats, crashes and
lock timeouts owe nothing unless it is said here.

* *Queue.* Workers poll for ever and PostgreSQL grants an advisory lock in order
  of arrival, so a worker's step that waits for the fence is strongly fair; the
  holder of the fence continues; the lease of a worker that left the job is
  renewed by nobody and expires. Nothing forces crashes to stop: attempts are
  what bounds them.
* *Meeting deletion.* Cleanups are retried without limit, so crashes are bounded
  and the store does not fail every removal (strong fairness of `Erase`);
  everybody else who can go on does, since nobody holds the lock for ever.
  Liveness is checked with one worker: with several, a cleanup that always
  outlasts its five-minute claim loses it each time, and would be claimed in turn
  for ever.
* *Uploads.* The app retries every pending recording and the server serves what
  it is asked, both while others hold the lock in between (strong fairness of
  `Send` and `Serve`); time passes. Faults are bounded.
* *Write lock.* A call that can go on does, and a wait that has a timeout times
  out; the wait in the process's own queue has none. Weak fairness suffices.
* *Account deletion.* A pass, a begun request or transfer and an audit go on;
  intents expire, claims grow old, delays pass. The refresh of the audit and the
  claim are one call of the worker's loop, so the claim comes while the audit is
  young (strong fairness of `Claim`). A cleaning need never succeed, and nobody
  owes a replay.

### Findings

* **`manual` / `FreeTrialCovered`**: a manual plan change reads the user outside
  its transaction (`auth-repository.ts:1403`) and writes counters computed from
  that read. A provider step that starts in between settles its minutes and the
  write erases them. Trace: read (used 0), reserve, claim, start (used 1,
  trial 1), write (used 0, trial 0).
* **`lateputs` / `ErasedUnlessOwed`**: a transfer whose object is stored and which
  then fails with an error other than a deletion's releases its intent at once
  (`meeting-audio-store.ts:979`, `2121-2145`). An upload part does so when the
  staging manifest's PUT fails after the part's own
  (`recording-upload-store.ts:129`, `137`). Trace: the deletion verifies an empty
  prefix; the part lands; the manifest's PUT fails; the intent is released; the
  purge finds no intent and the deletion completes. The object is left and
  nothing reopens the deletion, against the comment at
  `meeting-audio-store.ts:2102`. `deletion` therefore checks transfers that fail
  only when nothing was stored (`FailAfterPut` empty). With a transient input in
  `FailAfterPut` the same happens by another way: the retry of its failed
  clean-up postpones a tombstone that a DELETE, which carries no claim token,
  then completes. `AccountDeletion`'s parts, too, fail only when nothing was
  stored.

The models do as the code does in the following places as well. No run is a
counterexample for them, and the properties are stated so that they leave them
aside; a reader of the code should know of them.

* *Queue.* `normalizeWorkerError` takes every `MeetingAccessError`, a lock timeout
  included, for final (`finalization-queue.ts:606`), so a timeout in the preflight
  fails the job at its first attempt; compare
  `docs/postgres-migration-runbook.md:21`. A duplicate POST whose transaction saw
  the job in `processing` may queue the projection again after the job completed
  it, with no job left (`finalization-queue.ts:258`; compare
  `docs/finalization-queue-runbook.md:30`). A plain POST returns the existing
  result and completes the current projection, a queued regeneration's included
  (`meeting-finalizer.ts:612`); `CompletedIsBilled` is therefore checked without
  regenerations.
* *Uploads.* The canonical audio is written before the commit looks for a conflict
  (`meeting-audio-store.ts:1086`): of two different recordings for one meeting the
  second overwrites the published audio and is then refused. The second phase of
  a part and a status request write again a lease that was freed and given away
  (`meeting-audio-store.ts:946`), so an account may hold more uploads than its
  policy (`docs/object-storage-runbook.md:246`); `AdmissionsFit` is about the
  admissions. A stale lease of another upload of the same meeting answers 409 and
  is not swept by the one it blocks.
* *Write lock.* A connection timeout is answered with a generic error, not with
  the 503 of a lock timeout. A section that nests while a backup waits always
  ends in a timeout: the inner share queues behind the backup, which waits for
  the outer one.
* *Apple.* A REFUND of the current period that is handled after a status event
  signed later is judged stale and answered as a duplicate
  (`auth-repository.ts:2173`): the order stays paid, although
  `docs/apple-iap-sandbox-runbook.md:225` has it refunded. An extension that comes
  after the refresh found the period over hides from the recovery that the grant
  had lapsed (`:2070`, `:2084-2103`). The guarded upsert may leave the row's
  current transaction on the older of two orders (`:1647`, `:1995`). A charge and
  a newer grace period applied out of order leave two active grants, hence
  `inOrder` in `OneActivePeriod`. So does, in order, the reversed refund of a period
  that another has followed: the charge of p, the charge of q, the refund of p and
  its reversal, which makes p's grant active when q's has just lapsed, then a late
  grace period of q. A second refund of p then finds p's grant active and ends the
  family's other grant with it. Hence `OldRestored` in `OneActivePeriod` and
  `EntitledAsCovered`; it takes five notifications, one more than `apple` has. A lifecycle handler locks the subscription and
  then the user, others the user first; PostgreSQL aborts one of a pair that
  meets (`Fails`).
* *Account deletion.* The recovery of an expired manifest intent asks nothing
  about its owner (`meeting-audio-store.ts:403`, unlike `:314-325`): for a deleted
  account the catalog refuses the row and the audit throws. The audit precedes
  every claim, so no account's deletion goes on, and as no attempt is counted
  nothing reaches the dead letters, though
  `docs/account-deletion-cleanup-runbook.md:5` says that a job must not retry for
  ever; once the audit is ten minutes old, DELETE answers 503 as well. It takes a
  manifest write that was interrupted in mid-deletion and a cleanup that did not
  reach the meeting within the intent's ten minutes. `AuditBlocked` names the
  state; without it in `EventuallySettled`, TLC finds this behaviour. A meeting
  another worker finished between the discovery and the visit is quarantined as
  unattributed (`:2316`) and makes the audit invalid until the next one. A claim
  that ended in a crash or a lost heartbeat counts as an attempt and yet brings
  no job to the dead letters: only `Retry` does.

* *Index on the phone.* A refresh that stops between the removal of the old backup
  and the move of the new one leaves the primary and `backupTemporary`; the next load
  begins by removing the latter (`atomic-recording-index.ts:114`), so that the primary
  is the only copy until it has been copied again. Two damages in that state lose
  the list: a primary that cannot be read once is restored from `backupTemporary`;
  when that copy is torn without an error, nothing looks at it (`restorePrimary`,
  `:96-107`, does not verify what it copied) before the refresh removes its source
  (`:114`). `NothingIsThrownAway` is therefore about one damage. A very first write that is torn
  leaves a file and no list: the index then counts as unrecoverable
  (`:67-76`), and every operation that would change it refuses. A primary that
  cannot be read once is replaced by the backup (`:57-64`), which may be one list
  behind when the last write was interrupted before its refresh.

## 4. Proofs

Eight components have a proof module. Each rests on its component's named
assumption (`LedgerAssumption`: a finite set of operations, natural costs, a
`NoCaller` outside `Callers`; `LockAssumption`: the functions have their types, the
keys of users, meetings and uploads are different ones; `AppleAssumption`: the
bounds are natural numbers; `AccountAssumption`: parts and edits are different
transfers, each to a meeting, `None` is no process, a job has at least one attempt;
`QueueAssumption`: workers and clients are different processes, no regeneration has
the first run's key, a job has at least one attempt; `DeletionAssumption`: handlers
and workers are different processes, the kinds of transfer different transfers;
`UploadAssumption`: an upload belongs to a meeting, has parts, and fits the account's
bytes; `IndexAssumption`: the bounds are natural numbers) and holds for any sets and numbers that satisfy it. Where a theorem needs
more, its statement says so.

### ProviderLedgerProofs

* `TypeCorrect`: `Spec => []TypeOK`. Not a formality here: the counters are
  natural numbers, so it says that no refund, archive or plan change subtracts
  more than is there.
* `PaidOnce`: `Spec => []PaidAtMostOnce`.
* `QuotaHolds`: `Spec => []NoOverspend`.
* `SettlementHolds`: `Spec => []SettlementMatchesSteps`.
* `CostHolds`: `Spec => []CostCountedOnce`.
* `FrozenHolds`: `Spec => []FinalizedIsFrozen`.
* `RefundsAlwaysFit` (`RefundsFit`) and `TrialStaysCovered` (`FreeTrialCovered`), if
  `PlanChanges` has no manual one. The hypothesis cannot be dropped: `manual` is
  the counterexample for the second, and with manual changes the first fails as well
  (see the end of the bounds).

**PaidOnce.** `PaidAtMostOnce` is not inductive: nothing in it says why a second
start is refused. `FenceInv` adds the argument of the cost fence. A caller past
its claim works on a real step (`CallsHaveSteps`), whose row, from start to
refusal, is that caller's own and is `started` (`OwnStarted`); a stage already
paid for has a row that is `started` or `completed` unless the account's or
meeting's rows are gone (`PaidIsStarted`), and such a row cannot be claimed
again; no two callers are in a call for one stage (`OneCallPerStep`); and a
saved output belongs to a paid stage that nobody is calling (`DurableIsPaid`,
`CallingIsNotDurable`), so that reconciliation cannot complete a stage twice.
Purged rows do not reopen a stage because a purged meeting or a deleted account
refuses claims.

**QuotaHolds.** Starts preserve it by the capacity check. A fall back to the
trial restores the counter from `freeUsed`, so the invariant also bounds
`freeUsed`, and the pending manual change's copy of it, by the trial
(`TrialBounded`). The theorem covers the manual change although it loses
updates: the lost update errs in the customer's favour.

**SettlementHolds.** `StepSettled` is a sum over the four stages of one
operation; `StepSettledAfter` states how it changes when one row changes, and
each action changes one row by the amount it adds to or takes from the
reservation.

**CostHolds.** The model counts settled minutes as the cells of a chart with one
column per step row, so a sum over all operations is a cardinality. `MinutesSplit`,
`MinutesOfOne` and `MinutesAfter` say what changing one column, or emptying those
of one meeting, does to it; `StepKinds` reduces every action to a start, a refusal,
an archive or none of them. `CostCountedOnce` is inductive only with
`ArchivedIsGone`: what was archived before has nothing left to count, and a start
finds neither a purged meeting nor a deleted account, so that an archive that
inserts nothing (its source is known) also loses nothing.

**FrozenHolds.** A finalized reservation admits no start, no refund and no new
target (`StaysFrozen`, one step per action). The refusal of a call that was
undecided when the bill was recorded is one of the cases: `RejectStep` finds the
reservation finalized and reports a conflict. The property is inductive over
`FenceInv`, since usage and status are written in one transaction.

**RefundsAlwaysFit, TrialStaysCovered.** A refund is blocked when the counter of
its period is below what the step settled. `PeriodCovered` and `TrialCovered` say
that each counter is at least the sum of what its own steps settled, which a single
step's part cannot exceed. A step carries the period that paid for it, and
`RowsOnPlan` says that the trial's steps have their minutes in `free` and no
others have; `UserOnPlan` that the counters on display are those of the one grant
there is, or of the trial. Superseding, revoking and falling back
(`PlanCovered`) change the period, and a new period has no steps yet. A manual
change breaks `UserOnPlan`, because it leaves the period as it was, and
`TrialCovered`, because it writes counters read before other steps settled theirs.

Each `...Step` lemma has one step per action. `TypeStep` and `FenceKept` share
small lemmas on row updates.

### MeetingWriteLockProofs

* `TypeCorrect`, `Exclusion` (`SectionsExclude`), `BackupAlone` (`BackupIsAlone`),
  `NothingLeft` (`NothingLeftBehind`) and `NoCircle` (`OrderIsSafe`), all from one
  inductive invariant.

None of these properties is inductive: they speak of where calls are, while the steps
look at locks, queues and connections. `IInv` ties the two together for every
call, section by section. `DepthsFit` says which steps are possible at which depth;
`KeysHeld` that a call holds the key of every section it is inside, and a share
of the barrier unless it merely entered it again; `HoldersInside` that nobody else does;
`ConnectionsUsed` that a section past the queue has a connection and nobody else
does; `PlacesKept` and `QueuesClean` that a section is in
its process's queue once, and at its head when it has passed it; `BarrierAlone`
that a backup holds the barrier only while no share is out. Exclusion follows as
`holder` names one call per key. One lemma per action shows that it is
preserved. The invariant has been checked with TLC on the instance of `sections`.

The pool's bound in `TypeOK` needs none of this: `PoolFits` is inductive by
itself, as `Connect` finds the pool free and no other action takes a connection
(`PoolStep`). `Exclusion` holds whatever times out, under the assumption that a
section's database session lasts as long as the section.

**NoCircle.** Suppose that nobody can go on although pools have connections and no
backup waits. Then everybody is behind another in a queue or waits for a key that
somebody has (`Stuck`). Whoever is in the way is stuck as well (`InTheWay`): the head
of the queue waits for the lock of that key, and the holder of a key waits at a
section further in, whose key is a meeting's while the first was a user's
(`UsersFirst`). So nobody can wait for an inner lock, then nobody at an inner key,
then nobody for a user's lock, and then nobody is left. No order on calls is
needed, as sections nest at most twice.

### AppleSubscriptionProofs

* `TypeCorrect`, `PlanIsRight` (`PlanFollowsGrants`) and `NothingAfterDeletion`
  (`NoGrantAfterDeletion`) from `IInv`; `NoWayBack` (`NewerPeriodWins`) from
  `IInv /\ OInv`; `OnePeriod` (`OneActivePeriod`) from `IInv /\ OInv /\ AInv`.
* `EntitledHolds` (`EntitledAsCovered`), from these and `EInv`.

`IInv` is `AppleFits` (Apple's periods are typed, and no date is far from the
clock), `MailFits` (notifications are typed, a held answer is about a period) and
`DbFits` (the rows are typed and the plan is what the grants give). With the types
`PlanFollowsGrants` is inductive, because every transaction that changes a grant
settles the user in the same transaction; the work is in the orders it may name:
the newest of the active grants exists (`LargestExists`, a well-founded descent
along strict subsets), a superseded one loses its order, a deleted account is left
alone. For `NewerPeriodWins` the order matters in which orders were made: `OInv` says that
Apple numbers its transactions as their periods start (`PeriodsInOrder`), that news
is about transactions it charged (`MailIsCharged`), and that the current
transaction's order was made after those of all earlier ones (`OrdersInOrder`), so
that the handlers find an older charge stale.

`OneActivePeriod` speaks of grants, and nothing in the grants says which of two is
made active last. `AInv` therefore looks at the mail. `MailInOrder` is Apple's side: a
charge is told before anything else about it, and a held answer was signed after
the charge. `AppliedInOrder` is what "in order" gives the rows: a charge that was
processed, or signed before the row, is done with; no order is newer than the
current transaction (`Came` names the notification that brought it); and a lifecycle
handler that has read the family's order has read the current one, as everything
before it was processed. `OnlyCurrent`, the property itself with the name of the
grant, then holds because each handler finds its period current or stale. The one
handler that activates a period without being stale or current is the reversal of a
refund, which is what `~OldRestored` excludes; `RestoredIsCurrent` says so.
Checked with TLC on an instance of `apple` with two handlers half-way.

`EntitledAsCovered` relates what the rows hold to what the customer paid for, two
things that meet only in the mail. So `EInv` has a part for each side. `Told` is
Apple's: the charges come in order and the last refund or reversal that was told is
how the period is (`RefundsTold`); the ends that were told only move on, up to the
period's own (`EndsTold`); what has been told of a transaction fits the phase of
its renewal, and a grace period that is not the present one is over or refunded
(`PhaseTold`, `GraceTold`); a client's answer fits between the notifications signed
before and after it (`AnswerTold`). `Kept` is the rows' side, about the transaction
charged last (`Of(k)`) and no other. `DatesKept`: what is still to come is not stale
for the row, unless it was signed before an order that a client's answer made, and
then it changes nothing. `GrantKept`: the grant is active unless a refund that was
applied stands or the period was found over, and with no status told it is
active or lapsed, which is what the recovery needs. `GraceKept`: a grace period
that is handled is on the row, with the grant, while it runs. `Kept` holds as soon
as the order exists (`OrderMade`), and each handler, which finds its notification
newer than the rows with all earlier ones processed (`Fresh`, from `InPrefix`),
keeps it: `ConfirmKept`, `StatusKept`, `LifecycleKept`, `RefreshKept`. What is handled
of an older transaction is a refund without effect (`OthersAreRefunds`,
`OldRefundStays`). When all is handled nothing is still to come, and the two sides
say the same (`RowsEntitle`). `Extended` limits only the half that the code does not
keep with extensions. `Told` and `Kept` were checked with TLC on three periods, five notifications and
requests and three ticks.

### AccountDeletionProofs

* `TypeCorrect`, `ReceiptsAreTrue` (`ReceiptIsTrue`), `NothingIsForgotten`
  (`NothingForgotten`) and `EvidenceIsKept` (`EvidenceKept`), all from `IInv`.

A receipt is read from five tables at five moments, and a job is removed by a
worker that looked at each meeting once, minutes ago; neither holds a lock. What
makes both right is that a meeting of a deleted account which is `Settled` (no
object, row, intent or open tombstone) stays so. That is the second half of
`StoreStep`, and it needs `IntentsHeld`: whoever may still write has an intent
that lives, so that a cleaning does not finish while one is on its way. On it rest
`PassFits` (what a pass without a failure no longer has on its list is settled) and
`JobKept` (the job of a deleted account goes only when everything is). A
meeting without any evidence has no tombstone or a fence, and `TombsFit` says that
the first still has its manifest and the second is erased; this makes
`VisitFindsNothing` harmless, and gives `EvidenceKept`. `RequestFits` says that the
lock keeps the deletion's request alone with its job, and that whoever has read
past the job's table found none, which is what `ToldRight` needs. The bound on the
attempts in `TypeOK` is `AttemptsFit`: a claim that is taken over has cost
a fault. The invariant has been checked with TLC on the instance of `accounts`.

### FinalizationQueueProofs

* `TypeCorrect`, `OneUnfinished` (`OneActiveJob`) and `QuietAfterDelete`
  (`NoWriteAfterDelete`) from `IInv`.
* `SavedOnce`: `PublishedOnce`, if there is at most one key of regeneration.
* `CompletedMeansBilled`: `CompletedIsBilled`, without regenerations.
* `RowsFollowLifecycle`: the initial rows are initial for `JobLifecycle` and every
  step of the rows is one of its steps or a stutter, the safety half of
  `ImplementsLifecycle`.

`OneActiveJob` is not inductive because the claim and the retry bring a row back to
an active status: that a locked row is in processing, and that a waiting row has
an attempt left (`RowsFit`), makes every one of these steps start from an active
row. `RunsFit` adds what a zombie may do: a worker between the writes of a publish
holds the fence, and its count of the attempts is right while the row is its own.
`PublishedOnce` needs that what was saved is handed out by every later preflight,
and that the worker which has its job locked runs for a result that is not there
(`PublishInv`); the lock check in front of the save is what makes a zombie's
result harmless. With two keys of regeneration the second overwrites the first's
result, and the first's key, used again, is a new run: hence the hypothesis.
`CompletedIsBilled` fails with regenerations for the reason given in the findings.
The invariants have been checked with TLC on `publish`, and on an instance of two
workers with heartbeats, crashes and a regeneration.

### MeetingDeletionProofs

* `TypeCorrect`; `ErasedIfAnswersHold` (`ErasedUnlessOwed`), if no transfer fails
  after its object was stored. The hypothesis cannot be dropped: `lateputs` is the
  counterexample without it.

A deletion is over when its tombstone is completed, but what it listed as empty
was listed earlier, and PUTs need no lock. `ListingFits` says what is in the store
between the listing and the end: objects whose transfer waits for the lock, or
which died and left its intent, so that the purge finds it. `OverFits` says that a
deletion that is over has no intent, and that what is stored is still in the hands of
its transfer, which will look again and find the meeting deleted. `LockFits` and
`TransfersFit` tie the program counters to the lock and to what each transfer puts.
Checked with TLC on the instances of `deletion` and `lateputs` (with answers that
hold).

### RecordingUploadProofs

* `TypeCorrect`; `AdmissionsAlwaysFit` (`AdmissionsFit`), which needs no more than
  the types and `RequestsFit` (only a sweep keeps the account's lock).
* `AckedStaysDurable` (`AckedIsDurable`), if the uploads of one meeting carry the same
  recording. The audio is written before the commit looks for a conflict, so with
  two recordings of one meeting the second overwrites what was acknowledged (see
  the findings).

An acknowledgement rests on a receipt, which outlives everything else of an upload.
`ReceiptsFit` says that a receipt has its audio and its chunk; `CommitsFit` that a
commit past its PUT of the audio has it, past its publication the chunk, and past
its receipt the receipt, whatever crashed or was retried in between; `AcksFit` that
whoever was told had a receipt. Checked with TLC on the instance of `uploads`, and
on one with two uploads of one meeting.

### RecordingIndexProofs

* `IsARegister`: `Spec => ImplementsRegister`, for any number of writes; also
  `TypeCorrect`.
* `NothingLost`: `Spec => NothingIsThrownAway`, for any number of writes and damages;
  the property itself is about what happens up to the first damage and after it.

`IInv` holds while nothing is damaged. `SomethingIntact` says that a list is
always in the primary, or in the temporary file that is about to replace it, so that
no load has to fall back on a backup (it would otherwise go one list back, see the
findings). `LoadFits` and `WriteFits` say where an operation is: what a load
will return is what the files give, a recovery copies the temporary file, a new
list is whole in the temporary file before the primary goes. `WhatIsThere` reduces
`Recoverable`, a choice among four files, to these two. An interruption tears only a
file nothing depends on (`InterruptedFits`); a write takes effect in `WriteDrops`, or
in `WritePuts` when there was nothing before. The invariant has been checked with TLC.

`NothingLost` cannot use that invariant, which ends with the first damage. `KInv`
holds whatever is damaged: no file has an older list than the last one written to
the end (`NotOlder`, the reason why the backup is refreshed before a write reports
success), so such a list is lost only with the last intact file (`LostWithTheLast`).
`LoadSafe` and `WriteSafe` then say, for each place where a file is removed or
overwritten, which other file has the list. The one place without such a file is
the removal of `backupTemporary` after a list was restored from it, where `LoadSafe` can
only say that two damages have happened. Checked with TLC for three damages.

### What is only model-checked

* Liveness under fairness and `ENABLED` are outside what the provers do, so
  `EveryCallEnds`, `EventuallyErased`, `EventuallySynced`, `EventuallySettled` and the
  liveness half of `ImplementsLifecycle` remain a matter for TLC; so would any
  statement proved by induction over data.

## 5. Not modelled, and why

* In the ledger: the non-billable mock provider and the hybrid route (they never
  reach a paid call), the legacy settlement of rows written before the
  reservation tables, the processing-mode conflict, the second paid tier, and a
  first realtime chunk with an arbitrary sequence number (chunks are numbered
  from one).
* In the queue: comparisons of owner and audio revision (one owner, one sealed
  recording), which always succeed here.
* In the meeting's deletion: conflicts of owners, manual quarantine of old
  identifiers, the minimisation of completed tombstones.
* In the account's deletion: other accounts (their prefixes are visited too and
  skipped), prefixes that are not canonical, conflicts of owners, the signature
  and age of a receipt, the mode without a database, sessions and tokens.
* In the write lock: the file mode; a database session lost in mid-section,
  which nothing in the code could notice; an unlock query that fails, which the
  code logs before it gives the connection back to the pool.
* In the uploads: two uploads for one meeting, other owners, metadata that does
  not match, the bytes of a part. Audio sent chunk by chunk, sharing and edits of
  a meeting are single sections under its lock.
* In the subscriptions: `REVOKE`, tiers and upgrades, owner and signature checks,
  outages of Apple's server, rows older than the subscription table.
* In the phone's store: what the lists contain, the deletion journal and the
  recovery of files no list names.
* The composition of queue and ledger, realtime sessions, rate limits, the
  outbox, one-time codes and the rest of the mobile stores: planned, in the order of
  section 2.
* Object storage, audio conversion, prompts, exports, catalogue views, UI and
  diagnostics: I/O and formatting without protocol state.
