# Formal models of Karbi

Karbi is a back office for marketplace sellers: a Python backend of one API process
and a worker per automation, PostgreSQL, Kafka behind a transactional outbox, Redis, S3,
and an external gateway through which every request to Wildberries goes. This directory
holds TLA+ models of the parts whose correctness depends on the order in which processes,
transactions, messages and crashes meet, the TLC configurations that check them on small
instances, and TLAPS proofs of what holds for every instance.

Paths below are relative to `src/backend/`.

## The system

| Part | State it keeps | Operations | How it meets the others |
| --- | --- | --- | --- |
| Outbox (`shared/outbox`, `workers/outbox`) | `outbox_events`: published, lock, next attempt | add, claim, send, published, failed | every module adds rows in its own transactions; the publisher sends them to Kafka |
| Consumers and inbox (`workers/*/…consumer*.py`, `inbox_events`) | group offset, failure counters, inbox rows | handle, retry, park, commit | effect and inbox row are one transaction |
| Review sync (`modules/wb_reviews`, `workers/wb_reviews`) | runs, jobs, memberships, daily counts | request, claim, scan, finish, reap, abandon | API and scheduler create runs, Kafka carries the jobs, a reaper recovers them |
| Screenshot storage (`modules/wb_screenshot_control`) | storage rows, staging files, S3 objects | intake, upload, delete, erase, purge, republish, sweep | API, two subscribers, an hourly reconciler, a nightly purge |
| Screenshot pipeline (`modules/wb_screenshot_control`, its worker) | submissions, extractions, verdicts, journal | take in, extract, decide, defer, change an outcome, expire it, overrule, reprocess | two topics of its own, a language model, the storage of the picture |
| Screenshot bot | dialogues | ask, take in, name an outcome | the pipeline, Telegram |
| Seller registry (`modules/wb_core`) | sellers, their status, key versions | create, archive, restore, purge, enroll | calls the enrollment of every automation in its transaction |
| Mirrors and egress (`modules/wb_core`) | articles, stocks, reviews | catalogue sync, key delivery | catalogue consumer, external gateway |
| Notifications (`modules/notifications`) | outgoing messages, subscriptions, update cursor, invites | queue, deliver, retry, subscribe | a consumer queues, one sender per bot delivers |
| Support bot (`modules/wb_support_bot`) | reviews, verdicts, replies | classify, reply, monitor | two consumers, language model, Wildberries |
| FBS distribution (`modules/wb_fbs_distribution`) | pools, mappings, rules, placement, plans, published amounts | accept a snapshot, share, place, plan, publish | takes 1C snapshots, writes stocks to Wildberries and reads them back |
| Turnover (`modules/wb_turnover`) | report slots, requests, board | collect, compute, digest | a worker and the API share the requests |
| Platform (`modules/platform`) | users, refresh tokens, sessions | log in, refresh, revoke | every request |
| Rate limiter (`storage/redis`) | a sorted set per key | sliding window script | API and clients |
| Other automations | tables computed from mirrored data | collect, compute, export | one worker each |
| Frontend, extension, deployment | none of the above | | |

What is hard in it, and where:

- **Concurrency through the database.** Read Committed transactions of several
  processes; some reads lock their rows, some do not (`expire_leases`, the consumer's look
  at a membership, `live_staging_paths`).
- **At-least-once delivery.** Publishers crash between Kafka's acknowledgement and the mark,
  groups rebalance in the middle of a handler, and handlers talk to S3 or Wildberries
  between two transactions.
- **Recovery.** Leases, reapers, republication and sweeps repeat work that may have
  been done, or may still be in progress.
- **Effects outside the transaction.** S3, the staging directory, Telegram and Wildberries do
  not roll back, and an answer that is lost says nothing about the effect.
- **Memory of the outside.** What was confirmed at Wildberries, what the relay has been given,
  which update was the last one: a stale memory is acted upon later.

What makes each part correct, and where it is stated:

| Part | Correct if | Stated in |
| --- | --- | --- |
| Review sync | runs exclude each other and end, close with all verdicts, no job is stranded, redelivery is bounded | `ReviewSync`, `ExclusiveRuns` |
| Outbox and consumers | no event is lost, each takes effect once, none is given up without cause, every one settles | `Outbox`, `EventDelivery` |
| Screenshot storage | "stored" is true, accepted bytes are kept, erased means gone, uploads and deletions settle | `ScreenshotStorage` |
| Screenshot pipeline | a case is credited once, nothing is left without a verdict, verdicts stand, a failure of the system rejects nobody | `ScreenshotPipeline` |
| Notifications | an event becomes messages, a message appears once and settles; updates are handled up to the cursor, an invitation subscribes for one | `MessageQueue`, `Subscriptions` |
| FBS distribution | cabinets do not sell the same units, plans spend what they are given, the memory is what Wildberries showed | `StockDistribution` |

`PROJECT.json` lists the hazards line by line with the properties that watch them, and says
what stands in the way where none does.

## Modules

In every module a transaction is one step unless the code reads and later writes without a
lock, or does something outside a transaction; there it is as many steps as others can come
between. Crashes, errors and lost answers are steps that a bounded budget pays for.

### ReviewSync — the nightly review snapshot

`run`, `job`, `tracked` and `counts` are the tables of `modules/wb_reviews`, `registry` is
the part of `wb_core.sellers` they look at, `inbox` and `published` are what the outbox and
the inbox know of the job's events (an event is a job and a number), `worker` is what each
consumer process holds between its two transactions, and `reaping`/`expired` what the
reaper holds between its lease scan and its commit.

| Action | Code |
| --- | --- |
| `Request` | `ReviewSyncService.request` under `lock_run_creation` |
| `ReapRead`, `ReapWrite` | `run_maintenance`: `expire_leases`, `claim_due_jobs`, `abandon_stale_runs`, `finalize_run` |
| `SkipEvent`, `FailForGoneSeller`, `ClaimJob` | first transaction of `ReviewSyncConsumer.process` |
| `ScanFailed`, `ScanThrottled` | `_finish` after a permanent or a temporary error |
| `ScanOk`, `WriteCounts` | second transaction: the look at the seller, then the write |
| `AbortAttempt`, `Crash` | a transaction refused by a key constraint; the process dies |
| `Enroll` … `Purge` | `SellerService` |
| `LeaseRunsOut`, `BackoffElapses`, `RunGrowsOld`, `NextDay` | the comparisons with `now()` |

`claim_due_jobs` takes up to 50 jobs at a time; the model takes all that are due. `request` holds an
advisory lock from its look for an active run to its commit, and `finalize_run` the run's row from
counting to the commit, so that starting and closing a run are one step each. What these
locks are for is thereby taken for granted; the properties tell what holds with them.

`ExclusiveRuns` is what whoever asks for a run may rely on: a run begins when none is active, is
closed once and for ever, and is closed in the end. `ReviewSync` implements it (`RunsInTurn`).

### Outbox and EventDelivery — the road of an event

`Outbox` follows an event from its row through one Kafka partition to the handler's
transaction. Time is counted in ticks because the outbox lock is a deadline:
`LockTicks` is `lock_seconds`, `SendTicks` the slowest attempt. `Add` and `AddNotBefore`
record the event; `Claim`, `SendOk`, `Published`, `SendFailed` are the publisher's loop, whose
batch is worked off in the order of `created_at`; `Receive`, `HandlerCommits`, `HandlerRaises`,
`CommitOffset` are the loop of `EventConsumer`; `PublisherCrash`, `ConsumerCrash` and `Rebalance`
may come between any two of them. One lock covers a whole batch, so it may run out under the
later events of the batch and another publisher sends them as well. A send that raises may or
may not have reached the broker. The failure counters live in the consumer process and die
with it.

`EventDelivery` is the promise: an event is recorded, then settled, once, and every
recorded event is settled. `Outbox` implements it (`DeliveryPromise`) with
`recorded <- ToSet(created)` and `settled <- inbox \cup parked`.

### ScreenshotStorage — row, staging file and S3 object

One original, since objects do not interact: its `storage_objects` row, its file in the
staging directory (with its age, which the sweep looks at; one that was damaged fails its upload), its object in S3, and the
actors with what they hold outside a transaction: the intake that has written the file and
not committed, the upload subscriber between its transactions, whoever has to delete the staging file
after a commit (`cleaning`), and the sweep. Path and key follow from the hash of the file, so
a repeated intake has the same ones. `UploadBegin` … `UploadRecord` are
`ObjectStorageService.upload`, `DeleteHandle` its `delete`, `EraseFile` the administrator's
`erase_file`; `PurgeExpired`, `RepublishStale` and `SweepList` … `SweepRemove` are the retention
purge and the reconciler. S3 calls may raise with or without their effect; the subscribers
may die anywhere.

### ScreenshotPipeline — from a screenshot to a verdict

`row` are the submissions, `extraction` what was read from each picture, `submitted` and
`extracted` the unhandled events of the two topics (a failed attempt and a deferral put a later
one in place of the event), `extracting`, `deciding` and `resolving` what the extraction, the
decision and the administrators hold between their steps. Submissions are numbered in the
order of `(received_at, id)`, and an age stands for the clock: in the order window, past it,
past the lifetime of an outcome that was never named.

| Action | Code |
| --- | --- |
| `Ingest` | `IngestService._store`, `_exact_duplicate` |
| `ExtractBegin`, `ExtractSkip` | `ExtractionService._prepare` |
| `ExtractLate`, `ExtractOk`, `ExtractFailed` | `_finish` with `_extracted`, `_failed` |
| `DecideSkip`, `DecideDefer`, `DecideRead`, `DecideCommit` | `DecisionService.handle`; `Conclusions` is `domain/decide.py` |
| `ExtractorDies`, `DeciderDies`, `GiveUpSubmitted`, `GiveUpExtracted` | the worker's consumers, `park_failed_event` |
| `ChangeOutcome`, `ExpireOutcome`, `GrowsOlder` | `SubmissionsService.change_outcome`, `expire_outcomes`, `now()` |
| `ResolveRead`, `ResolveCommit` | `AdminService.approve`, `not_duplicate` |
| `Overrule`, `AuditOk`, `Reprocess` | `decline`, `duplicate_of`, `audit_ok`, `reprocess` |

What the model reads in a picture and what the comparison of texts and near images finds is a
choice; that equal keys and equal files match, with whom, and what a match leads to, is not.
A delay is any delay: deferred and retried events may be taken at once or never.

### MessageQueue — outgoing messages

`PublishRequest` is any module that announces a message event; `QueueRequest`, `CommitOffset`
and `ConsumerCrash` are `DispatchService.queue` under the consumer, which makes one row for each
subscribed chat by its dedupe key; `ChatWrites` queues the reply to a chat that joins or leaves. `SelectDue`, `CallRelay`,
`MarkMessage`, `SenderCrash` and `BackoffElapses` are `deliver_due`: the batch is selected once,
each message is sent and then marked by a commit of its own. `ChatBlocks` is a chat that blocks
the bot, which Telegram then refuses for good. The relay and Telegram are external: the relay may accept a message
whose answer is lost, and drops an idempotency key it has seen, which is what the code relies
on. `QueuePromise` says twice what `EventDelivery` says: the announced events are settled when
they have become messages (`RequestPromise`; `heard` is the history of it), whenever the
consumer dies, and the queued messages when they are sent or given up.

### Subscriptions — invitations and updates

`RevokeInvites` and `AddInvite` are the two statements of `create_invite`, which a unique index
makes fail and try again (a second try is another `RevokeInvites`); `InviteExpires` is the clock;
`UserWrites` and `ChatGone` are what chats do. The rest is the fetcher of one bot:

| Action | Code |
| --- | --- |
| `FetchUpdates` | `UpdateFetcher.fetch_once` reads the cursor and asks the relay |
| `FetcherLooks` | `accept_update` reads the cursor again, without a lock |
| `FetcherCommits` | `handle_update`, `save_cursor` and the COMMIT |
| `FetcherFails` | the transaction fails, or the loop is cancelled before its COMMIT was sent |
| `FetcherReplaced` | `_sync_fetchers` cancels it with the COMMIT on its way |
| `LateCommit`, `LateLost` | that COMMIT arrives, or never does |

`_sync_fetchers` does not await the task it cancels and starts another loop at once. So while a
COMMIT is on its way (`late`) the new fetcher fetches and looks, and may find the update
not handled; `overtaken` remembers of which updates that was so. What it cannot do is commit: the
upsert of `save_cursor` has locked the row of `bot_cursors` in the old transaction, every
transaction of the loop ends with that upsert, and so each waits for the old one (`WorkDone`); a
`/start` waits earlier for the locked invitation, and finds it spent or free. Hence one COMMIT at
most is on its way at a time, and an update is handled in two transactions at most.
`HandledToCursor` says exactly that, and `InviteSpentOnce` that a second transaction does not
spend, confirm or announce an invitation again. `published` counts the command events that
`handle_update` adds to the outbox. `UpdatePromise` shows that updates are settled as
`EventDelivery` says; one without an addressee is settled when the cursor passes it.

### StockDistribution — plans and publications

One item in a pool that several cabinets may sell. `AcceptSnapshot`, `Rematch`, `SetShares`,
`SaveRegions`, `SetPlacement`, `SyncMirror`, `Enrol` and `PurgeSeller` change what a plan depends
on; `PlanReads` and `PlanSaves` are `build`, whose statements see different commits.
`AvailableUnits`, `LargestRemainder`, `PrioritySplit`, `Spread`, `RaiseZerosToOne`, `FullCoverage`
and `Allocate` are `domain/stock.py` and `domain/allocation.py`, `PriorityOrder` is
`domain/regions.py`. A sorted list is written by the number of elements before each (`InOrder`),
the loop over the zeros as a fold, and the regions of a queue by their first place in it. `StartPublish`,
`WriteStock`, `WriteIgnored`, `WriteFails`, `ReadBack`, `ReadFails`, `Confirm`, `Finish` and `Die`
are `PublicationService.publish`, warehouse by warehouse; `Order` is a buyer. `disturbed` and
`overlapped` are histories that the properties use: the pairs nobody has read since their amount
changed, and the cabinets two publications wrote at once (the API takes no lock between them, and
the properties make no promise then).

### The other modules

`MCReviewSync`, `MCScreenshotPipeline` and `MCStockDistribution` give TLC symmetry sets, values
of constants and, for two runs, a constraint; the other modules are checked directly.
`FiniteSums` holds what several proofs need to know of finite sets: smallest numbers, induction
over subsets, sums, and the ranks of a strict total order. The definitions that a comment calls a *mutant* are plausible bugs of the definition that
follows; no action uses them. They exist to show that each property notices the bug it
is meant for.

## Runs

| Run | Instance | What it shows |
| --- | --- | --- |
| `review_sellers` | 2 sellers, 2 workers, 2 runs over 2 days, 1 attempt | one active run at a time; a run closes only once all its jobs have a verdict |
| `review_one_job` | 1 seller, 2 workers, 2 attempts, fair | no stranded job, bounded redelivery, closed runs stay closed, jobs get a verdict; implements `ExclusiveRuns` |
| `review_purge_race` | 1 seller, 1 worker | violated, see Findings |
| `outbox` | 2 publishers, 2 consumers, 2 events, one of them poison, batches of 2, 2 faults, fair | no lost event, applied once, the offset behind the work, parked for cause; implements `EventDelivery` |
| `storage` | 2 intakes, 2 attempts, 2 S3 errors, 1 crash, S3 switched on late, fair | "stored" is true, bytes sent in once are kept, no orphan unless the subscriber died; uploads, deletions and staging settle |
| `storage_resend` | 2 intakes, no errors | violated, see Findings |
| `storage_late_put` | 1 crash | violated, see Findings |
| `screenshot_pipeline` | 2 screenshots, managers, pictures and outcomes, 1 administrator, 2 attempts, 1 deferral, one fault or second round | the automation credits a case once, nothing is stranded, verdicts stand |
| `message_queue` | 2 chats, a reply and an event, 2 attempts, batches of 2, 2 faults, 1 limit, fair | events become messages, each at most once, once if sent, given up for cause; implements `EventDelivery` twice |
| `subscriptions` | 2 chats, 2 tokens, 2 administrators, 2 updates, 2 faults, fair | updates handled in order, twice only if two fetchers overlap, an invitation spent once, one unspent link; implements `EventDelivery` |
| `stock_distribution` | 2 cabinets, 2 regions of 2 warehouses, 2 requests, up to 5 units, 3 jobs, 1 fault or order | plans share the pool and spend their parts; the memory is what was read; a verified publication reaches its plan |
| `stock_unread` | 1 cabinet, 2 warehouses, 1 request, 4 jobs, 1 fault | violated, see Findings |

**Bounds.** `MaxRuns`, `LastDay`, `MaxFaults`, `MaxIngests`, `MaxEvents`, `MaxErrors`,
`MaxCrashes`, `MaxReprocess`, `MaxRequests`, `MaxMoves`, `MaxLimits`, `MaxUpdates`, `MaxEdits`,
`MaxJobs` and `MaxQuantity` bound what would otherwise go on for ever; `MaxAttempts`,
`MaxUploadAttempts`, `MaxFailures`, `MaxDeferrals`, `BatchLimit`, `LockTicks`, `SendTicks`,
`Reserve`, `PriorityRegions` and `BasisPoints` are settings of the program at small values. Races
in these models are between two actors, so two of each kind that races are there (workers,
publishers, consumers, intakes, administrators who invite, requests that publish); runs and
sellers interact only through the run's status, so two suffice. Two attempts (three are deployed)
are the fewest that tell an attempt with another one after it from the last one, two failures in
a row tell a retried event from a given-up one, one deferral tells a decision that waits from one
that may wait no longer. A batch of two is the smallest with a second event under the first
one's lock. Five units are the fewest that give one of four warehouses more than one;
units of a hundredth of a percent are replaced by halves, since only the rounding matters.

Two configurations cut the state space by a constraint, named in the MC module: `FewChanges` lets
one seller at a time be away and only looks at a second run with everybody present, and
`OneIncident` pays for one fault or one second round while all screenshots are in the order
window. What they leave out is what the proofs cover: `AtMostOneActiveRun`, `RunClosesResolved`
and the three properties of the pipeline are theorems without any bound. `CHECK_DEADLOCK FALSE`
stands in every configuration because a bounded system stops: everything is delivered, no
fault is left, and nobody has to press a button.

**Fairness.** Only what the program drives by itself is fair: in `ReviewSync` the reaper, the
consumers, the end of a scan (the HTTP client has timeouts) and the clocks; in `Outbox` time, the
publishers' and consumers' polling; in `ScreenshotStorage` the end of an intake's
transaction, the two subscribers, the cleaning that follows a commit, the hourly reconciliation
and the clocks; in `MessageQueue` the consumer, the delivery loop and the backoff; in
`Subscriptions` the fetcher, a COMMIT on its way, which arrives or is lost with its connection, and
the second statement of an invitation. Requests,
erasures, purges, registry changes, orders, crashes, errors and rebalances never have to happen.
`StockDistribution` waits for requests of people, and `ScreenshotPipeline` for managers to name
outcomes; no fairness is assumed of either, and `NothingStranded` says by an invariant that
the pipeline never waits for nothing. Weak fairness is enough because nothing in the system keeps
disabling a waiting step for ever once the bounded faults are used up. In `ReviewSync` crashes
are not bounded: runs end all the same, since the reaper abandons old runs, and jobs get a
verdict because attempts are counted.

## Findings

1. `PurgedStaysPurged`: the consumer checks the membership without a lock; a purge that
   commits before its write leaves daily counts of a purged seller. `wb_turnover` takes
   `FOR SHARE` at the same place.
2. `BytesKept`: a deletion removes the staging file after its commit. The intake of the same
   file that waited for the row has by then written it again; the row says "staged" and
   its bytes are gone. The sweep can do the same to a file it listed before the intake. A file
   sent in once keeps its bytes (`BytesOfOneIntakeKept`).
3. `NoOrphanInS3`: the redelivered upload of an erased file is skipped without a look at
   S3, so a put whose process died stays there. Without a death nothing stays
   (`NoOrphanWithoutCrash`).
4. `PublicationReachesPlan`: a write whose reading failed is not remembered, so a later plan
   that returns to the remembered amount finds nothing to send, and Wildberries keeps the unread
   one although the publication reports no failure. Where nothing changed unread,
   a verified publication reaches its plan (`VerifiedReachesPlan`).

Not findings, but worth knowing; these were read in the code and no run shows them, save the
first three:

- `reschedule_job` has no condition on the job's status, so a worker throttled after the reaper
  failed its job revives it, possibly in a closed run. It is dispatched again and gets a verdict
  (`EveryJobResolved`), and the run stays closed (`ClosedRunNeverReopens`), but the run's
  counters no longer match its jobs.
- `expire_leases` reads its rows without a lock and decides by what it read: a job whose last
  attempt begins in between is put back after all, and is attempted once more than
  `job_max_attempts` says. That it happens once only is part of `BoundedRedelivery`.
- The docstring of `accept_update` says that it handles an update at most once. With a
  COMMIT on its way and a new fetcher it may do so twice (`HandledToCursor` allows for it, and needs
  to). Replies have a dedupe key and an invitation is spent once, so what is repeated is the
  event of a command other than `/start`: its automation hears the command twice.
- `expire_leases` fails a job that has no attempt left without a look at its run. If that was the
  last job, the run stays active until it is abandoned by age (`RunsInTurn` relies on that).
- `SystemCreditsOnce` is about the automation. `approve` and `not_duplicate` look for an accepted
  screenshot with the same keys without locking it, so two administrators at once can credit
  a case twice, as can `not_duplicate` of an exact copy, which has no keys.
- `reprocess` of an original that has a duplicate can make it a duplicate of its own duplicate.
- A comment in the screenshot worker's `consumers.py` relies on a reconciliation of the pipeline
  that the code does not have: a submission whose parking failed stays without a verdict until
  an administrator sends it round again (`lost` in the model).

## Proofs

The seven `…Proofs` modules and `FiniteSums` prove for every value of the constants, from the
modules' `BoundsAssumption` (`DistributionAssumption` in `StockDistribution`) alone: finite sets where
the code has them, natural numbers for the settings. Each action has a lemma of its own; an
action that leaves a conjunct's variables alone is handled together with its like; the temporal step
combines the lemmas with PTL.

**ReviewSync.** `TypeCorrect`. `RunsExclusive` is inductive once it is said that a run that does
not exist is not active and that jobs only exist in created runs: `Request` is the only step that
makes a run active, under the lock and after it saw none. `ClosedRunsStayClosed` and
`ClosedRunsAreResolved` follow from the type invariant: `mark_run_running` and `Finalized` are the
only writers of a status, and both closers count the pending jobs. `NoJobStranded` adds that an
event a worker holds was published and is held with the job claimed for it, so that putting a job
back without a planned retry always comes with a fresh event number. `RedeliveryBounded` adds a
`Budget` (events published so far, against the attempts used and what the job's state may still
add before the next attempt) and `AttemptsEnd`: a queued job has an attempt left, or the reaper put it
back after an older look that said so, which can happen once. `Implements` is the safety half of
`RunsInTurn`; that only `Request` creates a run needs the budget, which says that nobody holds an
event of a run that does not exist.

**Outbox.** `TypeCorrect`; `NothingLost`, `Once`, `NothingSkipped` and `ParkedWithCause`. The
invariant says that what is in Kafka was recorded, that a send which is not marked yet is there,
that the inbox counts what was applied, and (`Behind`) that everything below the offset and before a
consumer's position is handled or parked; `Causes` adds that no process counts more failures of
a good event than there were faults, and fewer where a failure may come without one. `Implements` is
the safety half of `DeliveryPromise`: every step of `Outbox` is a step of `EventDelivery` or a stutter.

**ScreenshotStorage.** `StorageTypeCorrect`. `StoredBacked` adds `PutIsInS3` (a put that succeeded
and has not been recorded is in S3 as long as the row says "uploading": deletions start only from
"delete_requested", and the row does not come back to "uploading" before the subscriber is done)
and `EventHeld` (the event counter it lowers is positive). `NoOrphan` and `OneIntakeKept` add
`BucketSet` (what is in S3, or on its way there, has its bucket in the row) and `FirstIntake` (what holds until
the file is sent in again or erased).

**ScreenshotPipeline.** `TypeCorrect`, `CreditedOnce`, `NobodyStranded`, `VerdictStands` and
`RejectedOnlyForCause` (which no run checks: it came out of the same invariant). "Accepted and
counts" is not inductive, since an administrator who makes an accepted screenshot a duplicate
can make it count again; `OneStanding` says it of both. `RowsSound` ties stage, keys and verdict
together, `DecisionSound` says that a decision on its way still agrees with the rows it was compared
with (one consumer decides, and every other step that could accept holds the row), `ResolvingSound`
that administrators hold rows of their own, and `EventsSound`, `ExtractionSound` that what is in
hand is still unticked.

**MessageQueue.** `TypeCorrect`, `AppearsOnce`, `GivenUpForCause` and `Implements`, the safety
half of `QueuePromise` (`RequestStep` for the events, then the messages). The invariant says what the sender's answer proves (`AnswerBacked`), that
the relay's keys count what appeared (`KeysCount`), that attempts were paid for by failures
(`AttemptsSpent`), and that what was sent was delivered.

**Subscriptions.** `TypeCorrect`, `HandledInOrder`, `SpentOnce` and `LinkUnique`. `InReach` says
that the fetcher is not past the next update; `WorksOn`, `Ready` and `LateReady` say of a transaction
that has looked at the cursor, the late one included, that its update is the next one, or was
overtaken and has been handled once since (`Again`), and that an invitation it claims is
unspent and locked by no request.
`Unanswered` says that what was not handled has no reply and no event yet, `TokensGone` that the
invitation of an update that was handled is spent or gone, so that a second transaction
spends none; `LocksHold` that what a request has locked to revoke is unspent and
locked by nobody else, and `SpentIsUsed` that a token that subscribed
somebody is used. `Implements` is the safety half of `UpdatePromise`: a commit settles the next
update or none, and one that is settled stays so.

**StockDistribution.** `MemoryAgrees` and `VerifiedIsPlanned`, from `OneAtATime` (a cabinet that
never had two publications has one at most), `ReadingHolds` (what was read is what Wildberries
shows until something happens there) and `ThroughIsWanted` (the warehouses behind a publication
that found nothing wrong show its plan).

`TypeCorrect`, `PoolNeverOverspent`, `PlansSpendTheirShares` and `SmallStockIsSpread` speak of what
`build` calculates. None of them is inductive: once the pool, the rule or the queue has changed,
nothing in the state says where a plan's amounts came from. `PlansCalculated` says it:
every plan is what `Allocate` gives for the basis it was calculated from, some shares the regions
have had and a queue that `PriorityOrder` made, and a plan that is being calculated has read such a
queue. With the types of the other variables (`Types`) it is inductive, and the rest is about
the algorithm:

- `LargestRemainder` (`AllIsDealtOut`): what the whole quotas leave over is the sum of the fractions,
  hence a whole number of units smaller than the number of receivers; the fractions are ranked
  in a strict total order, so exactly so many receivers have fewer than that before them. A larger
  weight never gets less, and of equal ones the earlier gets the odd unit, as the docstring of
  `largest_remainder` promises.
- `Spread` (`SpreadIsShared`): the sum over the queue is the sum over the regions of the sums
  inside each.
- `RaiseZerosToOne` (`RaiseLeavesNoZero`): by induction over the zeros, with the sum, which stays,
  and the nonzero ones, which stay nonzero. As long as there is a zero and a unit for each,
  somebody has two, so the largest has: the donor that the docstring of `_raise_zeros_to_one` promises.
- `PriorityOrder` (`QueueLists`, `FirstLap`, `FrontSpreads`): laps and regions rank the warehouses
  in a strict total order whose first places are the first lap, one warehouse of each region.
- The pool (`PartsFit`): parts of a whole rule, rounded down, add up to no more than the units,
  by comparing both sides multiplied by `BasisPoints`.

`NoUnitSoldTwice` puts both halves together, and no run checks it: the cabinets that have published
their plans of one basis (`PlanReached`) show buyers no more than the pool may give
(`NothingOversold`), since what is remembered is what is shown, and what is shown is the plan.

TLAPS cannot cite an induction theorem that takes a predicate. `FiniteSums` states
induction over the subsets of a finite set with the set of those that have the property
(`SubsetInduction`, from the well-founded order of strict subsets), and shows first that the
function which a fold of the community modules chooses exists and is unique (`AdderAdds`; `LifterLifts` for
`RaiseZerosToOne`). Everything about sums follows from it.

**Only model-checked.** All liveness (`EveryJobResolved`, `DeleteRequestSettles`, `UploadSettles`,
`ErasedLeavesStaging` and the fairness halves of `RunsInTurn`, `DeliveryPromise`, `QueuePromise` and
`UpdatePromise`), which needs ENABLED, out of the prover's reach. Every safety property that a run
checks and finds true is a theorem.

## Not modelled

Contents of snapshots, events, messages and screenshots; several partitions (a key stays in
one); rejected payloads, which are logged and committed.

- *Storage*: `verify_stored`, which answers to objects lost inside S3; thumbnails, which share the
  code paths of originals; the staging quota; the purge of texts.
- *Pipeline*: what the rules compare (texts, near images, time zones), the limits and the window of
  the candidates, within which the comparisons hold; a change of the pipeline's version; the draw of
  the audit; which original a duplicate names.
- *Notifications*: bots created and deleted, interactive bots (whose updates go to the outbox),
  edits and callback answers, rendering and pacing.
- *FBS distribution*: warehouses created, rebound and deleted in Wildberries, several items and
  sizes, the setting of offices and reserves.
- *Seller registry*: keys, egress versions, the catalogue status.

Most of the rest of the backend computes tables: one worker per automation reads Wildberries or
mirrored rows and replaces its own by upserts, without a second writer, and its alerts take the
road of `Outbox`. Refresh tokens are single guarded updates and the rate limiter is one atomic
script, with no step in between for others. HTTP routing, settings, rendering, the frontend,
the extension and the migrations keep no state whose order of change matters.
`PROJECT.json` gives the reason for each component.

What is left that a model would tell something about, in this order: the support bot (two
consumers around a language model and a reply that is sent before it is recorded), the requests
and report slots of turnover, which a worker and the API share, and the seller registry with the
mirrors (key versions, restoring while a catalogue sync runs). And two compositions: the pipeline with
the storage, where a picture may be erased while it is being read, and the registry with
notifications, where a purge meets messages on their way.
