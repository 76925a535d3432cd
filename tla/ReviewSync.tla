----------------------------- MODULE ReviewSync -----------------------------
(***************************************************************************)
(* The nightly review snapshot of modules/wb_reviews: sync runs, their     *)
(* per-seller jobs, the reaper that recovers them and the Kafka consumers  *)
(* that scan Wildberries.                                                  *)
(*                                                                         *)
(* One action is one committed transaction, except where the code reads in *)
(* one statement and writes in a later one without holding a lock between  *)
(* them: the reaper's lease scan (ReapRead, ReapWrite) and the consumer's  *)
(* "is he still ours" check (ScanOk, WriteCounts).  Clocks are abstracted  *)
(* to what the queries compare: a backoff elapses, a lease runs out, a run *)
(* grows too old, the day changes, each in a step of its own.              *)
(***************************************************************************)
EXTENDS Integers, FiniteSets

CONSTANTS
  Sellers,      \* sellers of the registry
  Workers,      \* consumer processes; deployment runs one, a rolling update two
  MaxRuns,      \* bound: sync runs ever created
  MaxAttempts,  \* settings.worker.job_max_attempts
  LastDay       \* bound: calendar days 1..LastDay

ASSUME BoundsAssumption ==
  /\ MaxRuns \in Nat
  /\ MaxAttempts \in Nat \ {0}
  /\ LastDay \in Nat \ {0}

RunIds == 1..MaxRuns
Days == 1..LastDay
Jobs == RunIds \X Sellers     \* UniqueConstraint(run_id, seller_id)

ActiveStatuses == {"queued", "running"}
ClosedStatuses == {"success", "partial_success", "error"}
Triggers == {"scheduled", "manual"}

VARIABLES
  run,        \* sync_runs: status, trigger, snapshot day, older than run_max_age?
  job,        \* sync_run_sellers: status, attempts, next_attempt_at, lease
  published,  \* events WBReviewSyncRequested ever put in the outbox, per job
  inbox,      \* inbox_events: handled events <<job, number>>
  worker,     \* what each consumer process holds outside a transaction
  reaping,    \* the reaper is between its lease scan and its commit
  expired,    \* <<job, attempts>> pairs that lease scan returned
  registry,   \* wb_core.sellers: active, archived or gone
  tracked,    \* wb_reviews.tracked_sellers
  counts,     \* daily_review_counts, by seller and day
  today

runVars == <<run, job, published>>
sellerVars == <<registry, tracked>>
reaperVars == <<reaping, expired>>
vars == <<run, job, published, inbox, worker, reaping, expired, registry,
          tracked, counts, today>>

NoJob == [status |-> "absent", attempts |-> 0, next |-> "none", lease |-> "none"]
NoRun == [status |-> "absent", trigger |-> "manual", day |-> 1, old |-> FALSE]
Idle == [pc |-> "idle", event |-> <<>>, saw |-> "none"]

JobState == [status : {"absent", "queued", "running", "success", "error"},
             attempts : Nat,
             next : {"none", "later", "now"},
             lease : {"none", "held", "over"}]
RunState == [status : {"absent"} \cup ActiveStatuses \cup ClosedStatuses,
             trigger : Triggers, day : Days, old : BOOLEAN]
Event == Jobs \X Nat
WorkerState ==
  {Idle} \cup [pc : {"scanning"}, event : Event, saw : {"none"}]
         \cup [pc : {"writing"}, event : Event, saw : {"gone", "detached", "tracked"}]

\* The types of the tables and of the consumers' local state.
TypeOK ==
  /\ run \in [RunIds -> RunState]
  /\ job \in [Jobs -> JobState]
  /\ published \in [Jobs -> Nat]
  /\ inbox \subseteq Event
  /\ worker \in [Workers -> WorkerState]
  /\ reaping \in BOOLEAN
  /\ expired \subseteq Jobs \X Nat
  /\ registry \in [Sellers -> {"active", "archived", "gone"}]
  /\ tracked \subseteq Sellers
  /\ counts \subseteq Sellers \X Days
  /\ today \in Days

Init ==
  /\ run = [r \in RunIds |-> NoRun]
  /\ job = [j \in Jobs |-> NoJob]
  /\ published = [j \in Jobs |-> 0]
  /\ inbox = {}
  /\ worker = [w \in Workers |-> Idle]
  /\ reaping = FALSE
  /\ expired = {}
  /\ registry = [s \in Sellers |-> "active"]
  /\ tracked = Sellers
  /\ counts = {}
  /\ today = 1
-----------------------------------------------------------------------------
\* Repository helpers: each maps the table of jobs or of runs to its next value.

Pending(j, table) == table[j].status \in ActiveStatuses

\* finalize_run's verdict over the jobs of run r.
Verdict(r, table) ==
  LET failed == \E s \in Sellers : table[<<r, s>>].status = "error"
      success == \E s \in Sellers : table[<<r, s>>].status = "success"
  IN  IF ~failed THEN "success"
      ELSE IF ~success THEN "error" ELSE "partial_success"

\* Mutant of Finalized: a running job does not keep its run open.
FinalizedOverRunning(r, runs, table) ==
  IF \E s \in Sellers : table[<<r, s>>].status = "queued" THEN runs
  ELSE [runs EXCEPT ![r].status = Verdict(r, table)]

\* finalize_run: the run closes once no job of it is queued or running.
Finalized(r, runs, table) ==
  IF \E s \in Sellers : Pending(<<r, s>>, table) THEN runs
  ELSE [runs EXCEPT ![r].status = Verdict(r, table)]

\* mark_job_running, for a job the caller found queued.
Claimed(j) ==
  [job EXCEPT ![j].status = "running", ![j].attempts = @ + 1,
              ![j].next = "none", ![j].lease = "held"]

\* Mutant of RunStarted: without the condition on the run's status.
RunRestarted(r) == [run EXCEPT ![r].status = "running"]

\* mark_run_running.
RunStarted(r) ==
  IF run[r].status = "queued" THEN [run EXCEPT ![r].status = "running"] ELSE run

CompleteJob(j) ==
  IF job[j].status = "running"
  THEN [job EXCEPT ![j].status = "success", ![j].next = "none", ![j].lease = "none"]
  ELSE job

FailJob(j) ==
  IF Pending(j, job)
  THEN [job EXCEPT ![j].status = "error", ![j].next = "none", ![j].lease = "none"]
  ELSE job

\* reschedule_job and, once attempts ran out, fail_job.  The update has no
\* condition on the status the job has by now.
RescheduleJob(j) ==
  IF job[j].attempts >= MaxAttempts THEN FailJob(j)
  ELSE [job EXCEPT ![j].status = "queued", ![j].next = "later", ![j].lease = "none"]
-----------------------------------------------------------------------------
\* ReviewSyncService.request, by the API or by the scheduler.

\* Mutant of ActiveRuns: a run whose jobs nobody has begun does not count.
RunningRuns == {r \in RunIds : run[r].status = "running"}

ActiveRuns == {r \in RunIds : run[r].status \in ActiveStatuses}
Enrolled == {s \in tracked : registry[s] = "active"}

\* run_for_date: a run that ended in error does not cover its date.
RunForDate(day) ==
  \E r \in RunIds : run[r].day = day /\ run[r].status \notin {"absent", "error"}

Request(trigger, r) ==
  /\ ~reaping                        \* pg_advisory_xact_lock
  /\ ActiveRuns = {}
  /\ trigger = "scheduled" => ~RunForDate(today)
  /\ run[r].status = "absent"
  /\ \A q \in RunIds : q < r => run[q].status # "absent"
  /\ run' = [run EXCEPT ![r] =
               [status |-> IF Enrolled = {} THEN "success" ELSE "queued",
                trigger |-> trigger, day |-> today, old |-> FALSE]]
  /\ job' = [j \in Jobs |-> IF j[1] = r /\ j[2] \in Enrolled
                            THEN [NoJob EXCEPT !.status = "queued"] ELSE job[j]]
  /\ published' = [j \in Jobs |-> IF j[1] = r /\ j[2] \in Enrolled
                                  THEN published[j] + 1 ELSE published[j]]
  /\ UNCHANGED <<inbox, worker, reaperVars, sellerVars, counts, today>>
-----------------------------------------------------------------------------
\* run_maintenance: the reaper's transaction under the run-creation lock.

\* expire_leases reads its rows without locking them.
ReapRead ==
  /\ ~reaping
  /\ reaping' = TRUE
  /\ expired' = {<<j, job[j].attempts>> :
                  j \in {i \in Jobs : job[i].status = "running" /\ job[i].lease = "over"}}
  /\ UNCHANGED <<runVars, inbox, worker, sellerVars, counts, today>>

\* Mutant of AfterExpiry: the job goes back to the queue without next_attempt_at.
AfterExpiryNoRetry ==
  [j \in Jobs |->
     IF \E p \in expired : p[1] = j /\ p[2] >= MaxAttempts
     THEN [job[j] EXCEPT !.status = "error", !.lease = "none"]
     ELSE IF \E p \in expired : p[1] = j
     THEN [job[j] EXCEPT !.status = "queued", !.lease = "none"]
     ELSE job[j]]

\* The rows expire_leases read, written back by primary key.
AfterExpiry ==
  [j \in Jobs |->
     IF \E p \in expired : p[1] = j /\ p[2] >= MaxAttempts
     THEN [job[j] EXCEPT !.status = "error", !.lease = "none"]
     ELSE IF \E p \in expired : p[1] = j
     THEN [job[j] EXCEPT !.status = "queued", !.next = "now", !.lease = "none"]
     ELSE job[j]]

\* Mutants of Due: without the condition on next_attempt_at; only in active runs.
EveryQueued == {j \in Jobs : AfterExpiry[j].status = "queued"}
DueInActiveRuns == {j \in Jobs : /\ AfterExpiry[j].status = "queued"
                                 /\ AfterExpiry[j].next = "now"
                                 /\ j[1] \in ActiveRuns}

\* claim_due_jobs.
Due == {j \in Jobs : AfterExpiry[j].status = "queued" /\ AfterExpiry[j].next = "now"}

\* Mutant of Abandoned: only runs that never started.
AbandonedQueued == {r \in ActiveRuns : run[r].old /\ run[r].status = "queued"}

\* abandon_stale_runs.
Abandoned == {r \in ActiveRuns : run[r].old}

AfterReap ==
  [j \in Jobs |->
     IF j[1] \in Abandoned /\ Pending(j, AfterExpiry)
     THEN [AfterExpiry[j] EXCEPT !.status = "error", !.next = "none", !.lease = "none"]
     ELSE IF j \in Due THEN [AfterExpiry[j] EXCEPT !.next = "none"]
     ELSE AfterExpiry[j]]

\* finalize_run for every abandoned run: none of its jobs is pending any more.
RunsAfterReap ==
  [r \in RunIds |-> IF r \in Abandoned
                    THEN [run[r] EXCEPT !.status = Verdict(r, AfterReap)] ELSE run[r]]

ReapWrite ==
  /\ reaping
  /\ job' = AfterReap
  /\ run' = RunsAfterReap
  /\ published' = [j \in Jobs |-> IF j \in Due THEN published[j] + 1 ELSE published[j]]
  /\ reaping' = FALSE
  /\ expired' = {}
  /\ UNCHANGED <<inbox, worker, sellerVars, counts, today>>
-----------------------------------------------------------------------------
\* ReviewSyncConsumer.process, first transaction, for event number n of job j.
\* An event that is already in the inbox returns at once and changes nothing.

Delivered(w, j, n) ==
  /\ worker[w] = Idle
  /\ n \in 1..published[j]
  /\ <<j, n>> \notin inbox

\* The job is closed, or another worker runs it: the event is only ticked off.
SkipEvent(w, j, n) ==
  /\ Delivered(w, j, n)
  /\ \/ job[j].status \in {"success", "error"}
     \/ job[j].status = "running" /\ registry[j[2]] = "active"
  /\ inbox' = inbox \cup {<<j, n>>}
  /\ UNCHANGED <<runVars, worker, reaperVars, sellerVars, counts, today>>

\* The seller was archived or deleted before the job started.
FailForGoneSeller(w, j, n) ==
  /\ Delivered(w, j, n)
  /\ Pending(j, job)
  /\ registry[j[2]] # "active"
  /\ job' = FailJob(j)
  /\ run' = Finalized(j[1], run, FailJob(j))
  /\ inbox' = inbox \cup {<<j, n>>}
  /\ UNCHANGED <<published, worker, reaperVars, sellerVars, counts, today>>

\* mark_job_running and mark_run_running; the scan starts after the commit.
ClaimJob(w, j, n) ==
  /\ Delivered(w, j, n)
  /\ job[j].status = "queued"
  /\ registry[j[2]] = "active"
  /\ job' = Claimed(j)
  /\ run' = RunStarted(j[1])
  /\ worker' = [worker EXCEPT ![w] = [pc |-> "scanning", event |-> <<j, n>>, saw |-> "none"]]
  /\ UNCHANGED <<published, inbox, reaperVars, sellerVars, counts, today>>
-----------------------------------------------------------------------------
\* ReviewSyncConsumer.process, after the scan.

\* The transaction that closes the attempt: jobs become `table`, the run is
\* finalized, the event goes to the inbox.
CloseAttempt(w, table) ==
  LET e == worker[w].event IN
  /\ e \notin inbox
  /\ job' = table
  /\ run' = Finalized(e[1][1], run, table)
  /\ inbox' = inbox \cup {e}
  /\ worker' = [worker EXCEPT ![w] = Idle]
  /\ UNCHANGED <<published, reaperVars, sellerVars, today>>

\* WBFeedbackPermanentError.
ScanFailed(w) ==
  /\ worker[w].pc = "scanning"
  /\ CloseAttempt(w, FailJob(worker[w].event[1]))
  /\ UNCHANGED counts

\* WBFeedbackTemporaryError.
ScanThrottled(w) ==
  /\ worker[w].pc = "scanning"
  /\ CloseAttempt(w, RescheduleJob(worker[w].event[1]))
  /\ UNCHANGED counts

\* Mutant of ScanOk: the seller is not looked up.
ScanUnverified(w) ==
  /\ worker[w].pc = "scanning"
  /\ worker' = [worker EXCEPT ![w].pc = "writing"]
  /\ UNCHANGED <<runVars, inbox, reaperVars, sellerVars, counts, today>>

\* The scan succeeded: the second transaction looks the seller up, unlocked.
ScanOk(w) ==
  /\ worker[w].pc = "scanning"
  /\ LET s == worker[w].event[1][2] IN
     worker' = [worker EXCEPT
       ![w].pc = "writing",
       ![w].saw = IF registry[s] = "gone" THEN "gone"
                  ELSE IF s \notin tracked THEN "detached" ELSE "tracked"]
  /\ UNCHANGED <<runVars, inbox, reaperVars, sellerVars, counts, today>>

\* ... and acts on what it saw.
WriteCounts(w) ==
  /\ worker[w].pc = "writing"
  /\ LET j == worker[w].event[1] IN
     /\ CloseAttempt(w, IF worker[w].saw = "gone" THEN FailJob(j) ELSE CompleteJob(j))
     /\ counts' = IF worker[w].saw = "tracked"
                  THEN counts \cup {<<j[2], run[j[1]].day>>} ELSE counts

\* The transaction fails: the event is in the inbox already (primary key), or
\* the seller's row went away and an article has no one to refer to (foreign
\* key).  The offset is not committed and the event comes again.
AbortAttempt(w) ==
  /\ \/ worker[w] # Idle /\ worker[w].event \in inbox
     \/ worker[w].pc = "writing" /\ registry[worker[w].event[1][2]] = "gone"
  /\ worker' = [worker EXCEPT ![w] = Idle]
  /\ UNCHANGED <<runVars, inbox, reaperVars, sellerVars, counts, today>>

\* The process dies: its uncommitted work and its place in Kafka are lost.
Crash(w) ==
  /\ worker[w] # Idle
  /\ worker' = [worker EXCEPT ![w] = Idle]
  /\ UNCHANGED <<runVars, inbox, reaperVars, sellerVars, counts, today>>
-----------------------------------------------------------------------------
\* The seller registry and the automation's membership (SellerService).

Enroll(s) ==
  /\ registry[s] = "active" /\ s \notin tracked
  /\ tracked' = tracked \cup {s}
  /\ UNCHANGED <<runVars, inbox, worker, reaperVars, registry, counts, today>>

Unenroll(s) ==
  /\ registry[s] # "gone" /\ s \in tracked
  /\ tracked' = tracked \ {s}
  /\ UNCHANGED <<runVars, inbox, worker, reaperVars, registry, counts, today>>

Archive(s) ==
  /\ registry[s] = "active"
  /\ registry' = [registry EXCEPT ![s] = "archived"]
  /\ UNCHANGED <<runVars, inbox, worker, reaperVars, tracked, counts, today>>

Restore(s) ==
  /\ registry[s] = "archived"
  /\ registry' = [registry EXCEPT ![s] = "active"]
  /\ UNCHANGED <<runVars, inbox, worker, reaperVars, tracked, counts, today>>

Purge(s) ==
  /\ registry[s] # "gone"
  /\ registry' = [registry EXCEPT ![s] = "gone"]
  /\ tracked' = tracked \ {s}
  /\ counts' = {c \in counts : c[1] # s}
  /\ UNCHANGED <<runVars, inbox, worker, reaperVars, today>>
-----------------------------------------------------------------------------
\* Time, as the queries see it.

LeaseRunsOut(j) ==
  /\ job[j].status = "running" /\ job[j].lease = "held"
  /\ job' = [job EXCEPT ![j].lease = "over"]
  /\ UNCHANGED <<run, published, inbox, worker, reaperVars, sellerVars, counts, today>>

BackoffElapses(j) ==
  /\ job[j].status = "queued" /\ job[j].next = "later"
  /\ job' = [job EXCEPT ![j].next = "now"]
  /\ UNCHANGED <<run, published, inbox, worker, reaperVars, sellerVars, counts, today>>

RunGrowsOld(r) ==
  /\ r \in ActiveRuns /\ ~run[r].old
  /\ run' = [run EXCEPT ![r].old = TRUE]
  /\ UNCHANGED <<job, published, inbox, worker, reaperVars, sellerVars, counts, today>>

NextDay ==
  /\ today < LastDay
  /\ today' = today + 1
  /\ UNCHANGED <<runVars, inbox, worker, reaperVars, sellerVars, counts>>

Clock ==
  \/ \E j \in Jobs : LeaseRunsOut(j) \/ BackoffElapses(j)
  \/ \E r \in RunIds : RunGrowsOld(r)
  \/ NextDay

Consume(w) ==
  \E j \in Jobs : \E n \in 1..published[j] :
    SkipEvent(w, j, n) \/ FailForGoneSeller(w, j, n) \/ ClaimJob(w, j, n)

FinishScan(w) ==
  ScanFailed(w) \/ ScanThrottled(w) \/ ScanOk(w) \/ WriteCounts(w) \/ AbortAttempt(w)

Registry(s) == Enroll(s) \/ Unenroll(s) \/ Archive(s) \/ Restore(s) \/ Purge(s)

Next ==
  \/ \E t \in Triggers, r \in RunIds : Request(t, r)
  \/ ReapRead
  \/ ReapWrite
  \/ \E w \in Workers : Consume(w) \/ FinishScan(w) \/ Crash(w)
  \/ \E s \in Sellers : Registry(s)
  \/ Clock

Spec == Init /\ [][Next]_vars

\* The worker polls on a timer, a scan ends (the HTTP client has timeouts), Kafka
\* delivers, and time passes.  Nobody is obliged to press a button or to crash.
Fairness ==
  /\ WF_vars(ReapRead) /\ WF_vars(ReapWrite)
  /\ WF_vars(\E w \in Workers : Consume(w))
  /\ \A w \in Workers : WF_vars(FinishScan(w))
  /\ \A j \in Jobs : WF_vars(LeaseRunsOut(j)) /\ WF_vars(BackoffElapses(j))
  /\ \A r \in RunIds : WF_vars(RunGrowsOld(r))

FairSpec == Spec /\ Fairness
-----------------------------------------------------------------------------
\* Two runs are never active together, whoever asks for them: the API, the
\* scheduler, or both while the reaper is at work (request, lock_run_creation).
AtMostOneActiveRun == \A q, r \in ActiveRuns : q = r

\* A job that waits in the queue with no retry planned always has an event left
\* that some consumer will still handle; were it in the inbox, nothing would
\* ever move the job again until its run is thrown away.
Fresh(j, n) ==
  /\ <<j, n>> \notin inbox
  /\ \A w \in Workers : worker[w] # Idle => worker[w].event # <<j, n>>

NoStrandedJob ==
  \A j \in Jobs : job[j].status = "queued" /\ job[j].next = "none"
    => \E n \in 1..published[j] : Fresh(j, n)

\* "keeps redelivery bounded instead of blocking the partition" (_finish): a
\* job is dispatched once, and again at most twice for each attempt: once by the
\* worker that puts it back, once by the reaper.  Attempts end too, one later than
\* job_max_attempts says: the reaper may put back the job of a lease it read before
\* the last attempt began (expire_leases, reschedule_job).
BoundedRedelivery == \A j \in Jobs :
  /\ published[j] <= 2 * job[j].attempts + 1
  /\ job[j].attempts <= MaxAttempts + 1

\* A closed run never becomes active again, not even when a late worker puts a
\* job of it back in the queue and the reaper dispatches it (mark_run_running).
ClosedRunNeverReopens ==
  [][\A r \in RunIds : run[r].status \in ClosedStatuses
       => run'[r].status \notin ActiveStatuses]_vars

\* The step that closes a run leaves no job of it queued or running.
RunClosesResolved ==
  [][\A r \in ActiveRuns : run'[r].status \notin ActiveStatuses
       => \A s \in Sellers : ~Pending(<<r, s>>, job')]_vars

\* Every run ends, even when workers crash for ever: a run that stayed active
\* would keep request from ever starting another one.  With the other half of
\* ExclusiveRuns: only request makes a run, alone, and no step unmakes its end.
ClosedRuns == {r \in RunIds : run[r].status \in ClosedStatuses}
Turns == INSTANCE ExclusiveRuns WITH
  Runs <- RunIds, active <- ActiveRuns, closed <- ClosedRuns
RunsInTurn == Turns!Spec

\* Every job gets a verdict, one that a late worker revived in a closed run too.
EveryJobResolved == \A j \in Jobs : Pending(j, job) ~> ~Pending(j, job)

\* "a job in flight must not resurrect it": no counts of a purged seller.
PurgedStaysPurged == \A c \in counts : registry[c[1]] # "gone"
=============================================================================
