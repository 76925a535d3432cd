-------------------------- MODULE ReviewSyncProofs --------------------------
(***************************************************************************)
(* Proofs about ReviewSync for every set of sellers and workers and every  *)
(* bound: type correctness, mutual exclusion of runs, that closed runs     *)
(* stay closed and are resolved, that no queued job is left without an     *)
(* event, that redelivery is bounded, and that runs take turns as          *)
(* ExclusiveRuns says.                                                     *)
(***************************************************************************)
EXTENDS ReviewSync, FiniteSetTheorems, TLAPS

Table == [Jobs -> JobState]

\* Every helper that computes the next table of jobs returns one.
LEMMA TablesTyped ==
  ASSUME TypeOK, NEW j \in Jobs
  PROVE  /\ FailJob(j) \in Table
         /\ CompleteJob(j) \in Table
         /\ RescheduleJob(j) \in Table
         /\ Claimed(j) \in Table
<1> USE DEF Table
<1>1. job \in [Jobs -> JobState] /\ job[j] \in JobState
  BY DEF TypeOK
<1>2. job[j].attempts + 1 \in Nat
  BY <1>1 DEF JobState
<1>3. FailJob(j) \in Table
  BY <1>1 DEF FailJob, JobState
<1>4. CompleteJob(j) \in Table
  BY <1>1 DEF CompleteJob, JobState
<1>5. RescheduleJob(j) \in Table
  BY <1>1, <1>3 DEF RescheduleJob, JobState
<1>6. Claimed(j) \in Table
  BY <1>1, <1>2 DEF Claimed, JobState
<1> QED BY <1>3, <1>4, <1>5, <1>6

\* finalize_run leaves a table of runs, whatever the table of jobs.
LEMMA FinalizedTyped ==
  ASSUME run \in [RunIds -> RunState], NEW r \in RunIds, NEW table
  PROVE  Finalized(r, run, table) \in [RunIds -> RunState]
<1>1. Verdict(r, table) \in ClosedStatuses
  BY DEF Verdict, ClosedStatuses
<1>2. run[r] \in RunState
  OBVIOUS
<1> QED BY <1>1, <1>2 DEF Finalized, RunState

\* The reaper's transaction writes tables of jobs and of runs.
LEMMA ReapTyped ==
  ASSUME TypeOK
  PROVE  AfterExpiry \in Table /\ AfterReap \in Table
         /\ RunsAfterReap \in [RunIds -> RunState]
<1> USE DEF Table
<1>1. job \in [Jobs -> JobState] /\ run \in [RunIds -> RunState]
  BY DEF TypeOK
<1>2. AfterExpiry \in Table
  BY <1>1 DEF AfterExpiry, JobState
<1>3. AfterReap \in Table
  BY <1>2 DEF AfterReap, JobState
<1>4. \A r \in RunIds : Verdict(r, AfterReap) \in ClosedStatuses
  BY DEF Verdict, ClosedStatuses
<1>5. RunsAfterReap \in [RunIds -> RunState]
  BY <1>1, <1>4 DEF RunsAfterReap, RunState
<1> QED BY <1>2, <1>3, <1>5

\* CloseAttempt on a typed table keeps the types of what it writes.
LEMMA CloseAttemptTyped ==
  ASSUME TypeOK, NEW w \in Workers, NEW table \in Table,
         worker[w] # Idle, CloseAttempt(w, table)
  PROVE  /\ run' \in [RunIds -> RunState]
         /\ job' \in [Jobs -> JobState]
         /\ inbox' \subseteq Event
         /\ worker' \in [Workers -> WorkerState]
         /\ UNCHANGED <<published, reaping, expired, registry, tracked, today>>
<1> DEFINE e == worker[w].event
<1>1. e \in Event
  BY DEF TypeOK, WorkerState
<1>2. e[1] \in Jobs /\ e[1][1] \in RunIds
  BY <1>1 DEF Event, Jobs
<1>3. run' \in [RunIds -> RunState]
  BY <1>2, FinalizedTyped DEF CloseAttempt, TypeOK
<1>4. job' \in [Jobs -> JobState]
  BY DEF CloseAttempt, Table
<1>5. inbox' \subseteq Event
  BY <1>1 DEF CloseAttempt, TypeOK
<1>6. worker' \in [Workers -> WorkerState]
  BY DEF CloseAttempt, TypeOK, WorkerState
<1> QED BY <1>3, <1>4, <1>5, <1>6 DEF CloseAttempt, reaperVars, sellerVars

\* What a busy worker holds is an event of a job.
LEMMA HeldEventTyped ==
  ASSUME TypeOK, NEW w \in Workers, worker[w] # Idle
  PROVE  /\ worker[w].pc \in {"scanning", "writing"}
         /\ worker[w].event \in Event
         /\ worker[w].event[1] \in Jobs
         /\ worker[w].event[1][1] \in RunIds
         /\ worker[w].event[1][2] \in Sellers
<1>1. worker[w] \in WorkerState \ {Idle}
  BY DEF TypeOK
<1> QED BY <1>1 DEF WorkerState, Event, Jobs

\* The first migration leaves empty tables, the workers are idle.
LEMMA InitTyped == Init => TypeOK
<1> SUFFICES ASSUME Init PROVE TypeOK
  OBVIOUS
<1>1. run \in [RunIds -> RunState]
  BY BoundsAssumption DEF Init, RunState, NoRun, Triggers, Days
<1>2. job \in [Jobs -> JobState] /\ published \in [Jobs -> Nat]
  BY DEF Init, NoJob, JobState
<1>3. worker \in [Workers -> WorkerState]
  BY DEF Init, WorkerState
<1>4. today \in Days
  BY BoundsAssumption DEF Init, Days
<1> QED BY <1>1, <1>2, <1>3, <1>4 DEF Init, TypeOK

\* request writes well-typed rows.
LEMMA RequestTyped ==
  ASSUME TypeOK, NEW t \in Triggers, NEW r \in RunIds, Request(t, r)
  PROVE  TypeOK'
<1>1. run' \in [RunIds -> RunState]
  BY DEF Request, TypeOK, RunState, ActiveStatuses, ClosedStatuses
<1>2. job' \in [Jobs -> JobState]
  BY DEF Request, TypeOK, JobState, NoJob
<1>3. published' \in [Jobs -> Nat]
  BY DEF Request, TypeOK
<1> QED BY <1>1, <1>2, <1>3 DEF Request, TypeOK, reaperVars, sellerVars

\* So do the three outcomes of an event's first transaction.
LEMMA ConsumeTyped ==
  ASSUME TypeOK, NEW w \in Workers, Consume(w)
  PROVE  TypeOK'
<1> PICK j \in Jobs : \E n \in 1..published[j] :
      SkipEvent(w, j, n) \/ FailForGoneSeller(w, j, n) \/ ClaimJob(w, j, n)
  BY DEF Consume
<1> PICK n \in 1..published[j] :
      SkipEvent(w, j, n) \/ FailForGoneSeller(w, j, n) \/ ClaimJob(w, j, n)
  OBVIOUS
<1>1. <<j, n>> \in Event /\ j[1] \in RunIds
  BY DEF Event, TypeOK, Jobs
<1>2. CASE SkipEvent(w, j, n)
  BY <1>1, <1>2 DEF SkipEvent, TypeOK, runVars, reaperVars, sellerVars
<1>3. CASE FailForGoneSeller(w, j, n)
  <2>1. job' \in [Jobs -> JobState]
    BY <1>3, TablesTyped DEF FailForGoneSeller, Table
  <2>2. run' \in [RunIds -> RunState]
    BY <1>1, <1>3, FinalizedTyped DEF FailForGoneSeller, TypeOK
  <2> QED BY <1>1, <1>3, <2>1, <2>2 DEF FailForGoneSeller, TypeOK, reaperVars, sellerVars
<1>4. CASE ClaimJob(w, j, n)
  <2>1. job' \in [Jobs -> JobState]
    BY <1>4, TablesTyped DEF ClaimJob, Table
  <2>2. run' \in [RunIds -> RunState]
    BY <1>1, <1>4 DEF ClaimJob, RunStarted, TypeOK, RunState, ActiveStatuses
  <2>3. [pc |-> "scanning", event |-> <<j, n>>, saw |-> "none"] \in WorkerState
    BY <1>1 DEF WorkerState
  <2>4. worker' \in [Workers -> WorkerState]
    BY <1>4, <2>3 DEF ClaimJob, TypeOK
  <2> QED BY <1>4, <2>1, <2>2, <2>4 DEF ClaimJob, TypeOK, reaperVars, sellerVars
<1> QED BY <1>2, <1>3, <1>4

\* And the steps after a scan.
LEMMA FinishTyped ==
  ASSUME TypeOK, NEW w \in Workers, FinishScan(w)
  PROVE  TypeOK'
<1> DEFINE j == worker[w].event[1]
<1>1. worker[w] # Idle
  BY DEF FinishScan, ScanFailed, ScanThrottled, ScanOk, WriteCounts, AbortAttempt, Idle
<1>2. j \in Jobs /\ j[1] \in RunIds /\ j[2] \in Sellers
  BY <1>1, HeldEventTyped
<1>3. CASE ScanFailed(w)
  <2>1. CloseAttempt(w, FailJob(j)) /\ UNCHANGED counts
    BY <1>3 DEF ScanFailed
  <2> QED BY <1>1, <1>2, <2>1, TablesTyped, CloseAttemptTyped DEF TypeOK
<1>4. CASE ScanThrottled(w)
  <2>1. CloseAttempt(w, RescheduleJob(j)) /\ UNCHANGED counts
    BY <1>4 DEF ScanThrottled
  <2> QED BY <1>1, <1>2, <2>1, TablesTyped, CloseAttemptTyped DEF TypeOK
<1>5. CASE ScanOk(w)
  <2>1. worker[w] \in [pc : {"scanning"}, event : Event, saw : {"none"}]
    BY <1>5 DEF ScanOk, TypeOK, WorkerState, Idle
  <2>2. worker'[w] \in [pc : {"writing"}, event : Event, saw : {"gone", "detached", "tracked"}]
    BY <1>5, <2>1 DEF ScanOk, TypeOK
  <2>3. worker' \in [Workers -> WorkerState]
    BY <1>5, <2>2 DEF ScanOk, TypeOK, WorkerState
  <2> QED BY <1>5, <2>3 DEF ScanOk, TypeOK, runVars, reaperVars, sellerVars
<1>6. CASE WriteCounts(w)
  <2> DEFINE table == IF worker[w].saw = "gone" THEN FailJob(j) ELSE CompleteJob(j)
  <2>1. CloseAttempt(w, table)
    BY <1>6 DEF WriteCounts
  <2>2. table \in Table
    BY <1>2, TablesTyped
  <2>3. run[j[1]].day \in Days
    BY <1>2 DEF TypeOK, RunState
  <2>4. counts' \subseteq Sellers \X Days
    BY <1>2, <1>6, <2>3 DEF WriteCounts, TypeOK
  <2> QED BY <1>1, <2>1, <2>2, <2>4, CloseAttemptTyped DEF TypeOK
<1>7. CASE AbortAttempt(w)
  BY <1>7 DEF AbortAttempt, TypeOK, WorkerState, runVars, reaperVars, sellerVars
<1> QED BY <1>3, <1>4, <1>5, <1>6, <1>7 DEF FinishScan

\* Every step keeps the types.
LEMMA NextTyped == TypeOK /\ [Next]_vars => TypeOK'
<1> SUFFICES ASSUME TypeOK, [Next]_vars PROVE TypeOK'
  OBVIOUS
<1>1. CASE \E t \in Triggers, r \in RunIds : Request(t, r)
  BY <1>1, RequestTyped
<1>2. CASE ReapRead
  <2>1. expired' \subseteq Jobs \X Nat
    BY <1>2 DEF ReapRead, TypeOK, JobState
  <2> QED BY <1>2, <2>1 DEF ReapRead, TypeOK, runVars, sellerVars
<1>3. CASE ReapWrite
  <2>1. job' \in [Jobs -> JobState] /\ run' \in [RunIds -> RunState]
    BY <1>3, ReapTyped DEF ReapWrite, Table
  <2>2. published' \in [Jobs -> Nat]
    BY <1>3 DEF ReapWrite, TypeOK
  <2> QED BY <1>3, <2>1, <2>2 DEF ReapWrite, TypeOK, sellerVars
<1>4. CASE \E w \in Workers : Consume(w)
  BY <1>4, ConsumeTyped
<1>5. CASE \E w \in Workers : FinishScan(w)
  BY <1>5, FinishTyped
<1>6. CASE \E w \in Workers : Crash(w)
  BY <1>6 DEF Crash, TypeOK, WorkerState, runVars, reaperVars, sellerVars
<1>7. CASE \E s \in Sellers : Registry(s)
  BY <1>7 DEF Registry, Enroll, Unenroll, Archive, Restore, Purge, TypeOK, runVars, reaperVars
<1>8. CASE Clock
  <2>1. CASE \E j \in Jobs : LeaseRunsOut(j) \/ BackoffElapses(j)
    BY <2>1 DEF LeaseRunsOut, BackoffElapses, TypeOK, JobState, reaperVars, sellerVars
  <2>2. CASE \E r \in RunIds : RunGrowsOld(r)
    <3>1. /\ \E r \in RunIds : run' = [run EXCEPT ![r].old = TRUE]
          /\ UNCHANGED <<job, published, inbox, worker, reaping, expired, registry, tracked,
                         counts, today>>
      BY <2>2 DEF RunGrowsOld, reaperVars, sellerVars
    <3>2. run' \in [RunIds -> RunState]
      BY <3>1 DEF TypeOK, RunState
    <3> QED BY <3>1, <3>2 DEF TypeOK
  <2>3. CASE NextDay
    BY <2>3, BoundsAssumption DEF NextDay, TypeOK, Days, runVars, reaperVars, sellerVars
  <2> QED BY <1>8, <2>1, <2>2, <2>3 DEF Clock
<1>9. CASE UNCHANGED vars
  BY <1>9 DEF vars, TypeOK
<1> QED BY <1>1, <1>2, <1>3, <1>4, <1>5, <1>6, <1>7, <1>8, <1>9 DEF Next

\* The tables and the workers' local state keep their types in every behaviour.
THEOREM TypeCorrect == Spec => []TypeOK
<1> QED BY InitTyped, NextTyped, PTL DEF Spec
-----------------------------------------------------------------------------
\* No two active runs.

\* finalize_run never makes a closed run active.
LEMMA FinalizedActivatesNone ==
  ASSUME run \in [RunIds -> RunState], NEW r \in RunIds, NEW table, NEW q \in RunIds,
         Finalized(r, run, table)[q].status \in ActiveStatuses
  PROVE  run[q].status \in ActiveStatuses
<1>1. Verdict(r, table) \notin ActiveStatuses
  BY DEF Verdict, ActiveStatuses
<1>2. run[q] \in RunState /\ run[r] \in RunState
  OBVIOUS
<1> QED BY <1>1, <1>2 DEF Finalized, RunState

\* Only request makes a run active; the active runs of any other step were so.
LEMMA OnlyRequestActivates ==
  ASSUME TypeOK, [Next]_vars, ~(\E t \in Triggers, r \in RunIds : Request(t, r))
  PROVE  ActiveRuns' \subseteq ActiveRuns
<1> SUFFICES ASSUME NEW q \in RunIds, run'[q].status \in ActiveStatuses
             PROVE  run[q].status \in ActiveStatuses
  BY DEF ActiveRuns
<1>1. run \in [RunIds -> RunState]
  BY DEF TypeOK
<1>2. ASSUME NEW w \in Workers, NEW table, worker[w] # Idle, CloseAttempt(w, table)
      PROVE  run[q].status \in ActiveStatuses
  BY <1>1, <1>2, HeldEventTyped, FinalizedActivatesNone DEF CloseAttempt
<1>3. CASE ReapWrite
  <2>1. \A r \in RunIds : Verdict(r, AfterReap) \notin ActiveStatuses
    BY DEF Verdict, ActiveStatuses
  <2> QED BY <1>1, <1>3, <2>1 DEF ReapWrite, RunsAfterReap, RunState
<1>4. CASE \E w \in Workers : Consume(w)
  <2> PICK w \in Workers, j \in Jobs : \E n \in 1..published[j] :
        SkipEvent(w, j, n) \/ FailForGoneSeller(w, j, n) \/ ClaimJob(w, j, n)
    BY <1>4 DEF Consume
  <2>1. j[1] \in RunIds
    BY DEF Jobs
  <2>2. CASE \E n \in 1..published[j] : SkipEvent(w, j, n)
    BY <2>2 DEF SkipEvent, runVars
  <2>3. CASE \E n \in 1..published[j] : FailForGoneSeller(w, j, n)
    BY <1>1, <2>1, <2>3, FinalizedActivatesNone DEF FailForGoneSeller
  <2>4. CASE \E n \in 1..published[j] : ClaimJob(w, j, n)
    BY <1>1, <2>1, <2>4 DEF ClaimJob, RunStarted, RunState, ActiveStatuses
  <2> QED BY <2>2, <2>3, <2>4
<1>5. CASE \E w \in Workers : FinishScan(w)
  <2> PICK w \in Workers : FinishScan(w)
    BY <1>5
  <2>1. CASE ScanFailed(w)
    BY <1>2, <2>1 DEF ScanFailed, Idle
  <2>2. CASE ScanThrottled(w)
    BY <1>2, <2>2 DEF ScanThrottled, Idle
  <2>3. CASE WriteCounts(w)
    BY <1>2, <2>3 DEF WriteCounts, Idle
  <2>4. CASE ScanOk(w) \/ AbortAttempt(w)
    BY <2>4 DEF ScanOk, AbortAttempt, runVars
  <2> QED BY <2>1, <2>2, <2>3, <2>4 DEF FinishScan
<1>6. CASE \E w \in Workers : Crash(w)
  BY <1>6 DEF Crash, runVars
<1>7. CASE ReapRead
  BY <1>7 DEF ReapRead, runVars
<1>8. CASE \E s \in Sellers : Registry(s)
  BY <1>8 DEF Registry, Enroll, Unenroll, Archive, Restore, Purge, runVars
<1>9. CASE Clock
  BY <1>1, <1>9 DEF Clock, LeaseRunsOut, BackoffElapses, RunGrowsOld, NextDay, ActiveRuns,
                    RunState, runVars
<1>10. CASE UNCHANGED vars
  BY <1>10 DEF vars
<1> QED BY <1>3, <1>4, <1>5, <1>6, <1>7, <1>8, <1>9, <1>10 DEF Next

\* The advisory lock and the look for an active run inside it keep runs apart.
THEOREM RunsExclusive == Spec => []AtMostOneActiveRun
<1>1. Init => AtMostOneActiveRun
  BY DEF Init, NoRun, AtMostOneActiveRun, ActiveRuns, ActiveStatuses
<1>2. TypeOK /\ AtMostOneActiveRun /\ [Next]_vars => AtMostOneActiveRun'
  <2> SUFFICES ASSUME TypeOK, AtMostOneActiveRun, [Next]_vars
               PROVE  AtMostOneActiveRun'
    OBVIOUS
  <2>1. CASE \E t \in Triggers, r \in RunIds : Request(t, r)
    <3> PICK t \in Triggers, r \in RunIds : Request(t, r)
      BY <2>1
    <3>1. \A q \in RunIds : q # r => run'[q] = run[q]
      BY DEF Request, TypeOK
    <3>2. ActiveRuns' \subseteq {r}
      BY <3>1 DEF Request, ActiveRuns
    <3> QED BY <3>2 DEF AtMostOneActiveRun
  <2>2. CASE ~(\E t \in Triggers, r \in RunIds : Request(t, r))
    BY <2>2, OnlyRequestActivates DEF AtMostOneActiveRun
  <2> QED BY <2>1, <2>2
<1> QED BY <1>1, <1>2, TypeCorrect, PTL DEF Spec

\* A late worker may bring a job of a closed run back to life; the run stays closed.
THEOREM ClosedRunsStayClosed == Spec => ClosedRunNeverReopens
<1>1. TypeOK /\ [Next]_vars => [\A r \in RunIds : run[r].status \in ClosedStatuses
                                  => run'[r].status \notin ActiveStatuses]_vars
  <2> SUFFICES ASSUME TypeOK, [Next]_vars,
                      NEW q \in RunIds, run[q].status \in ClosedStatuses
               PROVE  run'[q].status \notin ActiveStatuses
    OBVIOUS
  <2>1. run[q].status \notin ActiveStatuses \cup {"absent"}
    BY DEF ClosedStatuses, ActiveStatuses
  <2>2. CASE \E t \in Triggers, r \in RunIds : Request(t, r)
    <3> PICK t \in Triggers, r \in RunIds : Request(t, r)
      BY <2>2
    <3>1. q # r
      BY <2>1 DEF Request
    <3>2. run'[q] = run[q]
      BY <3>1 DEF Request, TypeOK
    <3> QED BY <2>1, <3>2
  <2>3. CASE ~(\E t \in Triggers, r \in RunIds : Request(t, r))
    BY <2>1, <2>3, OnlyRequestActivates DEF ActiveRuns
  <2> QED BY <2>2, <2>3
<1> QED BY <1>1, TypeCorrect, PTL DEF Spec, ClosedRunNeverReopens
-----------------------------------------------------------------------------
\* No queued job without an event.

\* The strengthening: event numbers in the inbox or in a worker's hands have been
\* published, so the next number is always a new one.
EventsPublished ==
  /\ \A e \in inbox : e[2] <= published[e[1]]
  /\ \A w \in Workers : worker[w] # Idle
       => worker[w].event[2] <= published[worker[w].event[1]]

IInv == TypeOK /\ EventsPublished /\ NoStrandedJob

\* A number just published is fresh.
LEMMA NextEventFresh ==
  ASSUME TypeOK, EventsPublished, NEW j \in Jobs
  PROVE  Fresh(j, published[j] + 1)
<1>1. published[j] \in Nat
  BY DEF TypeOK
<1>2. <<j, published[j] + 1>> \notin inbox
  BY <1>1 DEF EventsPublished
<1>3. \A w \in Workers : worker[w] # Idle => worker[w].event # <<j, published[j] + 1>>
  BY <1>1 DEF EventsPublished
<1> QED BY <1>2, <1>3 DEF Fresh

\* An event some queue has published.
Sent(e) == e \in Event /\ e[2] <= published[e[1]]

\* What keeps the strengthening: numbers only grow, and an event newly handled or
\* newly held had been published.
LEMMA EventsPublishedKept ==
  ASSUME TypeOK, EventsPublished,
         published' \in [Jobs -> Nat],
         \A i \in Jobs : published'[i] >= published[i],
         \A e \in inbox' : e \in inbox \/ Sent(e),
         \A w \in Workers : worker'[w] # Idle =>
            \/ worker[w] # Idle /\ worker'[w].event = worker[w].event
            \/ Sent(worker'[w].event)
  PROVE  EventsPublished'
<1>1. \A w \in Workers : worker[w] # Idle => Sent(worker[w].event)
  BY HeldEventTyped DEF EventsPublished, Sent
<1>2. published \in [Jobs -> Nat] /\ inbox \subseteq Event
  BY DEF TypeOK
<1>3. \A e \in Event : e[2] <= published[e[1]] => e[2] <= published'[e[1]]
  BY <1>2 DEF Event
<1>4. \A e \in inbox' : e[2] <= published'[e[1]]
  BY <1>2, <1>3 DEF EventsPublished, Sent
<1>5. \A w \in Workers : worker'[w] # Idle
        => worker'[w].event[2] <= published'[worker'[w].event[1]]
  BY <1>1, <1>3 DEF Sent
<1> QED BY <1>4, <1>5 DEF EventsPublished

\* request: the new jobs have their first event, the others keep theirs.
LEMMA RequestStrandsNone ==
  ASSUME IInv, NEW t \in Triggers, NEW r \in RunIds, Request(t, r)
  PROVE  EventsPublished' /\ NoStrandedJob'
<1> USE DEF IInv
<1>1. UNCHANGED <<inbox, worker>> /\ published \in [Jobs -> Nat] /\ published' \in [Jobs -> Nat]
  BY DEF Request, TypeOK
<1>2. \A i \in Jobs : published'[i] >= published[i]
  BY <1>1 DEF Request
<1>3. EventsPublished'
  BY <1>1, <1>2, EventsPublishedKept
<1>4. ASSUME NEW i \in Jobs, job'[i].status = "queued", job'[i].next = "none"
      PROVE  \E n \in 1..published'[i] : Fresh(i, n)'
  <2>1. CASE i[1] = r /\ i[2] \in Enrolled
    <3>1. PICK n \in Nat : n = published[i] + 1
      BY <1>1
    <3>2. n \in 1..published'[i]
      BY <1>1, <2>1, <3>1 DEF Request
    <3>3. Fresh(i, n)'
      BY <1>1, <3>1, NextEventFresh DEF Fresh
    <3> QED BY <3>2, <3>3
  <2>2. CASE ~(i[1] = r /\ i[2] \in Enrolled)
    BY <1>1, <1>4, <2>2 DEF Request, NoStrandedJob, Fresh
  <2> QED BY <2>1, <2>2
<1> QED BY <1>3, <1>4 DEF NoStrandedJob

\* The reaper: a job it puts back without a retry date it also dispatches.
LEMMA ReapStrandsNone ==
  ASSUME IInv, ReapWrite
  PROVE  EventsPublished' /\ NoStrandedJob'
<1> USE DEF IInv
<1>1. /\ UNCHANGED <<inbox, worker>>
      /\ published \in [Jobs -> Nat] /\ published' \in [Jobs -> Nat]
      /\ job \in [Jobs -> JobState] /\ job' = AfterReap
  BY DEF ReapWrite, TypeOK
<1>2. \A i \in Jobs : published'[i] >= published[i]
  BY <1>1 DEF ReapWrite
<1>3. EventsPublished'
  BY <1>1, <1>2, EventsPublishedKept
<1>4. ASSUME NEW i \in Jobs, job'[i].status = "queued", job'[i].next = "none"
      PROVE  \E n \in 1..published'[i] : Fresh(i, n)'
  <2>1. CASE i \in Due
    <3>1. PICK n \in Nat : n = published[i] + 1
      BY <1>1
    <3>2. n \in 1..published'[i]
      BY <1>1, <2>1, <3>1 DEF ReapWrite
    <3>3. Fresh(i, n)'
      BY <1>1, <3>1, NextEventFresh DEF Fresh
    <3> QED BY <3>2, <3>3
  <2>2. CASE i \notin Due
    <3>1. AfterExpiry[i].status = "queued" /\ AfterExpiry[i].next = "none"
      <4>1. AfterExpiry[i] \in JobState
        BY ReapTyped DEF Table
      <4> QED BY <1>1, <1>4, <2>2, <4>1 DEF AfterReap, JobState
    <3>2. AfterExpiry[i] = job[i]
      BY <1>1, <2>2, <3>1 DEF AfterExpiry, JobState
    <3>3. published'[i] = published[i]
      BY <2>2 DEF ReapWrite
    <3> QED BY <1>1, <3>1, <3>2, <3>3 DEF NoStrandedJob, Fresh
  <2> QED BY <2>1, <2>2
<1> QED BY <1>3, <1>4 DEF NoStrandedJob

\* A delivery ticks off or takes an event of a job that is not left in the queue.
LEMMA ConsumeStrandsNone ==
  ASSUME IInv, NEW w \in Workers, Consume(w)
  PROVE  EventsPublished' /\ NoStrandedJob'
<1> USE DEF IInv
<1> PICK j \in Jobs : \E n \in 1..published[j] :
      SkipEvent(w, j, n) \/ FailForGoneSeller(w, j, n) \/ ClaimJob(w, j, n)
  BY DEF Consume
<1> PICK n \in 1..published[j] :
      SkipEvent(w, j, n) \/ FailForGoneSeller(w, j, n) \/ ClaimJob(w, j, n)
  OBVIOUS
<1>1. /\ published' = published /\ published \in [Jobs -> Nat]
      /\ worker \in [Workers -> WorkerState] /\ job \in [Jobs -> JobState]
  BY DEF SkipEvent, FailForGoneSeller, ClaimJob, runVars, TypeOK
<1>2. /\ inbox' \subseteq inbox \cup {<<j, n>>}
      /\ \A v \in Workers : worker'[v] = worker[v] \/ worker'[v].event = <<j, n>>
  BY <1>1 DEF SkipEvent, FailForGoneSeller, ClaimJob
<1>3. EventsPublished'
  <2>1. Sent(<<j, n>>)
    BY <1>1 DEF Sent, Event
  <2>2. \A i \in Jobs : published'[i] >= published[i]
    BY <1>1
  <2>3. \A e \in inbox' : e \in inbox \/ Sent(e)
    BY <1>2, <2>1
  <2>4. \A v \in Workers : worker'[v] # Idle =>
          \/ worker[v] # Idle /\ worker'[v].event = worker[v].event
          \/ Sent(worker'[v].event)
    BY <1>2, <2>1
  <2> QED BY <1>1, <2>2, <2>3, <2>4, EventsPublishedKept
<1>4. /\ \A i \in Jobs : i # j => job'[i] = job[i]
      /\ ~(job'[j].status = "queued" /\ job'[j].next = "none")
  <2>1. CASE SkipEvent(w, j, n)
    BY <2>1 DEF SkipEvent, runVars
  <2>2. CASE FailForGoneSeller(w, j, n)
    BY <1>1, <2>2 DEF FailForGoneSeller, FailJob, JobState
  <2>3. CASE ClaimJob(w, j, n)
    BY <1>1, <2>3 DEF ClaimJob, Claimed, JobState
  <2> QED BY <2>1, <2>2, <2>3
<1>5. ASSUME NEW i \in Jobs, job'[i].status = "queued", job'[i].next = "none"
      PROVE  \E m \in 1..published'[i] : Fresh(i, m)'
  <2>1. i # j /\ job'[i] = job[i]
    BY <1>4, <1>5
  <2>2. PICK m \in 1..published[i] : Fresh(i, m)
    BY <1>5, <2>1 DEF NoStrandedJob
  <2>3. <<i, m>> # <<j, n>>
    BY <2>1
  <2>4. Fresh(i, m)'
    BY <1>2, <2>2, <2>3 DEF Fresh
  <2> QED BY <1>1, <2>4
<1> QED BY <1>3, <1>5 DEF NoStrandedJob

\* Closing an attempt ticks off the event the worker held, and no table it writes
\* has a job newly queued without a retry date.
LEMMA CloseAttemptStrandsNone ==
  ASSUME IInv, NEW w \in Workers, worker[w] # Idle, NEW table, CloseAttempt(w, table),
         \A i \in Jobs : table[i].status = "queued" /\ table[i].next = "none"
                           => job[i].status = "queued" /\ job[i].next = "none"
  PROVE  EventsPublished' /\ NoStrandedJob'
<1> USE DEF IInv
<1>1. /\ published' = published /\ published \in [Jobs -> Nat]
      /\ job' = table /\ inbox' = inbox \cup {worker[w].event}
      /\ \A v \in Workers : worker'[v] # Idle => worker'[v] = worker[v]
  BY DEF CloseAttempt, TypeOK
<1>2. \A i \in Jobs : published'[i] >= published[i]
  BY <1>1
<1>3. EventsPublished'
  BY <1>1, <1>2, HeldEventTyped, EventsPublishedKept DEF EventsPublished, Sent
<1>4. ASSUME NEW i \in Jobs, job'[i].status = "queued", job'[i].next = "none"
      PROVE  \E m \in 1..published'[i] : Fresh(i, m)'
  <2>1. PICK m \in 1..published[i] : Fresh(i, m)
    BY <1>1, <1>4 DEF NoStrandedJob
  <2>2. Fresh(i, m)'
    BY <1>1, <2>1 DEF Fresh
  <2> QED BY <1>1, <2>2
<1> QED BY <1>3, <1>4 DEF NoStrandedJob

\* Steps that leave jobs, events and the inbox alone and hand no event to anyone.
LEMMA QuietStepStrandsNone ==
  ASSUME IInv, UNCHANGED <<published, inbox>>,
         \A i \in Jobs : job'[i].status = "queued" /\ job'[i].next = "none"
                           => job[i].status = "queued" /\ job[i].next = "none",
         \A v \in Workers : worker'[v] # Idle
                              => worker[v] # Idle /\ worker'[v].event = worker[v].event
  PROVE  EventsPublished' /\ NoStrandedJob'
BY DEF IInv, EventsPublished, NoStrandedJob, Fresh

\* Nor does any way an attempt ends.
LEMMA FinishStrandsNone ==
  ASSUME IInv, NEW w \in Workers, FinishScan(w)
  PROVE  EventsPublished' /\ NoStrandedJob'
<1> USE DEF IInv
<1> DEFINE j == worker[w].event[1]
<1>1. worker[w] # Idle
  BY DEF FinishScan, ScanFailed, ScanThrottled, ScanOk, WriteCounts, AbortAttempt, Idle
<1>2. j \in Jobs
  BY <1>1, HeldEventTyped
<1>3. job \in [Jobs -> JobState] /\ worker \in [Workers -> WorkerState]
  BY DEF TypeOK
<1> HIDE DEF j
<1>4. ASSUME NEW i \in Jobs, NEW table \in {FailJob(j), CompleteJob(j), RescheduleJob(j)},
             table[i].status = "queued", table[i].next = "none"
      PROVE  job[i].status = "queued" /\ job[i].next = "none"
  BY <1>2, <1>3, <1>4 DEF FailJob, CompleteJob, RescheduleJob, JobState
<1>5. CASE ScanFailed(w)
  <2>1. CloseAttempt(w, FailJob(j))
    BY <1>5 DEF ScanFailed, j
  <2> QED BY <1>1, <1>4, <2>1, CloseAttemptStrandsNone
<1>6. CASE ScanThrottled(w)
  <2>1. CloseAttempt(w, RescheduleJob(j))
    BY <1>6 DEF ScanThrottled, j
  <2> QED BY <1>1, <1>4, <2>1, CloseAttemptStrandsNone
<1>7. CASE WriteCounts(w)
  <2>1. PICK table \in {FailJob(j), CompleteJob(j)} : CloseAttempt(w, table)
    BY <1>7 DEF WriteCounts, j
  <2> QED BY <1>1, <1>4, <2>1, CloseAttemptStrandsNone
<1>8. CASE ScanOk(w)
  <2>1. \A v \in Workers : worker'[v] # Idle
          => worker[v] # Idle /\ worker'[v].event = worker[v].event
    <3>1. worker[w] \in [pc : {"scanning"}, event : Event, saw : {"none"}]
      BY <1>3, <1>8 DEF ScanOk, WorkerState, Idle
    <3> QED BY <1>1, <1>3, <1>8, <3>1 DEF ScanOk
  <2> QED BY <1>8, <2>1, QuietStepStrandsNone DEF ScanOk, runVars
<1>9. CASE AbortAttempt(w)
  BY <1>3, <1>9, QuietStepStrandsNone DEF AbortAttempt, runVars
<1> QED BY <1>5, <1>6, <1>7, <1>8, <1>9 DEF FinishScan

\* Every step keeps the strengthened invariant.
LEMMA IInvKept == IInv /\ [Next]_vars => IInv'
<1> SUFFICES ASSUME IInv, [Next]_vars PROVE EventsPublished' /\ NoStrandedJob'
  BY NextTyped DEF IInv
<1>1. CASE \E t \in Triggers, r \in RunIds : Request(t, r)
  BY <1>1, RequestStrandsNone
<1>2. CASE ReapWrite
  BY <1>2, ReapStrandsNone
<1>3. CASE \E w \in Workers : Consume(w)
  BY <1>3, ConsumeStrandsNone
<1>4. CASE \E w \in Workers : FinishScan(w)
  BY <1>4, FinishStrandsNone
<1>5. CASE \E w \in Workers : Crash(w)
  BY <1>5, QuietStepStrandsNone DEF Crash, runVars, IInv, TypeOK
<1>6. CASE ReapRead
  BY <1>6, QuietStepStrandsNone DEF ReapRead, runVars
<1>7. CASE \E s \in Sellers : Registry(s)
  BY <1>7, QuietStepStrandsNone DEF Registry, Enroll, Unenroll, Archive, Restore, Purge, runVars
<1>8. CASE Clock
  <2>1. \A i \in Jobs : job'[i].status = "queued" /\ job'[i].next = "none"
                          => job[i].status = "queued" /\ job[i].next = "none"
    BY <1>8 DEF Clock, LeaseRunsOut, BackoffElapses, RunGrowsOld, NextDay, runVars,
                IInv, TypeOK, JobState
  <2>2. UNCHANGED <<published, inbox, worker>>
    BY <1>8 DEF Clock, LeaseRunsOut, BackoffElapses, RunGrowsOld, NextDay, runVars
  <2> QED BY <2>1, <2>2, QuietStepStrandsNone
<1>9. CASE UNCHANGED vars
  BY <1>9, QuietStepStrandsNone DEF vars
<1> QED BY <1>1, <1>2, <1>3, <1>4, <1>5, <1>6, <1>7, <1>8, <1>9 DEF Next

\* However workers crash, leases run out and events come twice, a job that waits in
\* the queue without a retry date has an event that will still be handled.
THEOREM NoJobStranded == Spec => []NoStrandedJob
<1>1. Init => IInv
  BY InitTyped DEF Init, IInv, EventsPublished, NoStrandedJob, NoJob
<1>2. IInv => NoStrandedJob
  BY DEF IInv
<1> QED BY <1>1, <1>2, IInvKept, PTL DEF Spec
-----------------------------------------------------------------------------
\* A run closes resolved.

\* finalize_run only closes a run none of whose jobs is pending.
LEMMA FinalizedCloses ==
  ASSUME run \in [RunIds -> RunState], NEW r \in RunIds, NEW table, NEW q \in RunIds,
         run[q].status \in ActiveStatuses,
         Finalized(r, run, table)[q].status \notin ActiveStatuses
  PROVE  \A s \in Sellers : ~Pending(<<q, s>>, table)
<1>1. Finalized(r, run, table) # run /\ (q # r => Finalized(r, run, table)[q] = run[q])
  BY DEF Finalized
<1>2. q = r
  BY <1>1
<1> QED BY <1>1, <1>2 DEF Finalized

\* abandon_stale_runs fails what is pending in the runs it closes.
LEMMA AbandonedResolved ==
  ASSUME TypeOK, NEW r \in Abandoned, r \in RunIds, NEW s \in Sellers
  PROVE  ~Pending(<<r, s>>, AfterReap)
<1>1. PICK j \in Jobs : j = <<r, s>>
  BY DEF Jobs
<1>2. j[1] = r /\ AfterExpiry[j] \in JobState
  BY <1>1, ReapTyped DEF Table
<1>3. CASE Pending(j, AfterExpiry)
  <2>1. AfterReap[j].status = "error"
    BY <1>2, <1>3 DEF AfterReap, JobState
  <2> QED BY <1>1, <2>1 DEF Pending, ActiveStatuses
<1>4. CASE ~Pending(j, AfterExpiry)
  <2>1. j \notin Due
    BY <1>4 DEF Due, Pending, ActiveStatuses
  <2>2. AfterReap[j] = AfterExpiry[j]
    BY <1>4, <2>1 DEF AfterReap
  <2> QED BY <1>1, <1>4, <2>2 DEF Pending
<1> QED BY <1>3, <1>4

\* Whether a consumer or the reaper closes a run, no job of it is left queued or running.
THEOREM ClosedRunsAreResolved == Spec => RunClosesResolved
<1>1. TypeOK /\ [Next]_vars =>
        [\A r \in ActiveRuns : run'[r].status \notin ActiveStatuses
           => \A s \in Sellers : ~Pending(<<r, s>>, job')]_vars
  <2> SUFFICES ASSUME TypeOK, Next, NEW q \in RunIds, run[q].status \in ActiveStatuses,
                      run'[q].status \notin ActiveStatuses
               PROVE  \A s \in Sellers : ~Pending(<<q, s>>, job')
    BY DEF ActiveRuns
  <2>1. run \in [RunIds -> RunState] /\ run' # run
    BY DEF TypeOK
  <2>2. CASE \E t \in Triggers, r \in RunIds : Request(t, r)
    BY <2>2 DEF Request, ActiveRuns
  <2>3. CASE ReapWrite
    <3>1. q \in Abandoned
      BY <2>1, <2>3 DEF ReapWrite, RunsAfterReap
    <3> QED BY <2>3, <3>1, AbandonedResolved DEF ReapWrite
  <2>4. CASE \E w \in Workers : Consume(w)
    <3> PICK w \in Workers, j \in Jobs : \E n \in 1..published[j] :
          SkipEvent(w, j, n) \/ FailForGoneSeller(w, j, n) \/ ClaimJob(w, j, n)
      BY <2>4 DEF Consume
    <3>1. j[1] \in RunIds
      BY DEF Jobs
    <3>2. CASE \E n \in 1..published[j] : SkipEvent(w, j, n)
      BY <2>1, <3>2 DEF SkipEvent, runVars
    <3>3. CASE \E n \in 1..published[j] : FailForGoneSeller(w, j, n)
      BY <2>1, <3>1, <3>3, FinalizedCloses DEF FailForGoneSeller
    <3>4. CASE \E n \in 1..published[j] : ClaimJob(w, j, n)
      BY <2>1, <3>1, <3>4 DEF ClaimJob, RunStarted, RunState, ActiveStatuses
    <3> QED BY <3>2, <3>3, <3>4
  <2>5. CASE \E w \in Workers : FinishScan(w)
    <3> PICK w \in Workers : FinishScan(w)
      BY <2>5
    <3>1. ASSUME NEW table, worker[w] # Idle, CloseAttempt(w, table)
          PROVE  \A s \in Sellers : ~Pending(<<q, s>>, job')
      BY <2>1, <3>1, HeldEventTyped, FinalizedCloses DEF CloseAttempt
    <3>2. CASE ScanFailed(w)
      BY <3>1, <3>2 DEF ScanFailed, Idle
    <3>3. CASE ScanThrottled(w)
      BY <3>1, <3>3 DEF ScanThrottled, Idle
    <3>4. CASE WriteCounts(w)
      BY <3>1, <3>4 DEF WriteCounts, Idle
    <3>5. CASE ScanOk(w) \/ AbortAttempt(w)
      BY <2>1, <3>5 DEF ScanOk, AbortAttempt, runVars
    <3> QED BY <3>2, <3>3, <3>4, <3>5 DEF FinishScan
  <2>6. CASE ReapRead \/ (\E w \in Workers : Crash(w)) \/ \E s \in Sellers : Registry(s)
    BY <2>1, <2>6 DEF ReapRead, Crash, Registry, Enroll, Unenroll, Archive, Restore, Purge, runVars
  <2>7. CASE Clock
    <3>1. run'[q].status = run[q].status
      BY <2>1, <2>7 DEF Clock, LeaseRunsOut, BackoffElapses, RunGrowsOld, NextDay, RunState, runVars
    <3> QED BY <3>1
  <2> QED BY <2>2, <2>3, <2>4, <2>5, <2>6, <2>7 DEF Next
<1> QED BY <1>1, TypeCorrect, PTL DEF Spec, RunClosesResolved
-----------------------------------------------------------------------------
\* Bounded redelivery.

\* Each attempt pays for two dispatches: one by the worker that holds it, who may put
\* the job back, and one by the reaper, who may do so once the lease ran out.  What may
\* still be dispatched is counted with what was.
Holders(j) == {w \in Workers : worker[w] # Idle /\ worker[w].event[1] = j}
InProgress(j) == job[j].status = "running" \/ \E p \in expired : p[1] = j
Waiting(j) == job[j].status = "queued" /\ job[j].next # "none"
Spent(j) == published[j] + Cardinality(Holders(j))

Paid(j) ==
  /\ IsFiniteSet(Holders(j))
  /\ Spent(j) <= 2 * job[j].attempts + 1
  /\ InProgress(j) \/ Waiting(j) => Spent(j) <= 2 * job[j].attempts
  /\ InProgress(j) /\ Waiting(j) => Spent(j) <= 2 * job[j].attempts - 1

\* Nothing is known of the jobs of a run that was not created yet.
Untouched(j) == run[j[1]].status = "absent" =>
  published[j] = 0 /\ Holders(j) = {} /\ ~InProgress(j) /\ ~Waiting(j)

Budget == (~reaping => expired = {}) /\ \A j \in Jobs : Paid(j) /\ Untouched(j)

LEMMA BudgetInit == Init => Budget
<1> SUFFICES ASSUME Init, NEW j \in Jobs PROVE Paid(j) /\ Untouched(j)
  BY DEF Init, Budget
<1>1. /\ published[j] = 0 /\ job[j].status = "absent" /\ job[j].attempts = 0 /\ expired = {}
      /\ Holders(j) = {}
  BY DEF Init, NoJob, Holders
<1>2. ~InProgress(j) /\ ~Waiting(j)
  BY <1>1 DEF InProgress, Waiting
<1>3. IsFiniteSet(Holders(j)) /\ Cardinality(Holders(j)) = 0
  BY <1>1, FS_EmptySet
<1> QED BY <1>1, <1>2, <1>3 DEF Paid, Spent, Untouched

\* The numbers the budget is about.
LEMMA BudgetTyped ==
  ASSUME TypeOK, NEW j \in Jobs, Paid(j)
  PROVE  /\ published[j] \in Nat /\ job[j].attempts \in Nat /\ job[j] \in JobState
         /\ Cardinality(Holders(j)) \in Nat /\ run[j[1]] \in RunState /\ j[1] \in RunIds
<1>1. j[1] \in RunIds
  BY DEF Jobs
<1>2. job[j] \in JobState
  BY DEF TypeOK
<1> QED BY <1>1, <1>2, FS_CardinalityType DEF TypeOK, Paid, JobState

\* A step that gives a job no dispatch, no worker and no attempt, and makes it neither
\* waiting nor in progress, keeps its budget.
LEMMA PaidKept ==
  ASSUME TypeOK, TypeOK', NEW j \in Jobs, Paid(j), Untouched(j),
         run'[j[1]].status = "absent" => run[j[1]].status = "absent",
         published'[j] = published[j], job'[j].attempts = job[j].attempts,
         Holders(j)' \subseteq Holders(j),
         InProgress(j)' => InProgress(j),
         Waiting(j)' => Waiting(j)
  PROVE  Paid(j)' /\ Untouched(j)'
<1>1. IsFiniteSet(Holders(j)') /\ Cardinality(Holders(j)') <= Cardinality(Holders(j))
  BY FS_Subset DEF Paid
<1>2. Cardinality(Holders(j)') \in Nat
  BY <1>1, FS_CardinalityType
<1>3. Spent(j)' <= Spent(j) /\ Spent(j) \in Int /\ Spent(j)' \in Int
  BY <1>1, <1>2, BudgetTyped DEF Spent
<1>4. Paid(j)'
  <2>1. job[j].attempts \in Nat
    BY BudgetTyped
  <2> QED BY <1>1, <1>3, <2>1 DEF Paid
<1>5. Untouched(j)'
  BY DEF Untouched
<1> QED BY <1>4, <1>5

\* Holders after a worker took job j, and after it let it go.
LEMMA HolderAdded ==
  ASSUME NEW j \in Jobs, IsFiniteSet(Holders(j)), NEW w \in Workers,
         Holders(j)' = Holders(j) \cup {w}
  PROVE  /\ IsFiniteSet(Holders(j)')
         /\ Cardinality(Holders(j)') <= Cardinality(Holders(j)) + 1
         /\ Cardinality(Holders(j)') \in Nat /\ Cardinality(Holders(j)) \in Nat
<1>1. Cardinality(Holders(j)) \in Nat
  BY FS_CardinalityType
<1>2. IsFiniteSet(Holders(j) \cup {w})
  BY FS_AddElement
<1>3. Cardinality(Holders(j) \cup {w}) \in {Cardinality(Holders(j)), Cardinality(Holders(j)) + 1}
  BY FS_AddElement
<1> QED BY <1>1, <1>2, <1>3, FS_CardinalityType

LEMMA HolderRemoved ==
  ASSUME NEW j \in Jobs, IsFiniteSet(Holders(j)), NEW w \in Holders(j),
         Holders(j)' = Holders(j) \ {w}
  PROVE  /\ IsFiniteSet(Holders(j)')
         /\ Cardinality(Holders(j)') = Cardinality(Holders(j)) - 1
         /\ Cardinality(Holders(j)') \in Nat /\ Cardinality(Holders(j)) \in Nat
<1>1. Cardinality(Holders(j)) \in Nat
  BY FS_CardinalityType
<1> QED BY <1>1, FS_RemoveElement, FS_CardinalityType

\* request: the first dispatch of a job nobody knew is free.
LEMMA RequestPaid ==
  ASSUME TypeOK, TypeOK', Budget, NEW t \in Triggers, NEW r \in RunIds, Request(t, r)
  PROVE  Budget'
<1>1. UNCHANGED <<worker, reaping, expired>>
  BY DEF Request, reaperVars
<1>2. ASSUME NEW j \in Jobs
      PROVE  Paid(j)' /\ Untouched(j)'
  <2>1. Holders(j)' = Holders(j) /\ Paid(j) /\ Untouched(j)
    BY <1>1 DEF Holders, Budget
  <2>2. run'[j[1]].status = "absent" => run[j[1]].status = "absent"
    BY BudgetTyped, <2>1 DEF Request, TypeOK
  <2>3. CASE j[1] = r /\ j[2] \in Enrolled
    <3>1. /\ job'[j].status = "queued" /\ job'[j].attempts = 0 /\ job'[j].next = "none"
          /\ published'[j] = published[j] + 1 /\ run[j[1]].status = "absent"
      BY <2>3 DEF Request, NoJob
    <3>2. published[j] = 0 /\ Holders(j) = {} /\ ~InProgress(j)
      BY <2>1, <3>1 DEF Untouched
    <3>3. ~InProgress(j)' /\ ~Waiting(j)'
      BY <1>1, <3>1, <3>2 DEF InProgress, Waiting
    <3>4. IsFiniteSet(Holders(j)') /\ Cardinality(Holders(j)') = 0
      BY <2>1, <3>2, FS_EmptySet
    <3>5. Paid(j)'
      BY <3>1, <3>2, <3>3, <3>4 DEF Paid, Spent
    <3>6. run'[j[1]].status # "absent"
      BY <2>3 DEF Request, TypeOK
    <3> QED BY <3>5, <3>6 DEF Untouched
  <2>4. CASE ~(j[1] = r /\ j[2] \in Enrolled)
    <3>1. job'[j] = job[j] /\ published'[j] = published[j]
      BY <2>4 DEF Request
    <3> QED BY <1>1, <2>1, <2>2, <3>1, PaidKept DEF InProgress, Waiting
  <2> QED BY <2>3, <2>4
<1> QED BY <1>1, <1>2 DEF Budget

\* The reaper spends what it may: the slot of the lease or of the retry date.
LEMMA ReapPaid ==
  ASSUME TypeOK, TypeOK', Budget, ReapWrite
  PROVE  Budget'
<1>1. worker' = worker /\ expired' = {} /\ job' = AfterReap /\ run' = RunsAfterReap
  BY DEF ReapWrite
<1>2. ASSUME NEW j \in Jobs
      PROVE  Paid(j)' /\ Untouched(j)'
  <2>1. Holders(j)' = Holders(j) /\ Paid(j) /\ Untouched(j)
    BY <1>1 DEF Holders, Budget
  <2>2. run'[j[1]].status = "absent" => run[j[1]].status = "absent"
    <3>1. Verdict(j[1], AfterReap) # "absent"
      BY DEF Verdict
    <3> QED BY <1>1, <2>1, <3>1, BudgetTyped DEF RunsAfterReap, RunState
  <2>3. /\ job[j] \in JobState /\ AfterExpiry[j] \in JobState
        /\ AfterExpiry[j].attempts = job[j].attempts
    <3>1. job[j] \in JobState /\ AfterExpiry[j] \in JobState
      BY <2>1, BudgetTyped, ReapTyped DEF Table
    <3> QED BY <3>1 DEF AfterExpiry, JobState
  <2>4. job'[j].attempts = job[j].attempts
    BY <1>1, <2>3 DEF AfterReap, JobState
  <2>5. CASE j \in Due
    <3>1. published'[j] = published[j] + 1
      BY <2>5 DEF ReapWrite
    <3>2. job'[j].status \in {"queued", "error"} /\ job'[j].next = "none"
      BY <1>1, <2>3, <2>5 DEF AfterReap, Due, JobState
    <3>3. ~InProgress(j)' /\ ~Waiting(j)'
      BY <1>1, <3>2 DEF InProgress, Waiting
    <3>4. InProgress(j) \/ Waiting(j)
      <4>1. CASE \E p \in expired : p[1] = j
        BY <4>1 DEF InProgress
      <4>2. CASE ~\E p \in expired : p[1] = j
        <5>1. AfterExpiry[j] = job[j]
          BY <4>2 DEF AfterExpiry
        <5> QED BY <2>5, <5>1 DEF Due, Waiting
      <4> QED BY <4>1, <4>2
    <3>5. Spent(j)' = Spent(j) + 1 /\ Spent(j) \in Nat /\ Spent(j) <= 2 * job[j].attempts
      <4>1. Spent(j) <= 2 * job[j].attempts
        BY <2>1, <3>4 DEF Paid
      <4> QED BY <2>1, <3>1, <4>1, BudgetTyped DEF Spent
    <3>6. Paid(j)'
      <4>1. job[j].attempts \in Nat
        BY <2>1, BudgetTyped
      <4> QED BY <2>1, <2>4, <3>3, <3>5, <4>1 DEF Paid
    <3>7. run[j[1]].status # "absent"
      BY <2>1, <3>4 DEF Untouched
    <3> QED BY <2>2, <3>6, <3>7 DEF Untouched
  <2>6. CASE j \notin Due
    <3>1. published'[j] = published[j]
      BY <2>6 DEF ReapWrite
    <3>2. \/ job'[j].status \notin {"running", "queued"}
          \/ job'[j] = AfterExpiry[j]
      BY <1>1, <2>3, <2>6 DEF AfterReap, JobState
    <3>3. \/ job'[j].status \notin {"running", "queued"}
          \/ job'[j] = job[j]
      BY <2>3, <2>6, <3>2 DEF AfterExpiry, Due, JobState
    <3>4. (InProgress(j)' => InProgress(j)) /\ (Waiting(j)' => Waiting(j))
      BY <1>1, <3>3 DEF InProgress, Waiting
    <3> QED BY <2>1, <2>2, <2>4, <3>1, <3>4, PaidKept
  <2> QED BY <2>5, <2>6
<1> QED BY <1>1, <1>2 DEF Budget

\* A delivery that only ticks off, or fails a job, spends nothing; a claim brings an
\* attempt, which pays for the worker and for the lease.
LEMMA ConsumePaid ==
  ASSUME TypeOK, TypeOK', Budget, NEW w \in Workers, Consume(w)
  PROVE  Budget'
<1> PICK i \in Jobs : \E n \in 1..published[i] :
      SkipEvent(w, i, n) \/ FailForGoneSeller(w, i, n) \/ ClaimJob(w, i, n)
  BY DEF Consume
<1> PICK n \in 1..published[i] :
      SkipEvent(w, i, n) \/ FailForGoneSeller(w, i, n) \/ ClaimJob(w, i, n)
  OBVIOUS
<1>1. UNCHANGED <<published, reaping, expired>> /\ worker[w] = Idle
  BY DEF SkipEvent, FailForGoneSeller, ClaimJob, Delivered, runVars, reaperVars
<1>2. ASSUME NEW j \in Jobs
      PROVE  Paid(j)' /\ Untouched(j)'
  <2>1. Paid(j) /\ Untouched(j) /\ job[j] \in JobState /\ job \in [Jobs -> JobState]
    BY BudgetTyped DEF Budget, TypeOK
  <2>2. run'[j[1]].status = "absent" => run[j[1]].status = "absent"
    <3>1. Verdict(i[1], FailJob(i)) # "absent" /\ run \in [RunIds -> RunState]
          /\ i[1] \in RunIds /\ j[1] \in RunIds
      BY DEF Verdict, TypeOK, Jobs
    <3> QED BY <3>1
         DEF SkipEvent, FailForGoneSeller, ClaimJob, Finalized, RunStarted, RunState, runVars
  <2>3. CASE SkipEvent(w, i, n) \/ FailForGoneSeller(w, i, n)
    <3>1. job' = job \/ job' = FailJob(i)
      BY <2>3 DEF SkipEvent, FailForGoneSeller, runVars
    <3>2. \/ job'[j] = job[j]
          \/ job'[j].status = "error" /\ job'[j].attempts = job[j].attempts
      BY <2>1, <3>1 DEF FailJob, JobState
    <3>3. Holders(j)' = Holders(j)
      BY <2>3 DEF SkipEvent, FailForGoneSeller, Holders
    <3>4. (InProgress(j)' => InProgress(j)) /\ (Waiting(j)' => Waiting(j))
      BY <1>1, <3>2 DEF InProgress, Waiting
    <3> QED BY <1>1, <2>1, <2>2, <3>2, <3>3, <3>4, PaidKept
  <2>4. CASE ClaimJob(w, i, n) /\ j # i
    <3>1. job'[j] = job[j]
      BY <2>1, <2>4 DEF ClaimJob, Claimed
    <3>2. Holders(j)' = Holders(j)
      BY <1>1, <2>4 DEF ClaimJob, Holders, TypeOK
    <3>3. (InProgress(j)' => InProgress(j)) /\ (Waiting(j)' => Waiting(j))
      BY <1>1, <3>1 DEF InProgress, Waiting
    <3> QED BY <1>1, <2>1, <2>2, <3>1, <3>2, <3>3, PaidKept
  <2>5. CASE ClaimJob(w, i, n) /\ j = i
    <3>1. job'[j].status = "running" /\ job'[j].attempts = job[j].attempts + 1
      BY <2>1, <2>5 DEF ClaimJob, Claimed, JobState
    <3>2. Holders(j)' = Holders(j) \cup {w}
      BY <1>1, <2>5 DEF ClaimJob, Holders, TypeOK, Idle
    <3>3. Spent(j)' <= Spent(j) + 1 /\ Spent(j) \in Nat /\ Spent(j)' \in Nat
          /\ IsFiniteSet(Holders(j)')
      <4>1. IsFiniteSet(Holders(j))
        BY <2>1 DEF Paid
      <4>2. /\ IsFiniteSet(Holders(j)') /\ Cardinality(Holders(j)') \in Nat
            /\ Cardinality(Holders(j)') <= Cardinality(Holders(j)) + 1
        BY <3>2, <4>1, HolderAdded
      <4>3. /\ published'[j] = published[j] /\ published[j] \in Nat
            /\ Cardinality(Holders(j)) \in Nat
        BY <1>1, <2>1, BudgetTyped
      <4> QED BY <4>2, <4>3 DEF Spent
    <3>4. ~Waiting(j)'
      BY <3>1 DEF Waiting
    <3>5. Paid(j)'
      <4>1. job[j].attempts \in Nat /\ Spent(j) <= 2 * job[j].attempts + 1
        BY <2>1, BudgetTyped DEF Paid
      <4> QED BY <3>1, <3>3, <3>4, <4>1 DEF Paid
    <3>6. published[j] # 0
      BY <2>1, <2>5, BudgetTyped
    <3> QED BY <2>1, <2>2, <3>5, <3>6 DEF Untouched
  <2> QED BY <2>3, <2>4, <2>5
<1> QED BY <1>1, <1>2 DEF Budget

\* An attempt that ends gives back its slot, which pays for putting the job back.
LEMMA CloseAttemptPaid ==
  ASSUME TypeOK, TypeOK', Budget, NEW w \in Workers, worker[w] # Idle,
         NEW i \in Jobs, i = worker[w].event[1],
         NEW table \in {FailJob(i), CompleteJob(i), RescheduleJob(i)}, CloseAttempt(w, table)
  PROVE  Budget'
<1>1. /\ UNCHANGED <<published, reaping, expired>> /\ job' = table
      /\ worker' = [worker EXCEPT ![w] = Idle]
  BY DEF CloseAttempt, reaperVars
<1>2. ASSUME NEW j \in Jobs
      PROVE  Paid(j)' /\ Untouched(j)'
  <2>1. Paid(j) /\ Untouched(j) /\ job[j] \in JobState /\ job \in [Jobs -> JobState]
    BY BudgetTyped DEF Budget, TypeOK
  <2>2. run'[j[1]].status = "absent" => run[j[1]].status = "absent"
    <3>1. Verdict(i[1], table) # "absent" /\ run \in [RunIds -> RunState]
          /\ i[1] \in RunIds /\ j[1] \in RunIds /\ run' = Finalized(i[1], run, table)
      BY DEF Verdict, TypeOK, Jobs, CloseAttempt
    <3> QED BY <3>1 DEF Finalized, RunState
  <2>3. /\ job'[j].attempts = job[j].attempts
        /\ job'[j].status = "running" => job[j].status = "running"
        /\ j # i => job'[j] = job[j]
    <3>1. \/ job' = FailJob(i) \/ job' = CompleteJob(i)
          \/ job' = [job EXCEPT ![i].status = "queued", ![i].next = "later",
                               ![i].lease = "none"]
      BY <1>1 DEF RescheduleJob
    <3>2. CASE job' = FailJob(i)
      BY <2>1, <3>2 DEF FailJob, JobState
    <3>3. CASE job' = CompleteJob(i)
      BY <2>1, <3>3 DEF CompleteJob, JobState
    <3>4. CASE job' = [job EXCEPT ![i].status = "queued", ![i].next = "later",
                                  ![i].lease = "none"]
      BY <2>1, <3>4 DEF JobState
    <3> QED BY <3>1, <3>2, <3>3, <3>4
  <2>4. InProgress(j)' => InProgress(j)
    BY <1>1, <2>3 DEF InProgress
  <2>5. CASE j # i
    <3>1. Holders(j)' = Holders(j)
      BY <1>1, <2>5 DEF Holders, TypeOK
    <3>2. Waiting(j)' => Waiting(j)
      BY <2>3, <2>5 DEF Waiting
    <3> QED BY <1>1, <2>1, <2>2, <2>3, <2>4, <3>1, <3>2, PaidKept
  <2>6. CASE j = i
    <3>1. w \in Holders(j) /\ Holders(j)' = Holders(j) \ {w}
      BY <1>1, <2>6 DEF Holders, TypeOK
    <3>2. Spent(j)' = Spent(j) - 1 /\ Spent(j) \in Nat /\ IsFiniteSet(Holders(j)')
      <4>1. IsFiniteSet(Holders(j))
        BY <2>1 DEF Paid
      <4>2. /\ IsFiniteSet(Holders(j)') /\ Cardinality(Holders(j)) \in Nat
            /\ Cardinality(Holders(j)') = Cardinality(Holders(j)) - 1
            /\ Cardinality(Holders(j)') \in Nat
        BY <3>1, <4>1, HolderRemoved
      <4>3. published'[j] = published[j] /\ published[j] \in Nat
        BY <1>1, <2>1, BudgetTyped
      <4> QED BY <4>2, <4>3 DEF Spent
    <3>3. Paid(j)'
      <4>1. job[j].attempts \in Nat /\ Spent(j) <= 2 * job[j].attempts + 1
            /\ (InProgress(j) => Spent(j) <= 2 * job[j].attempts)
        BY <2>1, BudgetTyped DEF Paid
      <4> QED BY <2>3, <2>4, <3>2, <4>1 DEF Paid
    <3> QED BY <2>1, <2>2, <3>1, <3>3 DEF Untouched
  <2> QED BY <2>5, <2>6
<1> QED BY <1>1, <1>2 DEF Budget

\* Steps that dispatch nothing, begin no attempt and at most let a job go.
LEMMA QuietPaid ==
  ASSUME TypeOK, TypeOK', Budget, UNCHANGED published,
         \A r \in RunIds : run'[r].status = run[r].status,
         \A j \in Jobs : /\ job'[j].attempts = job[j].attempts
                         /\ job'[j].status = job[j].status
                         /\ job'[j].next # job[j].next => job[j].next # "none",
         \A v \in Workers : worker'[v] # Idle
                              => worker[v] # Idle /\ worker'[v].event = worker[v].event,
         \/ UNCHANGED <<reaping, expired>>
         \/ reaping' /\ \A p \in expired' : p[1] \in Jobs => job[p[1]].status = "running"
  PROVE  Budget'
<1>1. ASSUME NEW j \in Jobs
      PROVE  Paid(j)' /\ Untouched(j)'
  <2>1. Paid(j) /\ Untouched(j) /\ j[1] \in RunIds
    BY DEF Budget, Jobs
  <2>2. Holders(j)' \subseteq Holders(j)
    BY DEF Holders
  <2>3. InProgress(j)' => InProgress(j)
    BY DEF InProgress
  <2>4. Waiting(j)' => Waiting(j)
    BY DEF Waiting
  <2> QED BY <2>1, <2>2, <2>3, <2>4, PaidKept
<1>2. ~reaping' => expired' = {}
  BY DEF Budget
<1> QED BY <1>1, <1>2 DEF Budget

LEMMA BudgetKept == TypeOK /\ Budget /\ [Next]_vars => Budget'
<1> SUFFICES ASSUME TypeOK, Budget, [Next]_vars PROVE Budget'
  OBVIOUS
<1>1. TypeOK'
  BY NextTyped
<1>2. /\ job \in [Jobs -> JobState] /\ run \in [RunIds -> RunState]
      /\ worker \in [Workers -> WorkerState]
  BY DEF TypeOK
<1>3. CASE \E t \in Triggers, r \in RunIds : Request(t, r)
  BY <1>1, <1>3, RequestPaid
<1>4. CASE ReapRead
  <2>1. /\ UNCHANGED <<run, job, published, worker>> /\ reaping'
        /\ \A p \in expired' : job[p[1]].status = "running"
    BY <1>4 DEF ReapRead, runVars
  <2> QED BY <1>1, <2>1, QuietPaid
<1>5. CASE ReapWrite
  BY <1>1, <1>5, ReapPaid
<1>6. CASE \E w \in Workers : Consume(w)
  BY <1>1, <1>6, ConsumePaid
<1>7. CASE \E w \in Workers : FinishScan(w)
  <2> PICK w \in Workers : FinishScan(w)
    BY <1>7
  <2>1. worker[w] # Idle
    BY DEF FinishScan, ScanFailed, ScanThrottled, ScanOk, WriteCounts, AbortAttempt, Idle
  <2>2. PICK i \in Jobs : i = worker[w].event[1]
    BY <2>1, HeldEventTyped
  <2>3. CASE ScanFailed(w) \/ ScanThrottled(w) \/ WriteCounts(w)
    <3>1. PICK table \in {FailJob(i), CompleteJob(i), RescheduleJob(i)} : CloseAttempt(w, table)
      BY <2>2, <2>3 DEF ScanFailed, ScanThrottled, WriteCounts
    <3> QED BY <1>1, <2>1, <2>2, <3>1, CloseAttemptPaid
  <2>4. CASE ScanOk(w)
    <3>1. UNCHANGED <<run, job, published, reaping, expired>>
      BY <2>4 DEF ScanOk, runVars, reaperVars
    <3>2. \A v \in Workers : worker'[v] # Idle
            => worker[v] # Idle /\ worker'[v].event = worker[v].event
      <4>1. worker[w] \in [pc : {"scanning"}, event : Event, saw : {"none"}]
        BY <1>2, <2>4 DEF ScanOk, WorkerState, Idle
      <4> QED BY <1>2, <2>1, <2>4, <4>1 DEF ScanOk
    <3> QED BY <1>1, <3>1, <3>2, QuietPaid
  <2>5. CASE AbortAttempt(w)
    <3>1. /\ UNCHANGED <<run, job, published, reaping, expired>>
          /\ worker' = [worker EXCEPT ![w] = Idle]
      BY <2>5 DEF AbortAttempt, runVars, reaperVars
    <3> QED BY <1>1, <1>2, <3>1, QuietPaid
  <2> QED BY <2>3, <2>4, <2>5 DEF FinishScan
<1>8. CASE \E w \in Workers : Crash(w)
  <2> PICK w \in Workers : Crash(w)
    BY <1>8
  <2>1. UNCHANGED <<run, job, published, reaping, expired>> /\ worker' = [worker EXCEPT ![w] = Idle]
    BY DEF Crash, runVars, reaperVars
  <2> QED BY <1>1, <1>2, <2>1, QuietPaid
<1>9. CASE \E s \in Sellers : Registry(s)
  <2>1. UNCHANGED <<run, job, published, worker, reaping, expired>>
    BY <1>9 DEF Registry, Enroll, Unenroll, Archive, Restore, Purge, runVars, reaperVars
  <2> QED BY <1>1, <2>1, QuietPaid
<1>10. CASE Clock
  <2>1. UNCHANGED <<published, worker, reaping, expired>>
    BY <1>10 DEF Clock, LeaseRunsOut, BackoffElapses, RunGrowsOld, NextDay, runVars, reaperVars
  <2>2. \A j \in Jobs : /\ job'[j].attempts = job[j].attempts
                        /\ job'[j].status = job[j].status
                        /\ job'[j].next # job[j].next => job[j].next # "none"
    BY <1>2, <1>10 DEF Clock, LeaseRunsOut, BackoffElapses, RunGrowsOld, NextDay, runVars, JobState
  <2>3. \A r \in RunIds : run'[r].status = run[r].status
    BY <1>2, <1>10 DEF Clock, LeaseRunsOut, BackoffElapses, RunGrowsOld, NextDay, runVars, RunState
  <2> QED BY <1>1, <2>1, <2>2, <2>3, QuietPaid
<1>11. CASE UNCHANGED vars
  <2>1. UNCHANGED <<run, job, published, worker, reaping, expired>>
    BY <1>11 DEF vars
  <2> QED BY <1>1, <2>1, QuietPaid
<1> QED BY <1>3, <1>4, <1>5, <1>6, <1>7, <1>8, <1>9, <1>10, <1>11 DEF Next

\* An attempt begins on a queued job only.  A queued job has an attempt left, except one
\* that the reaper put back after an older look at it: that look said that one was left.
Within(j) ==
  /\ job[j].attempts <= MaxAttempts + 1
  /\ job[j].status = "queued" => job[j].attempts <= MaxAttempts
  /\ (\E p \in expired : p[1] = j /\ p[2] < MaxAttempts) =>
       /\ job[j].attempts <= MaxAttempts
       /\ job[j].status = "queued" => job[j].attempts < MaxAttempts

AttemptsEnd == \A j \in Jobs : Within(j)

LEMMA AttemptsEndInit == Init => AttemptsEnd
BY BoundsAssumption DEF Init, NoJob, AttemptsEnd, Within

\* A step that begins no attempt and puts back at most jobs with an attempt left.
LEMMA WithinKept ==
  ASSUME NEW j \in Jobs, Within(j), job[j].attempts \in Nat, UNCHANGED expired,
         job'[j].attempts = job[j].attempts,
         job'[j].status = "queued" => job[j].status = "queued" \/ job[j].attempts < MaxAttempts
  PROVE  Within(j)'
BY BoundsAssumption DEF Within

\* The reaper fails the jobs it saw without an attempt left, and puts back the others.
LEMMA ReapWithin ==
  ASSUME TypeOK, AttemptsEnd, ReapWrite, NEW j \in Jobs
  PROVE  Within(j)'
<1>1. /\ job[j] \in JobState /\ AfterExpiry[j] \in JobState /\ Within(j)
      /\ \A p \in expired : p[2] \in Nat
  BY ReapTyped DEF TypeOK, Table, AttemptsEnd
<1>2. job' = AfterReap /\ expired' = {}
  BY DEF ReapWrite
<1>3. /\ AfterExpiry[j].attempts = job[j].attempts
      /\ AfterExpiry[j].status = "queued" =>
           job[j].status = "queued" \/ \E p \in expired : p[1] = j /\ ~(p[2] >= MaxAttempts)
  BY <1>1 DEF AfterExpiry, JobState
<1>4. /\ AfterReap[j].attempts = AfterExpiry[j].attempts
      /\ AfterReap[j].status = "queued" => AfterExpiry[j].status = "queued"
  BY <1>1 DEF AfterReap, JobState
<1>5. AfterReap[j].status = "queued" => job[j].attempts <= MaxAttempts
  BY <1>1, <1>3, <1>4, BoundsAssumption DEF Within
<1> QED BY <1>1, <1>2, <1>3, <1>4, <1>5 DEF Within

\* A claim takes one of the attempts that a queued job has left.
LEMMA ConsumeWithin ==
  ASSUME TypeOK, AttemptsEnd, NEW w \in Workers, Consume(w), NEW j \in Jobs
  PROVE  Within(j)'
<1> PICK i \in Jobs : \E n \in 1..published[i] :
      SkipEvent(w, i, n) \/ FailForGoneSeller(w, i, n) \/ ClaimJob(w, i, n)
  BY DEF Consume
<1> PICK n \in 1..published[i] :
      SkipEvent(w, i, n) \/ FailForGoneSeller(w, i, n) \/ ClaimJob(w, i, n)
  OBVIOUS
<1>1. /\ job \in [Jobs -> JobState] /\ job[j] \in JobState /\ job[j].attempts \in Nat
      /\ Within(j)
  BY DEF TypeOK, AttemptsEnd, JobState
<1>2. UNCHANGED expired
  BY DEF SkipEvent, FailForGoneSeller, ClaimJob, reaperVars
<1>3. CASE SkipEvent(w, i, n) \/ FailForGoneSeller(w, i, n)
  <2>1. job' = job \/ job' = FailJob(i)
    BY <1>3 DEF SkipEvent, FailForGoneSeller, runVars
  <2>2. \/ job'[j] = job[j]
        \/ job'[j].status = "error" /\ job'[j].attempts = job[j].attempts
    BY <1>1, <2>1 DEF FailJob, JobState
  <2> QED BY <1>1, <1>2, <2>2, WithinKept
<1>4. CASE ClaimJob(w, i, n)
  <2>1. CASE j # i
    <3>1. job'[j] = job[j]
      BY <1>1, <1>4, <2>1 DEF ClaimJob, Claimed
    <3> QED BY <1>1, <1>2, <3>1, WithinKept
  <2>2. CASE j = i
    <3>1. /\ job[j].status = "queued" /\ job'[j].status = "running"
          /\ job'[j].attempts = job[j].attempts + 1
      BY <1>1, <1>4, <2>2 DEF ClaimJob, Claimed, JobState
    <3> QED BY <1>1, <1>2, <3>1, BoundsAssumption DEF Within
  <2> QED BY <2>1, <2>2
<1> QED BY <1>3, <1>4

\* Only reschedule_job puts a job back, and only one with an attempt left.
LEMMA CloseAttemptWithin ==
  ASSUME TypeOK, AttemptsEnd, NEW w \in Workers, NEW i \in Jobs,
         NEW table \in {FailJob(i), CompleteJob(i), RescheduleJob(i)}, CloseAttempt(w, table),
         NEW j \in Jobs
  PROVE  Within(j)'
<1>1. /\ job \in [Jobs -> JobState] /\ job[j] \in JobState /\ job[j].attempts \in Nat
      /\ Within(j)
  BY DEF TypeOK, AttemptsEnd, JobState
<1>2. job' = table /\ UNCHANGED expired
  BY DEF CloseAttempt, reaperVars
<1>3. \/ job' = FailJob(i) \/ job' = CompleteJob(i)
      \/ /\ ~(job[i].attempts >= MaxAttempts)
         /\ job' = [job EXCEPT ![i].status = "queued", ![i].next = "later", ![i].lease = "none"]
  BY <1>2 DEF RescheduleJob
<1>4. /\ job'[j].attempts = job[j].attempts
      /\ job'[j].status = "queued" => job[j].status = "queued" \/ job[j].attempts < MaxAttempts
  <2>1. CASE job' = FailJob(i)
    BY <1>1, <2>1 DEF FailJob, JobState
  <2>2. CASE job' = CompleteJob(i)
    BY <1>1, <2>2 DEF CompleteJob, JobState
  <2>3. CASE /\ ~(job[i].attempts >= MaxAttempts)
             /\ job' = [job EXCEPT ![i].status = "queued", ![i].next = "later",
                                  ![i].lease = "none"]
    BY <1>1, <2>3, BoundsAssumption DEF JobState
  <2> QED BY <1>3, <2>1, <2>2, <2>3
<1> QED BY <1>1, <1>2, <1>4, WithinKept

LEMMA AttemptsEndKept == TypeOK /\ Budget /\ AttemptsEnd /\ [Next]_vars => AttemptsEnd'
<1> SUFFICES ASSUME TypeOK, Budget, AttemptsEnd, [Next]_vars, NEW j \in Jobs
             PROVE  Within(j)'
  BY DEF AttemptsEnd
<1>1. /\ job \in [Jobs -> JobState] /\ job[j] \in JobState /\ job[j].attempts \in Nat
      /\ Within(j)
  BY DEF TypeOK, AttemptsEnd, JobState
<1>2. CASE \E t \in Triggers, r \in RunIds : Request(t, r)
  <2> PICK t \in Triggers, r \in RunIds : Request(t, r)
    BY <1>2
  <2>1. expired = {} /\ expired' = {}
    BY DEF Request, Budget, reaperVars
  <2>2. CASE j[1] = r /\ j[2] \in Enrolled
    <3>1. job'[j].attempts = 0
      BY <2>2 DEF Request, NoJob
    <3> QED BY <2>1, <3>1, BoundsAssumption DEF Within
  <2>3. CASE ~(j[1] = r /\ j[2] \in Enrolled)
    <3>1. job'[j] = job[j]
      BY <2>3 DEF Request
    <3> QED BY <1>1, <2>1, <3>1, WithinKept
  <2> QED BY <2>2, <2>3
<1>3. CASE ReapRead
  <2>1. UNCHANGED job /\ \A p \in expired' :
          p[1] = j => p[2] = job[j].attempts /\ job[j].status = "running"
    BY <1>3 DEF ReapRead, runVars
  <2> QED BY <1>1, <2>1, BoundsAssumption DEF Within
<1>4. CASE ReapWrite
  BY <1>4, ReapWithin
<1>5. CASE \E w \in Workers : Consume(w)
  BY <1>5, ConsumeWithin
<1>6. CASE \E w \in Workers : FinishScan(w)
  <2> PICK w \in Workers : FinishScan(w)
    BY <1>6
  <2>1. CASE ScanFailed(w) \/ ScanThrottled(w) \/ WriteCounts(w)
    <3>1. worker[w] # Idle
      BY <2>1 DEF ScanFailed, ScanThrottled, WriteCounts, Idle
    <3>2. PICK i \in Jobs : i = worker[w].event[1]
      BY <3>1, HeldEventTyped
    <3>3. PICK table \in {FailJob(i), CompleteJob(i), RescheduleJob(i)} : CloseAttempt(w, table)
      BY <2>1, <3>2 DEF ScanFailed, ScanThrottled, WriteCounts
    <3> QED BY <3>3, CloseAttemptWithin
  <2>2. CASE ScanOk(w) \/ AbortAttempt(w)
    <3>1. UNCHANGED <<job, expired>>
      BY <2>2 DEF ScanOk, AbortAttempt, runVars, reaperVars
    <3> QED BY <1>1, <3>1, WithinKept
  <2> QED BY <2>1, <2>2 DEF FinishScan
<1>7. CASE (\E w \in Workers : Crash(w)) \/ \E s \in Sellers : Registry(s)
  <2>1. UNCHANGED <<job, expired>>
    BY <1>7 DEF Crash, Registry, Enroll, Unenroll, Archive, Restore, Purge, runVars, reaperVars
  <2> QED BY <1>1, <2>1, WithinKept
<1>8. CASE Clock
  <2>1. UNCHANGED expired
    BY <1>8 DEF Clock, LeaseRunsOut, BackoffElapses, RunGrowsOld, NextDay, reaperVars
  <2>2. job'[j].attempts = job[j].attempts /\ job'[j].status = job[j].status
    BY <1>1, <1>8 DEF Clock, LeaseRunsOut, BackoffElapses, RunGrowsOld, NextDay, runVars, JobState
  <2> QED BY <1>1, <2>1, <2>2, WithinKept
<1>9. CASE UNCHANGED vars
  <2>1. UNCHANGED <<job, expired>>
    BY <1>9 DEF vars
  <2> QED BY <1>1, <2>1, WithinKept
<1> QED BY <1>2, <1>3, <1>4, <1>5, <1>6, <1>7, <1>8, <1>9 DEF Next

\* However often leases run out under workers that still answer, a job is dispatched
\* once, and at most twice more for each of its attempts, which are at most one more
\* than job_max_attempts.
THEOREM RedeliveryBounded == Spec => []BoundedRedelivery
<1>1. TypeOK /\ Budget /\ AttemptsEnd => BoundedRedelivery
  <2> SUFFICES ASSUME TypeOK, Budget, AttemptsEnd, NEW j \in Jobs
               PROVE  /\ published[j] <= 2 * job[j].attempts + 1
                      /\ job[j].attempts <= MaxAttempts + 1
    BY DEF BoundedRedelivery
  <2>1. Paid(j) /\ Within(j)
    BY DEF Budget, AttemptsEnd
  <2>2. Spent(j) <= 2 * job[j].attempts + 1
    BY <2>1 DEF Paid
  <2>3. published[j] <= 2 * job[j].attempts + 1
    BY <2>1, <2>2, BudgetTyped DEF Spent
  <2> QED BY <2>1, <2>3 DEF Within
<1> QED BY <1>1, TypeCorrect, BudgetInit, BudgetKept, AttemptsEndInit, AttemptsEndKept,
           PTL DEF Spec
-----------------------------------------------------------------------------
\* Runs, begun one after the other.

\* finalize_run gives a verdict to a run that was created, and creates none.
LEMMA FinalizedCreatesNone ==
  ASSUME run \in [RunIds -> RunState], NEW r \in RunIds, NEW table, NEW q \in RunIds,
         run[r].status # "absent"
  PROVE  Finalized(r, run, table)[q].status = "absent" <=> run[q].status = "absent"
<1>1. Verdict(r, table) # "absent"
  BY DEF Verdict
<1>2. run[q] \in RunState /\ run[r] \in RunState
  OBVIOUS
<1> QED BY <1>1, <1>2 DEF Finalized, RunState

\* Only request creates a run: whatever a worker holds or gets is of a run that exists.
LEMMA OnlyRequestCreates ==
  ASSUME TypeOK, Budget, [Next]_vars, ~(\E t \in Triggers, r \in RunIds : Request(t, r)),
         NEW q \in RunIds
  PROVE  run'[q].status = "absent" <=> run[q].status = "absent"
<1>1. run \in [RunIds -> RunState]
  BY DEF TypeOK
<1>2. ASSUME NEW j \in Jobs, published[j] # 0 \/ Holders(j) # {}
      PROVE  j[1] \in RunIds /\ run[j[1]].status # "absent"
  BY <1>2 DEF Budget, Untouched, Jobs
<1>3. ASSUME NEW w \in Workers, NEW table, worker[w] # Idle, CloseAttempt(w, table)
      PROVE  run'[q].status = "absent" <=> run[q].status = "absent"
  <2>1. worker[w].event[1] \in Jobs /\ w \in Holders(worker[w].event[1])
    BY <1>3, HeldEventTyped DEF Holders
  <2>2. /\ worker[w].event[1][1] \in RunIds
        /\ run[worker[w].event[1][1]].status # "absent"
    BY <1>2, <2>1
  <2> QED BY <1>1, <1>3, <2>2, FinalizedCreatesNone DEF CloseAttempt
<1>4. CASE ReapWrite
  <2>1. \A r \in RunIds : Verdict(r, AfterReap) # "absent"
    BY DEF Verdict
  <2>2. \A r \in Abandoned : run[r].status # "absent"
    BY DEF Abandoned, ActiveRuns, ActiveStatuses
  <2> QED BY <1>1, <1>4, <2>1, <2>2 DEF ReapWrite, RunsAfterReap, RunState
<1>5. CASE \E w \in Workers : Consume(w)
  <2> PICK w \in Workers, j \in Jobs : \E n \in 1..published[j] :
        SkipEvent(w, j, n) \/ FailForGoneSeller(w, j, n) \/ ClaimJob(w, j, n)
    BY <1>5 DEF Consume
  <2> PICK n \in 1..published[j] :
        SkipEvent(w, j, n) \/ FailForGoneSeller(w, j, n) \/ ClaimJob(w, j, n)
    OBVIOUS
  <2>1. published[j] \in Nat /\ published[j] # 0
    BY DEF TypeOK
  <2>2. j[1] \in RunIds /\ run[j[1]].status # "absent"
    BY <1>2, <2>1
  <2>3. CASE SkipEvent(w, j, n)
    BY <2>3 DEF SkipEvent, runVars
  <2>4. CASE FailForGoneSeller(w, j, n)
    BY <1>1, <2>2, <2>4, FinalizedCreatesNone DEF FailForGoneSeller
  <2>5. CASE ClaimJob(w, j, n)
    BY <1>1, <2>2, <2>5 DEF ClaimJob, RunStarted, RunState
  <2> QED BY <2>3, <2>4, <2>5
<1>6. CASE \E w \in Workers : FinishScan(w)
  <2> PICK w \in Workers : FinishScan(w)
    BY <1>6
  <2>1. CASE ScanFailed(w)
    BY <1>3, <2>1 DEF ScanFailed, Idle
  <2>2. CASE ScanThrottled(w)
    BY <1>3, <2>2 DEF ScanThrottled, Idle
  <2>3. CASE WriteCounts(w)
    BY <1>3, <2>3 DEF WriteCounts, Idle
  <2>4. CASE ScanOk(w) \/ AbortAttempt(w)
    BY <2>4 DEF ScanOk, AbortAttempt, runVars
  <2> QED BY <2>1, <2>2, <2>3, <2>4 DEF FinishScan
<1>7. CASE ReapRead \/ (\E w \in Workers : Crash(w)) \/ (\E s \in Sellers : Registry(s))
           \/ UNCHANGED vars
  BY <1>7 DEF ReapRead, Crash, Registry, Enroll, Unenroll, Archive, Restore, Purge, runVars, vars
<1>8. CASE Clock
  BY <1>1, <1>8 DEF Clock, LeaseRunsOut, BackoffElapses, RunGrowsOld, NextDay, RunState, runVars
<1> QED BY <1>4, <1>5, <1>6, <1>7, <1>8 DEF Next

\* A run that exists is active or closed, and not both.
LEMMA StatusOfRun ==
  ASSUME run \in [RunIds -> RunState]
  PROVE  /\ ActiveRuns \subseteq RunIds /\ ClosedRuns \subseteq RunIds
         /\ ActiveRuns \cap ClosedRuns = {}
         /\ \A r \in RunIds : run[r].status = "absent" <=> r \notin ActiveRuns \cup ClosedRuns
BY DEF RunState, ActiveRuns, ClosedRuns, ActiveStatuses, ClosedStatuses

LEMMA TurnsInit == Init => Turns!Init
BY DEF Init, NoRun, Turns!Init, ActiveRuns, ClosedRuns, ActiveStatuses, ClosedStatuses

\* request begins a run when none is active; without anybody enrolled it is closed at once.
LEMMA RequestTakesTurn ==
  ASSUME TypeOK, TypeOK', NEW t \in Triggers, NEW r \in RunIds, Request(t, r)
  PROVE  Turns!Next
<1>1. run \in [RunIds -> RunState] /\ run' \in [RunIds -> RunState]
  BY DEF TypeOK
<1>2. /\ ActiveRuns = {} /\ r \notin ClosedRuns
      /\ \A q \in RunIds \ {r} : run'[q] = run[q]
      /\ run'[r].status = IF Enrolled = {} THEN "success" ELSE "queued"
  BY <1>1 DEF Request, ClosedRuns, ClosedStatuses
<1>3. CASE Enrolled = {}
  <2>1. ActiveRuns' = ActiveRuns /\ ClosedRuns' = ClosedRuns \cup {r}
    BY <1>2, <1>3 DEF ActiveRuns, ClosedRuns, ActiveStatuses, ClosedStatuses
  <2> QED BY <1>2, <2>1 DEF Turns!BeginEmpty, Turns!Next
<1>4. CASE Enrolled # {}
  <2>1. ActiveRuns' = {r} /\ ClosedRuns' = ClosedRuns
    BY <1>2, <1>4 DEF ActiveRuns, ClosedRuns, ActiveStatuses, ClosedStatuses
  <2> QED BY <1>2, <2>1 DEF Turns!Begin, Turns!Next
<1> QED BY <1>3, <1>4

\* Every other step closes the active run or leaves runs as they are.
LEMMA OtherStepsCloseOrStutter ==
  ASSUME TypeOK, TypeOK', AtMostOneActiveRun, Budget, [Next]_vars,
         ~(\E t \in Triggers, r \in RunIds : Request(t, r))
  PROVE  [Turns!Next]_(Turns!vars)
<1>1. /\ ActiveRuns \subseteq RunIds /\ ClosedRuns \subseteq RunIds
      /\ ActiveRuns \cap ClosedRuns = {}
      /\ \A r \in RunIds : run[r].status = "absent" <=> r \notin ActiveRuns \cup ClosedRuns
  BY StatusOfRun DEF TypeOK
<1>2. /\ ActiveRuns' \subseteq RunIds /\ ClosedRuns' \subseteq RunIds
      /\ ActiveRuns' \cap ClosedRuns' = {}
      /\ \A r \in RunIds : run'[r].status = "absent" <=> r \notin ActiveRuns' \cup ClosedRuns'
  BY DEF TypeOK, RunState, ActiveRuns, ClosedRuns, ActiveStatuses, ClosedStatuses
<1>3. ActiveRuns' \subseteq ActiveRuns
  BY OnlyRequestActivates
<1>4. ActiveRuns' \cup ClosedRuns' = ActiveRuns \cup ClosedRuns
  BY <1>1, <1>2, OnlyRequestCreates
<1>5. CASE ActiveRuns' = ActiveRuns
  <2>1. ClosedRuns' = ClosedRuns
    BY <1>1, <1>2, <1>4, <1>5
  <2> QED BY <1>5, <2>1 DEF Turns!vars
<1>6. CASE ActiveRuns' # ActiveRuns
  <2>1. PICK r \in ActiveRuns : r \notin ActiveRuns'
    BY <1>3, <1>6
  <2>2. ActiveRuns = {r}
    BY <2>1 DEF AtMostOneActiveRun
  <2>3. ActiveRuns' = ActiveRuns \ {r} /\ ClosedRuns' = ClosedRuns \cup {r}
    BY <1>1, <1>2, <1>3, <1>4, <2>1, <2>2
  <2>4. Turns!Close(r) /\ r \in RunIds
    BY <1>1, <2>1, <2>3 DEF Turns!Close
  <2> QED BY <2>4 DEF Turns!Next
<1> QED BY <1>5, <1>6

LEMMA TurnsStep ==
  TypeOK /\ TypeOK' /\ AtMostOneActiveRun /\ Budget /\ [Next]_vars => [Turns!Next]_(Turns!vars)
BY RequestTakesTurn, OtherStepsCloseOrStutter

\* The review sync implements the safety part of ExclusiveRuns: a run is begun when none is
\* active, and closed once and for ever, whatever late workers and the reaper do to its jobs.
THEOREM Implements == Spec => Turns!Init /\ [][Turns!Next]_(Turns!vars)
BY TurnsInit, TurnsStep, TypeCorrect, RunsExclusive, BudgetInit, BudgetKept, PTL DEF Spec
=============================================================================
