------------------------- MODULE ScreenshotPipeline --------------------------
(***************************************************************************)
(* From a screenshot to a verdict (modules/wb_screenshot_control): the     *)
(* intake, the extraction that reads the fields of a file, the decision    *)
(* that compares them with those of other screenshots, the manager who     *)
(* names the outcome late, its expiry, and administrators who overrule.    *)
(*                                                                         *)
(* An event is handled once (module Outbox), and here it may wait as long  *)
(* as it likes: the delays of retries and deferrals, and the order events  *)
(* arrive in, are any.  One process consumes each topic, an event at a     *)
(* time, and all decisions share a partition.  What the recognition and    *)
(* the rules compute from a picture is a choice; which step may follow     *)
(* which, who holds which row, and what a decision is compared with are    *)
(* those of the code.                                                      *)
(***************************************************************************)
EXTENDS Integers, FiniteSets, FiniteSetsExt

CONSTANTS
  Submissions,   \* numbered in the order of (received_at, id)
  Files,         \* pictures, by sha256
  Users,         \* managers
  Cases,         \* what a chat may be about: chat, minute and text of a review
  Outcomes,
  Admins,        \* requests of administrators at the same time
  MaxAttempts,   \* extraction_max_attempts
  MaxDeferrals,  \* MAX_DEFERRALS
  MaxReprocess,  \* bound: screenshots sent round again
  MaxFaults      \* bound: processes that die, messages given up

ASSUME BoundsAssumption ==
  /\ Submissions \subseteq Nat
  /\ MaxAttempts \in Nat \ {0}
  /\ {MaxDeferrals, MaxReprocess, MaxFaults} \subseteq Nat
  /\ {"none", "failed", "foreign"} \cap Cases = {}
  /\ "none" \notin Outcomes \cup Files

VARIABLES
  row,         \* submissions
  extraction,  \* extractions: what was read from a file
  submitted,   \* unhandled ScreenshotSubmitted events, by submission and attempt
  extracted,   \* unhandled ScreenshotExtracted events, by submission and deferrals
  extracting,  \* the event handled outside a transaction; are known fields reused?
  deciding,    \* the decision between its reads and its commit: it locks the row
  resolving,   \* an administrator between the look for a conflict and the commit
  lost,        \* submissions with an event given up that could not be parked
  reprocessed,
  faults

eventVars == <<submitted, extracted>>
actorVars == <<extracting, deciding, resolving>>
bounds == <<reprocessed, faults>>
vars == <<row, extraction, eventVars, actorVars, lost, bounds>>

Verdicts == {"accepted", "duplicate", "needs_review", "rejected"}
Readings == Cases \cup {"foreign"}   \* "foreign": no chat of WB, or unreadable
Attempts == 0..MaxAttempts - 1
Deferrals == 0..MaxDeferrals

\* keyed: the case keys are set.  age: 0 in the order window of half an hour, 1
\* past it, 2 past outcome_ttl_hours.
RowState ==
  [stage : {"absent", "processing", "extracted", "decided"},
   file : Files \cup {"none"}, user : Users \cup {"none"},
   outcome : Outcomes \cup {"none"}, verdict : Verdicts \cup {"none"},
   auto : Verdicts \cup {"none"}, keyed : BOOLEAN, age : 0..2]

NoRow == [stage |-> "absent", file |-> "none", user |-> "none", outcome |-> "none",
          verdict |-> "none", auto |-> "none", keyed |-> FALSE, age |-> 0]
NoEvent == [s |-> -1, attempt |-> 0, reuse |-> FALSE]
NoDecision == [s |-> -1, deferrals |-> 0, verdict |-> "none"]

\* The types of the tables, the events and the transactions on their way.
TypeOK ==
  /\ row \in [Submissions -> RowState]
  /\ extraction \in [Files -> Readings \cup {"none", "failed"}]
  /\ submitted \in [Submissions \X Attempts -> Nat]
  /\ extracted \in [Submissions \X Deferrals -> Nat]
  /\ extracting \in {NoEvent} \cup [s : Submissions, attempt : Attempts, reuse : BOOLEAN]
  /\ deciding \in {NoDecision}
                  \cup [s : Submissions, deferrals : Deferrals, verdict : Verdicts]
  /\ resolving \in [Admins -> Submissions \cup {-1}]
  /\ lost \subseteq Submissions
  /\ reprocessed \in 0..MaxReprocess /\ faults \in 0..MaxFaults

Init ==
  /\ row = [s \in Submissions |-> NoRow]
  /\ extraction = [f \in Files |-> "none"]
  /\ submitted = [e \in Submissions \X Attempts |-> 0]
  /\ extracted = [e \in Submissions \X Deferrals |-> 0]
  /\ extracting = NoEvent /\ deciding = NoDecision
  /\ resolving = [a \in Admins |-> -1]
  /\ lost = {}
  /\ reprocessed = 0 /\ faults = 0

Present(s) == row[s].stage # "absent"
Read(s) == extraction[row[s].file]
Locked(s) == deciding.s = s \/ \E a \in Admins : resolving[a] = s
Plus(events, e) == [events EXCEPT ![e] = @ + 1]
Minus(events, e) == [events EXCEPT ![e] = @ - 1]
Fault == faults < MaxFaults /\ faults' = faults + 1 /\ UNCHANGED reprocessed

\* decide_system.
Decided(s, verdict) ==
  [row EXCEPT ![s] = [@ EXCEPT !.verdict = verdict, !.auto = verdict, !.stage = "decided"]]

\* CLAIMED: without an outcome and a verdict a screenshot is nobody's original.
Claimed(s) == row[s].verdict # "none" \/ row[s].outcome # "none"

\* What exact_original and candidates look among.
Rivals(s) == {t \in Submissions \ {s} :
                Present(t) /\ row[t].verdict # "rejected" /\ Claimed(t)}
Copies(s, file) == {t \in Rivals(s) : row[t].file = file}

AwaitsOutcome(s) == row[s].outcome = "none" /\ row[s].age < 2
-----------------------------------------------------------------------------
\* IngestService._store: a copy of a file that has an original needs no reading.
\* received_at is when the transaction began, so rows may appear out of their
\* order, though not half an hour late.

Ingest(s, user, file, outcome) ==
  /\ ~Present(s)
  /\ \A t \in Submissions : t > s => row[t].age = 0
  /\ LET new == [NoRow EXCEPT !.file = file, !.user = user, !.outcome = outcome] IN
     \/ /\ Copies(s, file) # {}
        /\ row' = [row EXCEPT ![s] = [new EXCEPT !.stage = "decided",
                                        !.verdict = "duplicate", !.auto = "duplicate"]]
        /\ UNCHANGED submitted
     \/ /\ Copies(s, file) = {}
        /\ row' = [row EXCEPT ![s] = [new EXCEPT !.stage = "processing"]]
        /\ submitted' = Plus(submitted, <<s, 0>>)
  /\ UNCHANGED <<extraction, extracted, actorVars, lost, bounds>>
-----------------------------------------------------------------------------
\* ExtractionService.handle.

\* _prepare: the fields of a file that was read once are used again.
ExtractBegin(s, attempt) ==
  /\ extracting = NoEvent
  /\ submitted[<<s, attempt>>] > 0
  /\ row[s].stage = "processing"
  /\ extracting' = [s |-> s, attempt |-> attempt, reuse |-> Read(s) \in Readings]
  /\ UNCHANGED <<row, extraction, eventVars, deciding, resolving, lost, bounds>>

\* _prepare: the submission is past this stage, and the event is ticked off.
ExtractSkip(s, attempt) ==
  /\ extracting = NoEvent
  /\ submitted[<<s, attempt>>] > 0
  /\ row[s].stage # "processing"
  /\ submitted' = Minus(submitted, <<s, attempt>>)
  /\ UNCHANGED <<row, extraction, extracted, actorVars, lost, bounds>>

\* _finish locks the row and ticks the event off.
ExtractFinish ==
  /\ extracting # NoEvent /\ ~Locked(extracting.s)
  /\ extracting' = NoEvent
  /\ UNCHANGED <<deciding, resolving, lost, bounds>>

\* The submission went past this stage meanwhile.
ExtractLate ==
  /\ ExtractFinish
  /\ row[extracting.s].stage # "processing"
  /\ submitted' = Minus(submitted, <<extracting.s, extracting.attempt>>)
  /\ UNCHANGED <<row, extraction, extracted>>

\* _extracted: the fields of the file, read now or known, and the case keys.
ExtractOk ==
  LET s == extracting.s IN
  /\ ExtractFinish
  /\ row[s].stage = "processing"
  /\ \/ extracting.reuse /\ UNCHANGED extraction
     \/ /\ ~extracting.reuse
        /\ \E r \in Readings : extraction' = [extraction EXCEPT ![row[s].file] = r]
  /\ row' = [row EXCEPT ![s] = [@ EXCEPT !.stage = "extracted", !.keyed = TRUE]]
  /\ submitted' = Minus(submitted, <<s, extracting.attempt>>)
  /\ extracted' = Plus(extracted, <<s, 0>>)

\* The last attempt failed: to review, unless the outcome is still to come.
AfterFailures(s) ==
  IF AwaitsOutcome(s) THEN [row EXCEPT ![s].stage = "extracted"]
  ELSE Decided(s, "needs_review")

\* _failed.
ExtractFailed ==
  LET s == extracting.s  next == extracting.attempt + 1 IN
  /\ ExtractFinish
  /\ row[s].stage = "processing"
  /\ \/ /\ next < MaxAttempts
        /\ submitted' = Plus(Minus(submitted, <<s, extracting.attempt>>), <<s, next>>)
        /\ UNCHANGED <<row, extraction>>
     \/ /\ next >= MaxAttempts
        /\ submitted' = Minus(submitted, <<s, extracting.attempt>>)
        /\ extraction' = IF Read(s) \in Readings THEN extraction     \* keep_ok
                         ELSE [extraction EXCEPT ![row[s].file] = "failed"]
        /\ row' = AfterFailures(s)
  /\ UNCHANGED extracted
-----------------------------------------------------------------------------
\* DecisionService.handle and domain/decide.py.

\* earlier_undecided.
EarlierUndecided(s) ==
  \E t \in Submissions :
    /\ t < s /\ row[t].stage \in {"processing", "extracted"}
    /\ row[t].outcome # "none" /\ row[t].age = 0

\* compare_case with those that the keys of both rows find.
SameKeys(s, t) == row[s].keyed /\ row[t].keyed /\ Read(s) = Read(t) /\ Read(s) \in Cases

\* Mutant of SameCase: a manager's screenshots are compared with his own.
OwnSameCase(s) == {t \in Rivals(s) : SameKeys(s, t) /\ row[t].user = row[s].user}

SameCase(s) == {t \in Rivals(s) : SameKeys(s, t)}

\* _root: the earliest that is no duplicate itself, or else the earliest.
Root(matched) ==
  LET originals == {t \in matched : row[t].verdict # "duplicate"} IN
  Min(IF originals # {} THEN originals ELSE matched)

\* _duplicate_group: a manager who names another outcome may be correcting it.
DuplicateOf(s, root) ==
  IF row[root].user = row[s].user /\ row[root].outcome \notin {"none", row[s].outcome}
  THEN "needs_review" ELSE "duplicate"

\* The verdicts decide may come to.  Any other screenshot may turn out so alike in
\* its text or its picture that it matches too, and what was read may be doubtful.
Conclusions(s) ==
  LET copies == Copies(s, row[s].file)
      known == copies \cup SameCase(s)
      matches == {known \cup alike : alike \in SUBSET Rivals(s)} \ {{}}
      unmatched == {v \in {"accepted", "needs_review"} : v = "accepted" => Read(s) \in Cases}
  IN CASE row[s].outcome = "none" -> {"rejected"}
       [] row[s].outcome # "none" /\ copies = {} /\ Read(s) = "foreign" -> {"rejected"}
       [] OTHER -> {DuplicateOf(s, Root(matched)) : matched \in matches}
                   \cup (IF known = {} THEN unmatched ELSE {})

\* The consumer takes an event of s and locks its row.
Takes(s, deferrals) ==
  /\ deciding = NoDecision /\ ~Locked(s)
  /\ extracted[<<s, deferrals>>] > 0

Decidable(s) == row[s].stage = "extracted" /\ ~AwaitsOutcome(s)
MustWait(s, deferrals) == deferrals < MaxDeferrals /\ EarlierUndecided(s)

\* The event is ticked off; the outcome, or its expiry, will decide.
DecideSkip(s, deferrals) ==
  /\ Takes(s, deferrals) /\ ~Decidable(s)
  /\ extracted' = Minus(extracted, <<s, deferrals>>)
  /\ UNCHANGED <<row, extraction, submitted, actorVars, lost, bounds>>

DecideDefer(s, deferrals) ==
  /\ Takes(s, deferrals) /\ Decidable(s) /\ MustWait(s, deferrals)
  /\ extracted' = Plus(Minus(extracted, <<s, deferrals>>), <<s, deferrals + 1>>)
  /\ UNCHANGED <<row, extraction, submitted, actorVars, lost, bounds>>

DecideRead(s, deferrals) ==
  /\ Takes(s, deferrals) /\ Decidable(s) /\ ~MustWait(s, deferrals)
  /\ \E v \in Conclusions(s) :
       deciding' = [s |-> s, deferrals |-> deferrals, verdict |-> v]
  /\ UNCHANGED <<row, extraction, eventVars, extracting, resolving, lost, bounds>>

DecideCommit ==
  /\ deciding # NoDecision
  /\ row' = Decided(deciding.s, deciding.verdict)
  /\ extracted' = Minus(extracted, <<deciding.s, deciding.deferrals>>)
  /\ deciding' = NoDecision
  /\ UNCHANGED <<extraction, submitted, extracting, resolving, lost, bounds>>
-----------------------------------------------------------------------------
\* A process dies, or a message fails five times and is given up: EventConsumer
\* parks its submission, if the database lets it.

ExtractorDies ==
  /\ extracting # NoEvent /\ Fault
  /\ extracting' = NoEvent
  /\ UNCHANGED <<row, extraction, eventVars, deciding, resolving, lost>>

DeciderDies ==
  /\ deciding # NoDecision /\ Fault
  /\ deciding' = NoDecision
  /\ UNCHANGED <<row, extraction, eventVars, extracting, resolving, lost>>

\* Mutant of Parked: a verdict is no reason to leave a submission alone.
ParkedAnyway(s) == Decided(s, "needs_review")

\* park_failed_event.
Parked(s) == IF row[s].verdict = "none" THEN Decided(s, "needs_review") ELSE row

Park(s) ==
  /\ Fault
  /\ \/ ~Locked(s) /\ row' = Parked(s) /\ UNCHANGED lost
     \/ lost' = lost \cup {s} /\ UNCHANGED row

GiveUpSubmitted(s, attempt) ==
  /\ extracting = NoEvent
  /\ submitted[<<s, attempt>>] > 0
  /\ Park(s)
  /\ submitted' = Minus(submitted, <<s, attempt>>)
  /\ UNCHANGED <<extraction, extracted, actorVars>>

\* Mutant of GiveUpExtracted: also while the decision is being made.
GiveUpMeanwhile(s, deferrals) ==
  /\ extracted[<<s, deferrals>>] > 0
  /\ Park(s)
  /\ extracted' = Minus(extracted, <<s, deferrals>>)
  /\ UNCHANGED <<extraction, submitted, actorVars>>

GiveUpExtracted(s, deferrals) ==
  /\ deciding = NoDecision
  /\ extracted[<<s, deferrals>>] > 0
  /\ Park(s)
  /\ extracted' = Minus(extracted, <<s, deferrals>>)
  /\ UNCHANGED <<extraction, submitted, actorVars>>
-----------------------------------------------------------------------------
\* Mutant of Waits: the stage is compared with the wrong one.
WaitsForReading(s) == row[s].outcome = "none" /\ row[s].stage = "processing"

\* A screenshot that was recognised and has no outcome waits for one.
Waits(s) == row[s].outcome = "none" /\ row[s].stage = "extracted"

\* SubmissionsService.change_outcome, with _decide_now for one that waits.
ChangeOutcome(s, outcome) ==
  /\ Present(s) /\ ~Locked(s)
  /\ row[s].verdict = "none"
  /\ row' = [row EXCEPT ![s].outcome = outcome]
  /\ extracted' = IF Waits(s) THEN Plus(extracted, <<s, 0>>) ELSE extracted
  /\ UNCHANGED <<extraction, submitted, actorVars, lost, bounds>>

\* expire_outcomes, which passes over locked rows.
ExpireOutcome(s) ==
  /\ Present(s) /\ ~Locked(s)
  /\ row[s].outcome = "none" /\ row[s].verdict = "none" /\ row[s].age = 2
  /\ row' = Decided(s, "rejected")
  /\ UNCHANGED <<extraction, eventVars, actorVars, lost, bounds>>

\* The clock; who came earlier is never younger.
GrowsOlder(s) ==
  /\ Present(s) /\ row[s].age < 2
  /\ \A t \in Submissions : t < s /\ Present(t) => row[t].age > row[s].age
  /\ row' = [row EXCEPT ![s].age = @ + 1]
  /\ UNCHANGED <<extraction, eventVars, actorVars, lost, bounds>>
-----------------------------------------------------------------------------
\* AdminService.  A decision may correct the outcome as well.

Resolved(s, verdict, outcome) ==
  [row EXCEPT ![s] = [@ EXCEPT !.verdict = verdict, !.outcome = outcome]]
OutcomesAfter(s) == Outcomes \cup {row[s].outcome}

\* accepted_with_same_key.
ConflictOf(s) == {t \in Submissions \ {s} : row[t].verdict = "accepted" /\ SameKeys(s, t)}

\* approve and not_duplicate lock the row and look for a conflict ...
ResolveRead(a, s) ==
  /\ resolving[a] = -1 /\ ~Locked(s)
  /\ row[s].stage = "decided"
  /\ row[s].verdict \in {"needs_review", "duplicate"}
  /\ ConflictOf(s) = {}
  /\ resolving' = [resolving EXCEPT ![a] = s]
  /\ UNCHANGED <<row, extraction, eventVars, extracting, deciding, lost, bounds>>

\* ... and commit.
ResolveCommit(a) ==
  LET s == resolving[a] IN
  /\ s # -1
  /\ \E o \in OutcomesAfter(s) : row' = Resolved(s, "accepted", o)
  /\ resolving' = [resolving EXCEPT ![a] = -1]
  /\ UNCHANGED <<extraction, eventVars, extracting, deciding, lost, bounds>>

\* decline and duplicate_of, of a screenshot under review or accepted.  Which
\* original duplicate_of names is left out.
Overrule(s, verdict) ==
  /\ ~Locked(s)
  /\ row[s].stage = "decided"
  /\ row[s].verdict \in {"needs_review", "accepted"}
  /\ verdict = "duplicate" => \E t \in Submissions \ {s} : Present(t)
  /\ \E o \in OutcomesAfter(s) : row' = Resolved(s, verdict, o)
  /\ UNCHANGED <<extraction, eventVars, actorVars, lost, bounds>>

\* audit_ok confirms what the automation accepted; which of it is drawn for the
\* audit, once, is left out.
AuditOk(s) ==
  /\ ~Locked(s)
  /\ row[s].stage = "decided" /\ row[s].verdict = "accepted" /\ row[s].auto = "accepted"
  /\ \E o \in OutcomesAfter(s) : row' = Resolved(s, "accepted", o)
  /\ UNCHANGED <<extraction, eventVars, actorVars, lost, bounds>>

\* reprocess, at any stage: the verdict goes, the keys and auto_verdict stay.
Reprocess(s) ==
  /\ Present(s) /\ ~Locked(s)
  /\ reprocessed < MaxReprocess
  /\ row' = [row EXCEPT ![s] = [@ EXCEPT !.verdict = "none", !.stage = "processing"]]
  /\ submitted' = Plus(submitted, <<s, 0>>)
  /\ lost' = lost \ {s}
  /\ reprocessed' = reprocessed + 1
  /\ UNCHANGED <<extraction, extracted, actorVars, faults>>
-----------------------------------------------------------------------------
Extract ==
  \/ \E s \in Submissions, k \in Attempts : ExtractBegin(s, k) \/ ExtractSkip(s, k)
  \/ ExtractLate \/ ExtractOk \/ ExtractFailed

Decide ==
  \/ \E s \in Submissions, d \in Deferrals :
       DecideSkip(s, d) \/ DecideDefer(s, d) \/ DecideRead(s, d)
  \/ DecideCommit

Fail ==
  \/ ExtractorDies \/ DeciderDies
  \/ \E s \in Submissions, k \in Attempts : GiveUpSubmitted(s, k)
  \/ \E s \in Submissions, d \in Deferrals : GiveUpExtracted(s, d)

Manage(s) ==
  \/ \E u \in Users, f \in Files, o \in Outcomes \cup {"none"} : Ingest(s, u, f, o)
  \/ \E o \in Outcomes : ChangeOutcome(s, o)

Administer ==
  \/ \E a \in Admins, s \in Submissions : ResolveRead(a, s)
  \/ \E a \in Admins : ResolveCommit(a)
  \/ \E s \in Submissions, v \in {"rejected", "duplicate"} : Overrule(s, v)
  \/ \E s \in Submissions : AuditOk(s) \/ Reprocess(s)

Next ==
  \/ Extract \/ Decide \/ Fail \/ Administer
  \/ \E s \in Submissions : Manage(s) \/ ExpireOutcome(s) \/ GrowsOlder(s)

Spec == Init /\ [][Next]_vars
-----------------------------------------------------------------------------
\* The automation credits a case once: of the screenshots whose keys show the
\* same case it has accepted at most one that still counts, whatever retries,
\* deferrals, second rounds and administrators come between (DecisionService).
Credited(s) == row[s].verdict = "accepted" /\ row[s].auto = "accepted"

SystemCreditsOnce ==
  \A s, t \in Submissions : Credited(s) /\ Credited(t) /\ SameKeys(s, t) => s = t

\* A screenshot without a verdict has an event that leads to one, or waits for
\* its outcome, unless its event was given up and parking it failed as well;
\* nothing else would pick it up (change_outcome, _failed, reprocess).
NothingStranded ==
  \A s \in Submissions : Present(s) /\ row[s].verdict = "none" =>
    \/ s \in lost
    \/ row[s].stage = "processing" /\ \E k \in Attempts : submitted[<<s, k>>] > 0
    \/ row[s].stage = "extracted" /\ \E d \in Deferrals : extracted[<<s, d>>] > 0
    \/ row[s].stage = "extracted" /\ row[s].outcome = "none"

\* What has a verdict gets another one only from an administrator and in the
\* ways of TRANSITIONS; a late event, a parked one, the expiry of the outcome or
\* a decision on its way leaves it alone (park_failed_event, _finish, handle).
DecidedStands ==
  [][\A s \in Submissions :
       row[s].verdict # "none" /\ row'[s].verdict \notin {"none", row[s].verdict}
       => /\ row'[s].auto = row[s].auto
          /\ row[s].verdict # "rejected" /\ row'[s].verdict # "needs_review"]_vars

\* "a failure of our side does not penalise the manager" (park_failed_event): the
\* automation rejects a screenshot with an outcome only for what was read in it.
RejectedForCause ==
  \A s \in Submissions :
    row[s].verdict = "rejected" /\ row[s].auto = "rejected" /\ row[s].outcome # "none"
    => Read(s) = "foreign"
=============================================================================
