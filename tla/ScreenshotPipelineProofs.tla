----------------------- MODULE ScreenshotPipelineProofs ----------------------
(***************************************************************************)
(* What holds of ScreenshotPipeline for any screenshots, files, cases,     *)
(* managers and administrators and any number of retries, deferrals and    *)
(* faults: the types, that the automation credits a case once, that no     *)
(* screenshot is stranded, that verdicts stand, and that only what was     *)
(* read in a screenshot rejects it.                                        *)
(***************************************************************************)
EXTENDS ScreenshotPipeline, TLAPS

\* A row is decided when it has a verdict, its keys are those of its file's reading,
\* and a verdict tells what the automation may have said: nobody but the automation
\* asks for a review, and what it rejected stays rejected until sent round again.
RowSound(s) ==
  /\ row[s].stage = "decided" <=> row[s].verdict # "none"
  /\ Present(s) => row[s].file \in Files
  /\ row[s].keyed => Present(s) /\ Read(s) \in Readings
  /\ row[s].verdict = "needs_review" => row[s].auto = "needs_review"
  /\ row[s].verdict \in {"accepted", "duplicate"} => row[s].auto # "rejected"
  /\ row[s].verdict = "rejected" /\ row[s].auto = "rejected" /\ row[s].outcome # "none"
     => Read(s) = "foreign"

RowsSound == \A s \in Submissions : RowSound(s)

\* What the automation accepted and may count: an administrator who makes it a
\* duplicate can make it count again.
Standing(s) == row[s].auto = "accepted" /\ row[s].verdict \in {"accepted", "duplicate"}

OneStanding ==
  \A s, t \in Submissions : Standing(s) /\ Standing(t) /\ SameKeys(s, t) => s = t

\* Events are about screenshots that are there.
EventsSound ==
  \A s \in Submissions :
    /\ \A k \in Attempts : submitted[<<s, k>>] > 0 => Present(s)
    /\ \A d \in Deferrals : extracted[<<s, d>>] > 0 => Present(s)

\* The event being handled is not ticked off, and a file is read again only if its
\* fields are unknown.
ExtractionSound ==
  extracting # NoEvent =>
    /\ submitted[<<extracting.s, extracting.attempt>>] > 0
    /\ extracting.reuse <=> Read(extracting.s) \in Readings

\* A decision holds its row, and still agrees with what it was compared with.
DecisionSound ==
  deciding # NoDecision =>
    /\ extracted[<<deciding.s, deciding.deferrals>>] > 0
    /\ row[deciding.s].stage = "extracted"
    /\ deciding.verdict = "accepted" =>
         \A t \in Submissions \ {deciding.s} : ~(Standing(t) /\ SameKeys(deciding.s, t))
    /\ deciding.verdict = "rejected" /\ row[deciding.s].outcome # "none"
       => Read(deciding.s) = "foreign"

\* Administrators hold rows of their own, under review or duplicates.
ResolvingSound ==
  \A a \in Admins : resolving[a] # -1 =>
    /\ row[resolving[a]].stage = "decided"
    /\ row[resolving[a]].verdict \in {"needs_review", "duplicate"}
    /\ \A b \in Admins : resolving[b] = resolving[a] => b = a

ActorsSound == EventsSound /\ ExtractionSound /\ DecisionSound /\ ResolvingSound

IInv == TypeOK /\ RowsSound /\ OneStanding /\ ActorsSound /\ NothingStranded

\* A screenshot without a verdict has something to wait for.
Fed(s) ==
  Present(s) /\ row[s].verdict = "none" =>
    \/ s \in lost
    \/ row[s].stage = "processing" /\ \E k \in Attempts : submitted[<<s, k>>] > 0
    \/ row[s].stage = "extracted" /\ \E d \in Deferrals : extracted[<<s, d>>] > 0
    \/ row[s].stage = "extracted" /\ row[s].outcome = "none"

\* The bounds, and the numbers of the submissions.
LEMMA Numbers ==
  /\ Submissions \subseteq Nat /\ -1 \notin Submissions
  /\ MaxAttempts \in Nat \ {0} /\ MaxDeferrals \in Nat
  /\ MaxReprocess \in Nat /\ MaxFaults \in Nat
  /\ 0 \in Attempts /\ 0 \in Deferrals
BY BoundsAssumption DEF Attempts, Deferrals

\* "none" and "failed" are no readings.
LEMMA NotRead ==
  /\ "none" \notin Readings /\ "failed" \notin Readings /\ "foreign" \notin Cases
  /\ Cases \subseteq Readings /\ "foreign" \in Readings
  /\ "none" \notin Files
BY BoundsAssumption DEF Readings

\* decide_system touches one row.
LEMMA DecidedRow ==
  ASSUME row \in [Submissions -> RowState], NEW s \in Submissions, NEW v \in Verdicts
  PROVE  /\ Decided(s, v) \in [Submissions -> RowState]
         /\ \A t \in Submissions \ {s} : Decided(s, v)[t] = row[t]
         /\ Decided(s, v)[s].stage = "decided"
         /\ Decided(s, v)[s].verdict = v /\ Decided(s, v)[s].auto = v
         /\ Decided(s, v)[s].file = row[s].file /\ Decided(s, v)[s].keyed = row[s].keyed
         /\ Decided(s, v)[s].outcome = row[s].outcome
<1>1. Decided(s, v)[s] = [row[s] EXCEPT !.verdict = v, !.auto = v, !.stage = "decided"]
  BY DEF Decided
<1>2. row[s] \in RowState
  OBVIOUS
<1>3. Decided(s, v)[s] \in RowState
  BY <1>1, <1>2 DEF RowState
<1>4. \A t \in Submissions \ {s} : Decided(s, v)[t] = row[t]
  BY DEF Decided
<1>5. Decided(s, v) \in [Submissions -> RowState]
  BY <1>1, <1>3 DEF Decided
<1> QED BY <1>1, <1>2, <1>4, <1>5 DEF RowState

\* An administrator's decision touches one row.
LEMMA ResolvedRow ==
  ASSUME row \in [Submissions -> RowState], NEW s \in Submissions, NEW v \in Verdicts,
         NEW o \in OutcomesAfter(s)
  PROVE  /\ Resolved(s, v, o) \in [Submissions -> RowState]
         /\ \A t \in Submissions \ {s} : Resolved(s, v, o)[t] = row[t]
         /\ Resolved(s, v, o)[s].verdict = v
         /\ Resolved(s, v, o)[s].stage = row[s].stage
         /\ Resolved(s, v, o)[s].auto = row[s].auto
         /\ Resolved(s, v, o)[s].file = row[s].file
         /\ Resolved(s, v, o)[s].keyed = row[s].keyed
<1>1. Resolved(s, v, o)[s] = [row[s] EXCEPT !.verdict = v, !.outcome = o]
  BY DEF Resolved
<1>2. row[s] \in RowState
  OBVIOUS
<1>3. Resolved(s, v, o)[s] \in RowState
  BY <1>1, <1>2 DEF RowState, OutcomesAfter
<1>4. \A t \in Submissions \ {s} : Resolved(s, v, o)[t] = row[t]
  BY DEF Resolved
<1>5. Resolved(s, v, o) \in [Submissions -> RowState]
  BY <1>1, <1>3 DEF Resolved
<1> QED BY <1>1, <1>2, <1>4, <1>5 DEF RowState

\* What a decision may come to.
LEMMA ConclusionFacts ==
  ASSUME NEW s \in Submissions, NEW v \in Conclusions(s)
  PROVE  /\ v \in Verdicts
         /\ v = "accepted" => SameCase(s) = {}
         /\ v = "rejected" /\ row[s].outcome # "none" => Read(s) = "foreign"
<1>1. \A t : DuplicateOf(s, t) \in {"needs_review", "duplicate"}
  BY DEF DuplicateOf
<1> QED BY <1>1 DEF Conclusions, Verdicts
-----------------------------------------------------------------------------
\* A step changes the row of one screenshot, which keeps its file, and may read files
\* whose fields are unknown.
OneRow(s) ==
  /\ row' \in [Submissions -> RowState]
  /\ \A t \in Submissions \ {s} : row'[t] = row[t]
  /\ Present(s) => row'[s].stage # "absent" /\ row'[s].file = row[s].file
  /\ extraction' \in [Files -> Readings \cup {"none", "failed"}]
  /\ \A f \in Files : extraction[f] \in Readings => extraction'[f] = extraction[f]

\* ... which counts for the automation only if it did before.
NotPromoted(s) ==
  row'[s].auto = "accepted" /\ row'[s].verdict \in {"accepted", "duplicate"} =>
    Standing(s) /\ row'[s].keyed = row[s].keyed

\* ... and which nobody holds, unless it just grows older.
Older(s) == row'[s] = [row[s] EXCEPT !.age = row'[s].age]
Unheld(s) == Locked(s) => Older(s)

\* ... and whose verdict, if it had one, is changed in the ways of TRANSITIONS only.
Stands(s) ==
  row[s].verdict # "none" /\ row'[s].verdict \notin {"none", row[s].verdict} =>
    /\ row'[s].auto = row[s].auto
    /\ row[s].verdict # "rejected" /\ row'[s].verdict # "needs_review"

Kept == IInv' /\ \A s \in Submissions : Stands(s)

\* No reading that is known changes.
LEMMA ReadingsStay ==
  ASSUME IInv, NEW s \in Submissions, OneRow(s)
  PROVE  \A t \in Submissions :
           /\ Present(t) => row'[t].stage # "absent" /\ row'[t].file = row[t].file
           /\ Present(t) /\ Read(t) \in Readings => extraction'[row'[t].file] = Read(t)
<1>1. ASSUME NEW t \in Submissions, Present(t)
      PROVE  row'[t].stage # "absent" /\ row'[t].file = row[t].file
  BY <1>1 DEF OneRow, Present
<1>2. ASSUME NEW t \in Submissions, Present(t), Read(t) \in Readings
      PROVE  extraction'[row'[t].file] = Read(t)
  <2>1. row[t].file \in Files
    BY <1>2 DEF IInv, RowsSound, RowSound
  <2> QED BY <1>1, <1>2, <2>1 DEF OneRow, Read
<1> QED BY <1>1, <1>2

\* The rows stay sound if the changed one is, and counts only if no other counts for
\* its case.
LEMMA RowsKept ==
  ASSUME IInv, NEW s \in Submissions, OneRow(s), RowSound(s)',
         Standing(s)' => /\ row'[s].keyed = row[s].keyed
                         /\ \A t \in Submissions \ {s} : ~(Standing(t) /\ SameKeys(s, t))
  PROVE  RowsSound' /\ OneStanding'
<1>1. ASSUME NEW t \in Submissions \ {s} PROVE RowSound(t)'
  <2>1. RowSound(t) /\ row'[t] = row[t]
    BY DEF IInv, RowsSound, OneRow
  <2>2. Present(t) /\ Read(t) \in Readings => Read(t)' = Read(t)
    BY ReadingsStay DEF Read
  <2> QED BY <2>1, <2>2, NotRead DEF RowSound, Present
<1>2. RowsSound'
  BY <1>1 DEF RowsSound
<1>3. ASSUME NEW t \in Submissions, row[t].keyed PROVE Read(t)' = Read(t)
  BY <1>3, ReadingsStay DEF IInv, RowsSound, RowSound, Read
<1>4. ASSUME NEW a \in Submissions \ {s}, NEW b \in Submissions \ {s},
             SameKeys(a, b)', Standing(a)', Standing(b)'
      PROVE  a = b
  <2>1. row'[a] = row[a] /\ row'[b] = row[b]
    BY DEF OneRow
  <2>2. SameKeys(a, b) /\ Standing(a) /\ Standing(b)
    BY <1>3, <1>4, <2>1 DEF SameKeys, Standing
  <2> QED BY <2>2 DEF IInv, OneStanding
<1>5. ASSUME NEW t \in Submissions \ {s}, SameKeys(s, t)' \/ SameKeys(t, s)',
             Standing(s)', Standing(t)'
      PROVE  FALSE
  <2>1. row'[t] = row[t] /\ row'[s].keyed = row[s].keyed
    BY <1>5 DEF OneRow
  <2>2. SameKeys(s, t) /\ Standing(t)
    BY <1>3, <1>5, <2>1 DEF SameKeys, Standing
  <2> QED BY <1>5, <2>2
<1>6. OneStanding'
  BY <1>4, <1>5 DEF OneStanding
<1> QED BY <1>2, <1>6

\* A decision on its way is not disturbed.
LEMMA DecisionKept ==
  ASSUME IInv, NEW s \in Submissions, OneRow(s), NotPromoted(s), deciding.s = s => Older(s),
         UNCHANGED deciding, extracted' \in [Submissions \X Deferrals -> Nat],
         \A e \in Submissions \X Deferrals : extracted'[e] >= extracted[e]
  PROVE  DecisionSound'
<1> SUFFICES ASSUME deciding # NoDecision PROVE DecisionSound'
  BY DEF DecisionSound
<1> DEFINE d == deciding.s
<1>1. /\ d \in Submissions /\ <<d, deciding.deferrals>> \in Submissions \X Deferrals
      /\ extracted \in [Submissions \X Deferrals -> Nat] /\ extracted[<<d, deciding.deferrals>>] > 0
  BY DEF IInv, TypeOK, ActorsSound, DecisionSound
<1>2. Present(d) /\ row[d].stage = "extracted"
  BY DEF IInv, ActorsSound, DecisionSound, Present
<1>3. /\ row'[d].stage = row[d].stage /\ row'[d].keyed = row[d].keyed
      /\ row'[d].outcome = row[d].outcome
  <2>1. CASE d = s
    <3>1. row'[d] = [row[d] EXCEPT !.age = row'[d].age] /\ row[d] \in RowState
      BY <1>1, <2>1 DEF Older, IInv, TypeOK
    <3> QED BY <3>1 DEF RowState
  <2>2. CASE d # s
    BY <1>1, <2>2 DEF OneRow
  <2> QED BY <2>1, <2>2
<1>4. extracted'[<<d, deciding.deferrals>>] > 0
  <2>1. extracted'[<<d, deciding.deferrals>>] >= extracted[<<d, deciding.deferrals>>]
    BY <1>1
  <2>2. extracted[<<d, deciding.deferrals>>] \in Nat /\ extracted'[<<d, deciding.deferrals>>] \in Nat
    BY <1>1
  <2> QED BY <1>1, <2>1, <2>2
<1>5. ASSUME NEW t \in Submissions, row[t].keyed PROVE Read(t)' = Read(t)
  BY <1>5, ReadingsStay DEF IInv, RowsSound, RowSound, Read
<1>6. ASSUME NEW t \in Submissions \ {d}, deciding.verdict = "accepted",
             Standing(t)', SameKeys(d, t)'
      PROVE  FALSE
  <2>1. Standing(t) /\ row'[t].keyed = row[t].keyed
    BY <1>6 DEF NotPromoted, OneRow, Standing
  <2>2. SameKeys(d, t)
    BY <1>1, <1>3, <1>5, <1>6, <2>1 DEF SameKeys
  <2> QED BY <1>6, <2>1, <2>2 DEF IInv, ActorsSound, DecisionSound
<1>7. deciding.verdict = "rejected" /\ row'[d].outcome # "none" => Read(d)' = "foreign"
  BY <1>1, <1>2, <1>3, ReadingsStay, NotRead DEF IInv, ActorsSound, DecisionSound, Read
<1> QED BY <1>2, <1>3, <1>4, <1>6, <1>7 DEF DecisionSound

\* Nor is a decision of an administrator.
LEMMA ResolvingKept ==
  ASSUME IInv, NEW s \in Submissions, OneRow(s), UNCHANGED resolving,
         (\E a \in Admins : resolving[a] = s) => Older(s)
  PROVE  ResolvingSound'
<1>1. ASSUME NEW a \in Admins, resolving[a] # -1
      PROVE  /\ row'[resolving[a]].stage = row[resolving[a]].stage
             /\ row'[resolving[a]].verdict = row[resolving[a]].verdict
  <2>1. resolving[a] \in Submissions
    BY <1>1 DEF IInv, TypeOK
  <2>2. CASE resolving[a] = s
    <3>1. row'[s] = [row[s] EXCEPT !.age = row'[s].age] /\ row[s] \in RowState
      BY <2>2 DEF Older, IInv, TypeOK
    <3> QED BY <2>2, <3>1 DEF RowState
  <2>3. CASE resolving[a] # s
    BY <2>1, <2>3 DEF OneRow
  <2> QED BY <2>2, <2>3
<1> QED BY <1>1 DEF IInv, ActorsSound, ResolvingSound

\* A step counts events of one screenshot, which is there afterwards.
OwnEvents(s) ==
  /\ submitted' \in [Submissions \X Attempts -> Nat]
  /\ extracted' \in [Submissions \X Deferrals -> Nat]
  /\ row'[s].stage # "absent"
  /\ \A t \in Submissions \ {s} :
       /\ \A k \in Attempts : submitted'[<<t, k>>] = submitted[<<t, k>>]
       /\ \A d \in Deferrals : extracted'[<<t, d>>] = extracted[<<t, d>>]

\* Every event is still about a screenshot, and only the one stepped on may starve.
LEMMA OthersFed ==
  ASSUME IInv, NEW s \in Submissions, \A t \in Submissions \ {s} : row'[t] = row[t],
         OwnEvents(s), lost \ {s} \subseteq lost', Fed(s)'
  PROVE  EventsSound' /\ NothingStranded'
<1>1. ASSUME NEW t \in Submissions \ {s} PROVE Fed(t)'
  <2>1. Fed(t) /\ row'[t] = row[t]
    BY DEF IInv, NothingStranded, Fed
  <2> QED BY <2>1 DEF Fed, Present, OwnEvents
<1>2. NothingStranded'
  BY <1>1 DEF NothingStranded, Fed
<1>3. ASSUME NEW t \in Submissions
      PROVE  /\ \A k \in Attempts : submitted'[<<t, k>>] > 0 => Present(t)'
             /\ \A d \in Deferrals : extracted'[<<t, d>>] > 0 => Present(t)'
  BY DEF IInv, ActorsSound, EventsSound, OwnEvents, Present
<1> QED BY <1>2, <1>3 DEF EventsSound

\* The extraction at work is not disturbed by what happens to rows and other events.
LEMMA ExtractionKept ==
  ASSUME IInv, NEW s \in Submissions, OneRow(s), UNCHANGED <<extracting, extraction>>,
         submitted' \in [Submissions \X Attempts -> Nat],
         \A e \in Submissions \X Attempts : submitted'[e] >= submitted[e]
  PROVE  ExtractionSound'
<1> SUFFICES ASSUME extracting # NoEvent PROVE ExtractionSound'
  BY DEF ExtractionSound
<1> DEFINE e == <<extracting.s, extracting.attempt>>
<1>1. /\ extracting.s \in Submissions /\ extracting.attempt \in Attempts
      /\ submitted[e] \in Nat /\ submitted'[e] \in Nat
  BY DEF IInv, TypeOK
<1>2. submitted[e] > 0 /\ submitted'[e] >= submitted[e]
  BY <1>1 DEF IInv, ActorsSound, ExtractionSound
<1>3. submitted'[e] > 0
  BY <1>1, <1>2
<1>4. row'[extracting.s].file = row[extracting.s].file
  BY <1>1, <1>2, ReadingsStay DEF IInv, ActorsSound, EventsSound
<1> QED BY <1>3, <1>4 DEF IInv, ActorsSound, ExtractionSound, Read

\* What is left to show of a step that changes one row nobody holds.
LEMMA RowStep ==
  ASSUME IInv, NEW s \in Submissions, OneRow(s), RowSound(s)', NotPromoted(s), Unheld(s),
         Stands(s),
         UNCHANGED <<deciding, resolving>>, OwnEvents(s),
         deciding = NoDecision \/ \A e \in Submissions \X Deferrals : extracted'[e] >= extracted[e],
         lost \ {s} \subseteq lost', Fed(s)', ExtractionSound', TypeOK'
  PROVE  Kept
<1>1. RowsSound' /\ OneStanding'
  <2>1. Standing(s)' => Standing(s) /\ row'[s].keyed = row[s].keyed
    BY DEF NotPromoted, Standing
  <2>2. Standing(s) => \A t \in Submissions \ {s} : ~(Standing(t) /\ SameKeys(s, t))
    BY DEF IInv, OneStanding
  <2> QED BY <2>1, <2>2, RowsKept
<1>2. EventsSound' /\ NothingStranded'
  BY OthersFed DEF OneRow
<1>3. DecisionSound'
  <2>1. CASE deciding = NoDecision
    BY <2>1 DEF DecisionSound
  <2>2. CASE \A e \in Submissions \X Deferrals : extracted'[e] >= extracted[e]
    BY <2>2, DecisionKept DEF OwnEvents, Unheld, Locked
  <2> QED BY <2>1, <2>2
<1>4. ResolvingSound'
  BY ResolvingKept DEF Unheld, Locked
<1>5. \A u \in Submissions : Stands(u)
  BY DEF OneRow, Stands
<1> QED BY <1>1, <1>2, <1>3, <1>4, <1>5 DEF Kept, IInv, ActorsSound

\* What is left to show of a step that changes no row.
LEMMA RowlessStep ==
  ASSUME IInv, NEW s \in Submissions, UNCHANGED <<row, extraction, lost>>, OwnEvents(s),
         Fed(s)', ExtractionSound', DecisionSound', ResolvingSound', TypeOK'
  PROVE  Kept
<1>1. RowsSound' /\ OneStanding'
  BY DEF IInv, RowsSound, RowSound, OneStanding, Standing, SameKeys, Present, Read
<1>2. EventsSound' /\ NothingStranded'
  BY OthersFed
<1>3. \A u \in Submissions : Stands(u)
  BY DEF Stands
<1> QED BY <1>1, <1>2, <1>3 DEF Kept, IInv, ActorsSound
-----------------------------------------------------------------------------
\* Initially there is nothing.
LEMMA InitHolds == Init => IInv
<1> SUFFICES ASSUME Init PROVE IInv
  OBVIOUS
<1>1. /\ \A s \in Submissions : row[s] = NoRow
      /\ \A e \in Submissions \X Attempts : submitted[e] = 0
      /\ \A e \in Submissions \X Deferrals : extracted[e] = 0
      /\ extracting = NoEvent /\ deciding = NoDecision /\ \A a \in Admins : resolving[a] = -1
  BY DEF Init
<1>2. NoRow \in RowState
  BY DEF NoRow, RowState
<1>3. TypeOK
  BY <1>2, Numbers DEF Init, TypeOK
<1>4. RowsSound /\ OneStanding
  BY <1>1 DEF NoRow, RowsSound, RowSound, OneStanding, Standing, Present
<1>5. ActorsSound
  BY <1>1 DEF ActorsSound, EventsSound, ExtractionSound, DecisionSound, ResolvingSound
<1>6. NothingStranded
  BY <1>1 DEF NothingStranded, Present, NoRow
<1> QED BY <1>3, <1>4, <1>5, <1>6 DEF IInv
-----------------------------------------------------------------------------
\* The types of the events, and who holds no row.
LEMMA Facts ==
  ASSUME IInv
  PROVE  /\ row \in [Submissions -> RowState]
         /\ extraction \in [Files -> Readings \cup {"none", "failed"}]
         /\ submitted \in [Submissions \X Attempts -> Nat]
         /\ extracted \in [Submissions \X Deferrals -> Nat]
         /\ \A s \in Submissions : Locked(s) =>
              /\ row[s].stage \in {"extracted", "decided"}
              /\ row[s].stage = "extracted" => deciding.s = s
<1>1. \A s \in Submissions : deciding.s = s => row[s].stage = "extracted"
  BY Numbers DEF IInv, ActorsSound, DecisionSound, NoDecision
<1>2. \A s \in Submissions, a \in Admins : resolving[a] = s => row[s].stage = "decided"
  BY Numbers DEF IInv, ActorsSound, ResolvingSound
<1> QED BY <1>1, <1>2 DEF IInv, TypeOK, Locked

\* ScreenshotSubmitted events: none is touched,
LEMMA SubmittedSame ==
  ASSUME IInv, UNCHANGED submitted
  PROVE  /\ submitted' \in [Submissions \X Attempts -> Nat]
         /\ \A e \in Submissions \X Attempts : submitted'[e] >= submitted[e]
         /\ \A t \in Submissions, q \in Attempts : submitted'[<<t, q>>] = submitted[<<t, q>>]
<1>1. submitted \in [Submissions \X Attempts -> Nat]
  BY Facts
<1>2. \A e \in Submissions \X Attempts : submitted[e] \in Nat
  BY <1>1
<1> QED BY <1>1, <1>2

\* ... one is published,
LEMMA SubmittedUp ==
  ASSUME IInv, NEW s \in Submissions, NEW q \in Attempts, submitted' = Plus(submitted, <<s, q>>)
  PROVE  /\ submitted' \in [Submissions \X Attempts -> Nat] /\ submitted'[<<s, q>>] > 0
         /\ \A e \in Submissions \X Attempts : submitted'[e] >= submitted[e]
         /\ \A t \in Submissions \ {s}, p \in Attempts : submitted'[<<t, p>>] = submitted[<<t, p>>]
<1>1. submitted \in [Submissions \X Attempts -> Nat]
  BY Facts
<1>2. submitted[<<s, q>>] \in Nat
  BY <1>1
<1> QED BY <1>1, <1>2 DEF Plus

\* ... one is ticked off.
LEMMA SubmittedDown ==
  ASSUME IInv, NEW s \in Submissions, NEW q \in Attempts, submitted[<<s, q>>] > 0,
         submitted' = Minus(submitted, <<s, q>>)
  PROVE  /\ submitted' \in [Submissions \X Attempts -> Nat]
         /\ \A t \in Submissions \ {s}, p \in Attempts : submitted'[<<t, p>>] = submitted[<<t, p>>]
<1>1. submitted \in [Submissions \X Attempts -> Nat]
  BY Facts
<1>2. submitted[<<s, q>>] \in Nat
  BY <1>1
<1> QED BY <1>1, <1>2 DEF Minus

\* ... one is replaced by another of the same screenshot.
LEMMA SubmittedMoved ==
  ASSUME IInv, NEW s \in Submissions, NEW q \in Attempts, NEW r \in Attempts, submitted[<<s, q>>] > 0,
         submitted' = Plus(Minus(submitted, <<s, q>>), <<s, r>>)
  PROVE  /\ submitted' \in [Submissions \X Attempts -> Nat] /\ submitted'[<<s, r>>] > 0
         /\ \A t \in Submissions \ {s}, p \in Attempts : submitted'[<<t, p>>] = submitted[<<t, p>>]
<1>1. submitted \in [Submissions \X Attempts -> Nat] /\ submitted[<<s, q>>] \in Nat
  BY Facts
<1>2. /\ Minus(submitted, <<s, q>>) \in [Submissions \X Attempts -> Nat]
      /\ \A t \in Submissions \ {s}, p \in Attempts :
           Minus(submitted, <<s, q>>)[<<t, p>>] = submitted[<<t, p>>]
  BY <1>1 DEF Minus
<1>3. PICK left \in [Submissions \X Attempts -> Nat] :
        /\ submitted' = Plus(left, <<s, r>>)
        /\ \A t \in Submissions \ {s}, p \in Attempts : left[<<t, p>>] = submitted[<<t, p>>]
  BY <1>2
<1>4. left[<<s, r>>] \in Nat
  OBVIOUS
<1>5. /\ Plus(left, <<s, r>>) \in [Submissions \X Attempts -> Nat]
      /\ Plus(left, <<s, r>>)[<<s, r>>] > 0
      /\ \A t \in Submissions \ {s}, p \in Attempts :
           Plus(left, <<s, r>>)[<<t, p>>] = left[<<t, p>>]
  BY <1>4 DEF Plus
<1> QED BY <1>3, <1>5

\* ScreenshotExtracted events: none is touched,
LEMMA ExtractedSame ==
  ASSUME IInv, UNCHANGED extracted
  PROVE  /\ extracted' \in [Submissions \X Deferrals -> Nat]
         /\ \A e \in Submissions \X Deferrals : extracted'[e] >= extracted[e]
         /\ \A t \in Submissions, q \in Deferrals : extracted'[<<t, q>>] = extracted[<<t, q>>]
<1>1. extracted \in [Submissions \X Deferrals -> Nat]
  BY Facts
<1>2. \A e \in Submissions \X Deferrals : extracted[e] \in Nat
  BY <1>1
<1> QED BY <1>1, <1>2

\* ... one is published,
LEMMA ExtractedUp ==
  ASSUME IInv, NEW s \in Submissions, NEW q \in Deferrals, extracted' = Plus(extracted, <<s, q>>)
  PROVE  /\ extracted' \in [Submissions \X Deferrals -> Nat] /\ extracted'[<<s, q>>] > 0
         /\ \A e \in Submissions \X Deferrals : extracted'[e] >= extracted[e]
         /\ \A t \in Submissions \ {s}, p \in Deferrals : extracted'[<<t, p>>] = extracted[<<t, p>>]
<1>1. extracted \in [Submissions \X Deferrals -> Nat]
  BY Facts
<1>2. extracted[<<s, q>>] \in Nat
  BY <1>1
<1> QED BY <1>1, <1>2 DEF Plus

\* ... one is ticked off.
LEMMA ExtractedDown ==
  ASSUME IInv, NEW s \in Submissions, NEW q \in Deferrals, extracted[<<s, q>>] > 0,
         extracted' = Minus(extracted, <<s, q>>)
  PROVE  /\ extracted' \in [Submissions \X Deferrals -> Nat]
         /\ \A t \in Submissions \ {s}, p \in Deferrals : extracted'[<<t, p>>] = extracted[<<t, p>>]
<1>1. extracted \in [Submissions \X Deferrals -> Nat]
  BY Facts
<1>2. extracted[<<s, q>>] \in Nat
  BY <1>1
<1> QED BY <1>1, <1>2 DEF Minus

\* ... one is replaced by another of the same screenshot.
LEMMA ExtractedMoved ==
  ASSUME IInv, NEW s \in Submissions, NEW q \in Deferrals, NEW r \in Deferrals, extracted[<<s, q>>] > 0,
         extracted' = Plus(Minus(extracted, <<s, q>>), <<s, r>>)
  PROVE  /\ extracted' \in [Submissions \X Deferrals -> Nat] /\ extracted'[<<s, r>>] > 0
         /\ \A t \in Submissions \ {s}, p \in Deferrals : extracted'[<<t, p>>] = extracted[<<t, p>>]
<1>1. extracted \in [Submissions \X Deferrals -> Nat] /\ extracted[<<s, q>>] \in Nat
  BY Facts
<1>2. /\ Minus(extracted, <<s, q>>) \in [Submissions \X Deferrals -> Nat]
      /\ \A t \in Submissions \ {s}, p \in Deferrals :
           Minus(extracted, <<s, q>>)[<<t, p>>] = extracted[<<t, p>>]
  BY <1>1 DEF Minus
<1>3. PICK left \in [Submissions \X Deferrals -> Nat] :
        /\ extracted' = Plus(left, <<s, r>>)
        /\ \A t \in Submissions \ {s}, p \in Deferrals : left[<<t, p>>] = extracted[<<t, p>>]
  BY <1>2
<1>4. left[<<s, r>>] \in Nat
  OBVIOUS
<1>5. /\ Plus(left, <<s, r>>) \in [Submissions \X Deferrals -> Nat]
      /\ Plus(left, <<s, r>>)[<<s, r>>] > 0
      /\ \A t \in Submissions \ {s}, p \in Deferrals :
           Plus(left, <<s, r>>)[<<t, p>>] = left[<<t, p>>]
  BY <1>4 DEF Plus
<1> QED BY <1>3, <1>5

\* A new screenshot is a copy of one that is there, or has its event.
LEMMA IngestKeeps ==
  ASSUME IInv, NEW s \in Submissions, NEW u \in Users, NEW f \in Files,
         NEW o \in Outcomes \cup {"none"}, Ingest(s, u, f, o)
  PROVE  Kept
<1>1. /\ row[s].stage = "absent" /\ ~Locked(s)
      /\ UNCHANGED <<extraction, extracted, extracting, deciding, resolving, lost, reprocessed, faults>>
  BY Facts DEF Ingest, Present, actorVars, bounds
<1>2. /\ row' \in [Submissions -> RowState] /\ \A t \in Submissions \ {s} : row'[t] = row[t]
      /\ row'[s].keyed = FALSE /\ row'[s].file = f
      /\ \/ /\ row'[s].stage = "decided" /\ row'[s].verdict = "duplicate"
            /\ row'[s].auto = "duplicate" /\ UNCHANGED submitted
         \/ /\ row'[s].stage = "processing" /\ row'[s].verdict = "none"
            /\ row'[s].auto = "none" /\ submitted' = Plus(submitted, <<s, 0>>)
  <2> DEFINE new == [NoRow EXCEPT !.file = f, !.user = u, !.outcome = o]
             copied == [new EXCEPT !.stage = "decided", !.verdict = "duplicate",
                                   !.auto = "duplicate"]
             entered == [new EXCEPT !.stage = "processing"]
  <2>1. /\ NoRow \in RowState /\ NoRow.verdict = "none" /\ NoRow.auto = "none"
        /\ NoRow.keyed = FALSE
    BY DEF RowState, NoRow
  <2>2. /\ new \in RowState /\ new.verdict = "none" /\ new.auto = "none"
        /\ new.keyed = FALSE /\ new.file = f
    BY <2>1 DEF RowState
  <2> HIDE DEF new
  <2>3. /\ copied \in RowState /\ copied.stage = "decided" /\ copied.verdict = "duplicate"
        /\ copied.auto = "duplicate" /\ copied.keyed = new.keyed /\ copied.file = new.file
    BY <2>2 DEF RowState, Verdicts
  <2>4. /\ entered \in RowState /\ entered.stage = "processing" /\ entered.verdict = new.verdict
        /\ entered.auto = new.auto /\ entered.keyed = new.keyed /\ entered.file = new.file
    BY <2>2 DEF RowState
  <2>5. \/ row' = [row EXCEPT ![s] = copied] /\ UNCHANGED submitted
        \/ row' = [row EXCEPT ![s] = entered] /\ submitted' = Plus(submitted, <<s, 0>>)
    BY DEF Ingest, new
  <2> HIDE DEF copied, entered
  <2>7. CASE row' = [row EXCEPT ![s] = copied] /\ UNCHANGED submitted
    BY <2>2, <2>3, <2>7, Facts
  <2>8. CASE row' = [row EXCEPT ![s] = entered] /\ submitted' = Plus(submitted, <<s, 0>>)
    BY <2>2, <2>4, <2>8, Facts
  <2> QED BY <2>5, <2>7, <2>8
<1>3. /\ submitted' \in [Submissions \X Attempts -> Nat]
      /\ \A e \in Submissions \X Attempts : submitted'[e] >= submitted[e]
      /\ \A t \in Submissions \ {s}, k \in Attempts : submitted'[<<t, k>>] = submitted[<<t, k>>]
      /\ row'[s].stage = "processing" => submitted'[<<s, 0>>] > 0
  <2>1. CASE UNCHANGED submitted /\ row'[s].stage = "decided"
    BY <2>1, SubmittedSame
  <2>2. CASE submitted' = Plus(submitted, <<s, 0>>)
    BY <2>2, SubmittedUp, Numbers
  <2>3. \/ UNCHANGED submitted /\ row'[s].stage = "decided"
        \/ submitted' = Plus(submitted, <<s, 0>>)
    BY <1>2
  <2> QED BY <2>1, <2>2, <2>3
<1>4. OneRow(s) /\ NotPromoted(s) /\ Unheld(s) /\ OwnEvents(s)
  BY <1>1, <1>2, <1>3, Facts DEF OneRow, NotPromoted, Unheld, OwnEvents, Present
<1>5. RowSound(s)' /\ Fed(s)'
  BY <1>2, <1>3, Numbers DEF RowSound, Fed, Present
<1>6. ExtractionSound'
  BY <1>1, <1>3, <1>4, ExtractionKept
<1>7. TypeOK'
  BY <1>1, <1>2, <1>3 DEF IInv, TypeOK
<1>8. \A e \in Submissions \X Deferrals : extracted'[e] >= extracted[e]
  BY <1>1, Facts
<1>9. Stands(s)
  BY <1>1 DEF IInv, RowsSound, RowSound, Stands
<1> QED BY <1>1, <1>4, <1>5, <1>6, <1>7, <1>8, <1>9, RowStep
-----------------------------------------------------------------------------
\* _prepare notes whether the fields of the file are known.
LEMMA BeginKeeps ==
  ASSUME IInv, NEW s \in Submissions, NEW k \in Attempts, ExtractBegin(s, k)
  PROVE  Kept
<1>1. /\ submitted[<<s, k>>] > 0 /\ row[s].stage = "processing"
      /\ extracting' = [s |-> s, attempt |-> k, reuse |-> Read(s) \in Readings]
      /\ UNCHANGED <<row, extraction, submitted, extracted, deciding, resolving, lost,
                     reprocessed, faults>>
  BY DEF ExtractBegin, eventVars, bounds
<1>2. OwnEvents(s)
  BY <1>1, SubmittedSame, ExtractedSame DEF OwnEvents
<1>3. Fed(s)'
  BY <1>1 DEF IInv, NothingStranded, Fed, Present
<1>4. ExtractionSound'
  <2>1. extracting'.s = s /\ extracting'.attempt = k /\ (extracting'.reuse <=> Read(s) \in Readings)
    BY <1>1
  <2>2. Read(s)' = Read(s) /\ submitted'[<<s, k>>] > 0
    BY <1>1 DEF Read
  <2>3. Read(extracting.s)' = Read(s)
    BY <1>1, <2>1 DEF Read
  <2> QED BY <2>1, <2>2, <2>3 DEF ExtractionSound
<1>5. DecisionSound' /\ ResolvingSound'
  BY <1>1 DEF IInv, ActorsSound, DecisionSound, ResolvingSound, Standing, SameKeys, Read
<1>6. TypeOK'
  BY <1>1 DEF IInv, TypeOK
<1> QED BY <1>1, <1>2, <1>3, <1>4, <1>5, <1>6, RowlessStep

\* An event that came too late is ticked off.
LEMMA SkipKeeps ==
  ASSUME IInv, NEW s \in Submissions, NEW k \in Attempts, submitted[<<s, k>>] > 0,
         row[s].stage # "processing", submitted' = Minus(submitted, <<s, k>>),
         extracting' = NoEvent,
         UNCHANGED <<row, extraction, extracted, deciding, resolving, lost, bounds>>
  PROVE  Kept
<1>1. UNCHANGED <<reprocessed, faults>>
  BY DEF bounds
<1>2. OwnEvents(s)
  <2>1. Present(s)
    BY DEF IInv, ActorsSound, EventsSound
  <2> QED BY <2>1, SubmittedDown, ExtractedSame DEF OwnEvents, Present
<1>3. Fed(s)'
  BY DEF IInv, NothingStranded, Fed, Present
<1>4. ExtractionSound' /\ DecisionSound' /\ ResolvingSound'
  BY DEF IInv, ActorsSound, ExtractionSound, DecisionSound, ResolvingSound, Standing,
         SameKeys, Read
<1>5. TypeOK'
  BY <1>1, <1>2 DEF IInv, TypeOK, OwnEvents
<1> QED BY <1>2, <1>3, <1>4, <1>5, RowlessStep

\* The event whose extraction is about to finish.
LEMMA Finishing ==
  ASSUME IInv, ExtractFinish
  PROVE  /\ extracting.s \in Submissions /\ extracting.attempt \in Attempts
         /\ submitted[<<extracting.s, extracting.attempt>>] > 0
         /\ Present(extracting.s) /\ row[extracting.s].file \in Files
         /\ (extracting.reuse <=> Read(extracting.s) \in Readings)
         /\ ~Locked(extracting.s) /\ extracting' = NoEvent
         /\ UNCHANGED <<deciding, resolving, lost, reprocessed, faults>>
<1>1. extracting # NoEvent
  BY DEF ExtractFinish
<1>2. extracting.s \in Submissions /\ extracting.attempt \in Attempts
  BY <1>1 DEF IInv, TypeOK
<1>3. submitted[<<extracting.s, extracting.attempt>>] > 0 /\ Present(extracting.s)
  BY <1>1, <1>2 DEF IInv, ActorsSound, ExtractionSound, EventsSound
<1>4. row[extracting.s].file \in Files
  BY <1>2, <1>3 DEF IInv, RowsSound, RowSound
<1>5. UNCHANGED <<deciding, resolving, lost, reprocessed, faults>>
  BY DEF ExtractFinish, bounds
<1> QED BY <1>1, <1>2, <1>3, <1>4, <1>5 DEF IInv, ActorsSound, ExtractionSound, ExtractFinish

\* _extracted: the fields are known from now on, and the decision gets its event.
LEMMA OkKeeps ==
  ASSUME IInv, ExtractOk
  PROVE  Kept
<1>0. PICK s \in Submissions, k \in Attempts : extracting.s = s /\ extracting.attempt = k
  BY Finishing DEF ExtractOk
<1>1. /\ submitted[<<s, k>>] > 0
      /\ Present(s) /\ row[s].file \in Files /\ (extracting.reuse <=> Read(s) \in Readings)
      /\ ~Locked(s) /\ extracting' = NoEvent
      /\ UNCHANGED <<deciding, resolving, lost, reprocessed, faults>>
  BY <1>0, Finishing DEF ExtractOk
<1>2. /\ row[s].stage = "processing" /\ submitted' = Minus(submitted, <<s, k>>)
      /\ extracted' = Plus(extracted, <<s, 0>>)
      /\ row' = [row EXCEPT ![s] = [@ EXCEPT !.stage = "extracted", !.keyed = TRUE]]
      /\ \/ extracting.reuse /\ UNCHANGED extraction
         \/ /\ ~extracting.reuse
            /\ \E r \in Readings : extraction' = [extraction EXCEPT ![row[s].file] = r]
  BY <1>0 DEF ExtractOk
<1>3. /\ row' \in [Submissions -> RowState] /\ \A t \in Submissions \ {s} : row'[t] = row[t]
      /\ row'[s].stage = "extracted" /\ row'[s].keyed = TRUE /\ row'[s].file = row[s].file
      /\ row'[s].verdict = row[s].verdict
  <2>1. [row[s] EXCEPT !.stage = "extracted", !.keyed = TRUE] \in RowState
    BY <1>1, Facts DEF RowState
  <2> QED BY <1>1, <1>2, <2>1, Facts DEF RowState
<1>4. row[s].verdict = "none"
  BY <1>1, <1>2 DEF IInv, RowsSound, RowSound
<1>5. /\ extraction' \in [Files -> Readings \cup {"none", "failed"}]
      /\ \A f \in Files : extraction[f] \in Readings => extraction'[f] = extraction[f]
      /\ extraction'[row[s].file] \in Readings
  BY <1>1, <1>2, Facts DEF Read
<1>6. OneRow(s) /\ NotPromoted(s) /\ Unheld(s) /\ Stands(s)
  BY <1>1, <1>3, <1>4, <1>5 DEF OneRow, NotPromoted, Unheld, Stands, Present
<1>7. RowSound(s)'
  BY <1>1, <1>3, <1>4, <1>5 DEF RowSound, Read, Present
<1>8. /\ extracted' \in [Submissions \X Deferrals -> Nat] /\ extracted'[<<s, 0>>] > 0
      /\ \A e \in Submissions \X Deferrals : extracted'[e] >= extracted[e]
      /\ \A t \in Submissions \ {s}, d \in Deferrals : extracted'[<<t, d>>] = extracted[<<t, d>>]
  BY <1>1, <1>2, ExtractedUp, Numbers
<1>9. OwnEvents(s)
  BY <1>1, <1>2, <1>3, <1>8, SubmittedDown DEF OwnEvents
<1>10. Fed(s)'
  BY <1>3, <1>8, Numbers DEF Fed
<1>11. ExtractionSound'
  BY <1>1 DEF ExtractionSound
<1>12. TypeOK'
  BY <1>1, <1>3, <1>5, <1>9 DEF IInv, TypeOK, OwnEvents
<1> QED BY <1>1, <1>6, <1>7, <1>8, <1>9, <1>10, <1>11, <1>12, RowStep

\* The screenshot went past the extraction meanwhile.
LEMMA LateKeeps ==
  ASSUME IInv, ExtractLate
  PROVE  Kept
<1>1. PICK s \in Submissions, k \in Attempts : extracting.s = s /\ extracting.attempt = k
  BY Finishing DEF ExtractLate
<1>2. /\ submitted[<<s, k>>] > 0 /\ row[s].stage # "processing" /\ extracting' = NoEvent
      /\ submitted' = Minus(submitted, <<s, k>>)
      /\ UNCHANGED <<row, extraction, extracted, deciding, resolving, lost, bounds>>
  BY <1>1, Finishing DEF ExtractLate, bounds
<1> QED BY <1>2, SkipKeeps

\* _failed: another attempt is published, or the last one gives the screenshot a
\* verdict or leaves it to its outcome.
LEMMA FailedKeeps ==
  ASSUME IInv, ExtractFailed
  PROVE  Kept
<1>1. PICK s \in Submissions, k \in Attempts : extracting.s = s /\ extracting.attempt = k
  BY Finishing DEF ExtractFailed
<1>2. /\ submitted[<<s, k>>] > 0 /\ row[s].stage = "processing" /\ ~Locked(s)
      /\ Present(s) /\ row[s].file \in Files
      /\ extracting' = NoEvent /\ UNCHANGED <<extracted, deciding, resolving, lost, reprocessed, faults>>
  BY <1>1, Finishing DEF ExtractFailed
<1>3. row[s].verdict = "none"
  BY <1>2 DEF IInv, RowsSound, RowSound
<1>4. ExtractionSound'
  BY <1>2 DEF ExtractionSound
<1>5. ASSUME k + 1 < MaxAttempts, UNCHANGED <<row, extraction>>,
             submitted' = Plus(Minus(submitted, <<s, k>>), <<s, k + 1>>)
      PROVE  Kept
  <2>1. k + 1 \in Attempts
    BY <1>5, Numbers DEF Attempts
  <2>2. /\ submitted' \in [Submissions \X Attempts -> Nat] /\ submitted'[<<s, k + 1>>] > 0
        /\ \A t \in Submissions \ {s}, p \in Attempts : submitted'[<<t, p>>] = submitted[<<t, p>>]
    BY <1>2, <1>5, <2>1, SubmittedMoved
  <2>3. OwnEvents(s)
    BY <1>2, <1>5, <2>2, ExtractedSame DEF OwnEvents
  <2>4. Fed(s)'
    BY <1>2, <1>5, <2>1, <2>2 DEF Fed
  <2>5. DecisionSound' /\ ResolvingSound'
    BY <1>2, <1>5 DEF IInv, ActorsSound, DecisionSound, ResolvingSound, Standing, SameKeys, Read
  <2>6. TypeOK'
    BY <1>2, <1>5, <2>2 DEF IInv, TypeOK
  <2> QED BY <1>2, <1>4, <1>5, <2>3, <2>4, <2>5, <2>6, RowlessStep
<1>6. ASSUME submitted' = Minus(submitted, <<s, k>>),
             extraction' = IF Read(s) \in Readings THEN extraction
                           ELSE [extraction EXCEPT ![row[s].file] = "failed"],
             row' = AfterFailures(s)
      PROVE  Kept
  <2>1. /\ extraction' \in [Files -> Readings \cup {"none", "failed"}]
        /\ \A f \in Files : extraction[f] \in Readings => extraction'[f] = extraction[f]
    BY <1>2, <1>6, Facts DEF Read
  <2>2. /\ row' \in [Submissions -> RowState] /\ \A t \in Submissions \ {s} : row'[t] = row[t]
        /\ row'[s].file = row[s].file /\ row'[s].keyed = row[s].keyed
        /\ \/ /\ row'[s].stage = "extracted" /\ row'[s].verdict = "none"
              /\ row'[s].outcome = "none"
           \/ /\ row'[s].stage = "decided" /\ row'[s].verdict = "needs_review"
              /\ row'[s].auto = "needs_review"
    <3>1. CASE AwaitsOutcome(s)
      <4>1. row' = [row EXCEPT ![s].stage = "extracted"] /\ row[s] \in RowState
            /\ row[s].outcome = "none"
        BY <1>6, <3>1, Facts DEF AfterFailures, AwaitsOutcome
      <4> QED BY <1>3, <4>1, Facts DEF RowState
    <3>2. CASE ~AwaitsOutcome(s)
      <4>1. row' = Decided(s, "needs_review") /\ row[s] \in RowState
        BY <1>6, <3>2, Facts DEF AfterFailures
      <4>2. "needs_review" \in Verdicts
        BY DEF Verdicts
      <4>3. /\ row' \in [Submissions -> RowState]
            /\ \A t \in Submissions \ {s} : row'[t] = row[t]
            /\ row'[s].file = row[s].file /\ row'[s].keyed = row[s].keyed
            /\ row'[s].stage = "decided" /\ row'[s].verdict = "needs_review"
            /\ row'[s].auto = "needs_review"
        BY <4>1, <4>2, Facts, DecidedRow
      <4> QED BY <4>3
    <3> QED BY <3>1, <3>2
  <2>3. OneRow(s) /\ NotPromoted(s) /\ Unheld(s) /\ Stands(s)
    BY <1>2, <1>3, <2>1, <2>2 DEF OneRow, NotPromoted, Unheld, Stands
  <2>4. RowSound(s)'
    <3>1. row[s].keyed => extraction'[row[s].file] \in Readings
      BY <1>2, <2>1 DEF IInv, RowsSound, RowSound, Read
    <3> QED BY <1>2, <2>2, <3>1 DEF RowSound, Read, Present
  <2>5. OwnEvents(s)
    BY <1>2, <1>6, <2>2, SubmittedDown, ExtractedSame DEF OwnEvents
  <2>6. Fed(s)'
    BY <2>2 DEF Fed
  <2>7. TypeOK'
    BY <1>2, <2>1, <2>2, <2>5 DEF IInv, TypeOK, OwnEvents
  <2> QED BY <1>2, <1>4, <2>3, <2>4, <2>5, <2>6, <2>7, ExtractedSame, RowStep
<1> QED BY <1>1, <1>5, <1>6 DEF ExtractFailed
-----------------------------------------------------------------------------
\* A decision that finds nothing to decide: the outcome, or its end, will decide.
LEMMA DecideSkipKeeps ==
  ASSUME IInv, NEW s \in Submissions, NEW d \in Deferrals, DecideSkip(s, d)
  PROVE  Kept
<1>1. /\ extracted[<<s, d>>] > 0 /\ deciding = NoDecision
      /\ row[s].stage # "extracted" \/ row[s].outcome = "none"
      /\ extracted' = Minus(extracted, <<s, d>>)
      /\ UNCHANGED <<row, extraction, submitted, extracting, deciding, resolving, lost,
                     reprocessed, faults>>
  BY DEF DecideSkip, Takes, Decidable, AwaitsOutcome, actorVars, bounds
<1>2. OwnEvents(s)
  <2>1. Present(s)
    BY <1>1 DEF IInv, ActorsSound, EventsSound
  <2> QED BY <1>1, <2>1, SubmittedSame, ExtractedDown DEF OwnEvents, Present
<1>3. Fed(s)'
  BY <1>1 DEF IInv, NothingStranded, Fed, Present
<1>4. ExtractionSound' /\ DecisionSound' /\ ResolvingSound'
  BY <1>1 DEF IInv, ActorsSound, ExtractionSound, DecisionSound, ResolvingSound, Read
<1>5. TypeOK'
  BY <1>1, <1>2 DEF IInv, TypeOK, OwnEvents
<1> QED BY <1>1, <1>2, <1>3, <1>4, <1>5, RowlessStep

\* A decision that waits for an earlier screenshot.
LEMMA DeferKeeps ==
  ASSUME IInv, NEW s \in Submissions, NEW d \in Deferrals, DecideDefer(s, d)
  PROVE  Kept
<1>1. /\ extracted[<<s, d>>] > 0 /\ deciding = NoDecision /\ d < MaxDeferrals
      /\ row[s].stage = "extracted"
      /\ extracted' = Plus(Minus(extracted, <<s, d>>), <<s, d + 1>>)
      /\ UNCHANGED <<row, extraction, submitted, extracting, deciding, resolving, lost,
                     reprocessed, faults>>
  BY DEF DecideDefer, Takes, Decidable, MustWait, actorVars, bounds
<1>2. d + 1 \in Deferrals
  BY <1>1, Numbers DEF Deferrals
<1>3. /\ extracted' \in [Submissions \X Deferrals -> Nat] /\ extracted'[<<s, d + 1>>] > 0
      /\ \A t \in Submissions \ {s}, p \in Deferrals : extracted'[<<t, p>>] = extracted[<<t, p>>]
  BY <1>1, <1>2, ExtractedMoved
<1>4. OwnEvents(s)
  BY <1>1, <1>3, SubmittedSame DEF OwnEvents
<1>5. Fed(s)'
  BY <1>1, <1>2, <1>3 DEF Fed
<1>6. ExtractionSound' /\ DecisionSound' /\ ResolvingSound'
  BY <1>1 DEF IInv, ActorsSound, ExtractionSound, DecisionSound, ResolvingSound, Read
<1>7. TypeOK'
  BY <1>1, <1>3 DEF IInv, TypeOK
<1> QED BY <1>1, <1>4, <1>5, <1>6, <1>7, RowlessStep

\* The decision accepts only what nothing that counts shares its case with.
LEMMA DecideReadKeeps ==
  ASSUME IInv, NEW s \in Submissions, NEW d \in Deferrals, DecideRead(s, d)
  PROVE  Kept
<1>1. PICK v \in Conclusions(s) : deciding' = [s |-> s, deferrals |-> d, verdict |-> v]
  BY DEF DecideRead
<1>2. /\ extracted[<<s, d>>] > 0 /\ row[s].stage = "extracted"
      /\ UNCHANGED <<row, extraction, submitted, extracted, extracting, resolving, lost,
                     reprocessed, faults>>
  BY DEF DecideRead, Takes, Decidable, eventVars, bounds
<1>3. OwnEvents(s)
  BY <1>2, SubmittedSame, ExtractedSame DEF OwnEvents
<1>4. Fed(s)'
  BY <1>2 DEF IInv, NothingStranded, Fed, Present
<1>5. ExtractionSound' /\ ResolvingSound'
  BY <1>2 DEF IInv, ActorsSound, ExtractionSound, ResolvingSound, Read
<1>6. ASSUME v = "accepted", NEW t \in Submissions \ {s}, Standing(t), SameKeys(s, t)
      PROVE  FALSE
  <2>1. Present(t)
    BY <1>6 DEF IInv, RowsSound, RowSound, SameKeys
  <2>2. t \in SameCase(s)
    BY <1>6, <2>1 DEF SameCase, Rivals, Claimed, Standing
  <2> QED BY <1>6, <2>2, ConclusionFacts
<1>7. DecisionSound'
  <2>1. deciding'.s = s /\ deciding'.deferrals = d /\ deciding'.verdict = v
    BY <1>1
  <2>2. /\ extracted'[<<s, d>>] > 0 /\ row'[s].stage = "extracted" /\ Read(s)' = Read(s)
        /\ row'[s].outcome = row[s].outcome
    BY <1>2 DEF Read
  <2>3. v = "accepted" => \A t \in Submissions \ {s} : ~(Standing(t)' /\ SameKeys(s, t)')
    BY <1>2, <1>6 DEF Standing, SameKeys, Read
  <2>4. v = "rejected" /\ row[s].outcome # "none" => Read(s) = "foreign"
    BY ConclusionFacts
  <2>5. Read(deciding.s)' = Read(s)
    BY <1>2, <2>1 DEF Read
  <2>6. \A t \in Submissions : SameKeys(deciding.s, t)' <=> SameKeys(s, t)'
    BY <2>1 DEF SameKeys, Read
  <2> QED BY <2>1, <2>2, <2>3, <2>4, <2>5, <2>6 DEF DecisionSound
<1>8. TypeOK'
  BY <1>1, <1>2, ConclusionFacts DEF IInv, TypeOK
<1> QED BY <1>2, <1>3, <1>4, <1>5, <1>7, <1>8, RowlessStep

\* The verdict it commits is the only one that counts for its case.
LEMMA DecideCommitKeeps ==
  ASSUME IInv, DecideCommit
  PROVE  Kept
<1>1. PICK s \in Submissions, d \in Deferrals, v \in Verdicts :
        deciding.s = s /\ deciding.deferrals = d /\ deciding.verdict = v
  BY DEF IInv, TypeOK, DecideCommit
<1>2. /\ deciding # NoDecision /\ deciding' = NoDecision
      /\ row' = Decided(s, v) /\ extracted' = Minus(extracted, <<s, d>>)
      /\ UNCHANGED <<extraction, submitted, extracting, resolving, lost, reprocessed, faults>>
  BY <1>1 DEF DecideCommit, bounds
<1>3. /\ extracted[<<s, d>>] > 0 /\ row[s].stage = "extracted" /\ row[s].verdict = "none"
      /\ v = "accepted" => \A t \in Submissions \ {s} : ~(Standing(t) /\ SameKeys(s, t))
      /\ v = "rejected" /\ row[s].outcome # "none" => Read(s) = "foreign"
  BY <1>1, <1>2 DEF IInv, ActorsSound, DecisionSound, RowsSound, RowSound
<1>4. /\ row' \in [Submissions -> RowState] /\ \A t \in Submissions \ {s} : row'[t] = row[t]
      /\ row'[s].stage = "decided" /\ row'[s].verdict = v /\ row'[s].auto = v
      /\ row'[s].file = row[s].file /\ row'[s].keyed = row[s].keyed
      /\ row'[s].outcome = row[s].outcome
  BY <1>2, Facts, DecidedRow
<1>5. OneRow(s) /\ Stands(s)
  BY <1>2, <1>3, <1>4, Facts DEF OneRow, Stands
<1>6. RowSound(s)'
  <2>1. Read(s)' = Read(s)
    BY <1>2, <1>4 DEF Read
  <2>2. row[s].file \in Files /\ (row[s].keyed => Read(s) \in Readings)
    BY <1>3 DEF IInv, RowsSound, RowSound, Present
  <2>3. v # "none"
    BY DEF Verdicts
  <2> QED BY <1>3, <1>4, <2>1, <2>2, <2>3 DEF RowSound, Present
<1>7. RowsSound' /\ OneStanding'
  <2>1. Standing(s)' => v = "accepted"
    BY <1>4 DEF Standing
  <2> QED BY <1>3, <1>4, <1>5, <1>6, <2>1, RowsKept
<1>8. OwnEvents(s)
  BY <1>2, <1>3, <1>4, SubmittedSame, ExtractedDown DEF OwnEvents
<1>9. Fed(s)'
  BY <1>1, <1>4 DEF Fed, Verdicts
<1>10. EventsSound' /\ NothingStranded'
  BY <1>2, <1>4, <1>8, <1>9, OthersFed
<1>11. ExtractionSound'
  BY <1>2, <1>5, ExtractionKept, SubmittedSame
<1>12. DecisionSound'
  BY <1>2 DEF DecisionSound
<1>13. ResolvingSound'
  <2>1. \A a \in Admins : resolving[a] # s
    BY <1>3, Numbers DEF IInv, ActorsSound, ResolvingSound
  <2> QED BY <1>2, <1>5, <2>1, ResolvingKept
<1>14. TypeOK'
  BY <1>2, <1>4, <1>8 DEF IInv, TypeOK, OwnEvents
<1>15. \A u \in Submissions : Stands(u)
  BY <1>4, <1>5 DEF Stands
<1> QED BY <1>7, <1>10, <1>11, <1>12, <1>13, <1>14, <1>15 DEF Kept, IInv, ActorsSound
-----------------------------------------------------------------------------
\* A process that dies leaves its event and the rows as they were.
LEMMA DiesKeeps ==
  ASSUME IInv, ExtractorDies \/ DeciderDies
  PROVE  Kept
<1>1. /\ extracting' \in {extracting, NoEvent} /\ deciding' \in {deciding, NoDecision}
      /\ faults' = faults + 1 /\ faults < MaxFaults
      /\ UNCHANGED <<row, extraction, submitted, extracted, resolving, lost, reprocessed>>
  BY DEF ExtractorDies, DeciderDies, Fault, eventVars
<1>2. PICK s \in Submissions : Present(s)
  <2>1. CASE ExtractorDies
    <3>1. extracting # NoEvent /\ extracting.s \in Submissions /\ extracting.attempt \in Attempts
      BY <2>1 DEF ExtractorDies, IInv, TypeOK
    <3> QED BY <3>1 DEF IInv, ActorsSound, ExtractionSound, EventsSound
  <2>2. CASE DeciderDies
    <3>1. deciding # NoDecision /\ deciding.s \in Submissions
      BY <2>2 DEF DeciderDies, IInv, TypeOK
    <3> QED BY <3>1 DEF IInv, ActorsSound, DecisionSound, Present
  <2> QED BY <2>1, <2>2
<1>3. OwnEvents(s)
  BY <1>1, <1>2, SubmittedSame, ExtractedSame DEF OwnEvents, Present
<1>4. Fed(s)'
  BY <1>1 DEF IInv, NothingStranded, Fed, Present
<1>5. ExtractionSound'
  BY <1>1 DEF IInv, ActorsSound, ExtractionSound, Read
<1>6. DecisionSound'
  BY <1>1 DEF IInv, ActorsSound, DecisionSound, Standing, SameKeys, Read
<1>7. ResolvingSound'
  BY <1>1 DEF IInv, ActorsSound, ResolvingSound
<1>8. TypeOK'
  BY <1>1, Numbers DEF IInv, TypeOK
<1> QED BY <1>1, <1>3, <1>4, <1>5, <1>6, <1>7, <1>8, RowlessStep

\* Parking touches one row, and only if it has no verdict.
LEMMA ParkRow ==
  ASSUME IInv, NEW s \in Submissions, Present(s), Park(s)
  PROVE  /\ row' \in [Submissions -> RowState] /\ \A t \in Submissions \ {s} : row'[t] = row[t]
         /\ row'[s].stage # "absent"
         /\ row'[s].file = row[s].file /\ row'[s].keyed = row[s].keyed
         /\ row'[s].outcome = row[s].outcome
         /\ \/ /\ ~Locked(s) /\ row[s].verdict = "none" /\ row'[s].stage = "decided"
               /\ row'[s].verdict = "needs_review" /\ row'[s].auto = "needs_review"
            \/ row' = row
         /\ row'[s].verdict = "none" => s \in lost'
<1>1. CASE ~Locked(s) /\ row' = Decided(s, "needs_review") /\ row[s].verdict = "none"
  <2>1. "needs_review" \in Verdicts
    BY DEF Verdicts
  <2> QED BY <1>1, <2>1, Facts, DecidedRow
<1>2. CASE row' = row /\ (row[s].verdict # "none" \/ lost' = lost \cup {s})
  BY <1>2, Facts DEF Present
<1>3. \/ ~Locked(s) /\ row' = Decided(s, "needs_review") /\ row[s].verdict = "none"
      \/ row' = row /\ (row[s].verdict # "none" \/ lost' = lost \cup {s})
  BY DEF Park, Parked
<1> QED BY <1>1, <1>2, <1>3

\* A message given up: its screenshot is parked, has a verdict, or is lost.
LEMMA ParkKeeps ==
  ASSUME IInv, NEW s \in Submissions, Present(s), Park(s), OwnEvents(s),
         ExtractionSound', deciding = NoDecision \/ UNCHANGED extracted,
         UNCHANGED <<extraction, extracting, deciding, resolving>>
  PROVE  Kept
<1>1. faults < MaxFaults /\ faults' = faults + 1 /\ UNCHANGED reprocessed
  BY DEF Park, Fault
<1>2. /\ row' \in [Submissions -> RowState] /\ \A t \in Submissions \ {s} : row'[t] = row[t]
      /\ row'[s].stage # "absent"
      /\ row'[s].file = row[s].file /\ row'[s].keyed = row[s].keyed
      /\ row'[s].outcome = row[s].outcome
      /\ \/ /\ ~Locked(s) /\ row[s].verdict = "none" /\ row'[s].stage = "decided"
            /\ row'[s].verdict = "needs_review" /\ row'[s].auto = "needs_review"
         \/ row' = row
      /\ row'[s].verdict = "none" => s \in lost'
  BY ParkRow
<1>3. OneRow(s) /\ NotPromoted(s) /\ Stands(s)
  BY <1>2, Facts DEF OneRow, NotPromoted, Stands, Present, OwnEvents, Standing
<1>4. Unheld(s)
  <2>1. CASE row' = row
    <3>1. row[s] \in RowState
      BY Facts
    <3> QED BY <2>1, <3>1 DEF Unheld, Older, RowState
  <2>2. CASE ~Locked(s)
    BY <2>2 DEF Unheld
  <2> QED BY <1>2, <2>1, <2>2
<1>5. RowSound(s)'
  <2>1. Read(s)' = Read(s)
    BY <1>2 DEF Read
  <2> QED BY <1>2, <2>1 DEF IInv, RowsSound, RowSound, Present, OwnEvents
<1>6. lost \subseteq lost' /\ lost' \subseteq Submissions
  BY DEF Park, IInv, TypeOK
<1>7. Fed(s)'
  BY <1>2 DEF Fed
<1>8. TypeOK'
  BY <1>1, <1>2, <1>6, Numbers DEF IInv, TypeOK, OwnEvents
<1>9. deciding = NoDecision \/ \A e \in Submissions \X Deferrals : extracted'[e] >= extracted[e]
  BY ExtractedSame
<1> QED BY <1>3, <1>4, <1>5, <1>6, <1>7, <1>8, <1>9, RowStep

\* Both consumers give up an event only when they are at no other.
LEMMA GiveUpKeeps ==
  ASSUME IInv, NEW s \in Submissions,
         \/ \E k \in Attempts : GiveUpSubmitted(s, k)
         \/ \E d \in Deferrals : GiveUpExtracted(s, d)
  PROVE  Kept
<1>1. ASSUME NEW k \in Attempts, GiveUpSubmitted(s, k) PROVE Kept
  <2>1. /\ submitted[<<s, k>>] > 0 /\ Park(s) /\ submitted' = Minus(submitted, <<s, k>>)
        /\ extracting = NoEvent
        /\ UNCHANGED <<extraction, extracted, extracting, deciding, resolving>>
    BY <1>1 DEF GiveUpSubmitted, actorVars
  <2>2. Present(s)
    BY <2>1 DEF IInv, ActorsSound, EventsSound
  <2>3. row'[s].stage # "absent"
    BY <2>1, <2>2, ParkRow
  <2>4. OwnEvents(s)
    BY <2>1, <2>3, SubmittedDown, ExtractedSame DEF OwnEvents
  <2>5. ExtractionSound'
    BY <2>1 DEF ExtractionSound
  <2> QED BY <2>1, <2>2, <2>4, <2>5, ParkKeeps
<1>2. ASSUME NEW d \in Deferrals, GiveUpExtracted(s, d) PROVE Kept
  <2>1. /\ extracted[<<s, d>>] > 0 /\ Park(s) /\ extracted' = Minus(extracted, <<s, d>>)
        /\ deciding = NoDecision
        /\ UNCHANGED <<extraction, submitted, extracting, deciding, resolving>>
    BY <1>2 DEF GiveUpExtracted, actorVars
  <2>2. Present(s)
    BY <2>1 DEF IInv, ActorsSound, EventsSound
  <2>3. row'[s].stage # "absent"
    BY <2>1, <2>2, ParkRow
  <2>4. OwnEvents(s)
    BY <2>1, <2>3, SubmittedSame, ExtractedDown DEF OwnEvents
  <2>5. \A t \in Submissions : Present(t) => row'[t].file = row[t].file
    BY <2>1, <2>2, ParkRow
  <2>6. ExtractionSound'
    BY <2>1, <2>5 DEF IInv, TypeOK, ActorsSound, ExtractionSound, EventsSound, Read
  <2> QED BY <2>1, <2>2, <2>4, <2>6, ParkKeeps
<1> QED BY <1>1, <1>2
-----------------------------------------------------------------------------
\* The outcome that was waited for brings the event of the decision.
LEMMA ChangeOutcomeKeeps ==
  ASSUME IInv, NEW s \in Submissions, NEW o \in Outcomes, ChangeOutcome(s, o)
  PROVE  Kept
<1>1. /\ Present(s) /\ ~Locked(s) /\ row[s].verdict = "none"
      /\ row' = [row EXCEPT ![s].outcome = o]
      /\ extracted' = IF Waits(s) THEN Plus(extracted, <<s, 0>>) ELSE extracted
      /\ UNCHANGED <<extraction, submitted, extracting, deciding, resolving, lost,
                     reprocessed, faults>>
  BY DEF ChangeOutcome, actorVars, bounds
<1>2. /\ row' \in [Submissions -> RowState] /\ \A t \in Submissions \ {s} : row'[t] = row[t]
      /\ row'[s].stage = row[s].stage /\ row'[s].file = row[s].file
      /\ row'[s].keyed = row[s].keyed /\ row'[s].verdict = "none"
  <2>1. row[s] \in RowState
    BY Facts
  <2>2. [row[s] EXCEPT !.outcome = o] \in RowState
    BY <2>1 DEF RowState
  <2>3. row'[s] = [row[s] EXCEPT !.outcome = o]
    BY <1>1, Facts
  <2>4. row' \in [Submissions -> RowState] /\ \A t \in Submissions \ {s} : row'[t] = row[t]
    BY <1>1, <2>2, Facts
  <2> QED BY <1>1, <2>1, <2>3, <2>4 DEF RowState
<1>3. /\ extracted' \in [Submissions \X Deferrals -> Nat]
      /\ \A e \in Submissions \X Deferrals : extracted'[e] >= extracted[e]
      /\ \A t \in Submissions \ {s}, d \in Deferrals : extracted'[<<t, d>>] = extracted[<<t, d>>]
      /\ Waits(s) => extracted'[<<s, 0>>] > 0
  <2>1. CASE Waits(s)
    BY <1>1, <2>1, ExtractedUp, Numbers
  <2>2. CASE ~Waits(s)
    BY <1>1, <2>2, ExtractedSame
  <2> QED BY <2>1, <2>2
<1>4. OneRow(s) /\ NotPromoted(s) /\ Unheld(s) /\ Stands(s)
  BY <1>1, <1>2, Facts DEF OneRow, NotPromoted, Unheld, Stands, Present
<1>5. RowSound(s)'
  <2>1. Read(s)' = Read(s)
    BY <1>1, <1>2 DEF Read
  <2>2. RowSound(s)
    BY DEF IInv, RowsSound
  <2> QED BY <1>1, <1>2, <2>1, <2>2 DEF RowSound, Present
<1>6. OwnEvents(s)
  BY <1>1, <1>2, <1>3, SubmittedSame DEF OwnEvents, Present
<1>7. Fed(s)'
  <2>1. CASE Waits(s)
    BY <1>2, <1>3, <2>1, Numbers DEF Fed, Waits
  <2>2. CASE ~Waits(s)
    <3>1. Fed(s) /\ UNCHANGED <<lost, submitted, extracted>>
      BY <1>1, <2>2 DEF IInv, NothingStranded, Fed
    <3> QED BY <1>1, <1>2, <2>2, <3>1 DEF Fed, Waits, Present
  <2> QED BY <2>1, <2>2
<1>8. ExtractionSound'
  BY <1>1, <1>4, ExtractionKept, SubmittedSame
<1>9. TypeOK'
  BY <1>1, <1>2, <1>3 DEF IInv, TypeOK
<1> QED BY <1>1, <1>3, <1>4, <1>5, <1>6, <1>7, <1>8, <1>9, RowStep

\* The outcome that never came rejects the screenshot.
LEMMA ExpireKeeps ==
  ASSUME IInv, NEW s \in Submissions, ExpireOutcome(s)
  PROVE  Kept
<1>1. /\ Present(s) /\ ~Locked(s) /\ row[s].verdict = "none" /\ row[s].outcome = "none"
      /\ row' = Decided(s, "rejected")
      /\ UNCHANGED <<extraction, submitted, extracted, extracting, deciding, resolving, lost,
                     reprocessed, faults>>
  BY DEF ExpireOutcome, eventVars, actorVars, bounds
<1>2. /\ row' \in [Submissions -> RowState] /\ \A t \in Submissions \ {s} : row'[t] = row[t]
      /\ row'[s].stage = "decided" /\ row'[s].verdict = "rejected" /\ row'[s].auto = "rejected"
      /\ row'[s].file = row[s].file /\ row'[s].keyed = row[s].keyed
      /\ row'[s].outcome = "none"
  <2>1. "rejected" \in Verdicts
    BY DEF Verdicts
  <2> QED BY <1>1, <2>1, Facts, DecidedRow
<1>3. OneRow(s) /\ NotPromoted(s) /\ Unheld(s) /\ Stands(s)
  BY <1>1, <1>2, Facts DEF OneRow, NotPromoted, Unheld, Stands
<1>4. RowSound(s)'
  <2>1. Read(s)' = Read(s)
    BY <1>1, <1>2 DEF Read
  <2>2. RowSound(s)
    BY DEF IInv, RowsSound
  <2> QED BY <1>1, <1>2, <2>1, <2>2 DEF RowSound, Present
<1>5. OwnEvents(s)
  BY <1>1, <1>2, SubmittedSame, ExtractedSame DEF OwnEvents
<1>6. Fed(s)'
  BY <1>2 DEF Fed
<1>7. ExtractionSound'
  BY <1>1, <1>3, ExtractionKept, SubmittedSame
<1>8. TypeOK'
  BY <1>1, <1>2 DEF IInv, TypeOK
<1> QED BY <1>1, <1>3, <1>4, <1>5, <1>6, <1>7, <1>8, RowStep, ExtractedSame

\* The clock disturbs nobody who holds a row.
LEMMA GrowsOlderKeeps ==
  ASSUME IInv, NEW s \in Submissions, GrowsOlder(s)
  PROVE  Kept
<1>1. /\ Present(s) /\ row[s].age < 2
      /\ row' = [row EXCEPT ![s].age = @ + 1]
      /\ UNCHANGED <<extraction, submitted, extracted, extracting, deciding, resolving, lost,
                     reprocessed, faults>>
  BY DEF GrowsOlder, eventVars, actorVars, bounds
<1>2. row[s] \in RowState
  BY Facts
<1>3. row'[s] = [row[s] EXCEPT !.age = row[s].age + 1]
  BY <1>1, Facts
<1>4. row[s].age + 1 \in 0..2
  BY <1>1, <1>2 DEF RowState
<1>5. [row[s] EXCEPT !.age = row[s].age + 1] \in RowState
  BY <1>2, <1>4 DEF RowState
<1>6. row' \in [Submissions -> RowState] /\ \A t \in Submissions \ {s} : row'[t] = row[t]
  BY <1>1, <1>5, Facts
<1>7. /\ row'[s].stage = row[s].stage /\ row'[s].file = row[s].file
      /\ row'[s].keyed = row[s].keyed /\ row'[s].verdict = row[s].verdict
      /\ row'[s].auto = row[s].auto /\ row'[s].outcome = row[s].outcome
  BY <1>2, <1>3 DEF RowState
<1>8. row'[s].age = row[s].age + 1
  BY <1>2, <1>3 DEF RowState
<1>9. Older(s)
  BY <1>3, <1>8 DEF Older
<1>10. OneRow(s) /\ NotPromoted(s) /\ Unheld(s) /\ Stands(s)
  BY <1>1, <1>6, <1>7, <1>9, Facts DEF OneRow, NotPromoted, Unheld, Stands, Standing, Present
<1>11. RowSound(s)'
  <2>1. Read(s)' = Read(s)
    BY <1>1, <1>7 DEF Read
  <2>2. RowSound(s)
    BY DEF IInv, RowsSound
  <2> QED BY <1>7, <2>1, <2>2 DEF RowSound, Present
<1>12. OwnEvents(s)
  BY <1>1, <1>7, SubmittedSame, ExtractedSame DEF OwnEvents, Present
<1>13. Fed(s)'
  <2>1. Fed(s)
    BY DEF IInv, NothingStranded, Fed
  <2> QED BY <1>1, <1>7, <2>1 DEF Fed, Present
<1>14. ExtractionSound'
  BY <1>1, <1>10, ExtractionKept, SubmittedSame
<1>15. TypeOK'
  BY <1>1, <1>6 DEF IInv, TypeOK
<1> QED BY <1>1, <1>10, <1>11, <1>12, <1>13, <1>14, <1>15, RowStep, ExtractedSame
-----------------------------------------------------------------------------
\* An administrator takes a row that nobody holds.
LEMMA ResolveReadKeeps ==
  ASSUME IInv, NEW a \in Admins, NEW s \in Submissions, ResolveRead(a, s)
  PROVE  Kept
<1>1. /\ resolving[a] = -1 /\ ~Locked(s) /\ row[s].stage = "decided"
      /\ row[s].verdict \in {"needs_review", "duplicate"}
      /\ resolving' = [resolving EXCEPT ![a] = s]
      /\ UNCHANGED <<row, extraction, submitted, extracted, extracting, deciding, lost,
                     reprocessed, faults>>
  BY DEF ResolveRead, eventVars, bounds
<1>2. resolving \in [Admins -> Submissions \cup {-1}]
  BY DEF IInv, TypeOK
<1>3. \A b \in Admins : resolving'[b] = IF b = a THEN s ELSE resolving[b]
  BY <1>1, <1>2
<1>4. ResolvingSound'
  <2>1. \A b \in Admins : resolving[b] # s
    BY <1>1 DEF Locked
  <2> QED BY <1>1, <1>3, <2>1 DEF IInv, ActorsSound, ResolvingSound
<1>5. ExtractionSound' /\ DecisionSound'
  BY <1>1 DEF IInv, ActorsSound, ExtractionSound, DecisionSound, Standing, SameKeys, Read
<1>6. OwnEvents(s) /\ Fed(s)'
  BY <1>1, SubmittedSame, ExtractedSame DEF OwnEvents, Fed, Present
<1>7. TypeOK'
  BY <1>1, <1>2 DEF IInv, TypeOK
<1> QED BY <1>1, <1>4, <1>5, <1>6, <1>7, RowlessStep

\* What is accepted by hand does not count for the automation, unless it did as a
\* duplicate.
LEMMA ResolveCommitKeeps ==
  ASSUME IInv, NEW a \in Admins, ResolveCommit(a)
  PROVE  Kept
<1>1. PICK s \in Submissions : resolving[a] = s
  BY DEF ResolveCommit, IInv, TypeOK
<1>2. PICK o \in OutcomesAfter(s) : row' = Resolved(s, "accepted", o)
  BY <1>1 DEF ResolveCommit
<1>3. /\ resolving' = [resolving EXCEPT ![a] = -1]
      /\ UNCHANGED <<extraction, submitted, extracted, extracting, deciding, lost,
                     reprocessed, faults>>
  BY DEF ResolveCommit, eventVars, bounds
<1>4. /\ row[s].stage = "decided" /\ row[s].verdict \in {"needs_review", "duplicate"}
      /\ \A b \in Admins : resolving[b] = s => b = a
  BY <1>1, Numbers DEF IInv, ActorsSound, ResolvingSound
<1>5. /\ row' \in [Submissions -> RowState] /\ \A t \in Submissions \ {s} : row'[t] = row[t]
      /\ row'[s].verdict = "accepted" /\ row'[s].stage = "decided"
      /\ row'[s].auto = row[s].auto /\ row'[s].file = row[s].file
      /\ row'[s].keyed = row[s].keyed
  <2>1. "accepted" \in Verdicts
    BY DEF Verdicts
  <2> QED BY <1>2, <1>4, <2>1, Facts, ResolvedRow
<1>6. RowSound(s)
  BY DEF IInv, RowsSound
<1>7. OneRow(s) /\ Stands(s) /\ NotPromoted(s)
  BY <1>3, <1>4, <1>5, <1>6, Facts DEF OneRow, Stands, NotPromoted, Standing, RowSound
<1>8. RowSound(s)'
  <2>1. Read(s)' = Read(s)
    BY <1>3, <1>5 DEF Read
  <2> QED BY <1>4, <1>5, <1>6, <2>1 DEF RowSound, Present
<1>9. RowsSound' /\ OneStanding'
  <2>1. Standing(s)' => Standing(s) /\ row'[s].keyed = row[s].keyed
    BY <1>7 DEF NotPromoted, Standing
  <2>2. Standing(s) => \A t \in Submissions \ {s} : ~(Standing(t) /\ SameKeys(s, t))
    BY DEF IInv, OneStanding
  <2> QED BY <1>7, <1>8, <2>1, <2>2, RowsKept
<1>10. OwnEvents(s)
  BY <1>3, <1>5, SubmittedSame, ExtractedSame DEF OwnEvents
<1>11. EventsSound' /\ NothingStranded'
  <2>1. Fed(s)'
    BY <1>5 DEF Fed
  <2> QED BY <1>3, <1>5, <1>10, <2>1, OthersFed
<1>12. ExtractionSound'
  BY <1>3, <1>7, ExtractionKept, SubmittedSame
<1>13. DecisionSound'
  <2>1. deciding.s # s
    BY <1>4, Numbers DEF IInv, ActorsSound, DecisionSound, NoDecision
  <2> QED BY <1>3, <1>7, <2>1, DecisionKept, ExtractedSame
<1>14. ResolvingSound'
  <2>1. ASSUME NEW b \in Admins, resolving'[b] # -1
        PROVE  /\ resolving'[b] = resolving[b] /\ resolving[b] # s /\ resolving[b] \in Submissions
               /\ row'[resolving[b]] = row[resolving[b]]
    <3>1. resolving \in [Admins -> Submissions \cup {-1}]
      BY DEF IInv, TypeOK
    <3>2. b # a /\ resolving'[b] = resolving[b] /\ resolving[b] \in Submissions
      BY <1>3, <2>1, <3>1
    <3> QED BY <1>4, <1>5, <3>2
  <2> QED BY <2>1 DEF IInv, ActorsSound, ResolvingSound
<1>15. TypeOK'
  BY <1>3, <1>5 DEF IInv, TypeOK
<1>16. \A u \in Submissions : Stands(u)
  BY <1>5, <1>7 DEF Stands
<1> QED BY <1>9, <1>11, <1>12, <1>13, <1>14, <1>15, <1>16 DEF Kept, IInv, ActorsSound

\* decline, duplicate_of and audit_ok take nothing that the automation did not
\* accept into what counts for it.
LEMMA OverruleKeeps ==
  ASSUME IInv, NEW s \in Submissions,
         (\E v \in {"rejected", "duplicate"} : Overrule(s, v)) \/ AuditOk(s)
  PROVE  Kept
<1>1. PICK v \in {"rejected", "duplicate", "accepted"}, o \in OutcomesAfter(s) :
        row' = Resolved(s, v, o) /\ (v = "accepted" => row[s].verdict = "accepted")
  BY DEF Overrule, AuditOk
<1>2. /\ ~Locked(s) /\ row[s].stage = "decided"
      /\ row[s].verdict \in {"needs_review", "accepted"}
      /\ UNCHANGED <<extraction, submitted, extracted, extracting, deciding, resolving, lost,
                     reprocessed, faults>>
  BY DEF Overrule, AuditOk, eventVars, actorVars, bounds
<1>3. /\ row' \in [Submissions -> RowState] /\ \A t \in Submissions \ {s} : row'[t] = row[t]
      /\ row'[s].verdict = v /\ row'[s].stage = "decided"
      /\ row'[s].auto = row[s].auto /\ row'[s].file = row[s].file
      /\ row'[s].keyed = row[s].keyed
  <2>1. v \in Verdicts
    BY DEF Verdicts
  <2> QED BY <1>1, <1>2, <2>1, Facts, ResolvedRow
<1>4. RowSound(s)
  BY DEF IInv, RowsSound
<1>5. OneRow(s) /\ NotPromoted(s) /\ Unheld(s) /\ Stands(s)
  BY <1>2, <1>3, <1>4, Facts
  DEF OneRow, NotPromoted, Standing, Unheld, Stands, RowSound
<1>6. RowSound(s)'
  <2>1. Read(s)' = Read(s)
    BY <1>2, <1>3 DEF Read
  <2> QED BY <1>1, <1>2, <1>3, <1>4, <2>1 DEF RowSound, Present
<1>7. OwnEvents(s) /\ Fed(s)'
  BY <1>2, <1>3, SubmittedSame, ExtractedSame DEF OwnEvents, Fed
<1>8. ExtractionSound'
  BY <1>2, <1>5, ExtractionKept, SubmittedSame
<1>9. TypeOK'
  BY <1>2, <1>3 DEF IInv, TypeOK
<1> QED BY <1>2, <1>5, <1>6, <1>7, <1>8, <1>9, RowStep, ExtractedSame

\* A second round starts with an event of its own.
LEMMA ReprocessKeeps ==
  ASSUME IInv, NEW s \in Submissions, Reprocess(s)
  PROVE  Kept
<1>1. /\ Present(s) /\ ~Locked(s) /\ reprocessed < MaxReprocess
      /\ row' = [row EXCEPT ![s] = [@ EXCEPT !.verdict = "none", !.stage = "processing"]]
      /\ submitted' = Plus(submitted, <<s, 0>>) /\ lost' = lost \ {s}
      /\ reprocessed' = reprocessed + 1
      /\ UNCHANGED <<extraction, extracted, extracting, deciding, resolving, faults>>
  BY DEF Reprocess, actorVars
<1>2. /\ row' \in [Submissions -> RowState] /\ \A t \in Submissions \ {s} : row'[t] = row[t]
      /\ row'[s].stage = "processing" /\ row'[s].verdict = "none"
      /\ row'[s].file = row[s].file /\ row'[s].keyed = row[s].keyed
  <2>1. row[s] \in RowState
    BY Facts
  <2>2. [row[s] EXCEPT !.verdict = "none", !.stage = "processing"] \in RowState
    BY <2>1 DEF RowState
  <2>3. row'[s] = [row[s] EXCEPT !.verdict = "none", !.stage = "processing"]
    BY <1>1, Facts
  <2>4. row' \in [Submissions -> RowState] /\ \A t \in Submissions \ {s} : row'[t] = row[t]
    BY <1>1, <2>2, Facts
  <2> QED BY <2>1, <2>3, <2>4 DEF RowState
<1>3. /\ submitted' \in [Submissions \X Attempts -> Nat] /\ submitted'[<<s, 0>>] > 0
      /\ \A e \in Submissions \X Attempts : submitted'[e] >= submitted[e]
      /\ \A t \in Submissions \ {s}, k \in Attempts : submitted'[<<t, k>>] = submitted[<<t, k>>]
  BY <1>1, SubmittedUp, Numbers
<1>4. OneRow(s) /\ NotPromoted(s) /\ Unheld(s) /\ Stands(s)
  BY <1>1, <1>2, Facts DEF OneRow, NotPromoted, Unheld, Stands
<1>5. RowSound(s)'
  <2>1. Read(s)' = Read(s)
    BY <1>1, <1>2 DEF Read
  <2>2. RowSound(s)
    BY DEF IInv, RowsSound
  <2> QED BY <1>1, <1>2, <2>1, <2>2 DEF RowSound, Present
<1>6. OwnEvents(s) /\ Fed(s)'
  BY <1>1, <1>2, <1>3, ExtractedSame, Numbers DEF OwnEvents, Fed
<1>7. ExtractionSound'
  BY <1>1, <1>3, <1>4, ExtractionKept
<1>8. lost \ {s} \subseteq lost' /\ lost' \subseteq Submissions
  BY <1>1 DEF IInv, TypeOK
<1>9. TypeOK'
  <2>1. reprocessed' \in 0..MaxReprocess
    BY <1>1, Numbers DEF IInv, TypeOK
  <2>2. UNCHANGED <<extraction, extracted, extracting, deciding, resolving, faults>>
    BY <1>1
  <2> QED BY <1>2, <1>3, <1>8, <2>1, <2>2 DEF IInv, TypeOK
<1> QED BY <1>1, <1>4, <1>5, <1>6, <1>7, <1>8, <1>9, RowStep, ExtractedSame
-----------------------------------------------------------------------------
\* Every step keeps the invariant and the verdicts.
LEMMA StepKeeps == IInv /\ [Next]_vars => Kept
<1> SUFFICES ASSUME IInv, [Next]_vars PROVE Kept
  OBVIOUS
<1>1. CASE Extract
  <2>1. ASSUME NEW s \in Submissions, NEW k \in Attempts, ExtractSkip(s, k) PROVE Kept
    <3>1. /\ submitted[<<s, k>>] > 0 /\ row[s].stage # "processing"
          /\ submitted' = Minus(submitted, <<s, k>>) /\ extracting' = NoEvent
          /\ UNCHANGED <<row, extraction, extracted, deciding, resolving, lost, bounds>>
      BY <2>1 DEF ExtractSkip, actorVars
    <3> QED BY <3>1, SkipKeeps
  <2> QED BY <1>1, <2>1, BeginKeeps, LateKeeps, OkKeeps, FailedKeeps DEF Extract
<1>2. CASE Decide
  BY <1>2, DecideSkipKeeps, DeferKeeps, DecideReadKeeps, DecideCommitKeeps DEF Decide
<1>3. CASE Fail
  BY <1>3, DiesKeeps, GiveUpKeeps DEF Fail
<1>4. CASE Administer
  BY <1>4, ResolveReadKeeps, ResolveCommitKeeps, OverruleKeeps, ReprocessKeeps DEF Administer
<1>5. ASSUME NEW s \in Submissions, Manage(s) \/ ExpireOutcome(s) \/ GrowsOlder(s)
      PROVE  Kept
  BY <1>5, IngestKeeps, ChangeOutcomeKeeps, ExpireKeeps, GrowsOlderKeeps DEF Manage
<1>6. CASE UNCHANGED vars
  <2>1. UNCHANGED <<row, extraction, submitted, extracted, extracting, deciding, resolving,
                    lost, reprocessed, faults>>
    BY <1>6 DEF vars, eventVars, actorVars, bounds
  <2>2. TypeOK'
    BY <2>1 DEF IInv, TypeOK
  <2>3. RowsSound' /\ OneStanding'
    BY <2>1 DEF IInv, RowsSound, RowSound, OneStanding, Standing, SameKeys, Present, Read
  <2>4. EventsSound' /\ ExtractionSound'
    BY <2>1 DEF IInv, ActorsSound, EventsSound, ExtractionSound, Present, Read
  <2>5. DecisionSound' /\ ResolvingSound'
    BY <2>1 DEF IInv, ActorsSound, DecisionSound, ResolvingSound, Standing, SameKeys, Read
  <2>6. NothingStranded'
    BY <2>1 DEF IInv, NothingStranded, Present
  <2>7. \A u \in Submissions : Stands(u)
    BY <2>1 DEF Stands
  <2> QED BY <2>2, <2>3, <2>4, <2>5, <2>6, <2>7 DEF Kept, IInv, ActorsSound
<1> QED BY <1>1, <1>2, <1>3, <1>4, <1>5, <1>6 DEF Next

\* The inductive invariant holds of every behaviour.
LEMMA Invariant == Spec => []IInv
<1>1. IInv /\ [Next]_vars => IInv'
  BY StepKeeps DEF Kept
<1> QED BY <1>1, InitHolds, PTL DEF Spec

\* The tables, the events and the transactions on their way keep their types.
THEOREM TypeCorrect == Spec => []TypeOK
<1>1. IInv => TypeOK
  BY DEF IInv
<1> QED BY <1>1, Invariant, PTL

\* The automation credits a case once, however retries, deferrals, second rounds and
\* administrators come between.
THEOREM CreditedOnce == Spec => []SystemCreditsOnce
<1>1. IInv => SystemCreditsOnce
  BY DEF IInv, OneStanding, Standing, SystemCreditsOnce, Credited
<1> QED BY <1>1, Invariant, PTL

\* A screenshot without a verdict has an event or waits for its outcome.
THEOREM NobodyStranded == Spec => []NothingStranded
<1>1. IInv => NothingStranded
  BY DEF IInv
<1> QED BY <1>1, Invariant, PTL

\* Only an administrator changes a verdict, in the ways of TRANSITIONS.
THEOREM VerdictStands == Spec => DecidedStands
<1>1. IInv /\ [Next]_vars => \A s \in Submissions : Stands(s)
  BY StepKeeps DEF Kept
<1>2. (\A s \in Submissions : Stands(s)) <=>
        \A s \in Submissions :
          row[s].verdict # "none" /\ row'[s].verdict \notin {"none", row[s].verdict}
          => /\ row'[s].auto = row[s].auto
             /\ row[s].verdict # "rejected" /\ row'[s].verdict # "needs_review"
  BY DEF Stands
<1> QED BY <1>1, <1>2, Invariant, PTL DEF Spec, DecidedStands

\* The automation rejects a screenshot with an outcome only for what it read.
THEOREM RejectedOnlyForCause == Spec => []RejectedForCause
<1>1. IInv => RejectedForCause
  BY DEF IInv, RowsSound, RowSound, RejectedForCause
<1> QED BY <1>1, Invariant, PTL
=============================================================================
