----------------------- MODULE ScreenshotStorageProofs ----------------------
(***************************************************************************)
(* What holds of ScreenshotStorage for every number of attempts, intakes,  *)
(* errors and crashes: the types; a row marked "stored" has its object in  *)
(* S3; a file that was sent in once keeps its bytes; and, while no         *)
(* subscriber dies, no erased file stays in S3.                            *)
(***************************************************************************)
EXTENDS ScreenshotStorage, TLAPS

\* The upload subscriber holds an event until its second transaction, so that the
\* count of unhandled events it lowers there is not zero.
EventHeld == uploader # Resting => uploads > 0

\* A put that succeeded and has not been recorded is still in S3 while the row is
\* "uploading": deletions begin only when the row has left that state, and it
\* does not come back to it before the subscriber is done.
PutIsInS3 == uploader.pc = "recording" /\ uploader.result = "stored"
               /\ row.state = "uploading" => s3

IInv == TypeOK /\ EventHeld /\ PutIsInS3 /\ StoredIsInS3

Rows == [state : States, path : BOOLEAN, bucket : BOOLEAN, attempts : Nat, stale : BOOLEAN]

\* Before the first intake there is nothing to be wrong about.
LEMMA InitHolds == Init => IInv
<1> SUFFICES ASSUME Init PROVE IInv
  OBVIOUS
<1>1. row \in Rows
  BY DEF Init, Rows, States
<1>2. ingests \in 0..MaxIngests /\ errors \in 0..MaxErrors /\ crashes \in 0..MaxCrashes
  BY BoundsAssumption DEF Init
<1>3. uploader = Resting /\ row.state = "absent"
  BY DEF Init
<1> QED BY <1>1, <1>2, <1>3, BoundsAssumption
        DEF Init, Rows, IInv, TypeOK, EventHeld, PutIsInS3, StoredIsInS3, Resting

\* The counters stay within their bounds.
LEMMA BoundsKept ==
  ASSUME TypeOK, Error \/ Crash \/ UNCHANGED bounds
  PROVE  ingests' \in 0..MaxIngests /\ errors' \in 0..MaxErrors /\ crashes' \in 0..MaxCrashes
BY BoundsAssumption DEF TypeOK, Error, Crash, bounds

\* The intake: a row it commits is staged, never stored.
LEMMA IntakeKeeps == IInv /\ Intake => IInv'
<1> SUFFICES ASSUME IInv, Intake PROVE IInv'
  OBVIOUS
<1> USE BoundsAssumption DEF IInv, TypeOK, EventHeld, PutIsInS3, StoredIsInS3, bounds
<1>1. CASE IngestWrite
  BY <1>1 DEF IngestWrite, eventVars
<1>2. CASE IngestCommit
  <2>1. row' \in Rows
    BY <1>2 DEF IngestCommit, Rows, States
  <2> QED BY <1>2, <2>1 DEF IngestCommit, Rows
<1>3. CASE IngestAbort
  BY <1>3 DEF IngestAbort, eventVars
<1> QED BY <1>1, <1>2, <1>3 DEF Intake
-----------------------------------------------------------------------------
\* The upload subscriber's first transaction and its calls to staging and S3.
LEMMA UploadBeginKeeps == IInv /\ UploadBegin => IInv'
<1> SUFFICES ASSUME IInv, UploadBegin PROVE IInv'
  OBVIOUS
<1> USE DEF IInv, TypeOK, EventHeld, PutIsInS3, StoredIsInS3, bounds
<1>1. CASE row.state \in Uploadable
  <2>1. row' \in Rows /\ row'.state = "uploading"
    <3>1. row \in Rows /\ row.attempts + 1 \in Nat /\ "uploading" \in States
      BY DEF Rows, States
    <3>2. row' = [row EXCEPT !.state = "uploading", !.bucket = TRUE,
                             !.attempts = row.attempts + 1, !.stale = FALSE]
      BY <1>1 DEF UploadBegin
    <3> HIDE DEF IInv, TypeOK
    <3> QED BY <3>1, <3>2 DEF Rows
  <2>2. uploader' = [pc |-> "reading", result |-> "none"] /\ uploads' = uploads /\ uploads > 0
    BY <1>1 DEF UploadBegin, UploadDelivered
  <2> QED BY <1>1, <2>1, <2>2 DEF UploadBegin, Rows
<1>2. CASE row.state \notin Uploadable
  <2>1. uploads' \in Nat /\ uploader' = uploader /\ uploader = Resting /\ row' = row
    BY <1>2 DEF UploadBegin, UploadDelivered
  <2> QED BY <1>2, <2>1 DEF UploadBegin
<1> QED BY <1>1, <1>2

\* A missing staging file counts as stored only when the object is in S3.
LEMMA UploadReadKeeps == IInv /\ UploadRead => IInv'
<1> SUFFICES ASSUME IInv, UploadRead PROVE IInv'
  OBVIOUS
<1>1. UNCHANGED <<row, ingest, staging, s3, configured, uploads, deletes, cleaning, sweep>>
  BY DEF UploadRead, rowVars, eventVars
<1>2. Error \/ UNCHANGED bounds
  BY DEF UploadRead
<1>3. \/ uploader' = [pc |-> "putting", result |-> "none"]
      \/ uploader' = [pc |-> "recording", result |-> "stored"] /\ s3
      \/ uploader' = [pc |-> "recording", result |-> "failed"]
      \/ uploader' = [pc |-> "recording", result |-> "staged"]
  BY DEF UploadRead
<1>4. uploads > 0
  BY DEF UploadRead, IInv, EventHeld, Resting
<1> QED BY <1>1, <1>2, <1>3, <1>4, BoundsKept
        DEF IInv, TypeOK, EventHeld, PutIsInS3, StoredIsInS3

\* A put counts as stored only when it succeeded.
LEMMA UploadPutKeeps == IInv /\ UploadPut => IInv'
<1> SUFFICES ASSUME IInv, UploadPut PROVE IInv'
  OBVIOUS
<1>1. UNCHANGED <<row, ingest, staging, configured, uploads, deletes, cleaning, sweep>>
  BY DEF UploadPut, rowVars, eventVars
<1>2. Error \/ UNCHANGED bounds
  BY DEF UploadPut
<1>3. /\ s3' \in BOOLEAN
      /\ s3 => s3'
      /\ \/ uploader' = [pc |-> "recording", result |-> "stored"] /\ s3'
         \/ uploader' = [pc |-> "recording", result |-> "staged"]
  BY DEF UploadPut, IInv, TypeOK
<1>4. uploads > 0
  BY DEF UploadPut, IInv, EventHeld, Resting
<1> QED BY <1>1, <1>2, <1>3, <1>4, BoundsKept
        DEF IInv, TypeOK, EventHeld, PutIsInS3, StoredIsInS3
-----------------------------------------------------------------------------
\* The second transaction: "stored" is written only for a put that is in S3.
LEMMA UploadRecordKeeps == IInv /\ UploadRecord => IInv'
<1> SUFFICES ASSUME IInv, UploadRecord PROVE IInv'
  OBVIOUS
<1>1. uploads' \in Nat /\ uploader' = Resting
  BY DEF UploadRecord, IInv, TypeOK, EventHeld, Resting
<1>2. UNCHANGED <<staging, configured, ingest, sweep>>
  BY DEF UploadRecord
<1>3. /\ row' \in Rows /\ s3' \in BOOLEAN /\ deletes' \in Nat
      /\ cleaning' \subseteq {"uploader", "deleter", "eraser"}
      /\ Error \/ UNCHANGED bounds
      /\ row'.state = "stored" => s3'
  <2>1. CASE row.state \in Erased /\ EraseLateUpload
    <3>1. row \in Rows /\ Erased \subseteq States /\ "stored" \notin Erased
      BY DEF IInv, TypeOK, Rows, States, Erased
    <3>2. \/ row' = [row EXCEPT !.state = "deleted", !.path = FALSE, !.stale = FALSE]
          \/ row' = [row EXCEPT !.state = "delete_requested", !.stale = FALSE]
      BY <2>1 DEF EraseLateUpload
    <3>3. row' \in Rows /\ row'.state \in Erased
      BY <3>1, <3>2 DEF Rows, Erased
    <3>4. s3' \in BOOLEAN /\ deletes' \in Nat /\ (Error \/ UNCHANGED bounds)
      <4>1. s3' \in BOOLEAN
        <5>1. s3' \in {s3, FALSE} /\ s3 \in BOOLEAN
          BY <2>1 DEF EraseLateUpload, IInv, TypeOK
        <5> QED BY <5>1, Zenon
      <4>2. deletes' \in Nat
        <5>1. deletes' = deletes \/ deletes' = deletes + 1
          BY <2>1 DEF EraseLateUpload
        <5>2. deletes \in Nat
          BY DEF IInv, TypeOK
        <5> QED BY <5>1, <5>2
      <4>3. Error \/ UNCHANGED bounds
        BY <2>1 DEF EraseLateUpload
      <4> QED BY <4>1, <4>2, <4>3
    <3>5. cleaning' \subseteq {"uploader", "deleter", "eraser"}
      <4>1. cleaning' = cleaning \/ cleaning' = cleaning \cup {"uploader"}
        BY <2>1 DEF EraseLateUpload
      <4>2. cleaning \subseteq {"uploader", "deleter", "eraser"}
        BY DEF IInv, TypeOK
      <4> QED BY <4>1, <4>2
    <3> QED BY <3>1, <3>3, <3>4, <3>5
  <2>2. CASE row.state = "uploading" /\ RecordResult
    <3>1. uploader.pc = "recording" /\ uploader.result \in {"stored", "staged", "failed"}
      BY DEF UploadRecord, IInv, TypeOK, Resting
    <3> DEFINE state == IF uploader.result = "staged" /\ row.attempts >= MaxUploadAttempts
                        THEN "failed" ELSE uploader.result
    <3>2. row' = [row EXCEPT !.state = state, !.stale = FALSE, !.path = @ /\ state # "stored"]
      BY <2>2 DEF RecordResult
    <3>3. /\ state \in {"stored", "staged", "failed"}
          /\ state = "stored" => uploader.result = "stored"
      BY <3>1
    <3> HIDE DEF state
    <3>4. row' \in Rows /\ row'.state = state
      BY <3>2, <3>3 DEF IInv, TypeOK, Rows, States
    <3>5. UNCHANGED <<s3, deletes, bounds>>
      BY <2>2 DEF RecordResult
    <3>6. cleaning' \subseteq {"uploader", "deleter", "eraser"}
      BY <2>2 DEF RecordResult, IInv, TypeOK
    <3> QED BY <2>2, <3>1, <3>3, <3>4, <3>5, <3>6 DEF IInv, TypeOK, PutIsInS3
  <2>3. CASE UNCHANGED <<row, s3, deletes, cleaning, bounds>>
    BY <2>3 DEF IInv, TypeOK, Rows, StoredIsInS3
  <2> QED BY <2>1, <2>2, <2>3 DEF UploadRecord
<1> QED BY <1>1, <1>2, <1>3, BoundsKept
        DEF IInv, TypeOK, Rows, EventHeld, PutIsInS3, StoredIsInS3, Resting

\* The delete subscriber touches S3 only while the row says "delete_requested".
LEMMA DeletionKeeps == IInv /\ (DeleteHandle \/ DeleterCrash) => IInv'
<1> SUFFICES ASSUME IInv, DeleteHandle \/ DeleterCrash PROVE IInv'
  OBVIOUS
<1>1. /\ row' \in Rows /\ s3' \in BOOLEAN /\ deletes' \in Nat
      /\ cleaning' \subseteq {"uploader", "deleter", "eraser"}
      /\ Error \/ Crash \/ UNCHANGED bounds
      /\ row'.state \in {"stored", "uploading"} => row' = row /\ s3' = s3
  <2>1. CASE DeleteHandle
    <3>1. row \in Rows /\ "deleted" \in States
      BY DEF IInv, TypeOK, Rows, States, Erased
    <3>2. \/ /\ row.state = "delete_requested"
             /\ row' = [row EXCEPT !.state = "deleted", !.path = FALSE, !.stale = FALSE]
          \/ /\ row.state = "delete_requested"
             /\ row' = [row EXCEPT !.stale = FALSE]
          \/ row' = row /\ s3' = s3
      BY <2>1 DEF DeleteHandle
    <3>3. row' \in Rows /\ (row'.state \in {"stored", "uploading"} => row' = row /\ s3' = s3)
      BY <3>1, <3>2 DEF Rows
    <3>4. s3' \in BOOLEAN /\ deletes' \in Nat /\ (Error \/ UNCHANGED bounds)
      <4>1. s3' \in BOOLEAN
        <5>1. s3' \in {s3, FALSE} /\ s3 \in BOOLEAN
          BY <2>1 DEF DeleteHandle, IInv, TypeOK
        <5> QED BY <5>1, Zenon
      <4>2. deletes' \in Nat
        <5>1. deletes' = deletes - 1 /\ deletes > 0
          BY <2>1 DEF DeleteHandle
        <5>2. deletes \in Nat
          BY DEF IInv, TypeOK
        <5> QED BY <5>1, <5>2
      <4>3. Error \/ UNCHANGED bounds
        BY <2>1 DEF DeleteHandle
      <4> QED BY <4>1, <4>2, <4>3
    <3>5. cleaning' \subseteq {"uploader", "deleter", "eraser"}
      <4>1. cleaning' = cleaning \/ cleaning' = cleaning \cup {"deleter"}
        BY <2>1 DEF DeleteHandle
      <4>2. cleaning \subseteq {"uploader", "deleter", "eraser"}
        BY DEF IInv, TypeOK
      <4> QED BY <4>1, <4>2
    <3> QED BY <3>3, <3>4, <3>5
  <2>2. CASE DeleterCrash
    BY <2>2 DEF DeleterCrash, IInv, TypeOK, Rows, rowVars, eventVars
  <2> QED BY <2>1, <2>2
<1>2. UNCHANGED <<staging, configured, uploads, uploader, ingest, sweep>>
  BY DEF DeleteHandle, DeleterCrash, rowVars, eventVars
<1> QED BY <1>1, <1>2, BoundsKept
        DEF IInv, TypeOK, Rows, EventHeld, PutIsInS3, StoredIsInS3

\* The rest touches S3 only for an erased row; no row becomes stored or uploading.
LEMMA OthersKeep ==
  ASSUME IInv,
         \/ UploaderCrash \/ EraseFile \/ PurgeExpired \/ RepublishStale \/ Sweep
         \/ RowGrowsStale \/ FileAges \/ SwitchOnS3
         \/ \E actor \in cleaning : Clean(actor) \/ LeaveBehind(actor)
  PROVE  IInv'
<1>1. row \in Rows
  BY DEF IInv, TypeOK, Rows
<1> USE DEF IInv, TypeOK, EventHeld, PutIsInS3, StoredIsInS3
<1>2. CASE UploaderCrash
  <2>1. /\ UNCHANGED <<row, staging, configured, uploads, deletes, ingest, cleaning, sweep>>
        /\ Crash /\ uploader' = Resting
    BY <1>2 DEF UploaderCrash, rowVars, eventVars
  <2>2. s3' \in BOOLEAN /\ (row.state = "stored" => s3' = s3)
    <3>1. s3' = s3 \/ (s3' = FALSE /\ row.state \in Erased)
      BY <1>2 DEF UploaderCrash
    <3>2. row.state = "stored" => s3' = s3
      BY <3>1 DEF Erased
    <3>3. s3' \in BOOLEAN
      BY <3>1
    <3> QED BY <3>2, <3>3
  <2> QED BY <2>1, <2>2, BoundsKept DEF Resting
<1>3. CASE EraseFile \/ PurgeExpired
  <2>1. row' \in Rows /\ row'.state \in Erased
    <3>1. \/ row' = [row EXCEPT !.state = "delete_requested", !.stale = FALSE]
          \/ row' = [row EXCEPT !.state = "deleted", !.path = FALSE, !.stale = FALSE]
      BY ONLY <1>3 DEF EraseFile, PurgeExpired
    <3> QED BY ONLY <1>1, <3>1 DEF Rows, States, Erased
  <2> QED BY <1>3, <2>1 DEF EraseFile, PurgeExpired, Rows, Erased, bounds
<1>4. CASE RepublishStale
  <2>1. /\ row' \in Rows /\ row'.state # "stored"
        /\ row'.state = "uploading" => row.state = "uploading"
    BY <1>1, <1>4 DEF RepublishStale, Rows, States, Uploadable
  <2>2. uploads' \in Nat /\ uploads' >= uploads /\ deletes' \in Nat
    BY <1>4 DEF RepublishStale, eventVars
  <2> QED BY <1>4, <2>1, <2>2 DEF RepublishStale, Rows, bounds
<1>5. CASE RowGrowsStale
  <2>1. row' \in Rows /\ row'.state = row.state
    BY <1>1, <1>5 DEF RowGrowsStale, Rows
  <2> QED BY <1>5, <2>1 DEF RowGrowsStale, Rows, eventVars, bounds
<1>6. CASE Sweep \/ FileAges \/ SwitchOnS3
  <2>1. UNCHANGED <<row, s3, uploads, deletes, uploader, ingest, cleaning, ingests, errors,
                    crashes>>
    BY <1>6 DEF Sweep, SweepList, SweepReadRows, SweepRemove, FileAges, SwitchOnS3, rowVars,
                eventVars, bounds
  <2>2. staging' \in {"none", "fresh", "aged"}
    BY <1>6 DEF Sweep, SweepList, SweepReadRows, SweepRemove, FileAges, SwitchOnS3
  <2>3. configured' \in BOOLEAN
    BY <1>6 DEF Sweep, SweepList, SweepReadRows, SweepRemove, FileAges, SwitchOnS3
  <2>4. sweep' \in {"idle", "listed", "removing"}
    BY <1>6 DEF Sweep, SweepList, SweepReadRows, SweepRemove, FileAges, SwitchOnS3
  <2> QED BY <2>1, <2>2, <2>3, <2>4
<1>7. CASE \E actor \in cleaning : Clean(actor)
  BY <1>7 DEF Clean, rowVars, eventVars, bounds
<1>8. CASE \E actor \in cleaning : LeaveBehind(actor)
  BY <1>8, BoundsKept DEF LeaveBehind, rowVars, eventVars
<1> QED BY <1>2, <1>3, <1>4, <1>5, <1>6, <1>7, <1>8

\* Every step keeps the strengthened invariant.
LEMMA IInvKept == IInv /\ [Next]_vars => IInv'
<1>1. IInv /\ UNCHANGED vars => IInv'
  BY DEF IInv, TypeOK, EventHeld, PutIsInS3, StoredIsInS3, vars, bounds
<1> QED BY <1>1, IntakeKeeps, UploadBeginKeeps, UploadReadKeeps, UploadPutKeeps,
           UploadRecordKeeps, DeletionKeeps, OthersKeep DEF Next, Upload
-----------------------------------------------------------------------------
\* The row, the stores and the actors keep their types.
THEOREM StorageTypeCorrect == Spec => []TypeOK
<1>1. IInv => TypeOK
  BY DEF IInv
<1> QED BY <1>1, InitHolds, IInvKept, PTL DEF Spec

\* However intakes, uploads, erasures and crashes overlap, a row that says "stored"
\* has its object in S3.
THEOREM StoredBacked == Spec => []StoredIsInS3
<1>1. IInv => StoredIsInS3
  BY DEF IInv
<1> QED BY <1>1, InitHolds, IInvKept, PTL DEF Spec
-----------------------------------------------------------------------------
\* What is in S3, or on its way there, has its bucket, so that whoever erases the file
\* asks S3's subscriber.
BucketSet == s3 \/ uploader # Resting => row.bucket

\* The file of the first intake waits in staging while its row may still be uploaded:
\* nobody is about to clean or to sweep it.
FirstIntake ==
  /\ ingests = 0 => ingest = "idle" /\ staging = "none"
  /\ ingests = 0 \/ (ingests = 1 /\ ingest = "written") =>
       row.state = "absent" /\ sweep = "idle" /\ cleaning = {} /\ staging # "aged"
  /\ ingests = 1 /\ ingest = "written" => staging # "none"
  /\ ingests <= 1 /\ row.state \in Uploadable =>
       row.path /\ staging # "none" /\ sweep # "removing" /\ cleaning = {}

FullInv == IInv /\ BucketSet /\ NoOrphanWithoutCrash /\ FirstIntake

LEMMA FullInit == Init => FullInv
<1> SUFFICES ASSUME Init PROVE FullInv
  OBVIOUS
<1>1. IInv
  BY InitHolds
<1>2. BucketSet /\ NoOrphanWithoutCrash
  BY DEF Init, BucketSet, NoOrphanWithoutCrash, NoOrphanInS3
<1>3. FirstIntake
  BY DEF Init, FirstIntake, Uploadable
<1> QED BY <1>1, <1>2, <1>3 DEF FullInv

\* Nothing but an intake's commit makes an absent row appear, and a row once uploadable
\* comes back to it only through another intake.
RowMoves ==
  /\ row'.state \in Uploadable => row.state \in Uploadable /\ (row.path => row'.path)
  /\ row.state = "absent" => row'.state = "absent"
  /\ row.bucket => row'.bucket

\* Steps that leave the intake and the file alone keep what waits for its upload.
LEMMA FirstIntakeKept ==
  ASSUME FirstIntake, RowMoves, UNCHANGED <<ingests, ingest>>,
         \/ UNCHANGED <<staging, sweep>>
         \/ UNCHANGED staging /\ sweep = "idle" /\ staging = "aged" /\ sweep' = "listed"
         \/ UNCHANGED staging /\ sweep = "listed" /\ sweep' \in {"idle", "removing"}
              /\ (Live => sweep' = "idle")
         \/ sweep = "removing" /\ sweep' = "idle" /\ staging' = "none"
         \/ UNCHANGED sweep /\ staging = "fresh" /\ staging' = "aged" /\ ingest = "idle"
         \/ UNCHANGED sweep /\ staging' = "none" /\ cleaning # {},
         cleaning' \subseteq cleaning \/ row.state \notin Uploadable \cup {"absent"}
           \/ row'.state \notin Uploadable \cup {"absent"}
  PROVE  FirstIntake'
BY DEF FirstIntake, RowMoves, Uploadable, Live

\* The bucket is set before anything is put, and nothing resets it.
LEMMA BucketKept == IInv /\ BucketSet /\ [Next]_vars => BucketSet'
<1> SUFFICES ASSUME IInv, BucketSet, [Next]_vars PROVE BucketSet'
  OBVIOUS
<1>r. row \in Rows
  BY DEF IInv, TypeOK, Rows
<1>k. ASSUME row'.bucket = row.bucket \/ row'.bucket = TRUE, s3' => s3 \/ uploader # Resting,
             uploader' # Resting => uploader # Resting
      PROVE  BucketSet'
  BY <1>k DEF BucketSet
<1>1. CASE UNCHANGED vars
  BY <1>1, <1>k DEF vars
<1>2. CASE Intake
  <2>1. row'.bucket = row.bucket \/ row'.bucket = (configured \/ row.bucket)
    BY <1>2 DEF Intake, IngestWrite, IngestCommit, IngestAbort, rowVars
  <2>2. s3' = s3 /\ uploader' = uploader
    BY <1>2 DEF Intake, IngestWrite, IngestCommit, IngestAbort
  <2> QED BY <2>1, <2>2 DEF BucketSet
<1>3. CASE UploadBegin
  <2>1. CASE row.state \in Uploadable
    <3>1. row'.bucket = TRUE
      BY <1>3, <2>1, <1>r DEF UploadBegin, Rows
    <3> QED BY <3>1 DEF BucketSet
  <2>2. CASE row.state \notin Uploadable
    BY <1>3, <2>2, <1>k DEF UploadBegin
  <2> QED BY <2>1, <2>2
<1>4. CASE UploadRead \/ UploadPut
  <2>1. row' = row
    BY <1>4 DEF UploadRead, UploadPut, rowVars
  <2>2. uploader.pc # "idle"
    BY <1>4 DEF UploadRead, UploadPut
  <2>3. uploader # Resting
    BY <2>2 DEF Resting
  <2> QED BY <2>1, <2>3 DEF BucketSet
<1>5. CASE UploadRecord
  <2>1. row'.bucket = row.bucket
    BY <1>5, <1>r DEF UploadRecord, EraseLateUpload, RecordResult, Rows
  <2>2. (s3' => s3) /\ uploader' = Resting
    <3>1. uploader' = Resting
      BY <1>5 DEF UploadRecord
    <3>2. s3' = FALSE \/ s3' = s3
      BY <1>5 DEF UploadRecord, EraseLateUpload, RecordResult
    <3> QED BY <3>1, <3>2
  <2> QED BY <2>1, <2>2, <1>k
<1>6. CASE UploaderCrash
  <2>1. row' = row /\ uploader' = Resting /\ (s3' = s3 \/ s3' = FALSE)
    BY <1>6 DEF UploaderCrash, rowVars
  <2> QED BY <2>1, <1>k
<1>7. CASE DeleteHandle \/ DeleterCrash
  <2>1. row'.bucket = row.bucket
    BY <1>7, <1>r DEF DeleteHandle, DeleterCrash, rowVars, Rows
  <2>2. uploader' = uploader /\ (s3' = FALSE \/ s3' = s3)
    BY <1>7 DEF DeleteHandle, DeleterCrash
  <2> QED BY <2>1, <2>2, <1>k
<1>8. CASE \E actor \in cleaning : Clean(actor) \/ LeaveBehind(actor)
  <2>1. UNCHANGED <<row, uploader, s3>>
    BY <1>8 DEF Clean, LeaveBehind, rowVars
  <2> QED BY <2>1 DEF BucketSet
<1>9. CASE EraseFile \/ PurgeExpired \/ RepublishStale \/ RowGrowsStale
  <2>1. row'.bucket = row.bucket \/ row'.bucket = TRUE
    BY <1>9, <1>r DEF EraseFile, PurgeExpired, RepublishStale, RowGrowsStale, Rows
  <2>2. uploader' = uploader /\ s3' = s3
    BY <1>9 DEF EraseFile, PurgeExpired, RepublishStale, RowGrowsStale
  <2> QED BY <2>1, <2>2, <1>k
<1>10. CASE Sweep \/ FileAges \/ SwitchOnS3
  <2>1. UNCHANGED <<row, uploader, s3>>
    BY <1>10 DEF Sweep, SweepList, SweepReadRows, SweepRemove, FileAges, SwitchOnS3, rowVars
  <2> QED BY <2>1 DEF BucketSet
<1> QED BY <1>1, <1>2, <1>3, <1>4, <1>5, <1>6, <1>7, <1>8, <1>9, <1>10 DEF Next, Upload

\* Whoever deletes the row without a crash has deleted the object before, except the
\* eraser of a file that never had a bucket.
LEMMA OrphanKept ==
  IInv /\ BucketSet /\ NoOrphanWithoutCrash /\ [Next]_vars => NoOrphanWithoutCrash'
<1> SUFFICES ASSUME IInv, BucketSet, NoOrphanWithoutCrash, [Next]_vars,
                    crashes' = 0, row'.state = "deleted", s3'
             PROVE  uploader'.pc = "recording"
  BY DEF NoOrphanWithoutCrash, NoOrphanInS3
<1>r. row \in Rows
  BY DEF IInv, TypeOK, Rows
<1>n. ~Crash
  BY DEF Crash, IInv, TypeOK
<1>k. ASSUME crashes' = crashes, row.state = "deleted", s3 PROVE uploader.pc = "recording"
  BY <1>k DEF NoOrphanWithoutCrash, NoOrphanInS3
<1>1. CASE UNCHANGED vars
  BY <1>1, <1>k DEF vars, bounds
<1>2. CASE Intake
  <2>1. CASE IngestCommit
    BY <2>1 DEF IngestCommit
  <2>2. CASE IngestWrite \/ IngestAbort
    <3>1. UNCHANGED <<row, s3, uploader, crashes>>
      BY <2>2 DEF IngestWrite, IngestAbort, rowVars, bounds
    <3> QED BY <3>1, <1>k
  <2> QED BY <1>2, <2>1, <2>2 DEF Intake
<1>3. CASE UploadBegin
  <2>1. row.state \notin Uploadable
    BY <1>3, <1>r DEF UploadBegin, Rows
  <2> QED BY <1>3, <2>1, <1>k DEF UploadBegin, bounds
<1>4. CASE UploadRead
  BY <1>4, <1>k DEF UploadRead, Error, rowVars, bounds
<1>5. CASE UploadPut
  BY <1>5 DEF UploadPut
<1>6. CASE UploadRecord
  <2>1. CASE EraseLateUpload
    BY <2>1, <1>r DEF EraseLateUpload, Rows
  <2>2. CASE RecordResult /\ uploader.pc = "recording"
    <3>1. uploader.result \in {"stored", "staged", "failed"}
      BY <2>2 DEF IInv, TypeOK, Resting
    <3>2. row'.state \in {"stored", "staged", "failed"}
      BY <2>2, <3>1, <1>r DEF RecordResult, Rows
    <3> QED BY <3>2
  <2>3. CASE row.state \notin Erased \cup {"uploading"} /\ UNCHANGED row
    BY <2>3 DEF Erased
  <2> QED BY <1>6, <2>1, <2>2, <2>3 DEF UploadRecord
<1>7. CASE UploaderCrash \/ DeleterCrash
  BY <1>7, <1>n DEF UploaderCrash, DeleterCrash
<1>8. CASE DeleteHandle
  <2>1. row.state # "delete_requested"
    BY <1>8, <1>r DEF DeleteHandle, Rows
  <2> QED BY <1>8, <2>1, <1>k DEF DeleteHandle, bounds
<1>9. CASE \E actor \in cleaning : Clean(actor) \/ LeaveBehind(actor)
  BY <1>9, <1>n, <1>k DEF Clean, LeaveBehind, rowVars, bounds
<1>10. CASE EraseFile
  <2>1. ~row.bucket
    <3>1. SUFFICES ASSUME row.bucket PROVE row'.state = "delete_requested"
      OBVIOUS
    <3>2. row' = [row EXCEPT !.state = "delete_requested", !.stale = FALSE]
      BY <1>10, <3>1 DEF EraseFile
    <3> QED BY <3>2, <1>r DEF Rows
  <2>2. s3
    BY <1>10 DEF EraseFile
  <2> QED BY <2>1, <2>2 DEF BucketSet
<1>11. CASE PurgeExpired \/ RepublishStale \/ RowGrowsStale
  <2>1. row'.state # "deleted"
    BY <1>11, <1>r DEF PurgeExpired, RepublishStale, RowGrowsStale, Rows, Uploadable
  <2> QED BY <2>1
<1>12. CASE Sweep \/ FileAges \/ SwitchOnS3
  BY <1>12, <1>k DEF Sweep, SweepList, SweepReadRows, SweepRemove, FileAges, SwitchOnS3,
                     rowVars, bounds
<1> QED BY <1>1, <1>2, <1>3, <1>4, <1>5, <1>6, <1>7, <1>8, <1>9, <1>10, <1>11, <1>12
        DEF Next, Upload

\* The first intake's file: only its own upload, once stored, and erasures delete it.
LEMMA FirstIntakeStep == IInv /\ FirstIntake /\ [Next]_vars => FirstIntake'
<1> SUFFICES ASSUME IInv, FirstIntake, [Next]_vars PROVE FirstIntake'
  OBVIOUS
<1>r. row \in Rows
  BY DEF IInv, TypeOK, Rows
<1>n. ingests \in Nat
  BY DEF IInv, TypeOK
<1>u. UNCHANGED row => RowMoves
  BY DEF RowMoves
<1>1. CASE UNCHANGED vars
  BY <1>1 DEF vars, rowVars, bounds, FirstIntake
<1>2. CASE IngestWrite
  <2>1. /\ ingests' = ingests + 1 /\ ingest' = "written" /\ staging' = "fresh"
        /\ UNCHANGED <<row, sweep, cleaning>> /\ row.state \notin Uploadable
    BY <1>2 DEF IngestWrite, RestageStates, Uploadable
  <2>2. ingests' = 1 => ingests = 0
    BY <2>1, <1>n
  <2>3. ingests' # 0
    BY <2>1, <1>n
  <2> QED BY <2>1, <2>2, <2>3 DEF FirstIntake
<1>3. CASE IngestCommit
  <2>1. row'.state = "staged" /\ row'.path /\ ingest' = "idle"
    BY <1>3 DEF IngestCommit
  <2>2. UNCHANGED <<ingests, staging, sweep, cleaning>> /\ ingest = "written"
    BY <1>3 DEF IngestCommit, bounds
  <2>3. ingests # 0
    BY <2>2 DEF FirstIntake
  <2>4. ingests <= 1 => ingests = 1
    BY <2>3, <1>n
  <2> QED BY <2>1, <2>2, <2>3, <2>4 DEF FirstIntake
<1>4. CASE IngestAbort
  <2>1. /\ UNCHANGED <<ingests, staging, sweep, cleaning, row>>
        /\ ingest = "written" /\ ingest' = "idle"
    BY <1>4 DEF IngestAbort, bounds
  <2> QED BY <2>1 DEF FirstIntake
<1>5. CASE UploadBegin
  <2>1. RowMoves
    BY <1>5, <1>r DEF UploadBegin, RowMoves, Rows, Uploadable
  <2>2. UNCHANGED <<ingests, ingest, staging, sweep>>
    BY <1>5 DEF UploadBegin, bounds
  <2>3. cleaning' = cleaning \/ row.state \notin Uploadable \cup {"absent"}
    BY <1>5 DEF UploadBegin, Uploadable
  <2> QED BY <2>1, <2>2, <2>3, FirstIntakeKept
<1>6. CASE UploadRead \/ UploadPut \/ UploaderCrash \/ DeleterCrash \/ SwitchOnS3
  <2>1. UNCHANGED <<ingests, ingest, staging, sweep, row, cleaning>>
    BY <1>6 DEF UploadRead, UploadPut, UploaderCrash, DeleterCrash, SwitchOnS3,
                Error, Crash, rowVars, bounds
  <2> QED BY <2>1 DEF FirstIntake
<1>7. CASE UploadRecord
  <2>1. UNCHANGED <<ingests, ingest, staging, sweep>>
    BY <1>7 DEF UploadRecord, EraseLateUpload, RecordResult, Error, bounds
  <2>2. CASE row.state \in Erased /\ EraseLateUpload
    <3>1. row'.state \notin Uploadable
      BY <2>2, <1>r DEF EraseLateUpload, Rows, Uploadable
    <3>2. RowMoves
      BY <2>2, <3>1, <1>r DEF EraseLateUpload, Rows, Erased, RowMoves
    <3>3. row.state \notin Uploadable \cup {"absent"}
      BY <2>2 DEF Erased, Uploadable
    <3> QED BY <2>1, <3>2, <3>3, FirstIntakeKept
  <2>3. CASE row.state = "uploading" /\ RecordResult
    <3>1. row'.state # "stored" => row'.path = row.path /\ cleaning' = cleaning
      BY <2>3, <1>r DEF RecordResult, Rows
    <3>2. row'.bucket = row.bucket
      BY <2>3, <1>r DEF RecordResult, Rows
    <3>3. RowMoves
      BY <2>3, <3>1, <3>2 DEF RowMoves, Uploadable
    <3>4. cleaning' = cleaning \/ row'.state \notin Uploadable \cup {"absent"}
      BY <3>1 DEF Uploadable
    <3> QED BY <2>1, <3>3, <3>4, FirstIntakeKept
  <2>4. CASE UNCHANGED <<row, cleaning>>
    BY <2>1, <2>4 DEF FirstIntake
  <2> QED BY <1>7, <2>2, <2>3, <2>4 DEF UploadRecord
<1>8. CASE DeleteHandle
  <2>1. UNCHANGED <<ingests, ingest, staging, sweep>>
    BY <1>8 DEF DeleteHandle, Error, bounds
  <2>2. CASE row.state = "delete_requested"
    <3>1. RowMoves
      BY <1>8, <2>2, <1>r DEF DeleteHandle, RowMoves, Rows, Uploadable
    <3>2. row.state \notin Uploadable \cup {"absent"}
      BY <2>2 DEF Uploadable
    <3> QED BY <2>1, <3>1, <3>2, FirstIntakeKept
  <2>3. CASE row.state # "delete_requested"
    <3>1. UNCHANGED <<row, cleaning>>
      BY <1>8, <2>3 DEF DeleteHandle
    <3> QED BY <2>1, <3>1 DEF FirstIntake
  <2> QED BY <2>2, <2>3
<1>9. CASE \E actor \in cleaning : Clean(actor) \/ LeaveBehind(actor)
  <2>1. /\ UNCHANGED <<ingests, ingest, row, sweep>> /\ cleaning # {}
        /\ cleaning' \subseteq cleaning
        /\ staging' \in {staging, "none"}
    BY <1>9 DEF Clean, LeaveBehind, Crash, rowVars, bounds
  <2> QED BY <2>1, <1>u, FirstIntakeKept
<1>10. CASE EraseFile \/ PurgeExpired
  <2>1. UNCHANGED <<ingests, ingest, staging, sweep>>
    BY <1>10 DEF EraseFile, PurgeExpired, bounds
  <2>2. row.state # "absent" /\ row'.state \in Erased /\ row'.bucket = row.bucket
    BY <1>10, <1>r DEF EraseFile, PurgeExpired, Erased, Rows
  <2>3. RowMoves /\ row'.state \notin Uploadable \cup {"absent"}
    BY <2>2 DEF RowMoves, Erased, Uploadable
  <2> QED BY <2>1, <2>3, FirstIntakeKept
<1>11. CASE RepublishStale \/ RowGrowsStale
  <2>1. UNCHANGED <<ingests, ingest, staging, sweep, cleaning>>
    BY <1>11 DEF RepublishStale, RowGrowsStale, bounds
  <2>2. /\ row.state # "absent" /\ row'.path = row.path
        /\ row'.state \in {row.state, "failed"} /\ (row.bucket => row'.bucket)
    BY <1>11, <1>r DEF RepublishStale, RowGrowsStale, Uploadable, Rows
  <2>3. RowMoves
    BY <2>2 DEF RowMoves, Uploadable
  <2> QED BY <2>1, <2>3, FirstIntakeKept
<1>12. CASE Sweep \/ FileAges
  <2>1. UNCHANGED <<ingests, ingest, row, cleaning>>
    BY <1>12 DEF Sweep, SweepList, SweepReadRows, SweepRemove, FileAges, rowVars, bounds
  <2>2. \/ UNCHANGED staging /\ sweep = "idle" /\ staging = "aged" /\ sweep' = "listed"
        \/ UNCHANGED staging /\ sweep = "listed" /\ sweep' \in {"idle", "removing"}
             /\ (Live => sweep' = "idle")
        \/ sweep = "removing" /\ sweep' = "idle" /\ staging' = "none"
        \/ UNCHANGED sweep /\ staging = "fresh" /\ staging' = "aged" /\ ingest = "idle"
    BY <1>12 DEF Sweep, SweepList, SweepReadRows, SweepRemove, FileAges
  <2> QED BY <2>1, <2>2, <1>u, FirstIntakeKept
<1> QED BY <1>1, <1>2, <1>3, <1>4, <1>5, <1>6, <1>7, <1>8, <1>9, <1>10, <1>11, <1>12
        DEF Next, Upload, Intake

LEMMA FullInvKept == FullInv /\ [Next]_vars => FullInv'
BY IInvKept, BucketKept, OrphanKept, FirstIntakeStep DEF FullInv
-----------------------------------------------------------------------------
\* While no subscriber dies, an object left in S3 for an erased file is one that the
\* upload which put it there is about to remove.
THEOREM NoOrphan == Spec => []NoOrphanWithoutCrash
<1>1. FullInv => NoOrphanWithoutCrash
  BY DEF FullInv
<1> QED BY <1>1, FullInit, FullInvKept, PTL DEF Spec

\* The bytes of a file that was sent in once are in staging or in S3 as long as its
\* row promises them, whatever crashes and whatever the sweep deletes.
THEOREM OneIntakeKept == Spec => []BytesOfOneIntakeKept
<1>1. FullInv => BytesOfOneIntakeKept
  BY DEF FullInv, IInv, StoredIsInS3, FirstIntake, BytesOfOneIntakeKept, BytesKept, Uploadable
<1> QED BY <1>1, FullInit, FullInvKept, PTL DEF Spec
=============================================================================
