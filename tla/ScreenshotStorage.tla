------------------------- MODULE ScreenshotStorage --------------------------
(***************************************************************************)
(* The life of one screenshot original in modules/wb_screenshot_control:   *)
(* its storage row, its file in the staging directory, its object in S3,   *)
(* and everyone who moves the three: the intake, the upload and delete     *)
(* subscribers, the administrator who erases it, the retention purge and   *)
(* the hourly reconciliation.  Objects do not interact, so one is modelled.*)
(*                                                                         *)
(* The staging path and the S3 key follow from the file's hash: every      *)
(* generation of the object has the same ones, and so do all its events.   *)
(* Transactions on the row are atomic; what the code does to the staging   *)
(* file before or after a transaction, and to S3 outside one, is a step of *)
(* its own.                                                                *)
(***************************************************************************)
EXTENDS Integers

CONSTANTS
  S3AtStart,     \* S3 is switched on from the beginning
  MaxUploadAttempts,
  MaxIngests,    \* bound: times the file is sent in and staged
  MaxEvents,     \* bound: unhandled events of a kind that the reconciler adds to
  MaxErrors,     \* bound: S3 calls that raise, staging files that are damaged
  MaxCrashes     \* bound: deaths of a subscriber

ASSUME BoundsAssumption ==
  /\ S3AtStart \in BOOLEAN
  /\ MaxUploadAttempts \in Nat \ {0}
  /\ {MaxIngests, MaxEvents, MaxErrors, MaxCrashes} \subseteq Nat

Uploadable == {"staged", "uploading"}
Erased == {"delete_requested", "deleted"}
RestageStates == {"delete_requested", "deleted", "failed"}
States == {"absent", "staged", "uploading", "stored", "failed"} \cup Erased

VARIABLES
  row,         \* storage_objects: state, staging_path set?, bucket set?, attempts, stale?
  staging,     \* the file in the staging directory: none, fresh, older than ORPHAN_AGE
  s3,          \* the object is in S3
  configured,  \* S3 is switched on
  uploads,     \* unhandled upload events
  deletes,     \* unhandled delete events
  uploader,    \* the upload subscriber between its two transactions
  ingest,      \* an intake has written the file and not committed: it locks the row
  cleaning,    \* who committed and has still to delete the staging file
  sweep,       \* sweep_staging between listing files, reading rows and deleting
  ingests, errors, crashes

rowVars == <<row, ingest>>
eventVars == <<uploads, deletes>>
bounds == <<ingests, errors, crashes>>
vars == <<row, staging, s3, configured, uploads, deletes, uploader, ingest,
          cleaning, sweep, bounds>>

Resting == [pc |-> "idle", result |-> "none"]

\* The types of the row, of the stores and of the actors' places.
TypeOK ==
  /\ row \in [state : States, path : BOOLEAN, bucket : BOOLEAN, attempts : Nat,
              stale : BOOLEAN]
  /\ staging \in {"none", "fresh", "aged"}
  /\ s3 \in BOOLEAN /\ configured \in BOOLEAN
  /\ uploads \in Nat /\ deletes \in Nat
  /\ uploader \in {Resting} \cup [pc : {"reading", "putting"}, result : {"none"}]
                  \cup [pc : {"recording"}, result : {"stored", "staged", "failed"}]
  /\ ingest \in {"idle", "written"}
  /\ cleaning \subseteq {"uploader", "deleter", "eraser"}
  /\ sweep \in {"idle", "listed", "removing"}
  /\ ingests \in 0..MaxIngests /\ errors \in 0..MaxErrors /\ crashes \in 0..MaxCrashes

Init ==
  /\ row = [state |-> "absent", path |-> FALSE, bucket |-> FALSE, attempts |-> 0,
            stale |-> FALSE]
  /\ staging = "none"
  /\ s3 = FALSE
  /\ configured = S3AtStart
  /\ uploads = 0 /\ deletes = 0
  /\ uploader = Resting
  /\ ingest = "idle"
  /\ cleaning = {}
  /\ sweep = "idle"
  /\ ingests = 0 /\ errors = 0 /\ crashes = 0

Error == errors < MaxErrors /\ errors' = errors + 1 /\ UNCHANGED <<ingests, crashes>>
Crash == crashes < MaxCrashes /\ crashes' = crashes + 1 /\ UNCHANGED <<ingests, errors>>

\* SELECT ... FOR UPDATE waits for the intake's transaction.
Unlocked == ingest = "idle"
-----------------------------------------------------------------------------
\* IngestService._store: the file is written to staging before the commit.

IngestWrite ==
  /\ Unlocked
  /\ ingests < MaxIngests
  /\ row.state \in RestageStates \cup {"absent"}
  /\ staging' = "fresh"
  /\ ingest' = "written"
  /\ ingests' = ingests + 1
  /\ UNCHANGED <<row, s3, configured, eventVars, uploader, cleaning, sweep, errors, crashes>>

\* insert_storage_object or _restage, with the upload event if S3 is on.
IngestCommit ==
  /\ ingest = "written"
  /\ row' = [state |-> "staged", path |-> TRUE, bucket |-> configured \/ row.bucket,
             attempts |-> 0, stale |-> FALSE]
  /\ uploads' = IF configured THEN uploads + 1 ELSE uploads
  /\ ingest' = "idle"
  /\ UNCHANGED <<staging, s3, configured, deletes, uploader, cleaning, sweep, bounds>>

\* The submission was already there, or the process died: only the file remains.
IngestAbort ==
  /\ ingest = "written"
  /\ ingest' = "idle"
  /\ UNCHANGED <<row, staging, s3, configured, eventVars, uploader, cleaning, sweep, bounds>>
-----------------------------------------------------------------------------
\* ObjectStorageService.upload.

\* Mutant of UploadDelivered: an event the inbox knows is handled again.
UploadRedelivered == uploader = Resting /\ "uploader" \notin cleaning

\* The subscriber takes its events one at a time, each until the inbox has it.
UploadDelivered ==
  /\ uploads > 0
  /\ uploader = Resting /\ "uploader" \notin cleaning

\* First transaction.  Only an attempt that proceeds leaves its event unhandled.
UploadBegin ==
  /\ configured /\ Unlocked
  /\ UploadDelivered
  /\ IF row.state \in Uploadable
     THEN /\ row' = [row EXCEPT !.state = "uploading", !.bucket = TRUE,
                                !.attempts = @ + 1, !.stale = FALSE]
          /\ uploader' = [pc |-> "reading", result |-> "none"]
          /\ UNCHANGED <<uploads, cleaning>>
     ELSE /\ uploads' = uploads - 1
          /\ cleaning' = IF row.state = "stored" THEN cleaning \cup {"uploader"} ELSE cleaning
          /\ UNCHANGED <<row, uploader>>
  /\ UNCHANGED <<staging, s3, configured, deletes, ingest, sweep, bounds>>

\* _put reads the staging file.  If it is gone, the object may be in S3 already; if it
\* was damaged, its hash is not the event's and nothing is put.
UploadRead ==
  /\ uploader.pc = "reading"
  /\ \/ /\ staging # "none"
        /\ uploader' = [pc |-> "putting", result |-> "none"]
        /\ UNCHANGED bounds
     \/ /\ staging # "none"
        /\ uploader' = [pc |-> "recording", result |-> "failed"]
        /\ Error
     \/ /\ staging = "none"
        /\ uploader' = [pc |-> "recording", result |-> IF s3 THEN "stored" ELSE "failed"]
        /\ UNCHANGED bounds
     \/ /\ staging = "none"
        /\ uploader' = [pc |-> "recording", result |-> "staged"]
        /\ Error
  /\ UNCHANGED <<rowVars, staging, s3, configured, eventVars, cleaning, sweep>>

\* blobs.put and blobs.size; a call that raises may have written the object.
UploadPut ==
  /\ uploader.pc = "putting"
  /\ \/ /\ s3' = TRUE
        /\ uploader' = [pc |-> "recording", result |-> "stored"]
        /\ UNCHANGED bounds
     \/ /\ Error
        /\ s3' \in {s3, TRUE}
        /\ uploader' = [pc |-> "recording", result |-> "staged"]
  /\ UNCHANGED <<rowVars, staging, configured, eventVars, cleaning, sweep>>

\* Mutant of EraseLateUpload: an erased object is left as it is.
LeaveLateUpload ==
  UNCHANGED <<row, s3, deletes, cleaning, bounds>>

\* _erase_late_upload: the object was erased while it was being put.
EraseLateUpload ==
  \/ /\ s3' = FALSE
     /\ row' = [row EXCEPT !.state = "deleted", !.path = FALSE, !.stale = FALSE]
     /\ cleaning' = IF row.path THEN cleaning \cup {"uploader"} ELSE cleaning
     /\ UNCHANGED <<deletes, bounds>>
  \/ /\ Error
     /\ s3' \in {s3, FALSE}
     /\ row' = [row EXCEPT !.state = "delete_requested", !.stale = FALSE]
     /\ deletes' = deletes + 1
     /\ UNCHANGED cleaning

\* Mutants of RecordResult: any put counts as stored; the staging file goes
\* whatever came of the put.
RecordStored ==
  /\ row' = [row EXCEPT !.state = "stored", !.path = FALSE, !.stale = FALSE]
  /\ cleaning' = IF row.path THEN cleaning \cup {"uploader"} ELSE cleaning
  /\ UNCHANGED <<s3, deletes, bounds>>

RecordAndClean ==
  /\ row' = [row EXCEPT !.state = uploader.result, !.stale = FALSE]
  /\ cleaning' = cleaning \cup {"uploader"}
  /\ UNCHANGED <<s3, deletes, bounds>>

\* The row is still "uploading": it takes the outcome of _put.
RecordResult ==
  LET state == IF uploader.result = "staged" /\ row.attempts >= MaxUploadAttempts
               THEN "failed" ELSE uploader.result
  IN  /\ row' = [row EXCEPT !.state = state, !.stale = FALSE,
                            !.path = @ /\ state # "stored"]
      /\ cleaning' = IF state = "stored" /\ row.path
                     THEN cleaning \cup {"uploader"} ELSE cleaning
      /\ UNCHANGED <<s3, deletes, bounds>>

\* Second transaction.
UploadRecord ==
  /\ uploader.pc = "recording" /\ Unlocked
  /\ \/ row.state \in Erased /\ EraseLateUpload
     \/ row.state = "uploading" /\ RecordResult
     \/ /\ row.state \notin Erased \cup {"uploading"}
        /\ UNCHANGED <<row, s3, deletes, cleaning, bounds>>
  /\ uploads' = uploads - 1
  /\ uploader' = Resting
  /\ UNCHANGED <<staging, configured, ingest, sweep>>

\* The subscriber dies, perhaps between _erase_late_upload's call to S3 and the
\* commit; Kafka delivers its event again.
UploaderCrash ==
  /\ uploader # Resting
  /\ Crash
  /\ \/ UNCHANGED s3
     \/ uploader.pc = "recording" /\ Unlocked /\ row.state \in Erased /\ s3' = FALSE
  /\ uploader' = Resting
  /\ UNCHANGED <<rowVars, staging, configured, eventVars, cleaning, sweep>>
-----------------------------------------------------------------------------
\* ObjectStorageService.delete: the row stays locked while S3 deletes.

DeleteHandle ==
  /\ configured /\ Unlocked
  /\ deletes > 0 /\ "deleter" \notin cleaning
  /\ \/ /\ row.state = "delete_requested"
        /\ s3' = FALSE
        /\ row' = [row EXCEPT !.state = "deleted", !.path = FALSE, !.stale = FALSE]
        /\ cleaning' = IF row.path THEN cleaning \cup {"deleter"} ELSE cleaning
        /\ UNCHANGED bounds
     \/ /\ row.state = "delete_requested"
        /\ Error
        /\ s3' \in {s3, FALSE}
        /\ row' = [row EXCEPT !.stale = FALSE]
        /\ UNCHANGED cleaning
     \/ /\ row.state # "delete_requested"
        /\ UNCHANGED <<s3, row, cleaning, bounds>>
  /\ deletes' = deletes - 1
  /\ UNCHANGED <<staging, configured, uploads, uploader, ingest, sweep>>

\* It dies after S3 deleted, before the commit.
DeleterCrash ==
  /\ Crash
  /\ configured /\ Unlocked
  /\ deletes > 0 /\ "deleter" \notin cleaning
  /\ row.state = "delete_requested"
  /\ s3' = FALSE
  /\ UNCHANGED <<rowVars, staging, configured, eventVars, uploader, cleaning, sweep>>

\* staging.delete(leftover), after the commit.
Clean(actor) ==
  /\ actor \in cleaning
  /\ staging' = "none"
  /\ cleaning' = cleaning \ {actor}
  /\ UNCHANGED <<rowVars, s3, configured, eventVars, uploader, sweep, bounds>>

\* Whoever was to do that dies first.
LeaveBehind(actor) ==
  /\ actor \in cleaning
  /\ Crash
  /\ cleaning' = cleaning \ {actor}
  /\ UNCHANGED <<rowVars, staging, s3, configured, eventVars, uploader, sweep>>
-----------------------------------------------------------------------------
\* AdminService.erase_file: through S3's subscriber, or at once if the object
\* has no bucket and no upload is on its way.
EraseFile ==
  /\ Unlocked
  /\ row.state \notin Erased \cup {"absent"}
  /\ IF row.bucket \/ row.state = "uploading"
     THEN /\ row' = [row EXCEPT !.state = "delete_requested", !.stale = FALSE]
          /\ deletes' = deletes + 1
          /\ UNCHANGED cleaning
     ELSE /\ row' = [row EXCEPT !.state = "deleted", !.path = FALSE, !.stale = FALSE]
          /\ cleaning' = IF row.path THEN cleaning \cup {"eraser"} ELSE cleaning
          /\ UNCHANGED deletes
  /\ UNCHANGED <<staging, s3, configured, uploads, uploader, ingest, sweep, bounds>>

\* purge_expired: the retention period of a stored object is over.
PurgeExpired ==
  /\ configured /\ Unlocked
  /\ row.state = "stored"
  /\ row' = [row EXCEPT !.state = "delete_requested", !.stale = FALSE]
  /\ deletes' = deletes + 1
  /\ UNCHANGED <<staging, s3, configured, uploads, uploader, ingest, cleaning, sweep, bounds>>
-----------------------------------------------------------------------------
\* StorageReconciler.

\* Mutants of RepublishStale: deletions are not repeated; uploads are not.
RepublishUploads ==
  /\ configured /\ Unlocked /\ row.stale
  /\ row.state \in Uploadable /\ uploads < MaxEvents
  /\ row' = [row EXCEPT !.bucket = TRUE, !.stale = FALSE]
  /\ uploads' = uploads + 1
  /\ UNCHANGED <<staging, s3, configured, deletes, uploader, ingest, cleaning, sweep, bounds>>

RepublishDeletes ==
  /\ configured /\ Unlocked /\ row.stale
  /\ row.state = "delete_requested" /\ deletes < MaxEvents
  /\ row' = [row EXCEPT !.stale = FALSE]
  /\ deletes' = deletes + 1
  /\ UNCHANGED <<staging, s3, configured, uploads, uploader, ingest, cleaning, sweep, bounds>>

\* republish_stale: rows nobody has touched for staging_stale_minutes.
RepublishStale ==
  /\ configured /\ Unlocked /\ row.stale
  /\ \/ /\ row.state \in Uploadable /\ row.attempts >= MaxUploadAttempts
        /\ row' = [row EXCEPT !.state = "failed", !.stale = FALSE]
        /\ UNCHANGED eventVars
     \/ /\ row.state \in Uploadable /\ row.attempts < MaxUploadAttempts
        /\ uploads < MaxEvents
        /\ row' = [row EXCEPT !.bucket = TRUE, !.stale = FALSE]
        /\ uploads' = uploads + 1
        /\ UNCHANGED deletes
     \/ /\ row.state = "delete_requested"
        /\ deletes < MaxEvents
        /\ row' = [row EXCEPT !.stale = FALSE]
        /\ deletes' = deletes + 1
        /\ UNCHANGED uploads
  /\ UNCHANGED <<staging, s3, configured, uploader, ingest, cleaning, sweep, bounds>>

\* sweep_staging: old files are listed ...
SweepList ==
  /\ sweep = "idle" /\ staging = "aged"
  /\ sweep' = "listed"
  /\ UNCHANGED <<rowVars, staging, s3, configured, eventVars, uploader, cleaning, bounds>>

\* Mutant of Live: whatever state the row is in.
LiveInAnyState == row.state # "absent"

\* live_staging_paths, read without a lock.
Live == row.path /\ row.state \in {"staged", "uploading", "failed"}

SweepReadRows ==
  /\ sweep = "listed"
  /\ sweep' = IF Live THEN "idle" ELSE "removing"
  /\ UNCHANGED <<rowVars, staging, s3, configured, eventVars, uploader, cleaning, bounds>>

\* ... and those that no row claimed are deleted one after the other.
SweepRemove ==
  /\ sweep = "removing"
  /\ staging' = "none"
  /\ sweep' = "idle"
  /\ UNCHANGED <<rowVars, s3, configured, eventVars, uploader, cleaning, bounds>>
-----------------------------------------------------------------------------
\* Time, and the day S3 is switched on.

RowGrowsStale ==
  /\ row.state \in Uploadable \cup {"delete_requested"} /\ ~row.stale
  /\ row' = [row EXCEPT !.stale = TRUE]
  /\ UNCHANGED <<staging, s3, configured, eventVars, uploader, ingest, cleaning, sweep, bounds>>

\* ORPHAN_AGE is a day: no intake takes that long.
FileAges ==
  /\ staging = "fresh" /\ ingest = "idle"
  /\ staging' = "aged"
  /\ UNCHANGED <<rowVars, s3, configured, eventVars, uploader, cleaning, sweep, bounds>>

\* S3 is switched on by a restart, which no intake survives.
SwitchOnS3 ==
  /\ ~configured /\ Unlocked
  /\ configured' = TRUE
  /\ UNCHANGED <<rowVars, staging, s3, eventVars, uploader, cleaning, sweep, bounds>>

Intake == IngestWrite \/ IngestCommit \/ IngestAbort
Upload == UploadBegin \/ UploadRead \/ UploadPut \/ UploadRecord
Sweep == SweepList \/ SweepReadRows \/ SweepRemove

Next ==
  \/ Intake \/ Upload \/ UploaderCrash
  \/ DeleteHandle \/ DeleterCrash
  \/ \E actor \in cleaning : Clean(actor) \/ LeaveBehind(actor)
  \/ EraseFile \/ PurgeExpired
  \/ RepublishStale \/ Sweep
  \/ RowGrowsStale \/ FileAges \/ SwitchOnS3

Spec == Init /\ [][Next]_vars

\* Transactions end, Kafka delivers, the hourly reconciliation runs and the clock
\* goes on; nobody has to send, erase or purge anything.
Fairness ==
  /\ WF_vars(IngestCommit \/ IngestAbort)
  /\ WF_vars(Upload) /\ WF_vars(DeleteHandle)
  /\ WF_vars(\E actor \in cleaning : Clean(actor))
  /\ WF_vars(RepublishStale) /\ WF_vars(Sweep)
  /\ WF_vars(RowGrowsStale) /\ WF_vars(FileAges)

FairSpec == Spec /\ Fairness
-----------------------------------------------------------------------------
\* A row that says "stored" is right: the object is in S3, in whichever order the
\* uploads, the deletions and the intakes of the file overlap.
StoredIsInS3 == row.state = "stored" => s3

\* The bytes of an accepted screenshot are somewhere: delete's comment says that
\* the intake of the same file "waits and returns the object to staged rather
\* than losing it".
BytesKept == row.state \in {"staged", "uploading", "stored"} => s3 \/ staging # "none"

\* "otherwise an orphan with personal data stays in S3" (upload): what lies in S3
\* for an erased file is about to be removed by the upload that put it there.
NoOrphanInS3 == row.state = "deleted" /\ s3 => uploader.pc = "recording"

\* What holds of BytesKept: the bytes of a file sent in once are never lost,
\* whatever crashes and whatever the sweep deletes.
BytesOfOneIntakeKept == ingests <= 1 => BytesKept

\* What holds of NoOrphanInS3: a subscriber that lives through its upload leaves
\* no orphan.
NoOrphanWithoutCrash == crashes = 0 => NoOrphanInS3

\* A deletion that was asked for is done, however often S3 refuses, unless the
\* file is sent in again.
DeleteRequestSettles == configured /\ row.state = "delete_requested"
  ~> row.state # "delete_requested"

\* A staged object ends up in S3, fails for good or is erased.
UploadSettles == configured /\ row.state \in Uploadable ~> row.state \notin Uploadable

\* An erased file leaves the staging directory, even if whoever was to remove it
\* died; only another intake keeps it there.
ErasedLeavesStaging == row.state = "deleted" ~> staging = "none" \/ row.state # "deleted"
=============================================================================
