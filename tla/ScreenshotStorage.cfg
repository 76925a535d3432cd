SPECIFICATION FairSpec
CONSTANTS
  S3AtStart = FALSE
  MaxUploadAttempts = 2
  MaxIngests = 2
  MaxEvents = 2
  MaxErrors = 2
  MaxCrashes = 1
INVARIANTS
  TypeOK
  StoredIsInS3
  BytesOfOneIntakeKept
  NoOrphanWithoutCrash
PROPERTIES
  DeleteRequestSettles
  UploadSettles
  ErasedLeavesStaging
CHECK_DEADLOCK FALSE
