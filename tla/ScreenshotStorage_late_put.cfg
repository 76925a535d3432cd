SPECIFICATION Spec
CONSTANTS
  S3AtStart = TRUE
  MaxUploadAttempts = 2
  MaxIngests = 1
  MaxEvents = 2
  MaxErrors = 0
  MaxCrashes = 1
INVARIANTS NoOrphanInS3
CHECK_DEADLOCK FALSE
