SPECIFICATION Spec
CONSTANTS
  S3AtStart = TRUE
  MaxUploadAttempts = 2
  MaxIngests = 2
  MaxEvents = 2
  MaxErrors = 0
  MaxCrashes = 0
INVARIANTS BytesKept
CHECK_DEADLOCK FALSE
