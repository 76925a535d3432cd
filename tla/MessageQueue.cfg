SPECIFICATION FairSpec
CONSTANTS
  Chats = {c1, c2}
  Replies = {u1}
  MaxAttempts = 2
  BatchLimit = 2
  MaxRequests = 1
  MaxMoves = 1
  MaxFaults = 2
  MaxLimits = 1
INVARIANTS
  TypeOK
  DeliveredOnce
  FailedForCause
PROPERTIES QueuePromise
CHECK_DEADLOCK FALSE
