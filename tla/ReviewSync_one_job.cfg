SPECIFICATION FairSpec
CONSTANTS
  Sellers = {s1}
  Workers = {w1, w2}
  MaxRuns = 1
  MaxAttempts = 2
  LastDay = 1
INVARIANTS
  NoStrandedJob
  BoundedRedelivery
PROPERTIES
  ClosedRunNeverReopens
  RunsInTurn
  EveryJobResolved
CHECK_DEADLOCK FALSE
