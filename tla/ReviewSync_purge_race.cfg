SPECIFICATION Spec
CONSTANTS
  Sellers = {s1}
  Workers = {w1}
  MaxRuns = 1
  MaxAttempts = 1
  LastDay = 1
INVARIANTS PurgedStaysPurged
CHECK_DEADLOCK FALSE
