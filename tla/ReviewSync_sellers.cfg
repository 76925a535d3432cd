SPECIFICATION Spec
CONSTANTS
  Sellers = {s1, s2}
  Workers = {w1, w2}
  MaxRuns = 2
  MaxAttempts = 1
  LastDay = 2
SYMMETRY SellerAndWorkerSymmetry
CONSTRAINT FewChanges
INVARIANTS TypeOK AtMostOneActiveRun
PROPERTIES RunClosesResolved
CHECK_DEADLOCK FALSE
