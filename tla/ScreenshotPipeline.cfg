SPECIFICATION Spec
CONSTANTS
  Submissions = {1, 2}
  Files = {f1, f2}
  Users = {u1, u2}
  Cases = {c1}
  Outcomes = {amended, deleted}
  Admins = {a1}
  MaxAttempts = 2
  MaxDeferrals = 1
  MaxReprocess = 1
  MaxFaults = 1
SYMMETRY Symmetry
CONSTRAINT OneIncident
INVARIANTS TypeOK SystemCreditsOnce NothingStranded
PROPERTIES DecidedStands
CHECK_DEADLOCK FALSE
