SPECIFICATION FairSpec
CONSTANTS
  Events = {e1, e2}
  Publishers = {p1,p2}
  Consumers = {c1, c2}
  Poison = {e2}
  BatchLimit = 2
  LockTicks = 2
  SendTicks = 1
  MaxFailures = 2
  MaxFaults = 2
INVARIANTS
  TypeOK
  NoLostEvent
  AppliedOnce
  OffsetBehindWork
  ParkedForCause
PROPERTIES DeliveryPromise
CHECK_DEADLOCK FALSE
