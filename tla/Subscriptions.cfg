SPECIFICATION FairSpec
CONSTANTS
  Chats = {c1, c2}
  Tokens = {t1, t2}
  Admins = {a1, a2}
  MaxUpdates = 2
  MaxFaults = 2
INVARIANTS
  TypeOK
  HandledToCursor
  InviteSpentOnce
  OneUnspentInvite
PROPERTIES UpdatePromise
CHECK_DEADLOCK FALSE
