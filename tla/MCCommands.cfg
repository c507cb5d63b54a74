SPECIFICATION Spec
CONSTANTS
  Call = {c1, c2}
  Key = {k1, k2}
  NoKey = NoKey
  u1 = u1
  u2 = u2
  w1 = w1
  w2 = w2
  r1 = r1
  x1 = x1
  User = {u1, u2}
  Topic <- MCTopic
  NoRoom = NoRoom
  MaxRows = 2
  MaxRuns = 2
  Case = {x1}
  NoCase = NoCase
  MaxReports = 2
  Command <- MCCommand
  Contact <- MCContact
  MaxChanges = 1
  NoCommand = NoCommand
INVARIANTS
  TypeOK
  PendingIsOwned
  RetryStoresOneReport
  AnsweredVerdictStands
PROPERTY ImplementsOnceOnly
CHECK_DEADLOCK FALSE
SYMMETRY MCSymmetry
