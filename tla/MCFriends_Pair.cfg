SPECIFICATION Spec
CONSTANTS
  User = {u1, u2}
  Task = {t1, t2}
  MaxRows = 2
  Nobody = Nobody
INVARIANT OneRelationPerPair
CHECK_DEADLOCK FALSE
