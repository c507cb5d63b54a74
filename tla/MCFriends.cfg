SPECIFICATION Spec
CONSTANTS
  User = {u1, u2, u3}
  Task = {t1, t2}
  MaxRows = 3
  Nobody = Nobody
INVARIANTS
  TypeOK
  FriendsAsAgreed
PROPERTIES
  AnswerIsFinal
  ImplementsFriendship
CHECK_DEADLOCK FALSE
SYMMETRY MCSymmetry
