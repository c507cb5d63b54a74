SPECIFICATION Spec
CONSTANTS
  Message = {m1, m2}
  Notice = {m2}
  Mine = {m1}
  Thread = {p1, r1}
  Room = {r1}
  NoThread = NoThread
  PageSize = 1
  Request = {q1, q2}
  NoRequest = NoRequest
  Endpoint = {e1, e2}
  NoEndpoint = NoEndpoint
  MaxMoves = 4
INVARIANTS
  TypeOK
  HiddenIsExplained
  PageIsComplete
  AwayReaderIsTold
CHECK_DEADLOCK FALSE
SYMMETRY MCSymmetry
