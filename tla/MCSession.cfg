SPECIFICATION Spec
CONSTANTS
  Tab = {b1, b2}
  NoTab = NoTab
  Request = {q1, q2}
  User = {u1, u2}
  NoUser = NoUser
  NoToken = NoToken
  Life = 2
  Window = 1
  Limit = 1
  MaxTime = 2
  MaxAsks = 2
INVARIANTS
  TypeOK
  TabActsAsShown
  LogoutIsFinal
  LockoutIsTemporary
CHECK_DEADLOCK FALSE
SYMMETRY MCSymmetry
