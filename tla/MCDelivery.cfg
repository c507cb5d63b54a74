SPECIFICATION Spec
CONSTANTS
  Msg = {m1, d1}
  Direct = {d1}
  NoMsg = NoMsg
  MaxAttempts = 2
  MaxLink = 2
  MaxUp = 1
INVARIANTS
  TypeOK
  FramesBounded
  PendingIsWatched
  StoredIsPosted
PROPERTIES
  ImplementsLog
  FateIsReported
CHECK_DEADLOCK FALSE
