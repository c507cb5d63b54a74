SPECIFICATION Spec
CONSTANTS
  Conn = {c1, c2}
  SendCap = 2
  MaxUnread = 1
PROPERTY DisconnectedClientIsRemoved
CHECK_DEADLOCK FALSE
