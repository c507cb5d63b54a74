SPECIFICATION Spec
CONSTANTS
  Conn = {c1, c2}
  SendCap = 2
  MaxUnread = 1
INVARIANT HubSurvivesClients
CHECK_DEADLOCK FALSE
