SPECIFICATION Spec
CONSTANTS
  a1 = a1
  a2 = a2
  b1 = b1
  alice = alice
  bob = bob
  i1 = i1
  i2 = i2
  Conn <- MCConn
  User <- MCUser
  Instance <- MCInstance
  Owner <- MCOwner
  Host <- MCHost
  Room = {r1}
  NoRoom = NoRoom
  MaxFaults = 1
INVARIANT LastCountIsCurrent
CHECK_DEADLOCK FALSE
