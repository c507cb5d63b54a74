SPECIFICATION Spec
CONSTANTS
  Conn = {c1, c2}
  SendCap = 2
  MaxUnread = 1
INVARIANT
  TypeOK
PROPERTIES
  SlowClientNeverBlocksHub
  SnapshotIsOpen
  BrokenConnectionEnds
  ImplementsRegistry
CHECK_DEADLOCK FALSE
