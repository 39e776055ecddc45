SPECIFICATION Spec
CONSTANTS
  Clients = {c1, c2, c3}
  TableSlots = 3
  MaxMessages = 2
INVARIANTS
  TypeOK
  MembersServed
  SequentialClientsClean
  AtMostOncePerListener
CHECK_DEADLOCK FALSE
