SPECIFICATION FairSpec
CONSTANTS
  Threads = {t1, t2, t3}
  MaxConn = 3
  MaxHandles = 5
  CanFail = TRUE
  None = None
INVARIANTS
  TypeOK
  AllAccounted
  ClosedIsDrained
  NeverOverfull
PROPERTIES
  ImplementsLease
  SomeoneServed
  EveryWaiterServed
CHECK_DEADLOCK FALSE
