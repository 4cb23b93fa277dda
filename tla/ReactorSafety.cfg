SPECIFICATION Spec
CONSTANTS
  Conns = {1, 2, 3}
  Fds = {1, 2}
  Asks <- SecondAny
  NumLoops = 2
  Timeout = 1
  MaxTime = 0
  Backlog = 1
  PoolSize = 1
  EdgeTriggered = TRUE
  None = None
INVARIANTS
  TypeOK
  OpenConnHasTimer
  OpenConnRegistered
  NoLostEdge
  OversleepBounded
  MisdeliveryNeedsStaleTimer
PROPERTIES
  ClosedForAReason
  ExitedForAReason
CHECK_DEADLOCK FALSE
