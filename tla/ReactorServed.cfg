SPECIFICATION FairSpec
CONSTANTS
  Conns = {1, 2, 3}
  Fds = {1}
  Asks <- SecondAny
  NumLoops = 2
  Timeout = 1
  MaxTime = 0
  Backlog = 1
  PoolSize = 2
  EdgeTriggered = FALSE
  None = None
PROPERTIES
  EveryClientServed
  DueTimerFires
CHECK_DEADLOCK FALSE
