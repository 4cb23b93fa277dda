SPECIFICATION FairSpec
CONSTANTS
  Conns = {1, 2}
  Fds = {1, 2}
  Asks <- AnyKind
  NumLoops = 1
  Timeout = 1
  MaxTime = 3
  Backlog = 2
  PoolSize = 1
  EdgeTriggered = FALSE
  None = None
PROPERTY SilentConnClosed
CHECK_DEADLOCK FALSE
