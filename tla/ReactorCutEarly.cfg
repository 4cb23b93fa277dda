SPECIFICATION Spec
CONSTANTS
  Conns = {1, 2}
  Fds = {1}
  Asks <- AnyKind
  NumLoops = 2
  Timeout = 2
  MaxTime = 3
  Backlog = 2
  PoolSize = 1
  EdgeTriggered = FALSE
  None = None
PROPERTY NotCutEarly
CHECK_DEADLOCK FALSE
