SPECIFICATION FairSpec
CONSTANTS
  NumThreads = 3
  Tasks = {k1, k2, k3}
  None = None
INVARIANTS
  TypeOK
  NoLostWakeup
  DrainedAtExit
PROPERTIES
  ImplementsQueue
  AcceptedIsRun
  DestructorReturns
CHECK_DEADLOCK FALSE
