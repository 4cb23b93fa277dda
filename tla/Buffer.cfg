SPECIFICATION Spec
CONSTANTS
  CheapPrepend = 1
  InitialSize = 4
  ExtraSize = 3
  MaxArrivals = 14
CHECK_DEADLOCK FALSE
INVARIANTS
  TypeOK
PROPERTIES
  ImplementsQueue
