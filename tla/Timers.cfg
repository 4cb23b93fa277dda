SPECIFICATION Spec
CONSTANTS
  Timers = {t1, t2, t3, t4}
  Delays = {0, 1, 2}
  TicksPerMs = 2
  MaxTime = 4
SYMMETRY Symmetry
INVARIANTS
  TypeOK
PROPERTIES
  ImplementsSet
