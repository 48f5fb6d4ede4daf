CONSTANTS
  Threads = {t1, t2}
  Ids = {i1}
  Bodies = {b1, b2}
  Tolerance = 1
  StaleAfter = 2
  MaxTime = 5
  MaxArrivals = 3
SPECIFICATION Spec
INVARIANTS TypeOK RunsOnce
SYMMETRY Symmetry
CHECK_DEADLOCK FALSE
