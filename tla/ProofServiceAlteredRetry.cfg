CONSTANTS
  Threads = {t1}
  Ids = {i1}
  Bodies = {b1, b2}
  Tolerance = 1
  StaleAfter = 2
  MaxTime = 5
  MaxArrivals = 2
SPECIFICATION Spec
INVARIANT NoSecondExecution
SYMMETRY Symmetry
CHECK_DEADLOCK FALSE
