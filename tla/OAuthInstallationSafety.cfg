CONSTANTS
  Threads = {t1, t2}
  States = {s1, s2}
  Grants = {g1, g2, g3}
  Writable = {g1, g2}
  MaxAge = 1
  MaxTime = 2
  MaxGeneration = 3
  MaxRequests = 4
SYMMETRY Symmetry
SPECIFICATION Spec
INVARIANTS TypeOK StateUsedOnce NewestIsKept
PROPERTIES SavedIsNewest
CHECK_DEADLOCK FALSE
