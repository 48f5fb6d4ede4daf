CONSTANTS
  Threads = {t1, t2}
  d1 = d1
  d2 = d2
  d3 = d3
  k1 = k1
  k2 = k2
  o1 = o1
  o2 = o2
  hA = hA
  hB = hB
  user1 = user1
  Deliveries = {d1, d3}
  Keys = {k1, k2}
  KeyOf <- MCKeyOf
  SentAt <- MCSentAt
  HashOf <- MCHashOf
  Ops = {o1, o2}
  OpOf <- MCOpOf
  UserOf <- OneUser
  Terminals = {answer, error}
  ErrorTerminal = error
  Tolerance = 1
  StaleAfter = 1
  LinearErrors = {"api"}
  MayDie = FALSE
  Times = {0, 2}
  MaxArrivals = 3
SPECIFICATION Spec
INVARIANT CachedIsPublished
PROPERTIES DuplicateIsHandled ReservationSettles
CHECK_DEADLOCK FALSE
