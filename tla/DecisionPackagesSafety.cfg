CONSTANTS
  Callers = {h1, h2}
  a1 = a1
  a2 = a2
  a3 = a3
  a4 = a4
  founder = founder
  Agent = agent
  Approvals = {a1, a2, a3, a4}
  Names <- MCNames
  Author <- MCAuthor
  Contents = {c1, c2, c3, blank}
  Blank = {blank}
  NoContent = none
  MaxRequests = 4
SPECIFICATION Spec
INVARIANTS TypeOK ReturnedIsStored
PROPERTIES StatusMovesForward PackageLog ApprovalTakesEffect
CHECK_DEADLOCK FALSE
