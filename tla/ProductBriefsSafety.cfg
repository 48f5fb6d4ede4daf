CONSTANTS
  Handlers = {h1, h2, h3}
  CreateCommands = {m1}
  a1 = a1
  a2 = a2
  a3 = a3
  founder = founder
  stranger = stranger
  ApproveComments = {a1, a2, a3}
  Names <- MCNames
  Author <- MCAuthor
  Founder = founder
  App = app
  Contents = {c1, c2, c3}
  Complete = {c1, c2}
  NoContent = none
  MaxRequests = 4
  MayFail = TRUE
SPECIFICATION Spec
INVARIANTS TypeOK OnlyLatestOpen ApprovalSound ApprovedHasRecord AcceptedOnce HalfDoneByFailure
PROPERTIES NeverReopened LogSpec
SYMMETRY Symmetry
CHECK_DEADLOCK FALSE
