CONSTANTS
  Threads = {t1, t2}
  Prompts <- MCPrompts
  Issue = {}
  Drafts <- MCDrafts
  MaxRetries = 2
  Timeout = 1
  StaleAfter = 10
  MaxComments = 2
  MaxTurns = 2
SPECIFICATION Spec
SYMMETRY Symmetry
INVARIANT ConfirmedByPeople
CHECK_DEADLOCK FALSE
