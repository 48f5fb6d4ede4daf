CONSTANTS
  Threads = {t1, t2}
  Prompts <- MCPrompts
  Issue = {}
  Drafts <- MCDrafts
  MaxRetries = 2
  Timeout = 1
  StaleAfter = 10
  MaxComments = 2
  MaxTurns = 3
SPECIFICATION Spec
SYMMETRY Symmetry
INVARIANTS TypeOK NothingElseInvented SaidIsKept SettledIsRepeated CallFits
CHECK_DEADLOCK FALSE
