CONSTANTS
  c1 = c1
  c2 = c2
  i1 = i1
  p1 = p1
  p2 = p2
  m1 = m1
  m2 = m2
  resume = resume
  mobile = mobile
  billing = billing
  account = account
  permissions = permissions
  resuming = resuming
  access = access
  invoices = invoices
  Words <- MCWords
  Statements <- MCStatements
  WordsOf <- MCWordsOf
  Security = {permissions}
  InScope <- MCInScope
  OutOfScope <- MCOutOfScope
  Criteria <- MCCriteria
  Contents = {c1, c2}
  Issues = {i1}
  Pulls = {p1, p2}
  Commits = {m1, m2}
  Mentions <- MCMentions
  Text <- MCText
  Tests <- MCTests
  Notes <- MCNotes
  Files <- MCFiles
  CommitsOf <- MCCommitsOf
  CheckText <- MCCheckText
  None = none
  MaxVersion = 2
  MaxPolls = 2
SPECIFICATION Spec
INVARIANTS TypeOK FindingsStand OneFindingPerEvent PaddingNeverClears
PROPERTY EveryRecordOnce
CHECK_DEADLOCK FALSE
