CONSTANTS
  t1 = t1
  Threads = {t1}
  founder = founder
  People = {founder}
  Entries <- MCEntries
  Sessions <- MCSessions
  MaxTime = 2
  MaxWritten = 2
  MaxSent = 2
SPECIFICATION Spec
INVARIANTS TypeOK RetriesAgree SourceSaysIt
CHECK_DEADLOCK FALSE
