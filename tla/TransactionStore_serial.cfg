CONSTANTS
  t1 = t1
  t2 = t2
  n1 = n1
  None = None
  Calls <- MCCalls
  Parent <- MCParent
  Keys = {a, c}
  PreKeys = {a}
  Stored = {c}
  TxKeys = {a}
  ReadOutside = {c}
  WrittenOutside = {c}
  MayDispose = TRUE
  MaxCommitRetries = 2
  MaxFailures = 1
  MaxWrites = 2
SPECIFICATION FairSpec
CHECK_DEADLOCK FALSE
INVARIANT TypeOK
INVARIANT ReadsStayTrue
INVARIANT CacheAgrees
PROPERTY Settles
