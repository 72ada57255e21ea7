CONSTANTS
  Cols = {a, b}
  Keys = {k1, k2}
  None = None
  Busy = {a}
  OldKeys = {k1}
  WillSync = TRUE
  MaxAttempts = 2
  MaxLog = 2
  MaxCalls = 2
  MaxFailures = 1
SPECIFICATION FairSpec
CHECK_DEADLOCK FALSE
INVARIANT TypeOK
INVARIANT NoMutationLost
INVARIANT Wakes
PROPERTY LeavesPhases
