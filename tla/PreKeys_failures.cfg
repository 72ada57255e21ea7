CONSTANTS
  MaxId = 5
  MaxMint = 3
  MinCount = 1
  InitialCount = 2
  MaxAttempts = 2
  MaxCalls = 2
  MaxCrashes = 1
  Upload = up
  Receipts = {r1}
  CommitMayFail = {up, r1}
  SendMayFail = {r1}
SPECIFICATION FairSpec
CHECK_DEADLOCK FALSE
INVARIANT NoKeySkipped
PROPERTY UploadSettles
