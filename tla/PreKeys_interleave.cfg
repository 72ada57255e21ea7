CONSTANTS
  MaxId = 5
  MaxMint = 1
  MinCount = 1
  InitialCount = 2
  MaxAttempts = 2
  MaxCalls = 2
  MaxCrashes = 0
  Upload = up
  Receipts = {r1, r2}
  CommitMayFail = {}
  SendMayFail = {}
SPECIFICATION Spec
CHECK_DEADLOCK FALSE
INVARIANT TypeOK
INVARIANT KeysOutAreHeld
PROPERTY CountersMonotone
