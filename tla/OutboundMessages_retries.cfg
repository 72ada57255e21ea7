CONSTANTS
  Devices = {primary, companion}
  Primaries = {primary}
  Msgs = {g1, g2, u1}
  Direct = {u1}
  Receipts = {r1, r2}
  None = None
  maxMsgRetryCount = 1
  MaxSends = 2
  MaxChanges = 1
  MaxFaults = 1
SPECIFICATION Spec
SYMMETRY Alike
CHECK_DEADLOCK FALSE
INVARIANT TypeOK
INVARIANT ResendBudget
INVARIANT FanOutReaches
INVARIANT FreshSession
