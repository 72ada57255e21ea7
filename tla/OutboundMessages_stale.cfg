CONSTANTS
  Devices = {primary, companion}
  Primaries = {primary}
  Msgs = {g1, u1}
  Direct = {u1}
  Receipts = {r1}
  None = None
  maxMsgRetryCount = 1
  MaxSends = 1
  MaxChanges = 1
  MaxFaults = 0
SPECIFICATION Spec
CHECK_DEADLOCK FALSE
INVARIANT CachedListFull
