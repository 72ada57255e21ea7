CONSTANTS
  p1 = p1
  p2 = p2
  l1 = l1
  PNs = {p1, p2}
  LIDs = {l1}
  None = None
  Devices = {0}
  Announced <- Pairs
  Talkers = {p1}
  Me = p1
  OwnDevice = 0
  Jobs = {j1, j2}
  Traffic = traffic
  MaxSessions = 2
  MaxSteps = 2
  MaxFailures = 1
  MaxRestarts = 1
SPECIFICATION Spec
CHECK_DEADLOCK FALSE
INVARIANT TypeOK
INVARIANT NoTwins
INVARIANT LockOwned
PROPERTY RatchetKept
