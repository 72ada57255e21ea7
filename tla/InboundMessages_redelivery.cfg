CONSTANTS
  m1 = m1
  m2 = m2
  c1 = c1
  a1 = a1
  Msgs = {m1, m2}
  Chats = {c1}
  Alts = {a1}
  NoAlt = none
  Traffic <- MCTraffic
  Keepers = {"manager", "cache", "caller"}
  Charged = {1}
  MaxRetry = 3
  MaxQueue = 1
  MaxFailures = 1
SPECIFICATION FairSpec
CHECK_DEADLOCK FALSE
INVARIANT TypeOK
INVARIANT OneAnswer
INVARIANT LaneOrder
INVARIANT UpsertOnce
INVARIANT Budgets
PROPERTY Answered
