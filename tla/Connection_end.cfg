SPECIFICATION FairSpec
CONSTANTS
  Queries = {"q1"}
  Refs = 1
INVARIANTS TypeOK EndOwnsWaiters
PROPERTIES ClosedForGood LeadsToClose
CHECK_DEADLOCK FALSE
