CONSTANTS
  Keys = {k1, k2}
  None = None
  MAX_STATES = 2
  MAX_MESSAGE_KEYS = 2
  MaxAhead = 3
  MaxSends = 3
  MaxFailures = 1
SPECIFICATION Spec
CHECK_DEADLOCK FALSE
INVARIANT TypeOK
INVARIANT ReadOnce
INVARIANT LateReadable
