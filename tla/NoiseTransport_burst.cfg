CONSTANTS
  Frames = 6
  MaxMessage = 5
  MaxFailures = 1
SPECIFICATION Spec
CHECK_DEADLOCK FALSE
INVARIANT TypeOK
PROPERTY WireOrder
