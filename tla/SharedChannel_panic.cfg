SPECIFICATION Spec
CONSTANTS
  Capacity = 1
  MaxItems = 2
INVARIANT SendFindsRoom
CHECK_DEADLOCK FALSE
