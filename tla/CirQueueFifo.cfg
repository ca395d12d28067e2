SPECIFICATION Spec
CONSTANTS
  Capacity = 3
  MaxPush = 4
INVARIANT FifoOrder
CHECK_DEADLOCK FALSE
