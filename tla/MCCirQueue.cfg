SPECIFICATION FairSpec
CONSTANTS
  Capacity = 3
  MaxPush = 5
INVARIANTS
  TypeOK
  NeverTwice
  FifoUnlessClash
PROPERTY
  FullDrains
CHECK_DEADLOCK FALSE
