\* All inputs of up to five elements, four of them different.
CONSTANTS
  MaxNum = 5
  Values = {1, 2, 3, 4}
SPECIFICATION FairSpec
CHECK_DEADLOCK FALSE
INVARIANTS
  NothingLost
  InOrder
PROPERTIES
  Terminates
