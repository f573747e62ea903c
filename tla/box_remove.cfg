\* Removing a box from the list.
CONSTANTS
  Box = {b1, b2, b3}
  NULL = NULL
  Name = {1, 2, 3}
SPECIFICATION FairSpec
PROPERTY RemoveReturns
CHECK_DEADLOCK FALSE
