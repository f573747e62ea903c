\* Threads that never stop calling, on a queue of one element.
CONSTANTS
  Producer = {p1, p2}
  Consumer = {c1, c2}
  NoThread = NoThread
  Item = {i}
  Capacity = 1
  SIZE_MOD = 4096
SPECIFICATION FairSpec
PROPERTY SleepsUntilSpace
CHECK_DEADLOCK FALSE
