\* Threads that never stop calling, on a queue of two elements.
CONSTANTS
  Producer = {p1}
  Consumer = {c1, c2}
  NoThread = NoThread
  Item = {i}
  Capacity = 2
  SIZE_MOD = 4096
SPECIFICATION FairSpec
PROPERTY LaterCallsGoOn
CHECK_DEADLOCK FALSE
