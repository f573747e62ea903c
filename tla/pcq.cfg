\* Two producers and two consumers on a queue of two elements.  The threads do
\* stop, after a dequeue and in a full or an empty queue: deadlock is not an
\* error here.  No symmetry: CallsReturn is a liveness property.
CONSTANTS
  Producer = {p1, p2}
  Consumer = {c1, c2}
  NoThread = NoThread
  Item = {i, j}
  Capacity = 2
  SIZE_MOD = 4096
SPECIFICATION RunningSpec
INVARIANTS TypeOK WayOutClear SlotsInRange
PROPERTIES FieldsProtected ImplementsQueue CallsReturn
CHECK_DEADLOCK FALSE
