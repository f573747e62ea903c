\* Four boxes with three names, so that two can have the same one.  The program
\* stops when remove_box dereferences NULL: deadlock is not an error here.  No
\* symmetry: LoopsEnd is a liveness property.
CONSTANTS
  Box = {b1, b2, b3, b4}
  NULL = NULL
  Name = {1, 2, 3}
SPECIFICATION FairSpec
INVARIANTS TypeOK Sorted NoCycle
PROPERTIES KeepsTheOthers LoopsEnd
CHECK_DEADLOCK FALSE
