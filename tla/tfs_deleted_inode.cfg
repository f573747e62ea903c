\* Any caller: one that unlinks a file while a handle is open on it.
CONSTANTS
  Name = {a, b, long}
  LongName = {long}
  NoName = NoName
  BadPath = BadPath
  Byte = {x}
  Stale = Stale
  NumInodes = 3
  NumBlocks = 3
  NumEntries = 2
  NumHandles = 2
  BlockSize = 1
  MaxLen = 2
  SIZE_MOD = 4096
  Disciplined = FALSE
SPECIFICATION Spec
INVARIANT OpenInodesTaken
SYMMETRY Symmetry
CHECK_DEADLOCK FALSE
