\* Any caller: one that truncates a file that another handle has read or written.
CONSTANTS
  Name = {a, b, long}
  LongName = {long}
  NoName = NoName
  BadPath = BadPath
  Byte = {x}
  Stale = Stale
  NumInodes = 3
  NumBlocks = 3
  NumEntries = 2
  NumHandles = 2
  BlockSize = 1
  MaxLen = 2
  SIZE_MOD = 4096
  Disciplined = FALSE
SPECIFICATION Spec
INVARIANT ReadsWithinFile
SYMMETRY Symmetry
CHECK_DEADLOCK FALSE
