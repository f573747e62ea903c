\* Callers that never unlink or truncate an open file.  Two byte values, so
\* that contents can differ; blocks of two bytes, so that writes are partial
\* and reads stop at the size.
CONSTANTS
  Name = {a, b, long}
  LongName = {long}
  NoName = NoName
  BadPath = BadPath
  Byte = {x, y}
  Stale = Stale
  NumInodes = 3
  NumBlocks = 2
  NumEntries = 2
  NumHandles = 2
  BlockSize = 2
  MaxLen = 2
  SIZE_MOD = 4096
  Disciplined = TRUE
SPECIFICATION Spec
INVARIANTS OpenFilesAlive NoLeakedBlock NeverPanics
PROPERTIES ImplementsFileStore CallsMatch
SYMMETRY Symmetry
