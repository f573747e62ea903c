\* Callers that do whatever the interface allows.  Three names, one of them too
\* long; two directory entries and two inodes besides the root's, so that both
\* run out; two blocks besides the root's; two handles; blocks of one byte, so
\* that a handle left behind a truncation soon passes the block's end; two bytes,
\* so that it shows when a block is overwritten.
CONSTANTS
  Name = {a, b, long}
  LongName = {long}
  NoName = NoName
  BadPath = BadPath
  Byte = {x, y}
  Stale = Stale
  NumInodes = 3
  NumBlocks = 3
  NumEntries = 2
  NumHandles = 2
  BlockSize = 1
  MaxLen = 2
  SIZE_MOD = 4096
  Disciplined = FALSE
SPECIFICATION Spec
INVARIANTS TypeOK DirectoryConsistent ClearHitsLookup BlockOwnership
PROPERTIES FailureAtomic OneFilePerCall LostOnlyPastEnd
SYMMETRY Symmetry
CHECK_DEADLOCK FALSE
