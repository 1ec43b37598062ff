\* Two files written until the store is full: the write that finds no
\* clear bit goes on with an unset block number.
CONSTANTS
  a = a
  b = b
  NBlocks = 11
  NInodes = 2
  InodesPerBlock = 2
  BlockSize = 1
  NDirect = 1
  RefsPerBlock = 2
  Inodes = {0, 1}
  Offsets = {0, 1, 3}
  Sizes = {0}
  Vals = {a, b}
SPECIFICATION WriteSpec
CHECK_DEADLOCK FALSE
INVARIANT NoUndefinedBehaviour
