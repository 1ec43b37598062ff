\* One write at offset 13, on the triple indirect reference: the index
\* left for it is REFS_PER_BLOCK too large and runs past an indirect block.
CONSTANTS
  a = a
  b = b
  NBlocks = 11
  NInodes = 2
  InodesPerBlock = 2
  BlockSize = 1
  NDirect = 1
  RefsPerBlock = 2
  Inodes = {0}
  Offsets = {13}
  Sizes = {0}
  Vals = {a, b}
SPECIFICATION WriteSpec
CHECK_DEADLOCK FALSE
INVARIANT NoUndefinedBehaviour
