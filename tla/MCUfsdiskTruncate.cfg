\* Files that are truncated to zero blocks and written again: the stale
\* references setsize leaves in the inode break the block interface.
CONSTANTS
  a = a
  b = b
  NBlocks = 11
  NInodes = 2
  InodesPerBlock = 2
  BlockSize = 1
  NDirect = 1
  RefsPerBlock = 2
  Inodes = {0, 1}
  Offsets = {0, 1, 3}
  Sizes = {0}
  Vals = {a, b}
SPECIFICATION Spec
CHECK_DEADLOCK FALSE
PROPERTY UfsRefinement
