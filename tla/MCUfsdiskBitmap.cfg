\* Files truncated and written again: set_block_free flips the bits of
\* blocks reached through stale references, and files come to share blocks.
CONSTANTS
  a = a
  b = b
  NBlocks = 11
  NInodes = 2
  InodesPerBlock = 2
  BlockSize = 1
  NDirect = 1
  RefsPerBlock = 2
  Inodes = {0, 1}
  Offsets = {0, 1, 3}
  Sizes = {0}
  Vals = {a, b}
SPECIFICATION Spec
CHECK_DEADLOCK FALSE
INVARIANT BitmapExact
