\* Two files on one store, written at the direct, the single indirect and
\* the double indirect offsets; WriteSpec never truncates, so Sizes is unused.
CONSTANTS
  a = a
  b = b
  NBlocks = 11
  NInodes = 2
  InodesPerBlock = 2
  BlockSize = 1
  NDirect = 1
  RefsPerBlock = 2
  Inodes = {0, 1}
  Offsets = {0, 1, 3}
  Sizes = {0, 1}
  Vals = {a, b}
SPECIFICATION WriteSpec
CHECK_DEADLOCK FALSE
INVARIANT TypeOK
INVARIANT BitmapExact
PROPERTY UfsRefinement
