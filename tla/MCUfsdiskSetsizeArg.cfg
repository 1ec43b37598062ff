\* A file of one block is given size one: setsize frees every block
\* whatever size it is asked for.
CONSTANTS
  a = a
  b = b
  NBlocks = 11
  NInodes = 2
  InodesPerBlock = 2
  BlockSize = 1
  NDirect = 1
  RefsPerBlock = 2
  Inodes = {0}
  Offsets = {0, 1}
  Sizes = {1}
  Vals = {a, b}
SPECIFICATION Spec
CHECK_DEADLOCK FALSE
PROPERTY UfsRefinement
