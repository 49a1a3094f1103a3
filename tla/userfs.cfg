\* Two names, two files, three descriptors; sizes below, at and above a block:
\* 8 loses the content of its only block, 19 gives three blocks.
CONSTANTS
  NULL = NULL
  Names = {a, b}
  Files = {f1, f2}
  Fds = {x1, x2, x3}
  BLOCK_SIZE = 8
  MAX_FILE_SIZE = 1073741824
  file_descriptor_capacity = 3
  Sizes = {5, 8, 19}
  Lengths <- MCLengths
  OpenModes = {"READ_ONLY", "READ_WRITE"}
SPECIFICATION Spec
INVARIANTS TypeOK MemorySafe RefsExact UniqueNames FirstReads
PROPERTIES FlatFileSystem
SYMMETRY Symmetry
CHECK_DEADLOCK FALSE
