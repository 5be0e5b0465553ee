SPECIFICATION StringsSpec
CONSTANTS
  one = one
  two = two
  Allocators <- MCAllocators
  Sizes <- MCSizes
  BLOCK_SIZE = 2176
  nBlocks = 2
  MaxBlocks = 4
  MaxAllocations = 5
  MaxFrees = 2
  sizeofPointer = 1
  sizeofType = 1
  StringLengths <- MCStringLengths
  ArrayLengths <- MCArrayLengths
SYMMETRY MCSymmetry
INVARIANTS
  ExtentsDisjoint
  SlicesAccounted
  ContentsInMemory
CHECK_DEADLOCK FALSE
