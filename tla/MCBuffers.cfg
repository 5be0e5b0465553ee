SPECIFICATION BufferSpec
CONSTANTS
  one = one
  two = two
  x = x
  y = y
  Null = Null
  Buffers <- MCBuffers
  Readers <- MCReaders
  Edited <- MCReaders
  Chars <- MCChars
  Strings <- MCStrings
  Reads <- MCReads
  mBlockSize = 3
  SIZE16 = 4
  SIZE = 32
  MaxBytes = 3
  MaxLength = 4
  MaxWrites = 4
  Liberties = {}
INVARIANTS
  BookkeepingAgrees
  TextFound
PROPERTIES
  ImplementsStreams
  RegionIsFragment
  CallsReturn
