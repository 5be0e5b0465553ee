SPECIFICATION Spec
CONSTANTS
  a = a
  b = b
  one = one
  two = two
  Name <- MCName
  RootName <- MCRootName
  Scalar <- MCScalar
  Observer <- MCObserver
  MaxItems = 3
  MaxChanges = 4
  MaxDepth = 2
  SendDepth = 1
  Liberties = {}
SYMMETRY Symmetry
CHECK_DEADLOCK FALSE
INVARIANTS
  TreeIntact
  ReadsLastWritten
  EscapedCurrent
  NoneForgotten
