SPECIFICATION ListSpec
CONSTANTS
  a = a
  b = b
  c = c
  p = p
  q = q
  Null = Null
  Item <- MCItem
  List <- MCList
  Careful = TRUE
SYMMETRY MCSymmetry
INVARIANTS
  RingsOK
  Represents
  IterationComplete
