SPECIFICATION Spec
CONSTANTS
  MaxConnections = 2
  MaxSerial = 2
  MaxRequests = 3
  MaxOut = 3
  SIZE16 = 3
  Liberties = {}
CHECK_DEADLOCK FALSE
INVARIANTS
  OutputOnceInOrder
  InputOnceInOrder
  NoneForgotten
  AnsweredWhenEnded
