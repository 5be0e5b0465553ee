SPECIFICATION FairSpec
CONSTANTS
  one = one
  two = two
  Server = Server
  Nobody = Nobody
  Conn <- MCConn
  ReadRoom = 1
  MaxEvents = 1
  Space = 1
  MaxIn = 2
  MaxOut = 2
  Bursty = FALSE
  Written <- MCWritten
  Switched <- MCSwitched
CHECK_DEADLOCK FALSE
INVARIANTS
  NoneOverslept
  OutputInOrder
PROPERTIES
  EventuallyTold
