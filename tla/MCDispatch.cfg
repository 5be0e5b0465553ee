SPECIFICATION FairSpec
CONSTANTS
  d = d
  e = e
  x = x
  y = y
  z = z
  Null = Null
  Dispatcher <- MCDispatcher
  Actor <- MCActor
  Home <- MCHome
  Routes <- MCOneThreadRoutes
  Rooted <- MCOneThreadRooted
  MaxMessages = 3
  MaxEvents = 1
INVARIANTS
  HandledOnceInOrder
  OneThread
  AllocatorsDisjoint
PROPERTY
  EventuallyHandled
