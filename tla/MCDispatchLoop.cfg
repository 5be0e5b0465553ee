SPECIFICATION FairSpec
CONSTANTS
  a = a
  b = b
  Null = Null
  Item <- MCTwo
  List <- MCLists
  MaxMessages = 2
  MaxTimeouts = 2
  MaxTime = 2
  MaxEvents = 1
  Liberties <- MCNone
INVARIANTS
  HandledOnceInOrder
  NothingStranded
  LoopsKeepLists
PROPERTIES
  EventuallyHandled
  EventuallyFired
