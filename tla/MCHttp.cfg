SPECIFICATION FairSpec
CONSTANTS
  Requests <- MCRequests
  MaxRequests = 2
  MaxData = 1
  Liberties = {}
CHECK_DEADLOCK FALSE
INVARIANTS
  
  RequestAlive
  RepliesWhole
PROPERTIES
  EventuallyHanded
