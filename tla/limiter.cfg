SPECIFICATION FairSpec
CONSTANTS
  c1 = c1
  c2 = c2
  c3 = c3
  c4 = c4
  alice = alice
  bob = bob
  carol = carol
  Calls <- MCCalls
  Users <- MCUsers
  Requests <- MCRequests
  Limit = 2
  MaxUsers = 1
  Window = 2
  MaxActive = 2
  MaxTime = 2
INVARIANTS TypeOK TrackedBound RefusalJustified WindowBound
PROPERTIES CallsEnd ImplementsWindow
CHECK_DEADLOCK FALSE
