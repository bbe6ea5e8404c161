INIT Init
NEXT Next
CONSTANTS
  Conn = {p1, p2}
  RoomId = {"r1"}
  UserId = {p1, p2}
  RoomOf <- OneRoom
  UserOf <- OwnName
  MaxOffers = 1
  MaxUsers = 2
  MaxTrans = 4
  MaxBusy = 2
  BusyFrom = 0
  Leavers = {p1, p2}
  CanExit = TRUE
  None = None
INVARIANTS TypeOK NoDanglingObjects ConsumeAfterConnect LocksFollowHandlers DepartedGone
PROPERTY PublisherStays
SYMMETRY Pages
CHECK_DEADLOCK FALSE
