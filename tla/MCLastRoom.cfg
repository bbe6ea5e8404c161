INIT Init
NEXT Next
CONSTANTS
  Conn = {1, 2, 3, 4}
  RoomId = {"r1", "r2"}
  UserId = {1, 2, 3, 4}
  RoomOf <- TwoRooms
  UserOf <- OwnName
  MaxOffers = 1
  MaxUsers = 4
  MaxTrans = 8
  MaxBusy = 1
  BusyFrom = 0
  Leavers = {1}
  CanExit = FALSE
  None = None
INVARIANT SubscriptionsCurrent
CHECK_DEADLOCK FALSE
