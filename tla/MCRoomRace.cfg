INIT Init
NEXT Next
CONSTANTS
  Conn = {1, 2}
  RoomId = {"r1"}
  UserId = {1, 2}
  RoomOf <- OneRoom
  UserOf <- OwnName
  MaxOffers = 1
  MaxUsers = 2
  MaxTrans = 4
  MaxBusy = 2
  BusyFrom = 0
  Leavers = {1, 2}
  CanExit = FALSE
  None = None
INVARIANT RoomStillAbsent
CHECK_DEADLOCK FALSE
