INIT Init
NEXT Next
CONSTANTS
  Conn = {1, 2}
  RoomId = {"r1"}
  UserId = {1, 2}
  RoomOf <- OneRoom
  UserOf <- OwnName
  MaxOffers = 2
  MaxUsers = 4
  MaxTrans = 6
  MaxBusy = 1
  BusyFrom = 0
  Leavers = {1, 2}
  CanExit = FALSE
  None = None
INVARIANT EarlierStreamsClosed
CHECK_DEADLOCK FALSE
