SPECIFICATION Spec
CONSTANTS
  Conn = {1, 2, 3, 4}
  RoomId = {"r1", "r2"}
  UserId = {1, 2}
  RoomOf <- TwoRooms
  UserOf <- SharedName
  MaxOffers = 1
  MaxUsers = 4
  MaxTrans = 6
  MaxBusy = 2
  BusyFrom = 4
  Leavers = {}
  CanExit = TRUE
  None = None
INVARIANT RoomIsolation
PROPERTY HandlersReturn
CHECK_DEADLOCK FALSE
