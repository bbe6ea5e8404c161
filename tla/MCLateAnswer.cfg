INIT Init
NEXT Next
CONSTANTS
  Conn = {p1, p2, p3}
  RoomId = {"r1"}
  UserId = {p1, p2, p3}
  RoomOf <- OneRoom
  UserOf <- OwnName
  MaxOffers = 2
  MaxUsers = 4
  MaxTrans = 6
  MaxBusy = 1
  BusyFrom = 0
  Leavers = {p1, p2, p3}
  CanExit = FALSE
  None = None
INVARIANT AnswerFits
SYMMETRY Pages
CHECK_DEADLOCK FALSE
