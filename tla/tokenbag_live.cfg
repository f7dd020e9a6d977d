CONSTANTS
  p1 = p1
  p2 = p2
  ana = ana
  bob = bob
  imp = imp
  monk = monk
  Req <- TwoRequests
  Name <- TwoNames
  Role <- TwoRoles
  NoName = NoName
  NoRole = NoRole
  Free = Free
  Seatings <- TwoSeats
  MaxId = 2
  MaxRegs = 2
  Ops <- LiveOps
SPECIFICATION LiveSpec
PROPERTY EveryRequestEnds
CHECK_DEADLOCK FALSE
