CONSTANTS
  p1 = p1
  p2 = p2
  ana = ana
  bob = bob
  imp = imp
  monk = monk
  Req <- TwoRequests
  Name <- TwoNames
  Role <- TwoRoles
  NoName = NoName
  NoRole = NoRole
  Free = Free
  Seatings <- OneSeat
  MaxId = 2
  MaxRegs = 2
  Ops <- DealOps
SPECIFICATION Spec
SYMMETRY Symmetry
INVARIANT TypeOK DealtHoldOneRole
PROPERTY StartSealsRoles
CHECK_DEADLOCK FALSE
