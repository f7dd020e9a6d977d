CONSTANTS
  p1 = p1
  p2 = p2
  imp = imp
  baron = baron
  chef = chef
  monk = monk
  drunk = drunk
  ana = ana
  Req <- TwoRequests
  Demon <- OneDemon
  Minion <- OneMinion
  Townsfolk <- TwoTownsfolk
  Drunk = drunk
  Player <- OnePlayer
  NoPlayer = NoPlayer
  NoChar = NoChar
  NoSub = NoSub
  Deals <- ThreeDeals
  Handpicked <- HandpickedRoles
  Keys <- SentKeys
  Sent <- SentTokens
  MaxSeats = 3
  MaxMarks = 1
SPECIFICATION Spec
CONSTRAINT Promising
SYMMETRY Symmetry
INVARIANT TypeOK RolesDistinct NoOrphans
PROPERTY SeatTableSpec
CHECK_DEADLOCK FALSE
