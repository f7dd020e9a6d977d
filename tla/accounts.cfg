CONSTANTS
  b1 = b1
  b2 = b2
  d1 = d1
  Browser <- TwoBrowsers
  Discord <- OneDiscord
  NoDiscord = NoDiscord
  MaxUsers = 2
  TokenLife = 1
  MaxAge = 2
  MaxFaults = 1
SPECIFICATION FairSpec
INVARIANT TypeOK LoginFindsTheAccount NothingIsLeft
PROPERTY NobodyLosesData UntiedStaleUsersGo
CHECK_DEADLOCK FALSE
