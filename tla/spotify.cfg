CONSTANTS
  p1 = p1
  p2 = p2
  Req <- TwoRequests
  NoReq = NoReq
  MaxGrants = 2
  MaxRotations = 2
SPECIFICATION FairSpec
INVARIANT TypeOK RotatedTokenKept SlotsOfThisConnection
PROPERTY LiveConnectionKept EveryRequestEnds RevokedIsDropped
CHECK_DEADLOCK FALSE
