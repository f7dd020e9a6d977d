CONSTANTS
  p1 = p1
  p2 = p2
  imp = imp
  Req <- TwoRequests
  Overlapping = FALSE
  Role <- OneRole
  NoRole = NoRole
  MaxRound = 2
SPECIFICATION Spec
SYMMETRY Symmetry
INVARIANT TypeOK OneActivePhase
PROPERTY OneAtATime LedgerSpec
CHECK_DEADLOCK FALSE
