CONSTANTS
  Claims <- SomeClaims
SPECIFICATION Spec
INVARIANT TypeOK OneNeighbourEachSide RightTable CompleteIsTheTable
CHECK_DEADLOCK FALSE
