CONSTANTS
  k1 = k1
  k2 = k2
  Key <- TwoKeys
  PerMin = 1
  Divisor = 3
  Floor = 5
SPECIFICATION LimiterSpec
SYMMETRY Symmetry
INVARIANT RefilledWhileUnseen
PROPERTY BucketSpec
