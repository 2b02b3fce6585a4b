SPECIFICATION Spec
CONSTANTS
  OBSERVATION_NUM = 3
  OBSERVATION_UPDATE_DURATION_DEFAULT = 2
  MAX_SQRT_PRICE_X64 = 4
  SqrtPrices = {2, 3, 4}
  Q64 = 2
  Word = 32
  MaxTime = 8
\* The clock stops at MaxTime, and a price too large for the time since the
\* newest observation makes every further swap fail.
CHECK_DEADLOCK FALSE
INVARIANTS
  TypeOK
  RingKeepsNewest
  NeighboursReadable
  CumulativeTracksPrice
