SPECIFICATION FeeSpec
CONSTANTS
  Nft = {n1, n2}
  NoPosition = NoPosition
  MIN_TICK <- MinTick
  MAX_TICK = 1
  TickSpacing = 1
  TICK_ARRAY_SIZE = 4
  SqrtPrice <- MCSqrtPrice
  TickAt <- MCTickAt
  MaxLiquidity = 2
  Q64 = 3
  Word = 8
  MaxGrowth = 3
  MaxFee = 1
SYMMETRY NftSymmetry
INVARIANTS
  FeeTypeOK
  OutsideWithinGlobal
  FeesCovered
PROPERTIES
  InsideGrowthMoves
