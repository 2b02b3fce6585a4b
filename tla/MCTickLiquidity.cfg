SPECIFICATION Spec
CONSTANTS
  Nft = {n1, n2}
  NoPosition = NoPosition
  MIN_TICK <- MinTick
  MAX_TICK = 5
  TickSpacing = 2
  TICK_ARRAY_SIZE = 2
  SqrtPrice <- MCSqrtPrice
  TickAt <- MCTickAt
  MaxLiquidity = 3
SYMMETRY NftSymmetry
INVARIANTS
  TypeOK
  ActiveLiquidity
  WalkLiquidity
  LedgerAgrees
  ArrayIndexExact
  TickFitsPrice
  WalkSkipsNoTick
  WalkNeverRejected
PROPERTIES
  ImplementsLedger
  WalkAdvances
